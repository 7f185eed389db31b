----------------------------- MODULE MCSyncLocks -----------------------------
(* Small instances of SyncLocks: the sets a .cfg cannot write directly. *)
EXTENDS SyncLocks
MCReverts   == {<<2, 1>>}
=============================================================================
