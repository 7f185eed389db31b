----------------------------- MODULE MCSyncStore -----------------------------
(***************************************************************************)
(* The stored syncs and the metadata repository in one run.  They do not   *)
(* act on each other: one of them moves while the other is in an initial   *)
(* state.                                                                  *)
(***************************************************************************)
EXTENDS SyncStore, MetadataRepo, TLC

CONSTANTS worker, command, file1, file2, bug1, bug2
Both      == {worker, command}
BothFiles == {file1, file2}
BothBugs  == {bug1, bug2}

Symmetry == {p @@ f @@ u : p \in Permutations(Both), f \in Permutations(BothFiles), u \in Permutations(BothBugs)}

StoresInit == Init /\ MetadataInit
StoresNext ==
  \/ MetadataInit /\ Next /\ UNCHANGED mvars
  \/ Init /\ MetadataNext /\ UNCHANGED vars
StoresSpec == StoresInit /\ [][StoresNext]_<<vars, mvars>>

(* The types of both. *)
StoresTypeOK == TypeOK /\ MetadataTypeOK
=============================================================================
