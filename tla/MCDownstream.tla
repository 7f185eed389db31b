----------------------------- MODULE MCDownstream -----------------------------
(* Small instances of Downstream: what the versions of the PRs change. *)
EXTENDS Downstream
CONSTANTS p, q   \* two pull requests
NoVersions   == {}
FirstVersion == {<<p, 1>>}
AllVersions  == PR \X (1..MaxHeads)
RevertPr     == {<<q, p>>}
=============================================================================
