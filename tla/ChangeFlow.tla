----------------------------- MODULE ChangeFlow -----------------------------
(***************************************************************************)
(* What upstreaming promises: for each bug, the changes that gecko has are *)
(* taken to wpt together, when all of them are on central, and what gecko  *)
(* backed out is taken out again.  How often that happens is not said; a   *)
(* delivery always brings a bug to exactly what gecko is known to have.    *)
(***************************************************************************)
CONSTANTS
  Bugs,      \* the bugs that changes are made for
  Change     \* the changes

VARIABLES
  wanted,    \* for each bug, its changes that are in gecko's tree, as far as known
  central,   \* changes that reached central, whether still there or not
  upstream   \* for each bug, its changes that are on wpt master

flow == <<wanted, central, upstream>>

Init ==
  /\ wanted = [b \in Bugs |-> {}] /\ central = {}
  /\ upstream = [b \in Bugs |-> {}]

(* A push to gecko is seen, or a merge to central happens. *)
See ==
  /\ wanted' \in [Bugs -> SUBSET Change]
  /\ central' \in SUBSET Change /\ central \subseteq central'
  /\ UNCHANGED upstream

Deliver(b) ==
  /\ wanted[b] \subseteq central
  /\ upstream' = [upstream EXCEPT ![b] = wanted[b]]
  /\ UNCHANGED <<wanted, central>>

Next == See \/ \E b \in Bugs : Deliver(b)

Spec == Init /\ [][Next]_flow
=============================================================================
