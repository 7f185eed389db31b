--------------------------- MODULE MCLandingParts ---------------------------
(***************************************************************************)
(* The tasks of a try push and the commits of a landing in one run.  They  *)
(* do not act on each other: one of them moves while the other is in an    *)
(* initial state.                                                          *)
(***************************************************************************)
EXTENDS TaskGroup, LandingCommits, TLC

CONSTANTS image, build, sign, test, arm1, arm2, arm3, arm4, p1, p2, p3

\* A build, a test of it, and tests for another machine that need it signed first.
Arm       == {arm1, arm2, arm3, arm4}
AllTasks  == {image, build, sign, test} \cup Arm
TaskDeps  == [t \in AllTasks |->
  CASE t = image -> {} [] t = build -> {image} [] t \in {sign, test} -> {build} [] t \in Arm -> {sign, image}]
TaskImage == [t \in AllTasks |-> IF t = build \/ t \in Arm THEN {image} ELSE {}]
WptTests  == {test} \cup Arm

\* One of the parts is in an initial state: a permutation may move the arms as it moves the PRs.
Pr       == [a \in Arm \ {arm4} |-> CASE a = arm1 -> p1 [] a = arm2 -> p2 [] a = arm3 -> p3]
Arms(s)  == [a \in DOMAIN Pr |-> CHOOSE b \in DOMAIN Pr : Pr[b] = s[Pr[a]]]
Symmetry == {s @@ Arms(s) : s \in Permutations(PR)}

PartsInit == Init /\ LandingInit
PartsNext ==
  \/ LandingInit /\ Next /\ UNCHANGED lvars
  \/ Init /\ push.kind = "first" /\ LandingNext /\ UNCHANGED vars
PartsSpec == PartsInit /\ [][PartsNext]_<<vars, lvars>>

(* The types of both. *)
PartsTypeOK == TypeOK /\ LandingsTypeOK
=============================================================================
