----------------------------- MODULE TaskGroup -----------------------------
(***************************************************************************)
(* The tasks of a try push on Taskcluster, and how wpt-sync decides from   *)
(* them that the try push is over and what its result is: task_is_         *)
(* incomplete and the views of a task group (tc.py), TryPushTasks          *)
(* (trypush.py), the handlers of finished tasks, and try_push_complete and *)
(* try_result of landing.py and downstream.py as far as they read tasks.   *)
(*                                                                         *)
(* A task <<t, 0>> is the one the decision task creates from definition t; *)
(* <<t, n>>, n > 0, are the copies that retrigger_failures adds.  The name *)
(* of a task is its definition.  A task that waits for a machine is        *)
(* running here: the code treats both states alike.                        *)
(***************************************************************************)
EXTENDS Integers, FiniteSets, FiniteSetsExt

CONSTANTS
  Task,            \* task definitions
  Deps,            \* Deps[t]: the definitions t depends on, its image included
  Image,           \* Image[t]: the set of the definitions of its docker image
  Wpt,             \* tasks of the web-platform-tests suite
  Build,           \* tasks with the tag "build"
  Excluded,        \* tests that are not retriggered ("-aarch64")
  RetriggerCount,  \* copies asked for of a failed test (_retrigger_count)
  Ends,            \* how a task that runs may end
  Kinds            \* of try pushes: "first" and "stability" of a landing, "downstream"

ASSUME TaskAssumption ==
  /\ Deps \in [Task -> SUBSET Task] /\ \A t \in Task : Image[t] \subseteq Deps[t]
  /\ Wpt \subseteq Task /\ Build \subseteq Task /\ Excluded \subseteq Wpt
  /\ RetriggerCount \in Nat \ {0}
  /\ Ends \subseteq {"completed", "failed", "exception"}
  /\ Kinds \subseteq {"first", "stability", "downstream"}

VARIABLES
  group,      \* the task group: a function from its tasks to their states
  decision,   \* whether the decision task has created all of them
  known,      \* the try push has its taskgroup id
  push,       \* the try push
  woken,      \* a task has finished and its event is still to be handled
  early       \* history: the try push was judged while a task that would run was unscheduled

vars == <<group, decision, known, push, woken, early>>

States   == {"unscheduled", "running", "completed", "failed", "exception"}
Verdicts == {"none", "success", "acceptable", "toomany", "builds", "failures", "invalid"}

\* Two rounds of copies at the most: see RetriggersBounded.
Tasks == Task \X (0 .. 2 * RetriggerCount)

TypeOK ==
  /\ DOMAIN group \subseteq Tasks /\ \A i \in DOMAIN group : group[i] \in States
  /\ decision \in {"running", "completed"}
  /\ known \in BOOLEAN /\ woken \in BOOLEAN /\ early \in BOOLEAN
  /\ push \in [kind : Kinds, status : {"open", "complete"}, verdict : Verdicts,
               accept : BOOLEAN, infra : BOOLEAN, raised : BOOLEAN]

-----------------------------------------------------------------------------
(* The views of the group. *)

InGroup(ts)    == {i \in DOMAIN group : i[1] \in ts}
InState(is, s) == {i \in is : group[i] \in s}
Originals(ts)  == {<<t, 0>> : t \in ts} \cap DOMAIN group

(***************************************************************************)
(* task_is_incomplete with allow_unscheduled.  A task that will not be     *)
(* scheduled is complete if what it depends on is, except for its image    *)
(* and for tasks of other groups; one that depends on nothing else is not. *)
(***************************************************************************)
MutantIncomplete(i) ==   \* an unscheduled dependency is complete
  \/ group[i] = "running"
  \/ /\ group[i] = "unscheduled"
     /\ \/ Deps[i[1]] \ Image[i[1]] = {}
        \/ \E d \in Originals(Deps[i[1]] \ Image[i[1]]) : group[d] = "running"
MutantWaitForDeadline(i) == group[i] \in {"running", "unscheduled"}   \* allow_unscheduled is dropped
Incomplete(i) ==
  LET waits[j \in DOMAIN group] ==
        LET deps == Deps[j[1]] \ Image[j[1]]
        IN  \/ group[j] = "running"
            \/ /\ group[j] = "unscheduled"
               /\ deps = {} \/ \E d \in Originals(deps) : waits[d]
  IN  waits[i]

WptTasks     == InGroup(Wpt)
Complete     == \A i \in WptTasks : ~Incomplete(i)
FailedBuilds == InState(WptTasks \cap InGroup(Build), {"failed", "exception"})
Success      == WptTasks # {} /\ InState(WptTasks, {"completed"}) = WptTasks

\* failure_limit_exceeded: fewer than this many of ten tasks succeeded.
LimitExceeded(ten) ==
  WptTasks = {} \/ 10 * Cardinality(InState(WptTasks, {"completed"})) < ten * Cardinality(WptTasks)

\* validate: more than three of ten tasks had an exception.
Valid ==
  /\ WptTasks # {}
  /\ 10 * Cardinality(InState(WptTasks, {"exception"})) <= 3 * Cardinality(WptTasks)

\* A landing's try_result of complete tasks, with accept_failures or without.
TryResult(accept) ==
  IF Success THEN "success"
  ELSE IF accept THEN "acceptable"
  ELSE IF FailedBuilds # {} THEN "builds"
  ELSE IF LimitExceeded(IF push.kind = "stability" THEN 8 ELSE 5) THEN "toomany" ELSE "acceptable"

\* try_push_complete of downstream.py: what it makes of the same tasks.
DownstreamResult ==
  IF ~Valid THEN "invalid"
  ELSE IF FailedBuilds # {} THEN "builds"
  ELSE IF InState(WptTasks, {"failed"}) # {} THEN "failures" ELSE "success"

-----------------------------------------------------------------------------
(* Retriggering. *)

Named(t) == {i \in DOMAIN group : i[1] = t}

\* retriggered_wpt_states: the names with more than max(1, count / 2) tasks.
MutantRetriggered ==   \* only the failed ones are counted
  {t \in Wpt : 2 * Cardinality(InState(Named(t), {"failed"})) > Max({2, RetriggerCount})}
Retriggered == {t \in Wpt : 2 * Cardinality(Named(t)) > Max({2, RetriggerCount})}

\* retrigger_failures: the names some task of which failed.
Failures == {t \in Wpt \ Excluded : InState(Named(t), {"failed", "exception"}) # {}}

\* Any of the calls of createTask may fail.
Copies ==
  LET New(t, n) == {<<t, Max({i[2] : i \in Named(t)}) + k>> : k \in 1..n}
  IN  {UNION {New(t, n[t]) : t \in Failures} : n \in [Failures -> 0..RetriggerCount]}

-----------------------------------------------------------------------------
(* Taskcluster. *)

New(is) == [i \in is \cup DOMAIN group |-> IF i \in is THEN "unscheduled" ELSE group[i]]

\* The decision task creates a task after those it depends on.
CreateTask(t) ==
  /\ decision = "running" /\ <<t, 0>> \notin DOMAIN group
  /\ \A d \in Deps[t] : <<d, 0>> \in DOMAIN group
  /\ group' = New({<<t, 0>>})
  /\ UNCHANGED <<decision, known, push, woken, early>>

DecisionCompletes ==
  /\ decision = "running" /\ Originals(Task) = {<<t, 0>> : t \in Task}
  /\ decision' = "completed"
  /\ UNCHANGED <<group, known, push, woken, early>>

Ready(i)  == group[i] = "unscheduled" /\ \A d \in Originals(Deps[i[1]]) : group[d] = "completed"
AtRest    == decision = "completed" /\ \A i \in DOMAIN group : group[i] # "running" /\ ~Ready(i)

Schedule(i) ==
  /\ Ready(i)
  /\ group' = [group EXCEPT ![i] = "running"]
  /\ UNCHANGED <<decision, known, push, woken, early>>

Resolve(i, s) ==
  /\ group[i] = "running"
  /\ group' = [group EXCEPT ![i] = s]
  /\ woken' = TRUE
  /\ UNCHANGED <<decision, known, push, early>>

\* The deadline of the tasks that cannot run passes, long after the others ended.
Expire ==
  /\ AtRest /\ ~woken /\ \E i \in DOMAIN group : group[i] = "unscheduled"
  /\ group' = [i \in DOMAIN group |-> IF group[i] = "unscheduled" THEN "exception" ELSE group[i]]
  /\ woken' = TRUE
  /\ UNCHANGED <<decision, known, push, early>>

-----------------------------------------------------------------------------
(* The worker. *)

\* A verdict on complete tasks: what becomes of the try push p.
Completed(p, v) == [p EXCEPT !.status = "complete", !.verdict = v]
Raised(p, v)    == [p EXCEPT !.verdict = v, !.raised = TRUE, !.infra = @ \/ v = "builds"]

\* try_push_complete of landing.py; a try push that is retriggered stays open.
LandingJudges(p) ==
  LET v == TryResult(p.accept)
  IN  IF v \in {"toomany", "builds"} /\ (v = "builds" \/ p.kind = "first")
      THEN push' = Raised(p, v) /\ UNCHANGED group
      ELSE IF v = "acceptable" /\ p.kind = "stability" /\ Retriggered = {}
      THEN \E new \in Copies :
             /\ group' = New(new)
             /\ push' = IF new = {} THEN Completed(p, v) ELSE p
      ELSE push' = Completed(p, v) /\ UNCHANGED group

\* try_push_complete of downstream.py; only failed builds raise.
DownstreamJudges(p) ==
  LET v == DownstreamResult
  IN  /\ push' = [Completed(p, v) EXCEPT !.infra = v \in {"invalid", "builds"}, !.raised = v = "builds"]
      /\ UNCHANGED group

Judge(p) ==
  /\ IF ~Complete THEN push' = p /\ UNCHANGED group
     ELSE IF p.kind = "downstream" THEN DownstreamJudges(p) ELSE LandingJudges(p)
  /\ early' = (early \/ (Complete /\ \E i \in DOMAIN group : Ready(i)))

\* DecisionTaskHandler: the task group is complete as a list.
DecisionTaskHandler ==
  /\ decision = "completed" /\ ~known
  /\ known' = TRUE
  /\ UNCHANGED <<group, decision, push, woken, early>>

(***************************************************************************)
(* TryTaskHandler, and TaskGroupHandler which comes last: a task has       *)
(* finished.  If the taskgroup id is not known and the decision task still *)
(* runs, RetryableError brings the event back later.                       *)
(***************************************************************************)
TryTaskHandler ==
  /\ woken /\ (known \/ decision = "completed")
  /\ woken' = FALSE
  /\ known' = TRUE
  /\ IF push.status = "complete" THEN UNCHANGED <<group, push, early>> ELSE Judge(push)
  /\ UNCHANGED <<decision>>

\* `wptsync landing --accept-failures', when there is a result to accept.
AcceptFailures ==
  /\ push.kind # "downstream" /\ known /\ push.status = "open" /\ Complete
  /\ Judge([push EXCEPT !.accept = TRUE])
  /\ UNCHANGED <<decision, known, woken>>

Init ==
  /\ group = [i \in {} |-> "unscheduled"]
  /\ decision = "running" /\ known = FALSE /\ woken = FALSE
  /\ \E k \in Kinds :
       push = [kind |-> k, status |-> "open", verdict |-> "none",
               accept |-> FALSE, infra |-> FALSE, raised |-> FALSE]
  /\ early = FALSE

Next ==
  \/ \E t \in Task : CreateTask(t)
  \/ DecisionCompletes
  \/ \E i \in DOMAIN group : Schedule(i) \/ \E s \in Ends : Resolve(i, s)
  \/ Expire
  \/ DecisionTaskHandler
  \/ TryTaskHandler
  \/ AcceptFailures

Spec == Init /\ [][Next]_vars

-----------------------------------------------------------------------------
(***************************************************************************)
(* A try push that was judged (completed, or given to a person) is over:   *)
(* no test of it has still to run, unless it was run again, or it had the  *)
(* results it needs at that moment and Taskcluster had not scheduled it    *)
(* yet.  task_is_incomplete names that race; what it must get right is     *)
(* that an unscheduled task may wait for a running one through others, and *)
(* that the decision task may not have created the tests yet.              *)
(***************************************************************************)
JudgedWhenOver ==
  push.verdict # "none" /\ ~early =>
    \A t \in Wpt : <<t, 0>> \in DOMAIN group
                   /\ \A i \in Named(t) : group[i] # "running" /\ ~Ready(i)

(***************************************************************************)
(* When Taskcluster has nothing left to run and the events are handled,    *)
(* the try push has been judged: nobody waits a day for the deadline of    *)
(* tasks whose build failed.  The code does wait for a task that depends   *)
(* on nothing but its image, and for copies of a task that cannot run.     *)
(***************************************************************************)
WaitsForImage == \E i \in DOMAIN group : group[i] = "unscheduled" /\ Deps[i[1]] = Image[i[1]]
DoomedCopies  == \E i \in DOMAIN group : group[i] = "unscheduled" /\ i[2] > 0
JudgedAtRest ==
  AtRest /\ ~woken => push.verdict # "none" \/ WaitsForImage \/ DoomedCopies

(***************************************************************************)
(* Failed tests are retriggered once, though each copy that ends is an     *)
(* event that finds failures again: no name has more than the tasks at     *)
(* which it counts as retriggered, and one round of copies.                *)
(***************************************************************************)
RetriggersBounded ==
  \A t \in Wpt : 2 * Cardinality(Named(t)) <= Max({2, RetriggerCount}) + 2 * RetriggerCount
=============================================================================
