------------------------------- MODULE Landing -------------------------------
(***************************************************************************)
(* Landing wpt commits in gecko: sync/landing.py, with the handlers and    *)
(* the `wptsync landing' command that drive it.                            *)
(*                                                                         *)
(* Upstream, PR n is the n-th commit of wpt master.  A landing takes the   *)
(* commits base+1..head, tests them on try (once, then once more for       *)
(* stability) and pushes them to autoland, which is merged to central.     *)
(* The tree records how far it is in sync in the file mozilla-sync, the    *)
(* sync point: a landing changes it, and a backout restores it.            *)
(*                                                                         *)
(* The worker handles one event at a time.  A command is another process:  *)
(* it interleaves with the worker wherever the landing lock is not held.   *)
(***************************************************************************)
EXTENDS Integers, Sequences, FiniteSets, SequencesExt

CONSTANTS
  Worker, Command,   \* the worker process; the processes that run `wptsync landing'
  N,                 \* bound: number of PRs merged upstream
  MaxLandings,       \* bound: landings that are created
  MaxTries,          \* bound: try pushes of one landing
  MaxBackouts,       \* bound: landings that are backed out
  MaxRetries,        \* how often a land task is delivered again (max_retries of tasks.land)
  LateBackouts,      \* may a landing be backed out after it was merged to central?
  NoBug,             \* PRs whose downstream sync has no bug (its creation failed)
  Results,           \* how the tasks of a try push may end
  Faults,            \* what may fail: a set of FaultKinds
  Options            \* the option sets that commands are run with

Proc == {Worker} \cup Command
PR   == 1..N
Repo == {"autoland", "central"}

ResultKinds == {"success", "acceptable", "builds", "toomany"}
(* Applying PRs conflicts; rebasing does; the try tree is closed; lando refuses a  *)
(* push, or its answer is lost; a try push never gets its tasks; a process dies.   *)
FaultKinds  == {"apply", "rebase", "closed", "lando", "answer", "busted", "crash"}

ASSUME ProcAssumption   == Worker \notin Command
ASSUME BoundAssumption  ==
  /\ N \in Nat /\ MaxLandings \in Nat /\ MaxTries \in Nat /\ MaxBackouts \in Nat
  /\ MaxRetries \in Nat
ASSUME ChoiceAssumption ==
  /\ LateBackouts \in BOOLEAN /\ NoBug \subseteq PR
  /\ Results \subseteq ResultKinds /\ Faults \subseteq FaultKinds
  /\ Options \subseteq [retry : BOOLEAN, accept : BOOLEAN, push : BOOLEAN]

VARIABLES
  master,    \* number of PRs merged on wpt master
  ready,     \* PRs whose sync is landable (metadata ready, skipped, or upstreamed)
  done,      \* PRs whose downstream sync is finished
  landings,  \* the landing syncs in the order of their creation
  autoland,  \* the commits on autoland this is about, oldest first
  central,   \* how many of them are merged to central
  local,     \* how many the local refs of autoland and central have
  seen,      \* how many gecko_push has processed, for each repository
  queued,    \* retries of the land task that is queued or runs; Gone if there is none
  pc,        \* what each process is doing
  cur,       \* the landing it does it for (0 for none)
  sp         \* the sync point it has read

vars == <<master, ready, done, landings, autoland, central, local, seen, queued, pc, cur, sp>>

Gone == MaxRetries + 1

(* result: "none" until the try push has a taskgroup id; accept: its accept_failures;     *)
(* waived: a history variable, update_landing went on from it because of accept_failures. *)
Try == [stability : BOOLEAN, status : {"open", "complete"}, infra : BOOLEAN,
        accept : BOOLEAN, waived : BOOLEAN, retriggered : BOOLEAN,
        result : ResultKinds \cup {"none", "running"}]
(* tree: the sync point of the tree it is based on, which its commit replaces; *)
(* from: how much of autoland that tree has; built: it has its landing commit. *)
LandingSync == [status : {"open", "complete"}, base : 0..N, head : 0..N, tree : 0..N, from : Nat,
                built : BOOLEAN, error : BOOLEAN, tries : Seq(Try)]
Push == [kind : {"landing", "backout"}, of : 1..MaxLandings]

TypeOK ==
  /\ master \in 0..N /\ ready \subseteq PR /\ done \subseteq PR
  /\ landings \in Seq(LandingSync) /\ Len(landings) <= MaxLandings
  /\ autoland \in Seq(Push)
  /\ central \in 0..Len(autoland)
  /\ local \in [Repo -> Nat] /\ seen \in [Repo -> Nat]
  /\ queued \in 0..Gone
  /\ pc \in [Proc -> {"idle", "update", "notify"}]
  /\ cur \in [Proc -> 0..MaxLandings]
  /\ sp \in [Proc -> 0..N]

Init ==
  /\ master = 0 /\ ready = {} /\ done = {}
  /\ landings = <<>> /\ autoland = <<>> /\ central = 0
  /\ local = [r \in Repo |-> 0] /\ seen = [r \in Repo |-> 0]
  /\ queued = 0
  /\ pc = [p \in Proc |-> "idle"] /\ cur = [p \in Proc |-> 0] /\ sp = [p \in Proc |-> 0]

-----------------------------------------------------------------------------
(* The gecko repository. *)

\* The largest number of a set, as a set of none or one.
Top(S) == {i \in S : \A j \in S : j <= i}

\* Landing i is among the first n commits of autoland, and not backed out in them.
Pushed(i, n)    == \E k \in 1..n : autoland[k].kind = "landing" /\ autoland[k].of = i
BackedOut(i, n) == \E k \in 1..n : autoland[k].kind = "backout" /\ autoland[k].of = i
Live(n) == {i \in 1..Len(landings) : Pushed(i, n) /\ ~BackedOut(i, n)}

(***************************************************************************)
(* The sync point in the tree: that of the last landing still there (a     *)
(* backout restores the file, so landings are backed out newest first).    *)
(***************************************************************************)
SyncPoint(n) ==
  IF Top(Live(n)) = {} THEN 0 ELSE landings[CHOOSE i \in Top(Live(n)) : TRUE].head

\* What is on the remote, after update_repositories.
Fetched == [autoland |-> Len(autoland), central |-> central]

Rng(a, b) == {n \in PR : a < n /\ n <= b}

(***************************************************************************)
(* landable_commits: the PRs after prev up to the first that is not ready. *)
(***************************************************************************)
MutantLandableHead(prev) ==   \* up to and with the first that is not ready
  CHOOSE h \in (prev + 1)..(N + 1) : h \notin ready /\ (prev + 1)..(h - 1) \subseteq ready
LandableHead(prev) ==
  LET heads == {h \in Rng(prev, master) : Rng(prev, h) \subseteq ready}
  IN  IF Top(heads) = {} THEN prev ELSE CHOOSE h \in Top(heads) : TRUE

-----------------------------------------------------------------------------
(* The landing sync as a value l; i is its index in landings. *)

Latest(l) == Last(l.tries)
SetLatest(l, t) == [l EXCEPT !.tries = [@ EXCEPT ![Len(@)] = t]]
Close(l) == SetLatest(l, [Latest(l) EXCEPT !.status = "complete"])

\* try_result of the latest try push.
TryResult(l) ==
  LET t == Latest(l) IN
  IF t.infra /\ ~t.accept THEN "builds"
  ELSE CASE t.result \in {"none", "running"}  -> "pending"
         [] t.result = "success"              -> "success"
         [] OTHER -> IF t.accept THEN "acceptable" ELSE t.result

MutantIsOk(l) == TryResult(l) \notin {"pending", "builds"}
IsOk(l) == TryResult(l) \in {"success", "acceptable"}

(***************************************************************************)
(* The outcome of a call: the landing it leaves, whether it fetched the    *)
(* refs and pushed, whether it goes on to notify_downstream with           *)
(* landing_is_complete, and whether it raised a RetryableError.            *)
(***************************************************************************)
Out(l) == [landing |-> l, fetch |-> FALSE, push |-> FALSE, notify |-> FALSE, again |-> FALSE]
Failed(l) == Out([l EXCEPT !.error = TRUE])
When(cond, S) == IF cond THEN S ELSE {}

\* TryPush.create, which raises a RetryableError while the try tree is closed.
CreateTry(l, stability) ==
  LET t == [stability |-> stability, status |-> "open", infra |-> FALSE, accept |-> FALSE,
            waived |-> FALSE, retriggered |-> FALSE, result |-> "none"]
  IN  When(Len(l.tries) < MaxTries, {Out([l EXCEPT !.tries = Append(@, t)])})
        \cup When("closed" \in Faults, {[Out(l) EXCEPT !.again = TRUE]})

(***************************************************************************)
(* poll_try_rev: lando may not land the try push, or its decision task may *)
(* keep failing.                                                           *)
(***************************************************************************)
Busted(l) ==
  When("busted" \in Faults /\ l.tries # <<>> /\ Latest(l).status = "open" /\ Latest(l).result = "none",
       {SetLatest(l, [Latest(l) EXCEPT !.status = "complete", !.infra = TRUE])})

(***************************************************************************)
(* gecko_rebase onto a tree with the first n commits of autoland.  The     *)
(* change to mozilla-sync applies only to the sync point it was made from. *)
(***************************************************************************)
RebaseWorks(l, n) == SyncPoint(n) = l.tree
RebaseFails(l, n) == "rebase" \in Faults \/ ~RebaseWorks(l, n)

(***************************************************************************)
(* push_to_gecko: fetch, rebase onto autoland and push with lando.  If the *)
(* commits are there already the rebase leaves nothing to push, and lando  *)
(* may take that as an error.                                              *)
(***************************************************************************)
MutantPushToGecko(l, i) ==   \* the error of a failed push is logged, and not raised
  {[Out(l) EXCEPT !.fetch = TRUE, !.push = p, !.notify = TRUE] : p \in BOOLEAN}
PushToGecko(l, i) ==
  LET n      == Len(autoland)
      again  == Pushed(i, n)
      raised == [Out(l) EXCEPT !.fetch = TRUE]
  IN  When(again \/ RebaseFails(l, n) \/ "lando" \in Faults, {raised})
        \cup When(again \/ RebaseWorks(l, n), {[raised EXCEPT !.push = ~again, !.notify = TRUE]})
        \cup When(RebaseWorks(l, n) /\ "answer" \in Faults, {[raised EXCEPT !.push = ~again]})

\* update_landing of a landing without a try push: apply the PRs and test them.  An error of
\* apply_prs is raised, and the landing is not told.
FirstTry(l) ==
  When("apply" \in Faults, {Out(l)}) \cup CreateTry([l EXCEPT !.built = TRUE], FALSE)

(***************************************************************************)
(* update_landing on to the next try push, or to the push to gecko.  With  *)
(* allow_push off the landing is not pushed, but pushed is set all the     *)
(* same.  Neither rebase is undone when it fails.                          *)
(***************************************************************************)
Central(l) == IF local.central < l.from THEN l.from ELSE local.central
Advance(l, i, o) ==
  When(RebaseFails(l, Central(l)), {Failed(l)})
    \cup When(RebaseWorks(l, Central(l)),
              IF ~Latest(l).stability THEN CreateTry(l, ~Latest(l).infra)
              ELSE IF o.push THEN PushToGecko(l, i)
              ELSE {[Out(l) EXCEPT !.notify = TRUE]})

Waived(l) == SetLatest(l, [Latest(l) EXCEPT !.waived = @ \/ ~IsOk(l)])

MutantRetry(l) ==   \* the try push it replaces is left open
  When(RebaseWorks(l, Central(l)), CreateTry(l, Latest(l).stability))
Retry(l) ==
  When(RebaseFails(l, Central(l)), {Failed(l)})
    \cup When(RebaseWorks(l, Central(l)), CreateTry(Close(l), Latest(l).stability))

Finish(l) == [l EXCEPT !.status = "complete", !.error = FALSE]

\* update_landing of an existing landing.
Update(l, i, o) ==
  IF l.built /\ Pushed(i, local.central) THEN {Out(Finish(l))}
  ELSE IF l.built /\ Pushed(i, local.autoland) THEN {Out(l)}
  ELSE IF l.tries = <<>> THEN FirstTry(l)
  ELSE IF o.retry THEN Retry(l)
  ELSE IF Latest(l).status = "complete" /\ (IsOk(l) \/ o.accept) THEN Advance(Waived(l), i, o)
  ELSE {Out(l)}

Default == [retry |-> FALSE, accept |-> FALSE, push |-> TRUE]

(***************************************************************************)
(* try_push_complete of landing.py for the latest try push of l.  A        *)
(* failure in the first try push leaves it open.  In the stability one,    *)
(* failed tasks are run again once, and whatever they then do it is        *)
(* complete; it also is if there are too many failures to run again.       *)
(***************************************************************************)
TryPushComplete(l0, i, o) ==
  LET t0 == Latest(l0)
      t  == [t0 EXCEPT !.accept = @ \/ o.accept]
      l  == SetLatest(l0, t)
      r  == TryResult(l)
      go == Update(Close(l), i, [Default EXCEPT !.push = o.push])
  IN  CASE t0.status = "complete" -> {Out(l0)}
        [] t0.status = "open" /\ r = "pending" -> {Out(l)}
        [] t0.status = "open" /\ r = "builds" -> {Failed(SetLatest(l, [t EXCEPT !.infra = TRUE]))}
        [] t0.status = "open" /\ r = "toomany" /\ ~t.stability -> {Failed(l)}
        [] t0.status = "open" /\ r = "toomany" /\ t.stability /\ ~t.retriggered ->
             {Failed(Close(l))}
        [] t0.status = "open" /\ r = "acceptable" /\ t.stability /\ ~t.retriggered ->
             go \cup {Out(SetLatest(l, [t EXCEPT !.retriggered = TRUE, !.result = "running"]))}
        [] OTHER -> go

-----------------------------------------------------------------------------
(* The processes. *)

Open == {i \in 1..Len(landings) : landings[i].status = "open"}

\* The landing lock is held from the update through the notifications.
LockFree(p) == \A q \in Proc \ {p} : pc[q] # "notify"
Idle(p)     == pc[p] = "idle"

Leave(p, i, o) ==   \* process p ends a call for landing i with outcome o
  /\ autoland' = IF o.push
                 THEN Append(autoland, [kind |-> "landing", of |-> i]) ELSE autoland
  /\ local' = IF o.fetch THEN Fetched ELSE local
  /\ pc' = [pc EXCEPT ![p] = IF o.notify THEN "notify" ELSE "idle"]
  /\ cur' = [cur EXCEPT ![p] = IF o.notify THEN i ELSE 0]

(***************************************************************************)
(* update_landing from the land task or a command, up to the landing lock: *)
(* it reads the current landing and the sync point of the local refs.      *)
(* With two open landings, current raises.                                 *)
(***************************************************************************)
ReadCurrent(p) ==
  IF Cardinality(Open) > 1
  THEN UNCHANGED <<pc, cur, sp>>
  ELSE /\ pc' = [pc EXCEPT ![p] = "update"]
       /\ cur' = [cur EXCEPT ![p] = IF Open = {} THEN 0 ELSE CHOOSE i \in Open : TRUE]
       /\ sp' = [sp EXCEPT ![p] = SyncPoint(local.autoland)]

LandTask ==
  /\ queued # Gone /\ Idle(Worker)
  /\ queued' = IF Cardinality(Open) > 1 THEN Gone ELSE queued
  /\ ReadCurrent(Worker)
  /\ UNCHANGED <<master, ready, done, landings, autoland, central, local, seen>>

CommandStart(p) ==
  /\ Idle(p)
  /\ \A i \in Open : landings[i].tries = <<>>
  /\ ReadCurrent(p)
  /\ UNCHANGED <<master, ready, done, landings, autoland, central, local, seen, queued>>

\* The end of a call by p: what becomes of the land task if it was that.
EndTask(p, again) ==
  queued' = IF p # Worker THEN queued
            ELSE IF again /\ queued < MaxRetries THEN queued + 1 ELSE Gone

\* The rest of it, when there was no open landing: fetch, and create one.
NewLanding(p) ==
  LET h == LandableHead(sp[p])
      l == [status |-> "open", base |-> sp[p], head |-> h, tree |-> SyncPoint(Len(autoland)),
            from |-> Len(autoland), built |-> FALSE, error |-> FALSE, tries |-> <<>>]
      i == Len(landings) + 1
  IN  /\ pc[p] = "update" /\ cur[p] = 0 /\ LockFree(p)
      /\ local' = Fetched
      /\ \/ /\ h = sp[p]
            /\ landings' = landings /\ EndTask(p, FALSE)
         \/ /\ h > sp[p] /\ Len(landings) < MaxLandings
            /\ \E o \in FirstTry(l) :
                 /\ landings' = Append(landings, o.landing)
                 /\ EndTask(p, o.again)
      /\ pc' = [pc EXCEPT ![p] = "idle"]
      /\ UNCHANGED <<master, ready, done, autoland, central, seen, cur, sp>>

\* What update_landing is called with.  A command does not give it --no-push.
OptionsOf(p) == IF p = Worker THEN {Default} ELSE {[opt EXCEPT !.push = TRUE] : opt \in Options}

\* ... and when there was one.  The land task is retried if try is closed.
UpdateLanding(p) ==
  /\ pc[p] = "update" /\ cur[p] # 0 /\ LockFree(p)
  /\ \E opt \in OptionsOf(p) : \E o \in Update(landings[cur[p]], cur[p], opt) :
       /\ landings' = [landings EXCEPT ![cur[p]] = o.landing]
       /\ EndTask(p, o.again)
       /\ Leave(p, cur[p], o)
  /\ UNCHANGED <<master, ready, done, central, seen, sp>>

(***************************************************************************)
(* A finished task, or the end of the task group: taskgroup_complete.  A   *)
(* RetryableError delivers the event again, but the try push is complete   *)
(* by then, and nothing is done.                                           *)
(***************************************************************************)
TaskGroupHandler(i) ==
  /\ Idle(Worker) /\ LockFree(Worker)
  /\ landings[i].tries # <<>> /\ Latest(landings[i]).result # "none"
  /\ \E o \in TryPushComplete(landings[i], i, Default) :
       /\ landings' = [landings EXCEPT ![i] = o.landing]
       /\ Leave(Worker, i, o)
  /\ UNCHANGED <<master, ready, done, central, seen, queued, sp>>

(***************************************************************************)
(* `wptsync landing' when the current landing has a try push.  Only        *)
(* try_push_complete is given --no-push.                                   *)
(***************************************************************************)
DoLanding(p, opt) ==
  /\ Idle(p) /\ LockFree(p) /\ Cardinality(Open) = 1
  /\ \E i \in Open :
       \E l \in {landings[i]} \cup Busted(landings[i]) :
       /\ l.tries # <<>>
       /\ Latest(l).status = "open" => Latest(l).result # "none"
       /\ \E o \in IF ~opt.retry /\ Latest(l).status = "open"
                   THEN When(TryResult(l) # "pending", TryPushComplete(l, i, opt))
                   ELSE Update(l, i, [opt EXCEPT !.push = TRUE]) :
            /\ landings' = [landings EXCEPT ![i] = o.landing]
            /\ Leave(p, i, o)
  /\ UNCHANGED <<master, ready, done, central, seen, queued, sp>>

MutantNotifyDownstream(p) ==   \* an error for one PR ends the loop
  /\ pc[p] = "notify"
  /\ \E h \in landings[cur[p]].base..landings[cur[p]].head : done' = done \cup Rng(landings[cur[p]].base, h)
  /\ pc' = [pc EXCEPT ![p] = "idle"] /\ cur' = [cur EXCEPT ![p] = 0]
  /\ UNCHANGED <<master, ready, landings, autoland, central, local, seen, queued, sp>>

\* try_notify_downstream with landing_is_complete, under the landing lock.  It raises at
\* the first PR without a bug: the setter of status asserts that there is one.
NotifyDownstream(p) ==
  /\ pc[p] = "notify"
  /\ LET l == landings[cur[p]]
     IN  done' = done \cup {n \in Rng(l.base, l.head) : Rng(l.base, n) \cap NoBug = {}}
  /\ pc' = [pc EXCEPT ![p] = "idle"] /\ cur' = [cur EXCEPT ![p] = 0]
  /\ UNCHANGED <<master, ready, landings, autoland, central, local, seen, queued, sp>>

(***************************************************************************)
(* gecko_push for the first r commits of a branch.  A landing is finished  *)
(* by its own commit on central; a PR's commit finishes the landing of the *)
(* bug it names, on any branch, and without a bug of its own a PR's commit *)
(* names the landing's.  The next landing follows if this one is finished. *)
(***************************************************************************)
MutantFinishesAnywhere(repo, i) == TRUE
MutantFinishesNever(repo, i) == FALSE
Finishes(repo, i) ==
  repo = "central" \/ Rng(landings[i].base, landings[i].head) \cap NoBug # {}

\* A landing that was backed out is not opened again.
MutantReopened(l) == [l EXCEPT !.error = TRUE, !.status = "open"]
MarkBackedOut(l)  == [l EXCEPT !.error = TRUE]

GeckoPush(repo, r) ==
  LET new(kind) == {autoland[k].of : k \in {k \in (seen[repo] + 1)..r : autoland[k].kind = kind}}
      finished  == {i \in new("landing") : Finishes(repo, i)}
  IN  /\ Idle(Worker) /\ LockFree(Worker)
      /\ r \in (seen[repo] + 1)..Fetched[repo]
      /\ local' = Fetched
      /\ Cardinality(Open) <= 1       \* current raises
      /\ landings' = [i \in DOMAIN landings |->
           LET l == IF i \in finished THEN Finish(landings[i]) ELSE landings[i]
           IN  IF i \in new("backout") THEN MarkBackedOut(l) ELSE l]
      /\ seen' = [seen EXCEPT ![repo] = r]
      /\ queued' = IF Open \cap finished # {} THEN 0 ELSE queued
      /\ UNCHANGED <<master, ready, done, autoland, central, pc, cur, sp>>

\* Any other handler that updates the repositories.
Fetch ==
  /\ Idle(Worker) /\ local # Fetched
  /\ local' = Fetched
  /\ UNCHANGED <<master, ready, done, landings, autoland, central, seen, queued, pc, cur, sp>>

\* A process dies; the files say only what it had saved.
Crash(p) ==
  /\ "crash" \in Faults /\ ~Idle(p)
  /\ pc' = [pc EXCEPT ![p] = "idle"] /\ cur' = [cur EXCEPT ![p] = 0]
  /\ queued' = IF p = Worker /\ pc[p] = "update" THEN Gone ELSE queued
  /\ UNCHANGED <<master, ready, done, landings, autoland, central, local, seen, sp>>

-----------------------------------------------------------------------------
(* The world: wpt, try, and the gecko repository. *)

MergePr ==
  /\ master < N /\ master' = master + 1
  /\ UNCHANGED <<ready, done, landings, autoland, central, local, seen, queued, pc, cur, sp>>

SyncReady(n) ==
  /\ n <= master /\ n \notin ready
  /\ ready' = ready \cup {n}
  /\ UNCHANGED <<master, done, landings, autoland, central, local, seen, queued, pc, cur, sp>>

\* The latest try push of landing i, if it is open, goes from result a to result b.
TryStep(i, a, b) ==
  /\ landings[i].tries # <<>>
  /\ Latest(landings[i]).status = "open" /\ Latest(landings[i]).result = a
  /\ landings' = [landings EXCEPT ![i] = SetLatest(@, [Latest(@) EXCEPT !.result = b])]
  /\ UNCHANGED <<master, ready, done, autoland, central, local, seen, queued, pc, cur, sp>>

TryScheduled(i) == TryStep(i, "none", "running")
TryEnds(i)      == \E b \in Results : TryStep(i, "running", b)

\* A handler polls the try push of landing i.
TryBusted(i) ==
  /\ Idle(Worker) /\ LockFree(Worker)
  /\ \E l \in Busted(landings[i]) : landings' = [landings EXCEPT ![i] = l]
  /\ UNCHANGED <<master, ready, done, autoland, central, local, seen, queued, pc, cur, sp>>

MergeToCentral ==
  /\ central < Len(autoland)
  /\ central' \in (central + 1)..Len(autoland)
  /\ UNCHANGED <<master, ready, done, landings, autoland, local, seen, queued, pc, cur, sp>>

Backout(i) ==
  /\ i \in Top(Live(Len(autoland)))
  /\ LateBackouts \/ ~Pushed(i, central)
  /\ Cardinality({k \in DOMAIN autoland : autoland[k].kind = "backout"}) < MaxBackouts
  /\ autoland' = Append(autoland, [kind |-> "backout", of |-> i])
  /\ UNCHANGED <<master, ready, done, landings, central, local, seen, queued, pc, cur, sp>>

Next ==
  \/ LandTask
  \/ \E p \in Command : CommandStart(p) \/ \E opt \in Options : DoLanding(p, opt)
  \/ \E p \in Proc : NewLanding(p) \/ UpdateLanding(p) \/ NotifyDownstream(p) \/ Crash(p)
  \/ \E i \in DOMAIN landings :
       TaskGroupHandler(i) \/ TryScheduled(i) \/ TryEnds(i) \/ TryBusted(i) \/ Backout(i)
  \/ \E repo \in Repo : \E r \in DOMAIN autoland : GeckoPush(repo, r)
  \/ Fetch \/ MergePr \/ (\E n \in PR : SyncReady(n)) \/ MergeToCentral

Spec == Init /\ [][Next]_vars

(***************************************************************************)
(* The worker handles what it is sent, tasks end, central is merged, and   *)
(* PRs are merged and tested.  Commands are up to the operator.            *)
(***************************************************************************)
Fairness ==
  /\ WF_vars(LandTask) /\ WF_vars(NewLanding(Worker)) /\ WF_vars(UpdateLanding(Worker))
  /\ WF_vars(NotifyDownstream(Worker))
  /\ WF_vars(MergePr) /\ WF_vars(MergeToCentral)
  /\ \A n \in PR : WF_vars(SyncReady(n))
  /\ \A i \in 1..MaxLandings :
       /\ WF_vars(i \in DOMAIN landings /\ TaskGroupHandler(i))
       /\ WF_vars(i \in DOMAIN landings /\ TryScheduled(i))
       /\ WF_vars(i \in DOMAIN landings /\ TryEnds(i))
  /\ \A repo \in Repo : WF_vars(Fetched[repo] > 0 /\ GeckoPush(repo, Fetched[repo]))

FairSpec == Spec /\ Fairness

-----------------------------------------------------------------------------
(***************************************************************************)
(* "The invariant that there is only one" open landing (gecko_push); with  *)
(* two of them current raises and nothing lands any more.                  *)
(***************************************************************************)
OneOpenLanding == Cardinality(Open) <= 1

(***************************************************************************)
(* What is on autoland is what wpt had at the sync point in the tree: no   *)
(* PR before it is missing and none after it is there, whatever is backed  *)
(* out and however the landings follow each other ("for each PR that       *)
(* landed upstream since our last sync", apply_prs).                       *)
(***************************************************************************)
InTree(n) == UNION {Rng(landings[i].base, landings[i].head) : i \in Live(n)}
TreeMatchesSyncPoint ==
  \A n \in 0..Len(autoland) : InTree(n) = Rng(0, SyncPoint(n))

(***************************************************************************)
(* A step pushes a landing only if its last try push is a complete         *)
(* stability one whose tasks passed, after a complete ordinary one whose   *)
(* tasks passed (try_push_complete, next_try_push), however often try      *)
(* pushes are retried; those whose failures an operator accepted (with     *)
(* --accept-failures, for this try push) need not pass.                    *)
(***************************************************************************)
PushedWasTested ==
  [][\A k \in DOMAIN autoland' \ DOMAIN autoland : autoland'[k].kind = "landing" =>
       LET t == landings'[autoland'[k].of].tries
           Passed(j) == /\ t[j].status = "complete"
                        /\ \/ t[j].result \in {"success", "acceptable"} /\ ~t[j].infra
                           \/ t[j].accept \/ t[j].waived
       IN  /\ t[Len(t)].stability /\ Passed(Len(t))
           /\ \E j \in DOMAIN t : ~t[j].stability /\ Passed(j)]_vars

(***************************************************************************)
(* A downstream sync is finished only when its PR's commits have been      *)
(* pushed to gecko (landing_is_complete).                                  *)
(***************************************************************************)
DoneWasPushed ==
  done \subseteq UNION {Rng(landings[i].base, landings[i].head) :
                       i \in {i \in DOMAIN landings : Pushed(i, Len(autoland))}}

(***************************************************************************)
(* When a landing is complete, the syncs of its PRs are finished.          *)
(***************************************************************************)
CompleteWasNotified ==
  \A i \in DOMAIN landings : landings[i].status = "complete" =>
    Rng(landings[i].base, landings[i].head) \subseteq done

(***************************************************************************)
(* "The landing is marked as finished when it reaches central" (push).     *)
(***************************************************************************)
CompleteIsOnCentral ==
  \A i \in DOMAIN landings : landings[i].status = "complete" => Pushed(i, central)

(***************************************************************************)
(* Only the latest try push of a landing is ever open: an older one can    *)
(* no longer be completed, and would block next_try_push for good.         *)
(***************************************************************************)
OlderTriesComplete ==
  \A i \in DOMAIN landings : \A k \in DOMAIN landings[i].tries :
    k < Len(landings[i].tries) => landings[i].tries[k].status = "complete"

(***************************************************************************)
(* A landing that stopped, so that an operator has to act, and can see it: *)
(* there is an error on it, or its last try push is complete and the       *)
(* landing was not pushed (the tasks did not run, lando refused the push,  *)
(* or the try tree was closed for the next try push).                      *)
(***************************************************************************)
NeedsOperator(i) ==
  /\ ~Pushed(i, Len(autoland))
  /\ \/ landings[i].error
     \/ landings[i].tries # <<>> /\ Latest(landings[i]).status = "complete"

(***************************************************************************)
(* A landing that stopped and does not show it: apply_prs raised, or try   *)
(* was closed at every delivery of the land task.  It has no error and no  *)
(* try push, and no land task will come back to it.                        *)
(***************************************************************************)
Unnoticed(i) == landings[i].tries = <<>> /\ ~landings[i].error /\ queued = Gone

(***************************************************************************)
(* Every other landing is finished: its tasks end, it is pushed, and the   *)
(* merge of its commits to central completes it, also if it is backed out  *)
(* of autoland (update_landing, gecko_push).  One that has a try push is   *)
(* never left without notice.                                              *)
(***************************************************************************)
LandingFinishes ==
  \A i \in 1..MaxLandings :
    []<>(i \in DOMAIN landings =>
             landings[i].status = "complete" \/ NeedsOperator(i) \/ Unnoticed(i))

=============================================================================
