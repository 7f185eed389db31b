------------------------------ MODULE Downstream ------------------------------
(***************************************************************************)
(* Downstream syncs: sync/downstream.py with its callers in handlers.py,   *)
(* update.py and trypush.py.                                               *)
(*                                                                         *)
(* The sync of a PR keeps the PR's commits on a gecko branch, tests them   *)
(* on try when the PR is merged, and adds a metadata commit with the new   *)
(* expectations.  It is landable when next_action is `ready'.  The worker  *)
(* runs one handler at a time, so a handler is one step; what interleaves  *)
(* is GitHub, Taskcluster, the fetches and the order of the events.        *)
(***************************************************************************)
EXTENDS Integers, Sequences, FiniteSets, SequencesExt

CONSTANTS
  PR,         \* pull requests
  MaxHeads,   \* bound: pushes to a PR, the first one included
  HasTests,   \* versions <<n, v>> (the v-th push of PR n) that affect tests
  Renames,    \* ... that rename tests which have metadata
  NoChange,   \* ... that leave nothing to apply in gecko
  Reverts,    \* pairs <<n, m>>: the commits of PR n revert those of PR m
  Results,    \* how the tasks of a try push may end
  Faults,     \* what may fail: a set of FaultKinds
  MaxBase,    \* bound: times central moves
  MaxMeta,    \* bound: changes of a metadata commit
  MaxTries,   \* bound: try pushes of a sync
  MaxEvents,  \* bound: events of a PR that are not handled yet
  NoSync

ResultKinds == {"success", "failures", "builds", "invalid", "notests"}
(* Commits do not apply; a step after it raises; the metadata commit conflicts;   *)
(* a rebase does; the tool for the affected tests fails; bugzilla does; the try   *)
(* tree is closed; lando refuses a try push; a decision task keeps failing; the   *)
(* metadata update raises; a PR event is lost; one is handled before its commits  *)
(* are fetched; a landing runs before it is handled; a revert is not merged.      *)
FaultKinds == {"apply", "component", "conflict", "rebase", "affected", "bug", "closed", "refused",
               "decision", "metadata", "lost", "stale", "late", "abandon"}

ASSUME VersionAssumption ==
  /\ MaxHeads \in Nat \ {0}
  /\ HasTests \cup Renames \cup NoChange \subseteq PR \X (1..MaxHeads)
  /\ HasTests \cap NoChange = {} /\ Renames \cap NoChange = {}
  /\ Reverts \subseteq PR \X PR /\ NoSync \notin PR
ASSUME FaultAssumption == Results \subseteq ResultKinds /\ Faults \subseteq FaultKinds
ASSUME BoundAssumption ==
  MaxBase \in Nat /\ MaxMeta \in Nat \ {0} /\ MaxTries \in Nat /\ MaxEvents \in Nat \ {0}

VARIABLES
  gh,       \* state of each PR on GitHub
  head,     \* its head there, by number of the push
  ref,      \* origin/pr/<n> in the local repository, since the last fetch
  events,   \* the webhook events of each PR that are not handled yet
  central,  \* how far the landing branch has moved
  sync,     \* the downstream sync of each PR, or NoSync
  tries,    \* its try pushes, in the order of their creation
  landed    \* PRs that have been landed in gecko

vars == <<gh, head, ref, events, central, sync, tries, landed>>
world == <<gh, head, events, central, landed>>

(***************************************************************************)
(* head: wpt_commits.head.  of: the version the commits on the gecko       *)
(* branch come from, 0 for none; base: what they are based on; onto:       *)
(* whether gecko-base names the integration branch.  meta: the metadata    *)
(* commit at the tip of the branch; stash: the one that was removed from   *)
(* it (data["metadata-commit"]); both are numbered by content, 0 for none. *)
(***************************************************************************)
Sync == [open : BOOLEAN, error : BOOLEAN, skip : BOOLEAN, rebased : BOOLEAN, bug : BOOLEAN,
         head : 0..MaxHeads, of : 0..MaxHeads, base : 0..MaxBase, onto : BOOLEAN,
         meta : 0..MaxMeta, stash : 0..MaxMeta, tests : {"unknown", "some", "none"}]
ASSUME SyncAssumption == NoSync \notin Sync
(* group: it has a taskgroup id.  news: a message about its tasks waits.   *)
Try  == [stability : BOOLEAN, head : 0..MaxHeads,
         gecko : (0..MaxHeads) \X (0..MaxBase) \X (0..MaxMeta),
         status : {"open", "complete"}, infra : BOOLEAN, group : BOOLEAN, news : BOOLEAN,
         result : ResultKinds \cup {"none", "running"}]
Event == [action : {"opened", "synchronize", "closed", "reopened"}, merged : BOOLEAN]

TypeOK ==
  /\ gh \in [PR -> {"none", "open", "closed", "merged"}]
  /\ head \in [PR -> 0..MaxHeads] /\ ref \in [PR -> 0..MaxHeads]
  /\ events \in [PR -> Seq(Event)]
  /\ central \in 0..MaxBase
  /\ sync \in [PR -> Sync \cup {NoSync}]
  /\ tries \in [PR -> Seq(Try)]
  /\ landed \subseteq PR

Init ==
  /\ gh = [n \in PR |-> "none"] /\ head = [n \in PR |-> 0] /\ ref = head
  /\ events = [n \in PR |-> <<>>] /\ central = 0
  /\ sync = [n \in PR |-> NoSync] /\ tries = [n \in PR |-> <<>>] /\ landed = {}

-----------------------------------------------------------------------------
(* Reading a sync: S and T stand for sync and tries, R for the refs.       *)

When(cond, X) == IF cond THEN X ELSE {}
Gecko(s) == <<s.of, s.base, s.meta>>

(***************************************************************************)
(* latest_valid_try_push, as a set of none or one: the latest try push, if *)
(* it is for the PR's head or the sync's, and for its gecko commits with   *)
(* or without the metadata commit.                                         *)
(***************************************************************************)
MutantExactValid(S, T, R, n) ==   \* only with the present metadata commit
  {t \in ToSet(T[n]) : t = Last(T[n]) /\ t.gecko = Gecko(S[n])}
LatestValid(S, T, R, n) ==
  {t \in ToSet(T[n]) :
     /\ t = Last(T[n])
     /\ \/ S[n].of = 0
        \/ /\ t.head \in {R[n], S[n].head}
           /\ t.gecko \in {Gecko(S[n]), Gecko([S[n] EXCEPT !.meta = 0])}}

Completed(t) == t.result \in {"success", "failures", "invalid"}   \* has_completed_tests

\* next_action, given whether the PR is merged.
NextAction(S, T, R, n, merged) ==
  LET s      == S[n]
      valid  == LatestValid(S, T, R, n)
      waits  == \E t \in valid : ~t.group /\ t.status = "open"
      busted == \E t \in valid : ~t.group /\ t.status = "complete" /\ t.infra
      rebase == IF s.rebased THEN "manual_fix" ELSE "try_rebase"
      stable == s.of # 0 /\ s.tests # "none"    \* requires_stability_try
  IN  IF s.skip THEN "ready"
      ELSE IF s.error \/ (busted /\ ~waits) THEN rebase
      ELSE IF waits THEN "wait_try"
      ELSE IF ~merged THEN "wait_upstream"
      ELSE IF valid = {} THEN IF stable THEN "try_push_stability"
                              ELSE IF s.of # 0 THEN "try_push" ELSE "ready"
      ELSE IF \E t \in valid : t.status # "complete" THEN "wait_try"
      ELSE IF stable /\ \E t \in valid : ~t.stability THEN "try_push_stability"
      ELSE IF \E t \in valid : t.infra /\ ~Completed(t) THEN "manual_fix"
      ELSE "ready"

\* landable_status is ready or skip; GitHub is asked whether the PR is merged.
MutantLandable(S, T, R, n) ==   \* whatever does not wait
  S[n] # NoSync /\ NextAction(S, T, R, n, gh[n] = "merged") \notin {"wait_try", "wait_upstream"}
Landable(S, T, R, n) ==
  S[n] # NoSync /\ NextAction(S, T, R, n, gh[n] = "merged") = "ready"

-----------------------------------------------------------------------------
(* The outcomes of a call: the syncs and try pushes it leaves, and what it *)
(* raised: nothing, an AbortError, a RetryableError or another error.      *)

Put(S, n, s) == [m \in PR |-> IF m = n THEN s ELSE S[m]]   \* S after s was saved
Out(S, T, raised) == [sync |-> S, tries |-> T, raised |-> raised]
Raised(o) == o.raised # "none"

\* affected_tests of the sync's commits, which may not be found out.
AffectedTests(s, n) ==
  IF s.tests # "unknown" THEN {s}
  ELSE {[s EXCEPT !.tests = IF <<n, s.head>> \in HasTests THEN "some" ELSE "none"]}
         \cup When("affected" \in Faults, {s})

(***************************************************************************)
(* ensure_metadata_commit with a stash: it is cherry-picked, and forgotten *)
(* whether or not that worked.  Otherwise the commit is there already.     *)
(***************************************************************************)
Restore(s) ==
  IF s.meta # 0 \/ s.stash = 0 THEN {s}
  ELSE {[s EXCEPT !.meta = s.stash, !.stash = 0]}
         \cup When("conflict" \in Faults, {[s EXCEPT !.stash = 0]})

\* move_metadata, which needs a metadata commit if tests with metadata are renamed.
MoveMetadata(s, n) ==
  IF <<n, s.of>> \in Renames /\ s.meta = 0 THEN [s EXCEPT !.meta = 1] ELSE s

(***************************************************************************)
(* wpt_to_gecko_commits: the branch is reset to the landing branch, or to  *)
(* the commits that are kept, and the new commits are put on it; its       *)
(* metadata commit is stashed, and the affected tests are forgotten.  When *)
(* the commits do not apply, they are tried on the integration branch.     *)
(***************************************************************************)
MutantStripped(s) == [s EXCEPT !.meta = 0, !.of = 0, !.tests = "unknown"]   \* without the stash
Stripped(s) ==
  [s EXCEPT !.stash = IF s.meta # 0 THEN s.meta ELSE @, !.meta = 0, !.of = 0, !.tests = "unknown"]
Applied(s) ==
  {[Stripped(s) EXCEPT !.of = s.head, !.base = b] :
     b \in {central} \cup When(s.of # 0, {s.base})}
   \cup When("apply" \in Faults,
             {[Stripped(s) EXCEPT !.of = s.head, !.base = central, !.onto = TRUE]})

(***************************************************************************)
(* update_commits from the point where the commits are applied, for the    *)
(* sync s of PR n: the syncs it may become, with what was raised.  If the  *)
(* commits are there already the rest is left out, also the rest that an   *)
(* earlier call did not get to.                                            *)
(***************************************************************************)
Apply(s, n) ==
  LET Ok(X)     == {[sync |-> [x EXCEPT !.error = FALSE], raised |-> "none"] : x \in X}
      Fail(X)   == {[sync |-> [x EXCEPT !.error = TRUE], raised |-> "error"] : x \in X}
      restored  == UNION {Restore(x) : x \in Applied(s)}
  IN  IF <<n, s.head>> \in NoChange
      THEN IF s.of = 0 /\ s.meta = 0 THEN Ok({[s EXCEPT !.tests = "unknown"]})
           ELSE Ok(Restore(Stripped(s)))
      ELSE IF s.of = s.head THEN Ok({s})
      ELSE Ok({MoveMetadata(x, n) : x \in restored})
             \cup When("component" \in Faults,
                       Fail(Applied(s) \cup restored \cup {MoveMetadata(x, n) : x \in restored}))
             \cup When("apply" \in Faults, Fail({[Stripped(s) EXCEPT !.onto = TRUE]}))

\* reverts_syncs: the PRs whose commits n reverts, if each of them has a sync.
Reverted(S, n) ==
  LET prs == {m \in PR : <<n, m>> \in Reverts}
  IN  IF NoSync \in {S[m] : m \in prs} THEN {} ELSE prs

(***************************************************************************)
(* update_commits: take over the PR's head as fetched; if the PR reverts   *)
(* others whose syncs are open, those are skipped, and so is this one if   *)
(* they all are; otherwise its commits are applied.                        *)
(***************************************************************************)
TakenOver(S, R, n, reverts) ==
  [m \in PR |-> IF m \in reverts THEN [S[m] EXCEPT !.head = R[m], !.skip = @ \/ S[m].open]
                ELSE IF m = n THEN [S[m] EXCEPT !.head = R[m]] ELSE S[m]]
MutantUpdateCommits(S0, T, R, n) ==   \* skips a revert of what has landed
  LET reverts == Reverted(S0, n)
      S == TakenOver(S0, R, n, reverts)
  IN  IF reverts # {} THEN {Out(Put(S, n, [S[n] EXCEPT !.skip = TRUE, !.error = FALSE]), T, "none")}
      ELSE {Out(Put(S, n, a.sync), T, a.raised) : a \in Apply(S[n], n)}
UpdateCommits(S0, T, R, n) ==
  LET reverts == Reverted(S0, n)
      S == TakenOver(S0, R, n, reverts)
  IN  IF reverts # {} /\ \A m \in reverts : S0[m].open
      THEN {Out(Put(S, n, [S[n] EXCEPT !.skip = TRUE, !.error = FALSE]), T, "none")}
      ELSE {Out(Put(S, n, a.sync), T, a.raised) : a \in Apply(S[n], n)}

(***************************************************************************)
(* try_rebase.  gecko-base is a name, resolved anew by each handler, so    *)
(* its value differs after the rebase only if it named the integration     *)
(* branch before; without a difference the rebase does not count.          *)
(***************************************************************************)
TryRebase(S, T, n) ==
  LET moved  == [S[n] EXCEPT !.base = central, !.onto = FALSE, !.rebased = @ \/ S[n].onto]
      failed == [S[n] EXCEPT !.rebased = TRUE]
  IN  {Out(Put(S, n, moved), T, "none")}
        \cup When("rebase" \in Faults, {Out(Put(S, n, failed), T, "abort")})

MutantCreateTry(S, T, n, stability) ==   \* without a status
  LET t == [stability |-> stability, head |-> S[n].head, gecko |-> Gecko(S[n]), status |-> NoSync,
            infra |-> FALSE, group |-> FALSE, news |-> FALSE, result |-> "none"]
  IN  When(Len(T[n]) < MaxTries, {Out(S, [T EXCEPT ![n] = Append(@, t)], "none")})
\* TryPush.create.
CreateTry(S, T, n, stability) ==
  LET t == [stability |-> stability, head |-> S[n].head, gecko |-> Gecko(S[n]), status |-> "open",
            infra |-> FALSE, group |-> FALSE, news |-> FALSE, result |-> "none"]
  IN  When(Len(T[n]) < MaxTries, {Out(S, [T EXCEPT ![n] = Append(@, t)], "none")})
        \cup When("closed" \in Faults, {Out(S, T, "retry")})

\* The try push that action asks for, if it asks for one.
Schedule(S, T, n, action) ==
  IF action = "try_push" THEN CreateTry(S, T, n, FALSE)
  ELSE IF action = "try_push_stability" THEN CreateTry(S, T, n, TRUE)
  ELSE {Out(S, T, "none")}

\* next_try_push.
NextTryPush(S0, T, R, n, merged) ==
  LET applied   == UpdateCommits(S0, T, R, n)
      tested    == UNION {IF Raised(o) THEN {o}
                          ELSE {Out(Put(o.sync, n, s), T, "none") :
                                  s \in AffectedTests(o.sync[n], n)} : o \in applied}
      Action(o) == NextAction(o.sync, T, R, n, merged)
      rebased   == UNION {IF ~Raised(o) /\ Action(o) = "try_rebase" THEN TryRebase(o.sync, T, n)
                          ELSE {o} : o \in tested}
  IN  IF S0[n].skip \/ ~S0[n].open THEN {Out(S0, T, "none")}
      ELSE UNION {IF Raised(o) THEN {o} ELSE Schedule(o.sync, T, n, Action(o)) : o \in rebased}

-----------------------------------------------------------------------------
(* The handlers. *)

\* update_github_check asserts that the sync has a bug.
CheckBug(outs, n) ==
  {IF Raised(o) \/ o.sync[n].bug THEN o ELSE Out(o.sync, o.tries, "error") : o \in outs}
\* create_bug; raised is "none" where its failure is caught.
CreateBug(S, T, n, raised) ==
  {Out(Put(S, n, [S[n] EXCEPT !.bug = TRUE]), T, "none")}
    \cup When("bug" \in Faults /\ ~S[n].bug, {Out(S, T, raised)})
\* except: sync.error = e; raise
Flag(outs, n) ==
  {IF Raised(o) THEN Out(Put(o.sync, n, [o.sync[n] EXCEPT !.error = TRUE]), o.tries, o.raised)
   ELSE o : o \in outs}

\* finish, whose setter of status asserts that there is a bug.
Finish(s) == IF s.bug THEN [s EXCEPT !.open = FALSE, !.error = FALSE] ELSE [s EXCEPT !.error = TRUE]

(***************************************************************************)
(* update_pr of downstream.py.  A PR closed unmerged finishes its sync, a  *)
(* merged or reopened one is tested; other events only see to the bug.     *)
(***************************************************************************)
UpdatePr(S0, T, R, n, action, merged) ==
  LET Handle(S) ==
        CASE action = "closed"   -> NextTryPush(S, T, R, n, merged)
          [] action = "reopened" ->
               NextTryPush(Put(S, n, [S[n] EXCEPT !.open = TRUE]), T, R, n, merged)
          [] OTHER               -> {Out(S, T, "none")}
      outs == IF action = "closed" /\ ~merged
              THEN {Out(Put(S0, n, Finish(S0[n])), T, "none")}
              ELSE UNION {Handle(o.sync) : o \in CreateBug(S0, T, n, "none")}
  IN  Flag(CheckBug(outs, n), n)

\* new_wpt_pr; R are the refs it has fetched.
NewWptPr(S, T, R, n) ==
  LET s == [open |-> TRUE, error |-> FALSE, skip |-> FALSE, rebased |-> FALSE, bug |-> FALSE,
            head |-> R[n], of |-> 0, base |-> central, onto |-> FALSE, meta |-> 0, stash |-> 0,
            tests |-> "unknown"]
  IN  UNION {IF Raised(o) THEN {o} ELSE Flag(CheckBug(UpdateCommits(o.sync, T, R, n), n), n) :
               o \in CreateBug(Put(S, n, s), T, n, "error")}

\* handle_pr for a PR with a sync or without; R as above.
HandlePr(S, T, R, n, action, merged) ==
  UNION {IF Raised(o) THEN {o} ELSE UpdatePr(o.sync, T, R, n, action, merged) :
           o \in IF S[n] = NoSync THEN NewWptPr(S, T, R, n) ELSE {Out(S, T, "none")}}

(***************************************************************************)
(* update_metadata for failed tests: the metadata commit changes if they   *)
(* are new.  It may raise, and then the try push is left as it was.        *)
(***************************************************************************)
UpdateMetadata(s) ==
  {[sync |-> s, raised |-> "none"]}
    \cup When("metadata" \in Faults, {[sync |-> s, raised |-> "error"]})
    \cup {IF x.stash = 0 /\ x.meta = 0 /\ s.stash # 0 THEN [sync |-> x, raised |-> "error"]
          ELSE [sync |-> [x EXCEPT !.meta = @ + 1], raised |-> "none"] :
            x \in {x \in Restore(s) : x.meta < MaxMeta}}

(***************************************************************************)
(* try_push_complete of downstream.py for the k-th try push of PR n, whose *)
(* tasks have ended.                                                       *)
(***************************************************************************)
TryPushComplete(S0, T0, R, n, k) ==
  LET t    == T0[n][k]
      Set(u) == [T0 EXCEPT ![n] = [@ EXCEPT ![k] = u]]
      done == [t EXCEPT !.status = "complete"]
      merged == gh[n] = "merged"
      failed == UNION {IF s.tests = "none" THEN {[sync |-> s, raised |-> "none"]}
                       ELSE UpdateMetadata(s) : s \in AffectedTests(S0[n], n)}
      outs ==
        IF t.status = "complete" THEN NextTryPush(S0, T0, R, n, merged)
        ELSE IF t.result \in {"invalid", "notests"}
        THEN NextTryPush(S0, Set([done EXCEPT !.infra = TRUE]), R, n, merged)
        ELSE IF t.result = "builds"
        THEN {Out(Put(S0, n, [S0[n] EXCEPT !.error = TRUE]), Set([done EXCEPT !.infra = TRUE]), "abort")}
        ELSE IF t.result = "success" THEN NextTryPush(S0, Set(done), R, n, merged)
        ELSE UNION {IF m.raised # "none" THEN {Out(Put(S0, n, m.sync), T0, m.raised)}
                    ELSE NextTryPush(Put(S0, n, m.sync), Set(done), R, n, merged) :
                      m \in failed}
  IN  IF ~t.group \/ ~S0[n].bug THEN {Out(S0, T0, "none")}
      ELSE {IF ~Raised(o) /\ o.sync[n].meta # 0 /\ o.sync[n].of = 0   \* the change was rebased away
            THEN Out(Put(o.sync, n, [o.sync[n] EXCEPT !.skip = TRUE]), o.tries, "none") ELSE o : o \in outs}

MutantEnded(t) == t.result \notin {"none", "running", "builds"}   \* some do not count
Ended(t) == t.result \notin {"none", "running"}

(***************************************************************************)
(* update_pr of update.py for a merged PR that is not landable, as the     *)
(* retrigger task calls it.  A valid try push without a taskgroup id is    *)
(* waited for; one whose tasks have ended is completed.                    *)
(***************************************************************************)
RetriggerPr(S0, T, R, n) ==
  LET bug   == CreateBug(S0, T, n, "error")
      valid == LatestValid(S0, T, R, n)
      ends  == \E t \in valid : t.group /\ t.status = "open" /\ Ended(t)
      tasks == UNION {IF ~Raised(o) /\ R[n] = o.sync[n].head /\ ends   \* AbortErrors are caught
                      THEN {IF c.raised = "abort" THEN Out(c.sync, c.tries, "none") ELSE c :
                              c \in TryPushComplete(o.sync, T, R, n, Len(T[n]))}
                      ELSE {o} : o \in bug}
      waits == R[n] = S0[n].head /\ \E t \in valid : ~t.group
  IN  IF S0[n] = NoSync THEN HandlePr(S0, T, R, n, "opened", TRUE)
      ELSE IF ~S0[n].open THEN {Out(S0, T, "none")}
      ELSE IF waits THEN bug
      ELSE UNION {IF Raised(o) THEN {o} ELSE HandlePr(o.sync, o.tries, R, n, "closed", TRUE) :
                    o \in tasks}

-----------------------------------------------------------------------------
(* The worker's steps. *)

PrEvent(n) ==
  LET e == Head(events[n])
      R == IF sync[n] = NoSync THEN head ELSE ref
  IN  /\ events[n] # <<>>
      /\ "stale" \in Faults \/ e.action # "closed" \/ R[n] = head[n]
      /\ \E o \in HandlePr(sync, tries, R, n, e.action, e.merged) :
           /\ sync' = o.sync /\ tries' = o.tries /\ ref' = R
           /\ events' = IF o.raised = "retry" THEN events ELSE [events EXCEPT ![n] = Tail(@)]
      /\ UNCHANGED <<gh, head, central, landed>>

(***************************************************************************)
(* A task of the k-th try push ended and all have, or its group did; both  *)
(* messages may come, in any order.                                        *)
(***************************************************************************)
TaskGroupHandler(n, k) ==
  /\ Ended(tries[n][k])
  /\ \E o \in TryPushComplete(sync, tries, ref, n, k) :
       /\ sync' = o.sync
       /\ LET t == [o.tries[n][k] EXCEPT !.news = o.raised = "retry"]
          IN  tries' = [o.tries EXCEPT ![n] = [@ EXCEPT ![k] = t]]
  /\ UNCHANGED <<world, ref>>

Retrigger(n) ==
  /\ gh[n] = "merged" /\ n \notin landed /\ ~Landable(sync, tries, head, n)
  /\ ref' = head
  /\ \E o \in RetriggerPr(sync, tries, head, n) : sync' = o.sync /\ tries' = o.tries
  /\ UNCHANGED world

\* A landing takes the PR (see Landing); try_notify_downstream finishes its sync, with a bug.
Land(n) ==
  /\ gh[n] = "merged" /\ n \notin landed /\ Landable(sync, tries, head, n)
  /\ "late" \in Faults \/ events[n] = <<>>
  /\ ref' = head
  /\ landed' = landed \cup {n}
  /\ sync' = [sync EXCEPT ![n] = IF @.bug THEN Finish(@) ELSE @]
  /\ UNCHANGED <<gh, head, events, central, tries>>

\* Any other handler that updates the repositories.
Fetch == ref # head /\ ref' = head /\ UNCHANGED <<world, sync, tries>>

-----------------------------------------------------------------------------
(* The world. *)

\* GitHub sends an event for PR n, which may be lost.
Send(n, action) ==
  LET e == [action |-> action, merged |-> gh'[n] = "merged"] IN
  /\ Len(events[n]) < MaxEvents
  /\ events' \in {[events EXCEPT ![n] = Append(@, e)]} \cup When("lost" \in Faults, {events})
  /\ UNCHANGED <<ref, central, sync, tries, landed>>

OpenPr(n) ==
  /\ gh[n] = "none" /\ \A m \in PR : <<n, m>> \in Reverts => gh[m] = "merged"
  /\ gh' = [gh EXCEPT ![n] = "open"] /\ head' = [head EXCEPT ![n] = 1]
  /\ Send(n, "opened")

PushPr(n) ==
  /\ gh[n] = "open" /\ head[n] < MaxHeads
  /\ head' = [head EXCEPT ![n] = @ + 1] /\ UNCHANGED gh
  /\ Send(n, "synchronize")

ClosePr(n) ==
  /\ gh[n] = "open"
  /\ \E g \in {"merged", "closed"} :
       /\ g = "closed" => "abandon" \in Faults \/ \A m \in PR : <<n, m>> \notin Reverts
       /\ gh' = [gh EXCEPT ![n] = g]
  /\ UNCHANGED head /\ Send(n, "closed")

ReopenPr(n) ==
  /\ gh[n] = "closed"
  /\ gh' = [gh EXCEPT ![n] = "open"] /\ UNCHANGED head
  /\ Send(n, "reopened")

\* The decision task of an open try push ends; or lando refuses the push (poll_try_rev).
TryScheduled(n, k) ==
  LET t == tries[n][k]
      busted == [t EXCEPT !.status = "complete", !.infra = TRUE, !.result = "notests"]
  IN  /\ t.result = "none"
      /\ \E u \in {[t EXCEPT !.group = TRUE, !.result = "running"]}
                    \cup When("refused" \in Faults, {busted})
                    \cup When("decision" \in Faults, {[busted EXCEPT !.group = TRUE]}) :
           tries' = [tries EXCEPT ![n][k] = u]
      /\ UNCHANGED <<world, ref, sync>>

TryEnds(n, k) ==
  /\ tries[n][k].result = "running"
  /\ \E r \in Results :
       tries' = [tries EXCEPT ![n][k] = [@ EXCEPT !.result = r, !.news = TRUE]]
  /\ UNCHANGED <<world, ref, sync>>

CentralMoves ==
  /\ central < MaxBase /\ central' = central + 1
  /\ UNCHANGED <<gh, head, ref, events, sync, tries, landed>>

Next ==
  \/ \E n \in PR :
       \/ PrEvent(n) \/ Retrigger(n) \/ Land(n)
       \/ OpenPr(n) \/ PushPr(n) \/ ClosePr(n) \/ ReopenPr(n)
       \/ \E k \in DOMAIN tries[n] : TaskGroupHandler(n, k) \/ TryScheduled(n, k) \/ TryEnds(n, k)
  \/ Fetch \/ CentralMoves

Spec == Init /\ [][Next]_vars

(***************************************************************************)
(* The worker handles the messages it is sent, runs the retrigger task and *)
(* fetches; decision tasks and tasks end.                                  *)
(***************************************************************************)
Fairness ==
  /\ WF_vars(Fetch)
  /\ \A n \in PR : WF_vars(PrEvent(n)) /\ WF_vars(Retrigger(n))
  /\ \A n \in PR, k \in 1..MaxTries :
       /\ WF_vars(k \in DOMAIN tries[n] /\ TryScheduled(n, k))
       /\ WF_vars(k \in DOMAIN tries[n] /\ TryEnds(n, k))
       /\ WF_vars(k \in DOMAIN tries[n] /\ tries[n][k].news /\ TaskGroupHandler(n, k))

FairSpec == Spec /\ Fairness

-----------------------------------------------------------------------------
(***************************************************************************)
(* What lands was tested: when a landing takes a PR whose commits change   *)
(* gecko, a try push of the very commits that were merged is complete, has *)
(* results, and is a stability one if they affect tests (next_action).     *)
(* Only a PR and one that reverts it need none: if the revert is still     *)
(* open or merged, and came before the other landed, which marks "both as  *)
(* skip" (update_commits).                                                 *)
(***************************************************************************)
Excused(n) ==
  \E p \in Reverts : /\ n \in {p[1], p[2]} /\ gh[p[1]] \in {"open", "merged"}
                     /\ sync[p[2]] # NoSync /\ sync[p[2]].skip
Tested(n) ==
  \E t \in ToSet(tries[n]) :
    /\ t.status = "complete" /\ Completed(t) /\ t.gecko[1] = head[n]
    /\ <<n, head[n]>> \in HasTests => t.stability
LandedWasTested ==
  [][\A n \in landed' \ landed : <<n, head[n]>> \notin NoChange => Excused(n) \/ Tested(n)]_vars

(***************************************************************************)
(* Once a sync has a metadata commit, it has that one or a later one, on   *)
(* its branch or stashed "so it can be restored next time"                 *)
(* (wpt_to_gecko_commits), through every new push, failure and retry.      *)
(***************************************************************************)
MetadataKept ==
  [][\A n \in PR : sync[n] # NoSync =>
       LET kept(s) == {s.meta, s.stash}
       IN  \A i \in kept(sync[n]) : \E j \in kept(sync'[n]) : j >= i]_vars

(***************************************************************************)
(* Stability try pushes are "very costly" (next_action): the same commits  *)
(* get a second one only if the first did not give results.  If there was  *)
(* a metadata commit before the first, from an earlier push of the PR or   *)
(* from renamed tests, what update_metadata makes of it is tested again.   *)
(***************************************************************************)
NotRetested ==
  \A n \in PR : \A j, k \in DOMAIN tries[n] :
    LET t == tries[n] IN
    (/\ t[j].gecko[3] = 0
     /\ j < k /\ t[j].stability /\ t[k].stability
     /\ t[j].status = "complete" /\ Completed(t[j])) =>
      <<t[j].gecko[1], t[j].gecko[2]>> # <<t[k].gecko[1], t[k].gecko[2]>>

(***************************************************************************)
(* "Should get later events with the PR; notice we don't have a record of  *)
(* it and start the sync process" (docs/behaviour.md): the sync of a       *)
(* merged PR becomes landable in the end, or an error or next_action says  *)
(* that an operator is needed.                                             *)
(***************************************************************************)
Settled(n) ==
  \/ n \in landed \/ Landable(sync, tries, ref, n)
  \/ sync[n] # NoSync /\ (sync[n].error \/ NextAction(sync, tries, ref, n, TRUE) = "manual_fix")
MergedIsSettled == \A n \in PR : gh[n] = "merged" ~> Settled(n)

=============================================================================
