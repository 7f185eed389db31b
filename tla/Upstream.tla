------------------------------ MODULE Upstream ------------------------------
(***************************************************************************)
(* Upstreaming gecko changes to wpt: sync/upstream.py, with the push, pull *)
(* request and check run handlers and the commands that drive it.          *)
(*                                                                         *)
(* Commit n is the n-th commit of autoland that touches wpt; central has a *)
(* prefix of them.  A commit is a change for a bug, or a backout of        *)
(* earlier changes.  A sync collects the commits of a bug from `base' on,  *)
(* makes wpt commits of them on a branch, and sees to it that a PR for     *)
(* that branch is merged when all of them are on central.                  *)
(*                                                                         *)
(* The upstream lock is held for a whole gecko push, a command, or the     *)
(* handler of an event, so these do not overlap; `job' is the one of the   *)
(* first two that is running, and a crash ends it between two of its       *)
(* steps.                                                                  *)
(***************************************************************************)
EXTENDS Integers, Sequences, FiniteSets, SequencesExt

CONSTANTS
  Bugs,          \* the bugs that commits are for: a set of numbers
  MaxCommits,    \* bound: commits on autoland
  MaxSyncs,      \* bound: syncs that are created
  Repos,         \* the branches whose pushes are handled
  Backouts,      \* what is backed out: a set of BackoutKinds
  Relands,       \* may a bug get changes after a backout?
  Others,        \* what others do to a PR: a set of OtherKinds
  Commands,      \* are the commands `update' and `bug' run?
  Faults         \* what may fail: a set of FaultKinds

Repo == {"autoland", "central"}
(* All changes of a bug; the last or first of several; all of two bugs; another one before *)
(* the first was handled.                                                                 *)
BackoutKinds == {"whole", "last", "first", "shared", "two"}
OtherKinds   == {"merge", "close", "reopen"}
(* A patch does not apply; a push to the branch fails; a call to GitHub raises; a  *)
(* bug cannot be filed; the author cannot be asked; the process dies.              *)
FaultKinds   == {"apply", "push", "github", "bug", "needinfo", "crash"}

ASSUME BugAssumption    == Bugs \subseteq Nat /\ IsFiniteSet(Bugs)
ASSUME BoundAssumption  == MaxCommits \in Nat /\ MaxSyncs \in Nat
ASSUME ChoiceAssumption ==
  /\ Repos \subseteq Repo /\ Backouts \subseteq BackoutKinds /\ Relands \in BOOLEAN
  /\ Others \subseteq OtherKinds /\ Commands \in BOOLEAN /\ Faults \subseteq FaultKinds

VARIABLES
  log,       \* the commits on autoland
  central,   \* how many of them are on central
  known,     \* how many the local ref of central has
  point,     \* last sync point: how many commits gecko_push has processed, by branch
  noted,     \* commits with an upstream-sync note
  syncs,     \* the syncs, in the order of their creation
  master,    \* the changes on wpt master
  filed,     \* backouts for which a bug of its own was filed
  job        \* what the worker or the command is in the middle of

vars == <<log, central, known, point, noted, syncs, master, filed, job>>

Commit == 1..MaxCommits
Statuses == {"open", "wpt-merged", "complete", "incomplete"}
(* wpt: the gecko commits that the local branch has wpt commits for, in order; on: *)
(* the changes in the wpt commit it forks from; pr: the PR as it is on GitHub; sent: *)
(* the same as wpt for the branch on GitHub ({} if there is none).                 *)
Sync == [bug : Bugs, base : 0..MaxCommits, head : Commit, wpt : SUBSET Commit,
         on : SUBSET Commit, status : Statuses, error : BOOLEAN,
         pr : {"none", "open", "closed", "merged"}, sent : SUBSET Commit]
Idle == [kind |-> "idle", repo |-> "autoland", rev |-> 0, todo |-> {}, land |-> {}]

TypeOK ==
  /\ log \in Seq([bug : Bugs, outs : SUBSET Commit]) /\ Len(log) <= MaxCommits
  /\ central \in 0..Len(log) /\ known \in 0..central
  /\ point \in [Repo -> 0..Len(log)]
  /\ noted \subseteq 1..Len(log) /\ filed \subseteq 1..Len(log)
  /\ syncs \in Seq(Sync) /\ Len(syncs) <= MaxSyncs
  /\ master \subseteq 1..Len(log)
  /\ job \in [kind : {"idle", "push", "update", "land"}, repo : Repo, rev : 0..Len(log),
              todo : SUBSET (1..Len(syncs)), land : SUBSET (1..Len(syncs))]

Init ==
  /\ log = <<>> /\ central = 0 /\ known = 0 /\ point = [r \in Repo |-> 0]
  /\ noted = {} /\ syncs = <<>> /\ master = {} /\ filed = {} /\ job = Idle

-----------------------------------------------------------------------------
(* Commits. *)

Ends(S)   == {n \in S : \A m \in S : m <= n}
Starts(S) == {n \in S : \A m \in S : n <= m}
Highest(S) == CHOOSE n \in Ends(S) : TRUE
Lowest(S)  == CHOOSE n \in Starts(S) : TRUE
Upto(n, S) == {w \in S : Cardinality({v \in S : v <= w}) <= n}   \* its first n elements

IsBackout(c) == log[c].outs # {}
BackedOut(S) == UNION {log[c].outs : c \in S}
Changes(S)   == {c \in S : ~IsBackout(c)}

\* How many of them gecko_push has processed, for some branch.
Processed == IF point["autoland"] < point["central"] THEN point["central"] ELSE point["autoland"]

\* The changes in gecko's tree after n commits; those of bug b.
Tree(n)     == Changes(1..n) \ BackedOut(1..n)
Of(b, S)    == {c \in S : log[c].bug = b}
\* A tree with changes M, after the commits S.
Apply(M, S) == (M \cup Changes(S)) \ BackedOut(S)

(***************************************************************************)
(* remove_complete_backouts: a backout of commits that are all in the list *)
(* goes, and they with it.  (A change is backed out at most once.)         *)
(***************************************************************************)
NoPairs(S) ==
  LET pairs == {c \in S : IsBackout(c) /\ log[c].outs \subseteq S}
  IN  S \ (pairs \cup BackedOut(pairs))

\* What is between base and head now: the list is made again when one of them moved.
CommitRange(s) == (s.base + 1)..s.head

(***************************************************************************)
(* BackoutCommitFilter: of the commits between base and head, those of the *)
(* bug and the backouts of what was seen of it; then without pairs.        *)
(***************************************************************************)
GeckoCommits(s) ==
  LET range == CommitRange(s)
      seen  == Of(s.bug, range)
  IN  NoPairs({c \in range : c \in seen \/ log[c].outs \cap seen # {}})

-----------------------------------------------------------------------------
(* updated_syncs_for_push: what a range of commits asks for. *)

\* for_bug with the statuses open and incomplete.
MutantOpenSyncs(b) == {i \in DOMAIN syncs : syncs[i].bug = b /\ syncs[i].status = "open"}
OpenSyncs(b) ==
  {i \in DOMAIN syncs : syncs[i].bug = b /\ syncs[i].status \in {"open", "incomplete"}}

\* The commits that no sync took note of.
New(from, to) == NoPairs((from + 1)..to) \ noted

\* New commits that move the head of an open sync: of its bug, or backouts of its wpt commits.
MutantNews(i, new) == {c \in Of(syncs[i].bug, new) : ~IsBackout(c)}   \* backouts are not taken
News(i, new) ==
  {c \in new : /\ c \notin GeckoCommits(syncs[i])
               /\ \/ log[c].bug = syncs[i].bug
                  \/ log[c].outs \cap Of(syncs[i].bug, syncs[i].wpt) # {}}

(* A new commit that a sync has already, while it has no PR. *)
Revisit(i, new) ==
  syncs[i].pr = "none" /\ Of(syncs[i].bug, new) \cap GeckoCommits(syncs[i]) # {}

Updated(new) ==
  {i \in DOMAIN syncs : /\ i \in OpenSyncs(syncs[i].bug)
                        /\ News(i, new) # {} \/ Revisit(i, new)}

\* updates_for_backout: backouts of more than open syncs have, and bugs that may take them.
Homeless(new) ==
  {k \in new : \E c \in log[k].outs : \A i \in OpenSyncs(log[c].bug) : c \notin syncs[i].wpt}
FreeBugs(k) == {b \in {log[c].bug : c \in log[k].outs} : OpenSyncs(b) = {}}
Takings(new) ==
  LET takers == {k \in Homeless(new) : FreeBugs(k) # {}}
  IN  {f \in [takers -> Bugs] : \A k \in takers : f[k] \in FreeBugs(k)}

(***************************************************************************)
(* The sync created for bug b.  A backout that is taken for it starts its  *)
(* range anew.                                                             *)
(***************************************************************************)
Given(b, new, taken) == Of(b, new) \cup {k \in DOMAIN taken : taken[k] = b}
Created(new, taken)  == {b \in Bugs : OpenSyncs(b) = {} /\ Given(b, new, taken) # {}}
Endpoints(first, last) == [base |-> first - 1, head |-> last]
NewSync(b, new, taken) ==
  LET given  == Given(b, new, taken)
      resets == {k \in DOMAIN taken : taken[k] = b}
      ends   == Endpoints(IF resets # {} THEN Highest(resets) ELSE Lowest(given), Highest(given))
  IN  [bug |-> b, base |-> ends.base, head |-> ends.head, wpt |-> {}, on |-> master,
       status |-> "open", error |-> FALSE, pr |-> "none", sent |-> {}]

-----------------------------------------------------------------------------
(* update_modified_sync: every outcome of a call is a record, with `ok' if it did  *)
(* not raise.                                                                      *)

Ok(s)     == [s |-> s, ok |-> TRUE]
Raised(s) == [s |-> s, ok |-> FALSE]
May(fault, s) == IF fault \in Faults THEN {Raised(s)} ELSE {}

MutantFinish(s, status) == [s EXCEPT !.status = "merged"]   \* the status of the PR
Finish(s, status) == [s EXCEPT !.status = status, !.error = FALSE]

(***************************************************************************)
(* update_wpt_commits.  The gecko commits up to the last one that has a    *)
(* wpt commit are taken to match; the branch is cut after as many commits, *)
(* and the others are applied, each of which may fail.                     *)
(***************************************************************************)
UpdateWptCommits(s) ==
  LET G        == GeckoCommits(s)
      matching == {g \in G : \E w \in G \cap s.wpt : g <= w}
      n        == Cardinality(matching)
      start    == IF n < Cardinality(s.wpt) THEN Upto(n, s.wpt) ELSE s.wpt
      on       == IF n = 0 THEN master ELSE s.on
      rest     == G \ matching
      before(c) == start \cup {d \in rest : d < c}
      fails    == Starts({c \in rest : ~(log[c].outs \subseteq on \cup before(c))})
      stops    == IF "apply" \notin Faults THEN fails
                  ELSE {c \in rest : \A f \in fails : c <= f}
      moved(W) == [s EXCEPT !.wpt = W, !.on = on]
  IN  IF n = Cardinality(G) /\ n = Cardinality(s.wpt) THEN {Ok(s)}
      ELSE (IF fails = {} THEN {Ok(moved(start \cup rest))} ELSE {})
             \cup {Raised(moved(before(c))) : c \in stops}

(* push_commits and create_pr, then the landed status. *)
MutantPushCommits(s) ==   \* an existing branch is left alone
  {Ok(IF s.pr = "none" THEN [s EXCEPT !.sent = s.wpt, !.pr = "open"] ELSE s)}
PushCommits(s) ==
  LET pushed == [s EXCEPT !.sent = s.wpt]
      opened == [pushed EXCEPT !.pr = IF @ = "none" THEN "open" ELSE @]
  IN  (IF s.sent # s.wpt THEN May("push", s) ELSE {})
        \cup May("github", pushed) \cup May("github", opened) \cup {Ok(opened)}

(***************************************************************************)
(* update_github: the PR of a sync without commits is closed; a closed one *)
(* is reopened before its branch is pushed to; a merged one finishes the   *)
(* sync if it has as many wpt commits as gecko commits.                    *)
(***************************************************************************)
MutantUpdateGithub(s) ==   \* a closed PR is not reopened before the push
  IF GeckoCommits(s) = {} THEN {Ok([s EXCEPT !.pr = IF @ = "open" THEN "closed" ELSE @])}
  ELSE IF s.pr = "merged" THEN {Ok(Finish(s, "complete"))} ELSE PushCommits(s)
MutantClosed(s) ==         \* a closed PR is taken to be merged
  IF GeckoCommits(s) = {} THEN {Ok([s EXCEPT !.pr = IF @ = "open" THEN "closed" ELSE @])}
  ELSE IF s.pr \in {"closed", "merged"} THEN {Ok(Finish(s, "complete"))} ELSE PushCommits(s)
UpdateGithub(s) ==
  LET G == GeckoCommits(s)
      reopened == [s EXCEPT !.pr = IF @ = "closed" THEN "open" ELSE @]
  IN  IF G = {} THEN
        May("github", s) \cup {Ok([s EXCEPT !.pr = IF @ = "open" THEN "closed" ELSE @])}
      ELSE IF s.pr = "merged" THEN
        May("github", s) \cup
        {Ok(IF Cardinality(s.wpt) = Cardinality(G) THEN Finish(s, "complete") ELSE s)}
      ELSE (IF s.pr = "none" THEN {} ELSE May("github", s))
             \cup (IF s.wpt = {} THEN {Ok(reopened)} ELSE PushCommits(reopened))

(***************************************************************************)
(* An AbortError of update_wpt_commits is raised again only if there is no *)
(* PR: with one, what was applied of the commits is taken to GitHub.  The  *)
(* error of the sync is that of the whole update.                          *)
(***************************************************************************)
UpdateModifiedSync(s) ==
  LET outcomes ==
        IF GeckoCommits(s) = {} THEN
          LET empty == [s EXCEPT !.status = "incomplete"]
          IN  IF s.pr = "none" THEN {Ok(empty)} ELSE UpdateGithub(empty)
        ELSE UNION {IF o.ok \/ s.pr # "none" THEN UpdateGithub(o.s) ELSE {o} :
                      o \in UpdateWptCommits([s EXCEPT !.status = "open"])}
  IN  {[o.s EXCEPT !.error = ~o.ok] : o \in outcomes}

-----------------------------------------------------------------------------
(* try_land_pr. *)

\* gecko_landed: all commits are on central, as far as the local ref has it.
MutantGeckoLanded(s) == \E c \in GeckoCommits(s) : c <= known
GeckoLanded(s) == GeckoCommits(s) # {} /\ \A c \in GeckoCommits(s) : c <= known

(* GitHub refuses to merge a PR whose checks fail, that conflicts or is not approved. *)
MutantTryLandPr(s) ==   \* whatever is open
  IF s.status = "open" /\ s.pr = "open"
  THEN {Ok(s), Ok([Finish(s, "wpt-merged") EXCEPT !.pr = "merged"])} ELSE {Ok(s)}
TryLandPr(s) ==
  IF s.status # "open" \/ ~GeckoLanded(s) \/ s.pr = "none" THEN {Ok(s)}
  ELSE May("github", s) \cup
       CASE s.pr = "merged" -> {Ok(Finish(s, "wpt-merged"))}
         [] s.pr = "closed" -> {Ok(s)}
         [] s.pr = "open"   -> {Ok(s), Ok([Finish(s, "wpt-merged") EXCEPT !.pr = "merged"])}

(* The outcome for sync i; its branch is on master if its PR was merged by it. *)
Set(i, s) ==
  /\ syncs' = [syncs EXCEPT ![i] = s]
  /\ master' = IF s.pr = "merged" /\ syncs[i].pr # "merged" THEN Apply(master, s.sent)
               ELSE master

-----------------------------------------------------------------------------
(* gecko_push: new syncs are created and heads are moved, then each of these syncs *)
(* is updated, then all that may land are tried, and the sync point is moved.      *)

Landable(S) == {i \in DOMAIN S : S[i].status = "open" /\ ~S[i].error}

\* What is left of a job when the syncs are S: first those to update, then those to land.
Left(kind, todo, S) ==
  IF todo # {} THEN [job EXCEPT !.kind = kind, !.todo = todo]
  ELSE [job EXCEPT !.kind = "land", !.todo = {},
                   !.land = IF kind = "push" THEN Landable(S) ELSE @ \cap Landable(S)]

Tip(r) == IF r = "autoland" THEN Len(log) ELSE central

MutantTake(r, rev, new, taken) ==   \* syncs are created but heads not moved
  LET created == SetToSeq(Created(new, taken))
      S == syncs \o [j \in DOMAIN created |-> NewSync(created[j], new, taken)]
      touched == (Len(syncs) + 1)..Len(S)
  IN  /\ Len(S) <= MaxSyncs
      /\ syncs' = S
      /\ noted' = noted \cup UNION {GeckoCommits(S[i]) : i \in touched}
      /\ filed' = filed
      /\ job' = [job EXCEPT !.kind = "push", !.repo = r, !.rev = rev, !.todo = touched]
Take(r, rev, new, taken) ==
  LET created == SetToSeq(Created(new, taken))
      moved   == [i \in DOMAIN syncs |->
                    IF i \in Updated(new) /\ News(i, new) # {}
                    THEN [syncs[i] EXCEPT !.head = Highest(News(i, new))] ELSE syncs[i]]
      S       == moved \o [j \in DOMAIN created |-> NewSync(created[j], new, taken)]
      touched == Updated(new) \cup (Len(syncs) + 1)..Len(S)
      started == [job EXCEPT !.repo = r, !.rev = rev]
  IN  /\ Len(S) <= MaxSyncs
      /\ syncs' = S
      /\ noted' = noted \cup UNION {GeckoCommits(S[i]) : i \in touched}
      /\ filed' = filed \cup (Homeless(new) \ DOMAIN taken)
      /\ job' = IF touched # {} THEN [started EXCEPT !.kind = "push", !.todo = touched]
                ELSE [started EXCEPT !.kind = "land", !.land = Landable(S)]

(***************************************************************************)
(* The handler of a push fetches.  It returns, and leaves the sync point,  *)
(* if only backed out commits are new.                                     *)
(***************************************************************************)
GeckoPush(r, rev) ==
  /\ job = Idle /\ r \in Repos /\ rev \in (point[r] + 1)..Tip(r)
  /\ known' = central
  /\ LET new == New(point[r], rev)
     IN  \/ /\ NoPairs((point[r] + 1)..rev) = {}
            /\ UNCHANGED <<noted, syncs, filed, job>>
         \/ /\ NoPairs((point[r] + 1)..rev) # {}
            /\ \E taken \in Takings(new) : Take(r, rev, new, taken)
         \/ /\ "bug" \in Faults /\ \E k \in Homeless(new) : FreeBugs(k) = {}
            /\ UNCHANGED <<noted, syncs, filed, job>>
  /\ UNCHANGED <<log, central, point, master>>

(* update_sync_prs, one sync. *)
Update(i) ==
  /\ job.kind \in {"push", "update"} /\ i \in job.todo
  /\ \E s \in UpdateModifiedSync(syncs[i]) :
       /\ syncs' = [syncs EXCEPT ![i] = s]
       /\ job' = Left(job.kind, job.todo \ {i}, [syncs EXCEPT ![i] = s])
  /\ UNCHANGED <<log, central, known, point, noted, master, filed>>

(* try_land_syncs, one sync; what raises there ends the job. *)
Land(i) ==
  /\ job.kind = "land" /\ i \in job.land
  /\ \E o \in TryLandPr(syncs[i]) :
       /\ Set(i, o.s)
       /\ job' = IF o.ok THEN [job EXCEPT !.land = @ \ {i}] ELSE Idle
  /\ UNCHANGED <<log, central, known, point, noted, filed>>

Done ==
  /\ job.kind = "land" /\ job.land = {}
  /\ point' = IF job.rev > point[job.repo] THEN [point EXCEPT ![job.repo] = job.rev] ELSE point
  /\ job' = Idle
  /\ UNCHANGED <<log, central, known, noted, syncs, master, filed>>

Crash ==
  /\ "crash" \in Faults /\ job # Idle
  /\ job' = Idle
  /\ UNCHANGED <<log, central, known, point, noted, syncs, master, filed>>

-----------------------------------------------------------------------------
(* Commands and events. *)

(* update_sync, by the commands `bug' and `update': its job moves no sync point. *)
UpdateSync(i) ==
  /\ Commands /\ job = Idle /\ i \in OpenSyncs(syncs[i].bug)
  /\ known' = central
  /\ noted' = noted \cup GeckoCommits(syncs[i])
  /\ job' = [Idle EXCEPT !.kind = "update", !.todo = {i}, !.land = {i}]
  /\ UNCHANGED <<log, central, point, syncs, master, filed>>

(* update_pr of update.py, for the PR of an upstream sync: if it is merged the sync is *)
(* finished, as complete if it was landed back in gecko.                              *)
RefreshPr(i) ==
  /\ Commands /\ job = Idle /\ syncs[i].pr # "none" /\ syncs[i].status # "complete"
  /\ known' = central
  /\ \/ /\ syncs[i].pr = "merged" /\ syncs[i].status # "incomplete"
        /\ \E status \in {"wpt-merged", "complete"} : Set(i, Finish(syncs[i], status))
     \/ /\ syncs[i].pr # "merged"
        /\ \E o \in TryLandPr(syncs[i]) : Set(i, o.s)
  /\ UNCHANGED <<log, central, point, noted, filed, job>>

(* update_pr: the event that the PR was merged.  (An incomplete sync cannot change to  *)
(* wpt-merged: the handler raises.)                                                    *)
PrMerged(i) ==
  /\ job = Idle /\ syncs[i].pr = "merged" /\ syncs[i].status = "open"
  /\ Set(i, Finish(syncs[i], "wpt-merged"))
  /\ UNCHANGED <<log, central, known, point, noted, filed, job>>

(* commit_check_changed: the checks of the PR succeed, or fail. *)
CheckRun(i) ==
  /\ job = Idle /\ syncs[i].status = "open" /\ syncs[i].pr # "none"
  /\ \/ LET passed == [syncs[i] EXCEPT !.error = FALSE]
        IN  \E o \in IF GeckoLanded(passed) THEN TryLandPr(passed) ELSE {Ok(passed)} : Set(i, o.s)
     \/ "needinfo" \in Faults /\ Set(i, [syncs[i] EXCEPT !.error = TRUE])
  /\ UNCHANGED <<log, central, known, point, noted, filed, job>>

-----------------------------------------------------------------------------
(* Gecko, and others on GitHub. *)

Push(commit) ==
  /\ Len(log) < MaxCommits
  /\ log' = Append(log, commit)
  /\ UNCHANGED <<central, known, point, noted, syncs, master, filed, job>>

CommitChange(b) ==
  /\ Relands \/ \A c \in DOMAIN log : IsBackout(c) => log[c].bug # b
  /\ Push([bug |-> b, outs |-> {}])

BackOut(b) ==
  LET live == Of(b, Tree(Len(log)))
      sets == {outs \in {live} : "whole" \in Backouts}
                \cup {outs \in {Ends(live)} : "last" \in Backouts}
                \cup {outs \in {Starts(live)} : "first" \in Backouts}
                \cup {outs \in {live \cup Of(d, Tree(Len(log))) : d \in Bugs} : "shared" \in Backouts}
  IN  /\ live # {}
      /\ "two" \in Backouts \/ \A c \in Of(b, (Processed + 1)..Len(log)) : ~IsBackout(c)
      /\ \E outs \in sets : Push([bug |-> b, outs |-> outs])

MergeToCentral ==
  /\ central' \in (central + 1)..Len(log)
  /\ UNCHANGED <<log, known, point, noted, syncs, master, filed, job>>

OtherEdits(i) ==
  /\ \/ "merge"  \in Others /\ syncs[i].pr = "open"   /\ Set(i, [syncs[i] EXCEPT !.pr = "merged"])
     \/ "close"  \in Others /\ syncs[i].pr = "open"   /\ Set(i, [syncs[i] EXCEPT !.pr = "closed"])
     \/ "reopen" \in Others /\ syncs[i].pr = "closed" /\ Set(i, [syncs[i] EXCEPT !.pr = "open"])
  /\ UNCHANGED <<log, central, known, point, noted, filed, job>>

-----------------------------------------------------------------------------
Next ==
  \/ \E b \in Bugs : CommitChange(b) \/ BackOut(b)
  \/ MergeToCentral
  \/ \E r \in Repo, rev \in 1..Len(log) : GeckoPush(r, rev)
  \/ \E i \in DOMAIN syncs :
       \/ Update(i) \/ Land(i)
       \/ UpdateSync(i) \/ RefreshPr(i) \/ PrMerged(i) \/ CheckRun(i)
       \/ OtherEdits(i)
  \/ Done \/ Crash

Spec == Init /\ [][Next]_vars

(***************************************************************************)
(* The worker handles the last push to each branch and the events; the     *)
(* checks of a PR pass in the end, while it can be merged.                 *)
(***************************************************************************)
Merges(i) == CheckRun(i) /\ syncs'[i].pr = "merged"
Work      == Done \/ \E i \in DOMAIN syncs : Update(i) \/ Land(i)
FairSpec ==
  /\ Spec /\ WF_vars(Work)
  /\ \A r \in Repo : WF_vars(GeckoPush(r, Tip(r)))
  /\ \A i \in 1..MaxSyncs : WF_vars(i \in DOMAIN syncs /\ Merges(i))

-----------------------------------------------------------------------------
(* Properties. *)

(* A bug has at most one sync that is open or incomplete: updates_for_backout raises if there *)
(* are more, and updated_syncs_for_push takes any of them.                                    *)
OneOpenSync ==
  \A i, j \in DOMAIN syncs :
    /\ syncs[i].bug = syncs[j].bug
    /\ {syncs[i].status, syncs[j].status} \subseteq {"open", "incomplete"}
    => i = j

(* A sync is finished only when its PR was merged (update_github, try_land_pr, update_pr),  *)
(* whatever of its commits was applied; that all of them were is MergedWhole.               *)
FinishedMerged ==
  \A i \in DOMAIN syncs :
    syncs[i].status \in {"wpt-merged", "complete"} => syncs[i].pr = "merged"

(* What gecko_push has processed is on wpt master or in an open sync, and nothing else is:  *)
(* no change is forgotten, and a backout takes out what master has.                         *)
Pending == UNION {GeckoCommits(syncs[i]) : i \in {j \in DOMAIN syncs : syncs[j].status = "open"}}
Covered == job = Idle => Apply(master, Pending) = Tree(Processed)

(* try_land_pr merges a PR that has the gecko commits of its sync, all and only, and when   *)
(* they are on central.                                                                     *)
LandedHere(i) ==
  syncs[i].pr = "open" /\ syncs'[i].pr = "merged" /\ syncs'[i].status = "wpt-merged"
MergedWhole ==
  [][\A i \in DOMAIN syncs : LandedHere(i) =>
       /\ syncs[i].sent = GeckoCommits(syncs[i])
       /\ syncs[i].sent \subseteq 1..central]_vars

(* The branch of a PR that is closed is not pushed to (update_modified_sync: GitHub would   *)
(* not let it be reopened), also not when applying a commit failed and update_github goes   *)
(* on all the same: the PR is open again at the push.                                       *)
ClosedUntouched ==
  [][\A i \in DOMAIN syncs :
       syncs[i].pr = "closed" /\ syncs'[i].pr = "closed" => syncs'[i].sent = syncs[i].sent]_vars

(* When gecko is quiet, wpt master gets exactly the changes that gecko has. *)
Delivered == <>[](central = Len(log)) => <>[](master = Tree(Len(log)))

(* The promise of ChangeFlow. *)
Seen == IF job.rev > Processed THEN job.rev ELSE Processed
Flow == INSTANCE ChangeFlow WITH
  Change   <- Commit,
  wanted   <- [b \in Bugs |-> Of(b, Tree(Seen))],
  central  <- Changes(1..central),
  upstream <- [b \in Bugs |-> Of(b, master)]
FlowSpec == Flow!Spec
=============================================================================
