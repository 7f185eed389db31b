-------------------------- MODULE LandingCommits ---------------------------
(***************************************************************************)
(* The commits of a landing: unlanded_wpt_commits_by_pr groups the commits *)
(* of upstream's master by PR, landable_commits takes groups up to the     *)
(* first that cannot land, apply_prs makes a gecko commit of each and goes *)
(* on where an earlier call failed (landing.py); retrigger (update.py)     *)
(* takes up the PRs that cannot land.                                      *)
(*                                                                         *)
(* Try pushes and the push to gecko are those of Landing.  master is       *)
(* linear: PRs are squashed or rebased; see the README on merge commits.   *)
(***************************************************************************)
EXTENDS Integers, Sequences, FiniteSets, FiniteSetsExt, SequencesExt

CONSTANTS
  PR,          \* pull requests
  NoPr,        \* the PR of a commit whose PR is not known
  Zero,        \* PR number 0: a commit that has no PR
  SyncKinds,   \* what a sync of a PR may be: see Statuses
  NoLanding,   \* no landing is open
  MaxCommits   \* bound: commits of master

(***************************************************************************)
(* The status of a PR: it is that of an upstream sync and what gecko has;  *)
(* its downstream sync is "missing" try results (or has an error), is      *)
(* "ready", or ready with a "metadata" commit; or "empty", ready without a *)
(* change.  An upstream PR that got more commits is applied like "ready".  *)
(***************************************************************************)
Statuses == {"no_sync", "upstream", "missing", "ready", "metadata", "empty"}

ASSUME LandingCommitsAssumption ==
  /\ NoPr \notin PR /\ Zero \notin PR /\ NoPr # Zero
  /\ SyncKinds \subseteq Statuses \ {"no_sync"} /\ MaxCommits \in Nat

VARIABLES
  master,   \* the PR of each commit
  base,     \* the commit of the sync point
  status,   \* the status of each PR
  landing   \* the open landing

lvars == <<master, base, status, landing>>

GeckoCommit == [pr : PR, type : {"pr", "metadata"}, content : SUBSET (1..MaxCommits)]

LandingsTypeOK ==
  /\ master \in Seq(PR \cup {NoPr, Zero}) /\ Len(master) <= MaxCommits
  /\ base \in 0..Len(master)
  /\ status \in [PR -> SyncKinds \cup {"no_sync"}]
  /\ landing # NoLanding =>
       /\ landing.from = base /\ landing.to \in base + 1 .. Len(master)
       /\ landing.all \in BOOLEAN /\ landing.done \in BOOLEAN
       /\ landing.prs \in Seq(PR) /\ \A c \in ToSet(landing.commits) : c \in GeckoCommit

-----------------------------------------------------------------------------
(***************************************************************************)
(* unlanded_wpt_commits_by_pr for the commits after `from' up to `to'.  A  *)
(* commit of a PR that has a group moves that group to the end.            *)
(***************************************************************************)
AddCommit(groups, i) ==
  LET old == {g \in DOMAIN groups : groups[g].pr = master[i] /\ master[i] \in PR}
      g   == CHOOSE g \in old : TRUE
  IN  IF old = {} THEN Append(groups, [pr |-> master[i], commits |-> <<i>>])
      ELSE Append(RemoveAt(groups, g), [groups[g] EXCEPT !.commits = Append(@, i)])

Groups(from, to) == FoldLeft(AddCommit, <<>>, [n \in 1 .. to - from |-> from + n])

\* Commits with PR number 0 are passed over.
PassZero(groups, g) == IF g.pr = Zero THEN groups ELSE Append(groups, g)
Numbered(from, to)  == FoldLeft(PassZero, <<>>, Groups(from, to))

Landable(p)   == status[p] \notin {"no_sync", "missing"}
Downstream(p) == status[p] \in {"missing", "ready", "metadata", "empty"}

(***************************************************************************)
(* landable_commits: the first PR that is not landable ends the loop, and  *)
(* before that a commit without a known PR raises.  With                   *)
(* include_incomplete nothing ends the loop, but the assertion that a sync *)
(* exists fails for a PR that has none.                                    *)
(***************************************************************************)
MutantLandableCommits(from, to, all) ==   \* continue instead of break
  LET numbered == Numbered(from, to)
      taken    == SelectSeq(numbered, LAMBDA g : g.pr \in PR /\ (all \/ Landable(g.pr)))
  IN  IF \E g \in ToSet(numbered) : g.pr = NoPr \/ (all /\ status[g.pr] = "no_sync")
      THEN [outcome |-> "raised", taken |-> <<>>, head |-> from]
      ELSE IF taken = <<>> THEN [outcome |-> "nothing", taken |-> <<>>, head |-> from]
      ELSE [outcome |-> "landing", taken |-> taken, head |-> Last(Last(taken).commits)]
LandableCommits(from, to, all) ==
  LET numbered == Numbered(from, to)
      Stops(g) == g.pr = NoPr \/ (IF all THEN status[g.pr] = "no_sync" ELSE ~Landable(g.pr))
      ends     == {n \in DOMAIN numbered : Stops(numbered[n])}
      taken    == IF ends = {} THEN numbered ELSE SubSeq(numbered, 1, Min(ends) - 1)
      raises   == ends # {} /\ (all \/ numbered[Min(ends)].pr = NoPr)
  IN  IF raises THEN [outcome |-> "raised", taken |-> <<>>, head |-> from]
      ELSE IF taken = <<>> THEN [outcome |-> "nothing", taken |-> <<>>, head |-> from]
      ELSE [outcome |-> "landing", taken |-> taken, head |-> Last(Last(taken).commits)]

\* retrigger: those PRs of unlanded_with_type that it takes up.
Retriggerable ==
  {g.pr : g \in ToSet(Groups(base, Len(master)))} \ ({NoPr} \cup {p \in PR : Landable(p)})

-----------------------------------------------------------------------------
(* apply_prs. *)

\* The group whose PR the last gecko commit is for, and whether that is its metadata.
LastApplied(cs, taken) ==
  IF cs = <<>> THEN 0 ELSE Min({g \in DOMAIN taken : taken[g].pr = Last(cs).pr} \cup {Len(taken) + 1})
HasMetadata(cs) == cs # <<>> /\ Last(cs).type = "metadata"

(***************************************************************************)
(* The commits that are there must be those of the PRs taken up to that    *)
(* group, of which only those of upstream syncs may have none.  The counts *)
(* that apply_prs compares afterwards agree if this holds.                 *)
(***************************************************************************)
Fits(cs, taken) ==
  LET have   == {c.pr : c \in ToSet(cs)}
      passed == {taken[g].pr : g \in 1 .. Min({LastApplied(cs, taken), Len(taken)})}
  IN  have \subseteq passed /\ \A p \in passed \ have : ~Downstream(p)

(***************************************************************************)
(* What is left to do: for each group the commits of its PR, then the      *)
(* metadata of a downstream sync; of the last applied group the metadata.  *)
(***************************************************************************)
MutantSteps(cs, taken) ==   \* the metadata of the last applied PR is forgotten
  LET at == LastApplied(cs, taken)
  IN  FlattenSeq([n \in 1 .. Len(taken) - at |->
        <<[group |-> at + n, type |-> "pr"], [group |-> at + n, type |-> "metadata"]>>])
Steps(cs, taken) ==
  LET at   == LastApplied(cs, taken)
      meta == IF at > 0 /\ ~HasMetadata(cs) THEN <<[group |-> at, type |-> "metadata"]>> ELSE <<>>
  IN  meta \o FlattenSeq([n \in 1 .. Len(taken) - at |->
        <<[group |-> at + n, type |-> "pr"], [group |-> at + n, type |-> "metadata"]>>])

(***************************************************************************)
(* add_pr and add_metadata.  The patch of a PR is everything from the end  *)
(* of the group before it to its last commit; for the first group from the *)
(* sync point, or, when the landing was not created in this call, from the *)
(* PR's own first commit.  There is none for an unchanged upstream PR.     *)
(***************************************************************************)
From(taken, g, prev) == IF g = 1 THEN prev ELSE Last(taken[g - 1].commits)

\* move_commits: the range as one patch.
Patch(taken, g, prev) == From(taken, g, prev) + 1 .. Last(taken[g].commits)

AddPr(taken, g, prev) ==
  LET p == taken[g].pr
  IN  IF status[p] \in {"upstream", "empty"} THEN <<>>
      ELSE <<[pr |-> p, type |-> "pr", content |-> Patch(taken, g, prev)]>>

AddMetadata(p) ==
  IF status[p] = "metadata" THEN <<[pr |-> p, type |-> "metadata", content |-> {}]>> ELSE <<>>

NewCommits(taken, step, prev) ==
  IF step.type = "pr" THEN AddPr(taken, step.group, prev) ELSE AddMetadata(taken[step.group].pr)

\* The landing l after the first n steps.
Applied(l, taken, n, prev) ==
  LET steps == Steps(l.commits, taken)
      new   == FlattenSeq([k \in 1..n |-> NewCommits(taken, steps[k], prev)])
  IN  [l EXCEPT !.commits = @ \o new, !.done = n = Len(steps)]

\* Any step may fail; those before it are kept.
ApplyPrs(l, taken, prev) == {Applied(l, taken, n, prev) : n \in 0 .. Len(Steps(l.commits, taken))}

-----------------------------------------------------------------------------
\* A commit reaches master.
Push(p) ==
  /\ Len(master) < MaxCommits
  /\ master' = Append(master, p)
  /\ UNCHANGED <<base, status, landing>>

\* `wptsync set-pr'.
SetPr(i, p) ==
  /\ master[i] = NoPr
  /\ master' = [master EXCEPT ![i] = p]
  /\ UNCHANGED <<base, status, landing>>

\* A sync of PR p is created, or its downstream sync becomes ready.
SyncGoesOn(p, s) ==
  /\ \/ status[p] = "no_sync"
     \/ status[p] = "missing" /\ s \in {"ready", "metadata", "empty"}
  /\ status' = [status EXCEPT ![p] = s]
  /\ UNCHANGED <<master, base, landing>>

\* update_landing without a landing: create one and apply the PRs.
NewLanding(all) ==
  LET c == LandableCommits(base, Len(master), all)
      l == [from |-> base, to |-> c.head, all |-> all, done |-> FALSE, commits |-> <<>>,
            prs |-> [g \in DOMAIN c.taken |-> c.taken[g].pr]]
  IN  /\ landing = NoLanding /\ c.outcome = "landing"
      /\ landing' \in ApplyPrs(l, c.taken, base)
      /\ UNCHANGED <<master, base, status>>

\* What a landing's own commits are found to be, and whether apply_prs accepts them.
MutantAgain(all) == LandableCommits(landing.from, Len(master), all)   \* up to the head of master
Again(all) == LandableCommits(landing.from, landing.to, all)
Goes(all)  == /\ Again(all).outcome = "landing" /\ Again(all).head = landing.to
              /\ landing.done \/ Fits(landing.commits, Again(all).taken)

(***************************************************************************)
(* update_landing of a landing that has no try push yet.  It passes no     *)
(* previous head: the first group begins at its own first commit.          *)
(***************************************************************************)
UpdateLanding(all) ==
  /\ landing # NoLanding /\ ~landing.done /\ Goes(all)
  /\ LET taken == Again(all).taken
         l     == [landing EXCEPT !.all = @ \/ all]
     IN  landing' \in ApplyPrs(l, taken, Head(taken[1].commits) - 1)
  /\ UNCHANGED <<master, base, status>>

\* ... and when it is through its try pushes: it reaches gecko.
MutantLand(all) ==   \* the landing stays open
  /\ landing # NoLanding /\ landing.done /\ Goes(all)
  /\ base' = landing.to
  /\ UNCHANGED <<master, status, landing>>
Land(all) ==
  /\ landing # NoLanding /\ landing.done /\ Goes(all)
  /\ base' = landing.to
  /\ landing' = NoLanding
  /\ UNCHANGED <<master, status>>

LandingInit ==
  /\ master = <<>> /\ base = 0
  /\ status = [p \in PR |-> "no_sync"]
  /\ landing = NoLanding

LandingNext ==
  \/ \E p \in PR \cup {NoPr, Zero} : Push(p)
  \/ \E i \in DOMAIN master, p \in PR \cup {Zero} : SetPr(i, p)
  \/ \E p \in PR, s \in SyncKinds : SyncGoesOn(p, s)
  \/ \E all \in BOOLEAN : NewLanding(all) \/ UpdateLanding(all) \/ Land(all)

LandingSpec == LandingInit /\ [][LandingNext]_lvars

-----------------------------------------------------------------------------
\* The commits of each PR follow one another.
Contiguous ==
  \A i, j, k \in DOMAIN master :
    i < j /\ j < k /\ master[i] = master[k] /\ master[i] \in PR => master[j] = master[i]

(***************************************************************************)
(* What a landing takes.  It never takes some commits of a PR and leaves   *)
(* others: all those on master by then are at or before its head, in       *)
(* whatever order the commits of several PRs came (WholePrs).              *)
(***************************************************************************)
WholePrs ==
  \A all \in BOOLEAN :
    LET l == LandableCommits(base, Len(master), all)
    IN  \A g \in DOMAIN l.taken, i \in base + 1 .. Len(master) :
          master[i] = l.taken[g].pr => i <= l.head

(***************************************************************************)
(* And when the commits of each PR follow one another, it takes all that   *)
(* can land and nothing else: every commit up to its head has a            *)
(* landable PR or none, and the next commit with a PR is not landable, and *)
(* is one that the retrigger task takes up or that a person must name.     *)
(***************************************************************************)
LandsAll ==
  LET l     == LandableCommits(base, Len(master), FALSE)
      after == {i \in l.head + 1 .. Len(master) : master[i] # Zero}
  IN  Contiguous /\ l.outcome # "raised" =>
        /\ \A i \in base + 1 .. l.head : master[i] = Zero \/ Landable(master[i])
        /\ after # {} => ~Landable(master[Min(after)]) /\ master[Min(after)] \in Retriggerable

LandsPrefix == WholePrs /\ LandsAll

(***************************************************************************)
(* A landing can always go on: whatever was pushed to master since it was  *)
(* created and wherever applying its PRs stopped, the next update finds    *)
(* the same PRs in its commits and accepts the gecko commits it has.       *)
(* Except when its PRs are interleaved, it was created with                *)
(* --include-incomplete, or a downstream PR has no change.                 *)
(***************************************************************************)
Resumable ==
  landing # NoLanding /\ ~landing.all /\ Contiguous =>
    /\ Goes(FALSE)
    /\ [g \in DOMAIN Again(FALSE).taken |-> Again(FALSE).taken[g].pr] = landing.prs

(***************************************************************************)
(* A landing that is done has, in the order of its PRs, one commit of each *)
(* PR that is new to gecko, followed by its metadata if there is some,     *)
(* however often applying them failed on the way.                          *)
(***************************************************************************)
AppliedInOrder ==
  landing # NoLanding /\ landing.done /\ ~landing.all /\ Contiguous =>
    [n \in DOMAIN landing.commits |-> <<landing.commits[n].pr, landing.commits[n].type>>] =
      FlattenSeq([n \in DOMAIN landing.prs |->
        LET p == landing.prs[n]
        IN  CASE status[p] \in {"upstream", "empty"} -> <<>>
              [] status[p] = "metadata"              -> <<<<p, "pr">>, <<p, "metadata">>>>
              [] OTHER                               -> <<<<p, "pr">>>>])

(***************************************************************************)
(* And it brings gecko to the upstream commit it claims: each commit up to *)
(* it was applied once, or was in gecko before.  When the PRs are not      *)
(* interleaved, and not for commits that have no PR: those are lost before *)
(* an unchanged upstream PR and when a landing goes on.                    *)
(***************************************************************************)
NothingLost ==
  landing # NoLanding /\ landing.done /\ Contiguous =>
    \A i \in landing.from + 1 .. landing.to :
      LET times == Cardinality({n \in DOMAIN landing.commits : i \in landing.commits[n].content})
          inGecko == master[i] # Zero /\ status[master[i]] \in {"upstream", "empty"}
      IN  CASE master[i] = Zero -> times <= 1
            [] inGecko          -> times = 0
            [] OTHER            -> times = 1

AppliedOnce == AppliedInOrder /\ NothingLost
=============================================================================
