--------------------------- MODULE Upstream_proofs ---------------------------
(***************************************************************************)
(* Proofs about Upstream, for any bugs, numbers of commits and syncs,      *)
(* backouts, commands, edits of others and failures.                       *)
(***************************************************************************)
EXTENDS Upstream, SequenceTheorems, FiniteSetTheorems, TLAPS

Unfinished == {"open", "incomplete"}
Finished   == {"wpt-merged", "complete"}

\* A sync is about commits that are on autoland.
Fits(s) ==
  /\ s \in Sync /\ s.head <= Len(log)
  /\ s.wpt \subseteq 1..Len(log) /\ s.on \subseteq 1..Len(log) /\ s.sent \subseteq 1..Len(log)

(***************************************************************************)
(* The inductive invariant.                                                *)
(***************************************************************************)
AllFit      == \A i \in 1..Len(syncs) : Fits(syncs[i])
TodoOpen    ==    \* a sync is updated only as long as it is not finished
  /\ \A i \in job.todo : syncs[i].status \in Unfinished
  /\ job.kind \in {"idle", "land"} => job.todo = {}
OneOpen     ==    \* OneOpenSync
  \A i, j \in 1..Len(syncs) :
    syncs[i].bug = syncs[j].bug /\ syncs[i].status \in Unfinished /\ syncs[j].status \in Unfinished
    => i = j
AllMerged   ==    \* FinishedMerged
  \A i \in 1..Len(syncs) : syncs[i].status \in Finished => syncs[i].pr = "merged"

UpstreamInv == TypeOK /\ AllFit /\ TodoOpen /\ OneOpen /\ AllMerged

(***************************************************************************)
(* What a step may make of a sync s: it stays that of its bug, it is not   *)
(* opened again once it is finished, it is finished when its PR is merged, *)
(* and the branch of a PR that is closed, and stays so, is left alone.     *)
(***************************************************************************)
Follows(s, t) ==
  /\ Fits(t) /\ t.bug = s.bug
  /\ t.status \in Unfinished => s.status \in Unfinished
  /\ t.status \in Finished => t.pr = "merged"
  /\ s.pr = "closed" /\ t.pr = "closed" => t.sent = s.sent

-----------------------------------------------------------------------------
(* Lemmas on sets of commits. *)

LEMMA LeastOf ==
  ASSUME NEW m \in Nat, NEW S, S \subseteq 0..m, S # {}
  PROVE  \E n \in S : \A k \in S : n <= k
<1>1. S \subseteq Nat
  OBVIOUS
<1>2. PICK n \in S : \A k \in S : <<k, n>> \notin OpToRel(<, Nat)
  BY <1>1, NatLessThanWellFounded, WFMin
<1>3. \A k \in S : ~(k < n)
  BY <1>1, <1>2 DEF OpToRel
<1>4. QED
  BY <1>1, <1>3

LEMMA LowestIn ==
  ASSUME NEW m \in Nat, NEW S, S \subseteq 1..m, S # {}
  PROVE  Lowest(S) \in S /\ \A k \in S : Lowest(S) <= k
<1>1. S \subseteq 0..m
  OBVIOUS
<1>2. Starts(S) # {}
  BY <1>1, LeastOf DEF Starts
<1>3. QED
  BY <1>2 DEF Lowest, Starts

LEMMA HighestIn ==
  ASSUME NEW m \in Nat, NEW S, S \subseteq 1..m, S # {}
  PROVE  Highest(S) \in S /\ \A k \in S : k <= Highest(S)
<1> DEFINE T == {m - k : k \in S}
<1>1. T \subseteq 0..m /\ T # {}
  <2>1. \A k \in S : m - k \in 0..m
    OBVIOUS
  <2>2. QED
    BY <2>1
<1>2. PICK t \in T : \A u \in T : t <= u
  BY <1>1, LeastOf
<1>3. PICK n \in S : t = m - n
  OBVIOUS
<1>4. ASSUME NEW k \in S PROVE k <= n
  <2>1. m - n <= m - k
    BY <1>2, <1>3
  <2>2. QED
    BY <2>1
<1>5. Ends(S) # {}
  BY <1>4 DEF Ends
<1>6. QED
  BY <1>5 DEF Highest, Ends

LEMMA NoPairsSubset ==
  ASSUME NEW S
  PROVE  NoPairs(S) \subseteq S
BY DEF NoPairs

LEMMA SeqOfFunction ==
  ASSUME NEW S, NEW n \in Nat, NEW f \in [1..n -> S]
  PROVE  f \in Seq(S) /\ Len(f) = n
OBVIOUS

LEMMA GeckoCommitsExist ==
  ASSUME TypeOK, NEW s, Fits(s)
  PROVE  GeckoCommits(s) \subseteq 1..Len(log)
<1>1. CommitRange(s) \subseteq 1..Len(log)
  <2>1. s.base \in 0..MaxCommits /\ s.head \in Nat /\ s.head <= Len(log) /\ Len(log) \in Nat
    BY LenProperties DEF Fits, Sync, Commit, TypeOK
  <2>2. QED
    BY <2>1, BoundAssumption DEF CommitRange
<1>2. QED
  BY <1>1, NoPairsSubset DEF GeckoCommits

\* The order in which bugs get their syncs: each of them once.
LEMMA SetToSeqFacts ==
  ASSUME NEW S, IsFiniteSet(S)
  PROVE  /\ SetToSeq(S) \in [1..Cardinality(S) -> S] /\ Cardinality(S) \in Nat
         /\ \A i, j \in 1..Cardinality(S) : SetToSeq(S)[i] = SetToSeq(S)[j] => i = j
<1>1. Cardinality(S) \in Nat /\ ExistsBijection(1..Cardinality(S), S)
  BY FS_CardinalityType
<1>2. \E f \in [1..Cardinality(S) -> S] : IsInjective(f)
  BY <1>1 DEF ExistsBijection, Bijection, Injection
<1>3. SetToSeq(S) \in [1..Cardinality(S) -> S] /\ IsInjective(SetToSeq(S))
  BY <1>2 DEF SetToSeq
<1>4. QED
  BY <1>1, <1>3 DEF IsInjective

-----------------------------------------------------------------------------
(* What each call makes of a sync. *)

LEMMA SyncFields ==
  ASSUME NEW s \in Sync
  PROVE  /\ s.bug \in Bugs /\ s.base \in 0..MaxCommits /\ s.head \in Commit
         /\ s.status \in Statuses /\ s.error \in BOOLEAN
         /\ s.pr \in {"none", "open", "closed", "merged"}
BY DEF Sync

LEMMA OutcomeFields ==
  ASSUME NEW s
  PROVE  Ok(s).s = s /\ Ok(s).ok = TRUE /\ Raised(s).s = s /\ Raised(s).ok = FALSE
BY DEF Ok, Raised

LEMMA WptCommitsFit ==
  ASSUME TypeOK, NEW s, Fits(s), NEW o \in UpdateWptCommits(s)
  PROVE  /\ Fits(o.s) /\ o.s.bug = s.bug /\ o.s.status = s.status /\ o.s.pr = s.pr
         /\ o.s.sent = s.sent /\ o.ok \in BOOLEAN
<1> DEFINE G        == GeckoCommits(s)
           matching == {g \in G : \E w \in G \cap s.wpt : g <= w}
           n        == Cardinality(matching)
           start    == IF n < Cardinality(s.wpt) THEN Upto(n, s.wpt) ELSE s.wpt
           on       == IF n = 0 THEN master ELSE s.on
           rest     == G \ matching
           before(c) == start \cup {d \in rest : d < c}
           moved(W) == [s EXCEPT !.wpt = W, !.on = on]
<1>1. o = Ok(s) \/ \E W \in SUBSET (start \cup rest) : o = Ok(moved(W)) \/ o = Raised(moved(W))
  <2>1. start \cup rest \in SUBSET (start \cup rest)
    OBVIOUS
  <2>2. \A c : before(c) \in SUBSET (start \cup rest)
    OBVIOUS
  <2>3. \/ o = Ok(s)
        \/ o = Ok(moved(start \cup rest))
        \/ \E c : o = Raised(moved(before(c)))
    BY DEF UpdateWptCommits
  <2> HIDE DEF start, rest, moved, before
  <2>4. QED
    BY <2>1, <2>2, <2>3
<1>2. start \cup rest \subseteq 1..Len(log) /\ on \subseteq 1..Len(log)
  BY GeckoCommitsExist DEF Fits, Upto, TypeOK
<1> HIDE DEF start, rest, on
<1>3. ASSUME NEW W \in SUBSET (start \cup rest)
      PROVE  /\ Fits(moved(W)) /\ moved(W).bug = s.bug /\ moved(W).status = s.status
             /\ moved(W).pr = s.pr /\ moved(W).sent = s.sent
  <2>1. W \in SUBSET Commit /\ on \in SUBSET Commit
    BY <1>2, LenProperties, BoundAssumption DEF Commit, TypeOK
  <2>2. moved(W) \in Sync
    BY <2>1 DEF Fits, Sync
  <2>3. /\ moved(W).head = s.head /\ moved(W).wpt = W /\ moved(W).on = on
        /\ moved(W).sent = s.sent /\ moved(W).bug = s.bug /\ moved(W).status = s.status
        /\ moved(W).pr = s.pr
    BY DEF Fits, Sync
  <2> HIDE DEF moved
  <2>4. QED
    BY <1>2, <2>2, <2>3 DEF Fits
<1> HIDE DEF moved
<1>4. CASE o = Ok(s)
  BY <1>4, OutcomeFields
<1>5. ASSUME NEW W \in SUBSET (start \cup rest), o = Ok(moved(W)) \/ o = Raised(moved(W))
      PROVE  o.s = moved(W) /\ o.ok \in BOOLEAN
  BY <1>5, OutcomeFields
<1>6. QED
  BY <1>1, <1>3, <1>4, <1>5

\* A sync with another PR, status, error or pushed branch.
LEMMA FitsExcept ==
  ASSUME NEW s, Fits(s), NEW t \in Sync, t.head = s.head, t.wpt = s.wpt, t.on = s.on,
         t.sent = s.sent \/ t.sent = s.wpt
  PROVE  Fits(t)
BY DEF Fits

LEMMA PushCommitsFacts ==
  ASSUME NEW s, Fits(s), NEW o \in PushCommits(s)
  PROVE  /\ Fits(o.s) /\ o.s.bug = s.bug /\ o.s.status = s.status /\ o.ok \in BOOLEAN
         /\ o.s.pr \in {s.pr, "open"}
<1> DEFINE pushed == [s EXCEPT !.sent = s.wpt]
           opened == [pushed EXCEPT !.pr = IF @ = "none" THEN "open" ELSE @]
<1>1. \E t \in {s, pushed, opened} : o = Ok(t) \/ o = Raised(t)
  BY DEF PushCommits, May
<1>2. /\ pushed \in Sync /\ pushed.head = s.head /\ pushed.wpt = s.wpt /\ pushed.on = s.on
      /\ pushed.sent = s.wpt /\ pushed.bug = s.bug /\ pushed.status = s.status
      /\ pushed.pr = s.pr
  BY DEF Fits, Sync
<1> HIDE DEF pushed
<1>3. /\ opened \in Sync /\ opened.head = s.head /\ opened.wpt = s.wpt /\ opened.on = s.on
      /\ opened.sent = s.wpt /\ opened.bug = s.bug /\ opened.status = s.status
      /\ opened.pr \in {s.pr, "open"}
  BY <1>2 DEF Sync
<1> HIDE DEF opened
<1>4. Fits(pushed) /\ Fits(opened)
  BY <1>2, <1>3, FitsExcept
<1>5. o.s \in {s, pushed, opened} /\ o.ok \in BOOLEAN
  BY <1>1, OutcomeFields
<1>6. QED
  BY <1>2, <1>3, <1>4, <1>5

LEMMA FinishFacts ==
  ASSUME NEW s, Fits(s), NEW status \in Statuses
  PROVE  LET t == Finish(s, status)
         IN  /\ Fits(t) /\ t.bug = s.bug /\ t.status = status /\ t.pr = s.pr /\ t.sent = s.sent
<1>1. LET t == Finish(s, status)
      IN  /\ t \in Sync /\ t.head = s.head /\ t.wpt = s.wpt /\ t.on = s.on /\ t.sent = s.sent
          /\ t.bug = s.bug /\ t.status = status /\ t.pr = s.pr
  BY DEF Finish, Fits, Sync
<1>2. QED
  BY <1>1, FitsExcept

LEMMA PrFacts ==
  ASSUME NEW s, Fits(s), NEW pr \in {"none", "open", "closed", "merged"}
  PROVE  LET t == [s EXCEPT !.pr = pr]
         IN  /\ Fits(t) /\ t.bug = s.bug /\ t.status = s.status /\ t.pr = pr /\ t.sent = s.sent
             /\ t.wpt = s.wpt
<1>1. LET t == [s EXCEPT !.pr = pr]
      IN  /\ t \in Sync /\ t.head = s.head /\ t.wpt = s.wpt /\ t.on = s.on /\ t.sent = s.sent
          /\ t.bug = s.bug /\ t.status = s.status /\ t.pr = pr
  BY DEF Fits, Sync
<1>2. QED
  BY <1>1, FitsExcept

\* s as it was before the call, t as it is when update_github is called.
LEMMA UpdateGithubFollows ==
  ASSUME NEW s, NEW t, Fits(t), t.bug = s.bug, s.status \in Unfinished, t.status \in Unfinished,
         t.pr = s.pr, t.sent = s.sent, NEW o \in UpdateGithub(t)
  PROVE  Follows(s, o.s) /\ o.ok \in BOOLEAN
<1> DEFINE G        == GeckoCommits(t)
           shut     == [t EXCEPT !.pr = IF @ = "open" THEN "closed" ELSE @]
           reopened == [t EXCEPT !.pr = IF @ = "closed" THEN "open" ELSE @]
           ended    == Finish(t, "complete")
<1>1. \/ o \in {Ok(t), Raised(t)}
      \/ o = Ok(shut)
      \/ t.pr = "merged" /\ o = Ok(ended)
      \/ o = Ok(reopened)
      \/ o \in PushCommits(reopened)
  BY DEF UpdateGithub, May
<1>2. t.pr \in {"none", "open", "closed", "merged"} /\ t \in Sync
  BY SyncFields DEF Fits
<1>3. /\ Fits(shut) /\ shut.bug = t.bug /\ shut.status = t.status /\ shut.sent = t.sent
      /\ Fits(reopened) /\ reopened.bug = t.bug /\ reopened.status = t.status
      /\ reopened.pr # "closed"
  <2>1. PICK pr \in {"none", "open", "closed", "merged"} : shut = [t EXCEPT !.pr = pr]
    BY <1>2
  <2>2. PICK re \in {"none", "open", "merged"} : reopened = [t EXCEPT !.pr = re]
    BY <1>2
  <2> HIDE DEF shut, reopened
  <2>0. re \in {"none", "open", "closed", "merged"} /\ re # "closed"
    OBVIOUS
  <2>3. Fits(shut) /\ shut.bug = t.bug /\ shut.status = t.status /\ shut.sent = t.sent
    BY <2>1, PrFacts
  <2>4. Fits(reopened) /\ reopened.bug = t.bug /\ reopened.status = t.status /\ reopened.pr = re
    BY <2>0, <2>2, PrFacts
  <2>5. QED
    BY <2>0, <2>3, <2>4
<1> HIDE DEF shut, reopened
<1>4. Fits(ended) /\ ended.bug = t.bug /\ ended.pr = t.pr /\ ended.sent = t.sent
  BY FinishFacts DEF Statuses
<1> HIDE DEF ended
<1>5. \A u : Fits(u) /\ u.bug = t.bug /\ u.status = t.status /\ (u.sent = t.sent \/ u.pr # "closed")
        => Follows(s, u)
  BY DEF Follows, Unfinished, Finished
<1>6. Follows(s, t) /\ Follows(s, shut) /\ Follows(s, reopened)
  BY <1>3, <1>5
<1>7. t.pr = "merged" => Follows(s, ended)
  BY <1>4 DEF Follows, Unfinished, Finished
<1>8. CASE o \in PushCommits(reopened)
  <2>1. /\ Fits(o.s) /\ o.s.bug = t.bug /\ o.s.status = t.status /\ o.ok \in BOOLEAN
        /\ o.s.pr # "closed"
    BY <1>3, <1>8, PushCommitsFacts
  <2>2. QED
    BY <1>5, <2>1
<1>9. CASE \/ o \in {Ok(t), Raised(t), Ok(shut), Ok(reopened)}
           \/ t.pr = "merged" /\ o = Ok(ended)
  BY <1>6, <1>7, <1>9, OutcomeFields
<1>10. QED
  BY <1>1, <1>8, <1>9

LEMMA ErrorFollows ==
  ASSUME NEW s, NEW t, Follows(s, t), NEW e \in BOOLEAN
  PROVE  Follows(s, [t EXCEPT !.error = e])
<1>1. LET u == [t EXCEPT !.error = e]
      IN  /\ u \in Sync /\ u.head = t.head /\ u.wpt = t.wpt /\ u.on = t.on /\ u.sent = t.sent
          /\ u.bug = t.bug /\ u.status = t.status /\ u.pr = t.pr
  BY DEF Follows, Fits, Sync
<1>2. Fits([t EXCEPT !.error = e])
  BY <1>1, FitsExcept DEF Follows
<1>3. QED
  BY <1>1, <1>2 DEF Follows

LEMMA UpdateFollows ==
  ASSUME TypeOK, NEW s, Fits(s), s.status \in Unfinished, NEW t \in UpdateModifiedSync(s)
  PROVE  Follows(s, t)
<1> DEFINE empty   == [s EXCEPT !.status = "incomplete"]
           started == [s EXCEPT !.status = "open"]
<1>1. \A status \in Unfinished : LET u == [s EXCEPT !.status = status]
        IN  Fits(u) /\ u.bug = s.bug /\ u.status = status /\ u.pr = s.pr /\ u.sent = s.sent
  <2> SUFFICES ASSUME NEW status \in Unfinished
               PROVE  LET u == [s EXCEPT !.status = status]
                      IN  Fits(u) /\ u.bug = s.bug /\ u.status = status /\ u.pr = s.pr /\ u.sent = s.sent
    OBVIOUS
  <2>1. LET u == [s EXCEPT !.status = status]
        IN  /\ u \in Sync /\ u.head = s.head /\ u.wpt = s.wpt /\ u.on = s.on /\ u.sent = s.sent
            /\ u.bug = s.bug /\ u.status = status /\ u.pr = s.pr
    BY DEF Fits, Sync, Unfinished, Statuses
  <2>2. QED
    BY <2>1, FitsExcept
<1>2. /\ Fits(empty) /\ empty.bug = s.bug /\ empty.status = "incomplete" /\ empty.pr = s.pr
      /\ empty.sent = s.sent
      /\ Fits(started) /\ started.bug = s.bug /\ started.status = "open" /\ started.pr = s.pr
      /\ started.sent = s.sent
  BY <1>1 DEF Unfinished
<1>3. PICK o : /\ t = [o.s EXCEPT !.error = ~o.ok]
               /\ \/ o = Ok(empty)
                  \/ o \in UpdateGithub(empty)
                  \/ \E w \in UpdateWptCommits(started) :
                       o \in UpdateGithub(w.s) \/ o = w
  BY DEF UpdateModifiedSync
<1> HIDE DEF empty, started
<1>4. Follows(s, o.s) /\ o.ok \in BOOLEAN
  <2>1. CASE o = Ok(empty)
    BY <1>2, <2>1 DEF Ok, Follows, Unfinished, Finished
  <2>2. CASE o \in UpdateGithub(empty)
    BY <1>2, <2>2, UpdateGithubFollows DEF Unfinished
  <2>3. ASSUME NEW w \in UpdateWptCommits(started), o \in UpdateGithub(w.s)
        PROVE  Follows(s, o.s) /\ o.ok \in BOOLEAN
    <3>1. /\ Fits(w.s) /\ w.s.bug = s.bug /\ w.s.status = "open" /\ w.s.pr = s.pr
          /\ w.s.sent = s.sent
      BY <1>2, WptCommitsFit
    <3>2. QED
      BY <2>3, <3>1, UpdateGithubFollows DEF Unfinished
  <2>4. ASSUME NEW w \in UpdateWptCommits(started), o = w
        PROVE  Follows(s, o.s) /\ o.ok \in BOOLEAN
    BY <1>2, <2>4, WptCommitsFit DEF Follows, Unfinished, Finished
  <2>5. QED
    BY <1>3, <2>1, <2>2, <2>3, <2>4
<1>5. QED
  BY <1>3, <1>4, ErrorFollows

LEMMA LandFollows ==
  ASSUME NEW s, Fits(s), s.status \in Finished => s.pr = "merged", NEW o \in TryLandPr(s)
  PROVE  Follows(s, o.s) /\ o.ok \in BOOLEAN
<1> DEFINE ended  == Finish(s, "wpt-merged")
           merged == [ended EXCEPT !.pr = "merged"]
<1>1. s.pr \in {"none", "open", "closed", "merged"}
  BY SyncFields DEF Fits
<1>2. \/ o \in {Ok(s), Raised(s)}
      \/ s.status = "open" /\ s.pr = "merged" /\ o = Ok(ended)
      \/ s.status = "open" /\ s.pr = "open" /\ o = Ok(merged)
  BY <1>1 DEF TryLandPr, May
<1>3. /\ Fits(ended) /\ ended.bug = s.bug /\ ended.status = "wpt-merged" /\ ended.pr = s.pr
      /\ ended.sent = s.sent
  BY FinishFacts DEF Statuses
<1> HIDE DEF ended
<1>4. Fits(merged) /\ merged.bug = s.bug /\ merged.status = "wpt-merged" /\ merged.pr = "merged"
  BY <1>3, PrFacts
<1> HIDE DEF merged
<1>5. Follows(s, s)
  BY DEF Follows
<1>6. Follows(s, merged)
  BY <1>4 DEF Follows, Unfinished
<1>7. s.pr = "merged" => Follows(s, ended)
  BY <1>3 DEF Follows, Unfinished
<1>8. QED
  BY <1>2, <1>5, <1>6, <1>7, OutcomeFields

-----------------------------------------------------------------------------
(* What is asked of a step to keep the invariant. *)

ClosedKept ==   \* ClosedUntouched, for one step
  \A i \in 1..Len(syncs) :
    syncs[i].pr = "closed" /\ syncs'[i].pr = "closed" => syncs'[i].sent = syncs[i].sent
Kept == AllFit' /\ TodoOpen' /\ OneOpen' /\ AllMerged' /\ ClosedKept

LEMMA Facts ==
  ASSUME UpstreamInv
  PROVE  /\ Len(log) \in Nat /\ Len(syncs) \in Nat /\ Len(log) <= MaxCommits
         /\ DOMAIN syncs = 1..Len(syncs) /\ DOMAIN log = 1..Len(log)
         /\ \A i \in 1..Len(syncs) : syncs[i] \in Sync /\ Fits(syncs[i])
         /\ syncs \in Seq(Sync) /\ master \subseteq 1..Len(log)
BY LenProperties DEF UpstreamInv, TypeOK, AllFit, Fits

JobSet(R, T) == [kind : {"idle", "push", "update", "land"}, repo : Repo, rev : R,
                 todo : SUBSET T, land : SUBSET T]

LEMMA JobFields ==
  ASSUME NEW R, NEW T, NEW j \in JobSet(R, T)
  PROVE  /\ j.kind \in {"idle", "push", "update", "land"} /\ j.repo \in Repo /\ j.rev \in R
         /\ j.todo \in SUBSET T /\ j.land \in SUBSET T
BY DEF JobSet

LEMMA JobChanges ==
  ASSUME NEW R, NEW T, NEW j \in JobSet(R, T), NEW todo \in SUBSET T, NEW land \in SUBSET T,
         NEW kind \in {"idle", "push", "update", "land"}
  PROVE  /\ [j EXCEPT !.kind = kind, !.todo = todo, !.land = land] \in JobSet(R, T)
         /\ [j EXCEPT !.kind = kind, !.todo = todo, !.land = land].todo = todo
         /\ [j EXCEPT !.kind = kind, !.todo = todo, !.land = land].kind = kind
BY DEF JobSet

LEMMA JobTypes ==
  /\ TypeOK => job \in JobSet(0..Len(log), 1..Len(syncs))
  /\ \A n \in Nat : \A T : Idle \in JobSet(0..n, T)
  /\ Idle.kind = "idle" /\ Idle.todo = {} /\ Idle.land = {} /\ Idle.rev = 0
BY DEF TypeOK, JobSet, Idle, Repo

LEMMA TypeParts ==
  ASSUME TypeOK, UNCHANGED <<log, central>>, known' \in 0..central, point' \in [Repo -> 0..Len(log)],
         noted' \subseteq 1..Len(log), filed' \subseteq 1..Len(log), master' \subseteq 1..Len(log),
         syncs' \in Seq(Sync), Len(syncs') <= MaxSyncs,
         job' \in JobSet(0..Len(log), 1..Len(syncs'))
  PROVE  TypeOK'
BY DEF TypeOK, JobSet

LEMMA CentralSeen ==
  ASSUME TypeOK
  PROVE  central \in 0..central /\ central \in Nat /\ central <= Len(log)
BY LenProperties DEF TypeOK

\* One sync follows what it was.
LEMMA OneFollows ==
  ASSUME UpstreamInv, NEW i \in 1..Len(syncs), NEW t, Follows(syncs[i], t), UNCHANGED log,
         syncs' = [syncs EXCEPT ![i] = t], job'.todo \subseteq job.todo \ {i},
         job'.kind \in {"idle", "land"} => job'.todo = {}
  PROVE  /\ Kept /\ syncs' \in Seq(Sync) /\ Len(syncs') = Len(syncs)
<1>1. /\ t \in Sync /\ Fits(t) /\ t.bug = syncs[i].bug
      /\ t.status \in Unfinished => syncs[i].status \in Unfinished
      /\ t.status \in Finished => t.pr = "merged"
      /\ syncs[i].pr = "closed" /\ t.pr = "closed" => t.sent = syncs[i].sent
  BY DEF Follows, Fits
<1>2. /\ syncs' \in Seq(Sync) /\ Len(syncs') = Len(syncs) /\ Len(syncs) \in Nat
      /\ \A j \in 1..Len(syncs) : syncs'[j] = IF j = i THEN t ELSE syncs[j]
  BY <1>1, Facts, ExceptSeq
<1>3. AllFit'
  BY <1>1, <1>2, Facts DEF AllFit, Fits
<1>4. TodoOpen'
  <2>1. job.todo \subseteq 1..Len(syncs)
    BY JobTypes, JobFields DEF UpstreamInv
  <2>2. QED
    BY <1>2, <2>1 DEF UpstreamInv, TodoOpen
<1>5. OneOpen'
  <2>1. \A j \in 1..Len(syncs) : /\ syncs'[j].bug = syncs[j].bug
                                 /\ syncs'[j].status \in Unfinished => syncs[j].status \in Unfinished
    BY <1>1, <1>2
  <2>2. QED
    BY <1>2, <2>1 DEF UpstreamInv, OneOpen
<1>6. AllMerged'
  BY <1>1, <1>2 DEF UpstreamInv, AllMerged
<1>7. ClosedKept
  BY <1>1, <1>2 DEF ClosedKept
<1>8. QED
  BY <1>2, <1>3, <1>4, <1>5, <1>6, <1>7 DEF Kept

\* No sync changes.
LEMMA NoneFollows ==
  ASSUME UpstreamInv, UNCHANGED syncs, Len(log') \in Nat, Len(log') >= Len(log),
         \A i \in job'.todo : syncs[i].status \in Unfinished,
         job'.kind \in {"idle", "land"} => job'.todo = {}
  PROVE  Kept
<1>1. AllFit'
  <2>1. Len(log) \in Nat /\ Len(syncs') = Len(syncs)
    BY Facts
  <2>2. 1..Len(log) \subseteq 1..Len(log')
    BY <2>1
  <2>3. ASSUME NEW i \in 1..Len(syncs)
        PROVE  /\ syncs'[i] \in Sync /\ syncs'[i].head <= Len(log')
               /\ syncs'[i].wpt \subseteq 1..Len(log') /\ syncs'[i].on \subseteq 1..Len(log')
               /\ syncs'[i].sent \subseteq 1..Len(log')
    <3>1. syncs'[i] = syncs[i] /\ Fits(syncs[i])
      BY Facts
    <3>2. syncs[i].head \in Nat /\ syncs[i].head <= Len(log)
      BY <3>1, SyncFields, BoundAssumption DEF Fits, Commit
    <3>3. QED
      BY <2>1, <2>2, <3>1, <3>2 DEF Fits
  <2>4. QED
    BY <2>1, <2>3 DEF AllFit, Fits
<1>2. TodoOpen' /\ OneOpen' /\ AllMerged' /\ ClosedKept
  BY DEF UpstreamInv, TodoOpen, OneOpen, AllMerged, ClosedKept
<1>3. QED
  BY <1>1, <1>2 DEF Kept

-----------------------------------------------------------------------------
(* A push to gecko creates syncs and moves heads. *)

LEMMA NewSyncFits ==
  ASSUME UpstreamInv, NEW new, new \subseteq 1..Len(log), NEW taken \in Takings(new),
         NEW b \in Created(new, taken)
  PROVE  LET s == NewSync(b, new, taken)
         IN  Fits(s) /\ s.bug = b /\ s.status = "open"
<1> DEFINE given  == Given(b, new, taken)
           resets == {k \in DOMAIN taken : taken[k] = b}
           first  == IF resets # {} THEN Highest(resets) ELSE Lowest(given)
           last   == Highest(given)
<1>1. DOMAIN taken \subseteq new
  BY DEF Takings, Homeless
<1>2. given \subseteq 1..Len(log) /\ resets \subseteq 1..Len(log) /\ given # {} /\ b \in Bugs
  BY <1>1 DEF Given, Of, Created
<1>3. Len(log) \in Nat /\ Len(log) <= MaxCommits /\ master \subseteq 1..Len(log)
  BY Facts
<1> HIDE DEF given, resets
<1>4. last \in 1..Len(log)
  BY <1>2, <1>3, HighestIn
<1>5. first \in 1..Len(log)
  <2>1. CASE resets # {}
    BY <1>2, <1>3, <2>1, HighestIn
  <2>2. CASE resets = {}
    BY <1>2, <1>3, <2>2, LowestIn
  <2>3. QED
    BY <2>1, <2>2
<1>6. NewSync(b, new, taken) =
        [bug |-> b, base |-> first - 1, head |-> last, wpt |-> {}, on |-> master,
         status |-> "open", error |-> FALSE, pr |-> "none", sent |-> {}]
  BY DEF NewSync, Endpoints, given, resets
<1> HIDE DEF first, last
<1>7. first - 1 \in 0..MaxCommits /\ last \in Commit /\ master \subseteq Commit
  BY <1>3, <1>4, <1>5, BoundAssumption DEF Commit
<1>8. NewSync(b, new, taken) \in Sync
  BY <1>2, <1>6, <1>7 DEF Sync, Statuses
<1>9. QED
  BY <1>3, <1>4, <1>6, <1>8 DEF Fits

LEMMA HeadMoves ==
  ASSUME UpstreamInv, NEW new, new \subseteq 1..Len(log), NEW i \in 1..Len(syncs),
         News(i, new) # {}
  PROVE  LET t == [syncs[i] EXCEPT !.head = Highest(News(i, new))]
         IN  /\ Fits(t) /\ t.bug = syncs[i].bug /\ t.status = syncs[i].status
             /\ t.pr = syncs[i].pr /\ t.sent = syncs[i].sent
<1>1. News(i, new) \subseteq 1..Len(log)
  BY DEF News
<1>2. PICK h \in 1..Len(log) : h = Highest(News(i, new))
  BY <1>1, Facts, HighestIn
<1>3. h \in Commit /\ h <= Len(log) /\ Fits(syncs[i])
  BY <1>2, Facts, BoundAssumption DEF Commit
<1>4. LET t == [syncs[i] EXCEPT !.head = h]
      IN  /\ t \in Sync /\ t.head = h /\ t.wpt = syncs[i].wpt /\ t.on = syncs[i].on
          /\ t.sent = syncs[i].sent /\ t.bug = syncs[i].bug /\ t.status = syncs[i].status
          /\ t.pr = syncs[i].pr
  BY <1>3 DEF Fits, Sync
<1>5. QED
  BY <1>2, <1>3, <1>4 DEF Fits

LEMMA TakeKeeps ==
  ASSUME UpstreamInv, job = Idle, NEW r \in Repo, NEW rev \in 1..Len(log),
         NEW new, new \subseteq 1..Len(log), NEW taken \in Takings(new), Take(r, rev, new, taken),
         known' = central, UNCHANGED <<log, central, point, master>>
  PROVE  TypeOK' /\ Kept
<1> DEFINE created == SetToSeq(Created(new, taken))
           m       == Cardinality(Created(new, taken))
           n       == Len(syncs)
           moved   == [i \in 1..n |->
                         IF i \in Updated(new) /\ News(i, new) # {}
                         THEN [syncs[i] EXCEPT !.head = Highest(News(i, new))] ELSE syncs[i]]
           fresh   == [j \in 1..m |-> NewSync(created[j], new, taken)]
           S       == moved \o fresh
           touched == Updated(new) \cup (n + 1)..Len(S)
           started == [job EXCEPT !.repo = r, !.rev = rev]
<1>1. /\ n \in Nat /\ DOMAIN syncs = 1..n /\ Len(log) \in Nat
      /\ \A i \in 1..n : syncs[i] \in Sync /\ Fits(syncs[i])
  BY Facts
<1>2. /\ created \in [1..m -> Created(new, taken)] /\ m \in Nat
      /\ \A i, j \in 1..m : created[i] = created[j] => i = j
  <2>1. Created(new, taken) \subseteq Bugs
    BY DEF Created
  <2>2. IsFiniteSet(Created(new, taken))
    BY <2>1, BugAssumption, FS_Subset
  <2>3. QED
    BY <2>2, SetToSeqFacts
<1>3. DOMAIN created = 1..m
  BY <1>2
<1>4. /\ Len(S) <= MaxSyncs /\ syncs' = S
      /\ noted' = noted \cup UNION {GeckoCommits(S[i]) : i \in touched}
      /\ filed' = filed \cup (Homeless(new) \ DOMAIN taken)
      /\ job' = IF touched # {} THEN [started EXCEPT !.kind = "push", !.todo = touched]
                ELSE [started EXCEPT !.kind = "land", !.land = Landable(S)]
  BY <1>1, <1>3 DEF Take
<1>5. \A i \in 1..n : /\ Fits(moved[i]) /\ moved[i].bug = syncs[i].bug
                      /\ moved[i].status = syncs[i].status /\ moved[i].pr = syncs[i].pr
                      /\ moved[i].sent = syncs[i].sent
  BY <1>1, HeadMoves
<1>6. \A j \in 1..m : Fits(fresh[j]) /\ fresh[j].bug = created[j] /\ fresh[j].status = "open"
  <2> SUFFICES ASSUME NEW j \in 1..m
               PROVE  Fits(fresh[j]) /\ fresh[j].bug = created[j] /\ fresh[j].status = "open"
    OBVIOUS
  <2>1. PICK b \in Created(new, taken) : b = created[j]
    BY <1>2
  <2>2. fresh[j] = NewSync(b, new, taken)
    BY <2>1
  <2> HIDE DEF fresh, created
  <2>3. /\ Fits(NewSync(b, new, taken)) /\ NewSync(b, new, taken).bug = b
        /\ NewSync(b, new, taken).status = "open"
    BY NewSyncFits
  <2>4. QED
    BY <2>1, <2>2, <2>3
<1> HIDE DEF moved, fresh, created, m
<1>7. moved \in Seq(Sync) /\ Len(moved) = n /\ fresh \in Seq(Sync) /\ Len(fresh) = m
  <2>1. moved \in [1..n -> Sync]
    BY <1>5 DEF moved, Fits
  <2>2. fresh \in [1..m -> Sync]
    BY <1>6 DEF fresh, Fits
  <2>3. QED
    BY <1>1, <1>2, <2>1, <2>2, SeqOfFunction
<1>8. /\ S \in Seq(Sync) /\ Len(S) = n + m
      /\ \A i \in 1..n : S[i] = moved[i]
      /\ \A j \in 1..m : S[n + j] = fresh[j]
  BY <1>1, <1>2, <1>7, ConcatProperties
<1> HIDE DEF S
<1>9. \A i \in 1..Len(S) : i \in 1..n \/ \E j \in 1..m : i = n + j
  <2> SUFFICES ASSUME NEW i \in 1..Len(S), i \notin 1..n PROVE \E j \in 1..m : i = n + j
    OBVIOUS
  <2>1. i - n \in 1..m /\ i = n + (i - n)
    BY <1>1, <1>2, <1>8
  <2>2. QED
    BY <2>1
<1>10. \A i \in 1..Len(S) : Fits(S[i])
  BY <1>5, <1>6, <1>8, <1>9
<1>11. touched \subseteq 1..Len(S) /\ \A i \in touched : S[i].status \in Unfinished
  <2>1. ASSUME NEW i \in Updated(new)
        PROVE  i \in 1..n /\ syncs[i].status \in Unfinished
    BY <1>1 DEF Updated, OpenSyncs, Unfinished
  <2>2. ASSUME NEW i \in (n + 1)..Len(S)
        PROVE  i \in 1..Len(S) /\ S[i].status \in Unfinished
    <3>1. i \in 1..Len(S) /\ i \notin 1..n
      BY <1>1, <1>2, <1>8
    <3>2. QED
      BY <1>6, <1>8, <1>9, <3>1 DEF Unfinished
  <2>3. ASSUME NEW i \in 1..n, syncs[i].status \in Unfinished
        PROVE  i \in 1..Len(S) /\ S[i].status \in Unfinished
    <3>1. 1..n \subseteq 1..Len(S)
      BY <1>1, <1>2, <1>8
    <3>2. QED
      BY <1>5, <1>8, <2>3, <3>1
  <2>4. ASSUME NEW i \in touched PROVE i \in 1..Len(S) /\ S[i].status \in Unfinished
    <3>1. i \in Updated(new) \/ i \in (n + 1)..Len(S)
      OBVIOUS
    <3>2. QED
      BY <2>1, <2>2, <2>3, <3>1
  <2>5. QED
    BY <2>4
<1> HIDE DEF touched
<1>12. noted' \subseteq 1..Len(log) /\ filed' \subseteq 1..Len(log)
  <2>1. \A i \in touched : GeckoCommits(S[i]) \subseteq 1..Len(log)
    BY <1>10, <1>11, GeckoCommitsExist DEF UpstreamInv
  <2>2. noted \subseteq 1..Len(log) /\ filed \subseteq 1..Len(log)
    BY DEF UpstreamInv, TypeOK
  <2>3. QED
    BY <1>4, <2>1, <2>2 DEF Homeless
<1>13. /\ job' \in JobSet(0..Len(log), 1..Len(S))
       /\ \A i \in job'.todo : S[i].status \in Unfinished
       /\ job'.kind \in {"idle", "land"} => job'.todo = {}
  <2> DEFINE R == 0..Len(log)
             T == 1..Len(S)
  <2>1. rev \in R /\ Landable(S) \in SUBSET T /\ touched \in SUBSET T /\ 0 \in R
    BY <1>1, <1>8, <1>11, LenProperties DEF Landable
  <2>2. Idle \in JobSet(R, T)
    BY <1>1, JobTypes
  <2> HIDE DEF R, T
  <2>3. started \in JobSet(R, T) /\ started.todo = {}
    BY <2>1, <2>2 DEF JobSet, Idle
  <2> HIDE DEF started
  <2>4. CASE touched # {}
    <3>1. job' = [started EXCEPT !.kind = "push", !.todo = touched]
      BY <1>4, <2>4
    <3>2. job' \in JobSet(R, T) /\ job'.todo = touched /\ job'.kind = "push"
      BY <2>1, <2>3, <3>1 DEF JobSet
    <3>3. QED
      BY <1>11, <3>2 DEF R, T
  <2>5. CASE touched = {}
    <3>1. job' = [started EXCEPT !.kind = "land", !.land = Landable(S)]
      BY <1>4, <2>5
    <3>2. job' \in JobSet(R, T) /\ job'.todo = {}
      BY <2>1, <2>3, <3>1 DEF JobSet
    <3>3. QED
      BY <3>2 DEF R, T
  <2>6. QED
    BY <2>4, <2>5
<1>14. TypeOK'
  BY <1>4, <1>8, <1>12, <1>13, CentralSeen, TypeParts DEF UpstreamInv, TypeOK
<1>15. AllFit' /\ TodoOpen'
  BY <1>4, <1>10, <1>13 DEF AllFit, Fits, TodoOpen
<1>16. OneOpen'
  <2>1. \A j \in 1..m : \A i \in 1..n :
          syncs[i].bug = created[j] => syncs[i].status \notin Unfinished
    BY <1>1, <1>2 DEF Created, OpenSyncs, Unfinished
  <2> SUFFICES ASSUME NEW i \in 1..Len(S), NEW j \in 1..Len(S), S[i].bug = S[j].bug,
                      S[i].status \in Unfinished, S[j].status \in Unfinished
               PROVE  i = j
    BY <1>4 DEF OneOpen
  <2>2. CASE i \in 1..n /\ j \in 1..n
    BY <1>5, <1>8, <2>2 DEF UpstreamInv, OneOpen
  <2>3. ASSUME NEW a \in 1..n, NEW b \in 1..m, S[a].bug = S[n + b].bug
        PROVE  S[a].status \notin Unfinished
    BY <1>5, <1>6, <1>8, <2>1, <2>3
  <2>4. ASSUME NEW a \in 1..m, NEW b \in 1..m, S[n + a].bug = S[n + b].bug
        PROVE  a = b
    BY <1>2, <1>6, <1>8, <2>4
  <2>5. QED
    BY <1>9, <2>2, <2>3, <2>4
<1>17. AllMerged'
  <2>1. \A i \in 1..n : S[i].status \in Finished => S[i].pr = "merged"
    BY <1>5, <1>8 DEF UpstreamInv, AllMerged
  <2>2. \A j \in 1..m : S[n + j].status \notin Finished
    BY <1>6, <1>8 DEF Finished
  <2>3. QED
    BY <1>4, <1>9, <2>1, <2>2 DEF AllMerged
<1>18. ClosedKept
  BY <1>4, <1>5, <1>8 DEF ClosedKept
<1>19. QED
  BY <1>14, <1>15, <1>16, <1>17, <1>18 DEF Kept

-----------------------------------------------------------------------------
(* The actions, one lemma each. *)

\* What the steps that have no job to update a sync leave alone.
LEMMA IdleFits ==
  ASSUME UpstreamInv
  PROVE  Idle \in JobSet(0..Len(log), 1..Len(syncs)) /\ Idle.todo = {} /\ Idle.kind = "idle"
BY Facts, JobTypes

LEMMA PushKeeps ==
  ASSUME UpstreamInv, NEW r \in Repo, NEW rev \in 1..Len(log), GeckoPush(r, rev)
  PROVE  TypeOK' /\ Kept
<1> DEFINE new == New(point[r], rev)
<1>1. job = Idle /\ known' = central /\ UNCHANGED <<log, central, point, master>>
  BY DEF GeckoPush
<1>2. \/ UNCHANGED <<noted, syncs, filed, job>>
      \/ \E taken \in Takings(new) : Take(r, rev, new, taken)
  BY DEF GeckoPush
<1>3. new \subseteq 1..Len(log)
  <2>1. point[r] \in Nat /\ Len(log) \in Nat
    BY LenProperties DEF UpstreamInv, TypeOK
  <2>2. (point[r] + 1)..rev \subseteq 1..Len(log)
    BY <2>1
  <2>3. QED
    BY <2>2, NoPairsSubset DEF New
<1> HIDE DEF new
<1>4. CASE UNCHANGED <<noted, syncs, filed, job>>
  <2>1. TypeOK'
    BY <1>1, <1>4, CentralSeen, JobTypes, TypeParts DEF UpstreamInv, TypeOK
  <2>2. Kept
    BY <1>1, <1>4, Facts, JobTypes, NoneFollows
  <2>3. QED
    BY <2>1, <2>2
<1>5. ASSUME NEW taken \in Takings(new), Take(r, rev, new, taken)
      PROVE  TypeOK' /\ Kept
  BY <1>1, <1>3, <1>5, TakeKeeps
<1>6. QED
  BY <1>2, <1>4, <1>5

\* A job that goes on with other syncs.
LEMMA LeftFits ==
  ASSUME UpstreamInv, NEW kind \in {"push", "update"}, NEW todo \in SUBSET job.todo,
         NEW S \in Seq(Sync), Len(S) = Len(syncs)
  PROVE  /\ Left(kind, todo, S) \in JobSet(0..Len(log), 1..Len(S))
         /\ Left(kind, todo, S).todo \subseteq todo
         /\ Left(kind, todo, S).kind \in {"idle", "land"} => Left(kind, todo, S).todo = {}
<1> DEFINE R == 0..Len(log)
           T == 1..Len(S)
<1>1. job \in JobSet(R, T) /\ Landable(S) \in SUBSET T
  BY JobTypes, LenProperties DEF UpstreamInv, Landable
<1> HIDE DEF R, T
<1>2. job.todo \in SUBSET T /\ job.land \in SUBSET T
  BY <1>1, JobFields
<1>3. CASE todo # {}
  <2>1. Left(kind, todo, S) = [job EXCEPT !.kind = kind, !.todo = todo]
    BY <1>3 DEF Left
  <2>2. /\ [job EXCEPT !.kind = kind, !.todo = todo] \in JobSet(R, T)
        /\ [job EXCEPT !.kind = kind, !.todo = todo].todo = todo
        /\ [job EXCEPT !.kind = kind, !.todo = todo].kind = kind
    BY <1>1, <1>2 DEF JobSet
  <2>3. QED
    BY <2>1, <2>2 DEF R, T
<1>4. CASE todo = {}
  <2>1. PICK land \in SUBSET T :
          Left(kind, todo, S) = [job EXCEPT !.kind = "land", !.todo = {}, !.land = land]
    BY <1>1, <1>4 DEF Left
  <2>2. /\ [job EXCEPT !.kind = "land", !.todo = {}, !.land = land] \in JobSet(R, T)
        /\ [job EXCEPT !.kind = "land", !.todo = {}, !.land = land].todo = {}
    BY <1>1 DEF JobSet
  <2>3. QED
    BY <1>4, <2>1, <2>2 DEF R, T
<1>5. QED
  BY <1>3, <1>4

LEMMA UpdateKeeps ==
  ASSUME UpstreamInv, NEW i \in 1..Len(syncs), Update(i)
  PROVE  TypeOK' /\ Kept
<1>1. /\ job.kind \in {"push", "update"} /\ i \in job.todo
      /\ UNCHANGED <<log, central, known, point, noted, master, filed>>
  BY DEF Update
<1>2. PICK s \in UpdateModifiedSync(syncs[i]) :
        /\ syncs' = [syncs EXCEPT ![i] = s]
        /\ job' = Left(job.kind, job.todo \ {i}, syncs')
  BY DEF Update
<1>3. syncs[i].status \in Unfinished /\ Fits(syncs[i])
  BY <1>1, Facts DEF UpstreamInv, TodoOpen
<1>4. Follows(syncs[i], s)
  BY <1>3, UpdateFollows DEF UpstreamInv
<1>5. syncs' \in Seq(Sync) /\ Len(syncs') = Len(syncs)
  BY <1>2, <1>4, Facts, ExceptSeq DEF Follows, Fits
<1>6. /\ job' \in JobSet(0..Len(log), 1..Len(syncs')) /\ job'.todo \subseteq job.todo \ {i}
      /\ job'.kind \in {"idle", "land"} => job'.todo = {}
  <2>1. PICK kind \in {"push", "update"} : kind = job.kind
    BY <1>1
  <2>2. PICK todo \in SUBSET job.todo : todo = job.todo \ {i}
    OBVIOUS
  <2>3. PICK S \in Seq(Sync) : S = syncs'
    BY <1>5
  <2>4. job' = Left(kind, todo, S) /\ Len(S) = Len(syncs)
    BY <1>2, <1>5, <2>1, <2>2, <2>3
  <2>5. QED
    BY <2>2, <2>3, <2>4, LeftFits
<1>7. Kept
  BY <1>1, <1>2, <1>4, <1>6, OneFollows
<1>8. TypeOK'
  BY <1>1, <1>5, <1>6, TypeParts DEF UpstreamInv, TypeOK
<1>9. QED
  BY <1>7, <1>8

\* The outcome of a call, when no sync is being updated.
LEMMA SetKeeps ==
  ASSUME UpstreamInv, NEW i \in 1..Len(syncs), NEW t, Follows(syncs[i], t), Set(i, t),
         job.todo = {}, job'.todo = {}, UNCHANGED <<log, central, point, noted, filed>>,
         known' \in 0..central, job' \in JobSet(0..Len(log), 1..Len(syncs))
  PROVE  TypeOK' /\ Kept
<1>1. syncs' = [syncs EXCEPT ![i] = t]
  BY DEF Set
<1>2. Kept /\ syncs' \in Seq(Sync) /\ Len(syncs') = Len(syncs)
  BY <1>1, OneFollows
<1>3. master' \subseteq 1..Len(log)
  <2>1. master \subseteq 1..Len(log) /\ t.sent \subseteq 1..Len(log)
    BY DEF UpstreamInv, TypeOK, Follows, Fits
  <2>2. Apply(master, t.sent) \subseteq 1..Len(log)
    BY <2>1 DEF Apply, Changes
  <2>3. QED
    BY <2>1, <2>2 DEF Set
<1>4. TypeOK'
  BY <1>2, <1>3, TypeParts DEF UpstreamInv, TypeOK
<1>5. QED
  BY <1>2, <1>4

LEMMA LandKeeps ==
  ASSUME UpstreamInv, NEW i \in 1..Len(syncs), Land(i)
  PROVE  TypeOK' /\ Kept
<1>1. job.kind = "land" /\ UNCHANGED <<log, central, known, point, noted, filed>>
  BY DEF Land
<1>2. PICK o \in TryLandPr(syncs[i]) :
        Set(i, o.s) /\ job' \in {[job EXCEPT !.land = @ \ {i}], Idle}
  BY DEF Land
<1>3. Follows(syncs[i], o.s)
  <2>1. Fits(syncs[i]) /\ (syncs[i].status \in Finished => syncs[i].pr = "merged")
    BY Facts DEF UpstreamInv, AllMerged
  <2>2. QED
    BY <2>1, LandFollows
<1>4. job.todo = {}
  BY <1>1 DEF UpstreamInv, TodoOpen
<1>5. job' \in JobSet(0..Len(log), 1..Len(syncs)) /\ job'.todo = {}
  <2> DEFINE R == 0..Len(log)
             T == 1..Len(syncs)
             j == [job EXCEPT !.land = @ \ {i}]
  <2>1. job \in JobSet(R, T)
    BY JobTypes DEF UpstreamInv
  <2>2. Idle \in JobSet(R, T) /\ Idle.todo = {}
    BY IdleFits
  <2> HIDE DEF R, T
  <2>3. j \in JobSet(R, T) /\ j.todo = job.todo
    BY <2>1 DEF JobSet
  <2> HIDE DEF j
  <2>4. job' \in {j, Idle}
    BY <1>2 DEF j
  <2>5. QED
    BY <1>4, <2>2, <2>3, <2>4 DEF R, T
<1>6. known' \in 0..central
  BY <1>1 DEF UpstreamInv, TypeOK
<1>7. QED
  BY <1>1, <1>2, <1>3, <1>4, <1>5, <1>6, SetKeeps

LEMMA DoneKeeps ==
  ASSUME UpstreamInv, Done
  PROVE  TypeOK' /\ Kept
<1>1. /\ job' = Idle /\ UNCHANGED <<log, central, known, noted, syncs, master, filed>>
      /\ point' = IF job.rev > point[job.repo] THEN [point EXCEPT ![job.repo] = job.rev] ELSE point
  BY DEF Done
<1>2. point' \in [Repo -> 0..Len(log)]
  <2> DEFINE R == 0..Len(log)
             T == 1..Len(syncs)
  <2>1. job \in JobSet(R, T) /\ point \in [Repo -> R]
    BY JobTypes DEF UpstreamInv, TypeOK
  <2> HIDE DEF R, T
  <2>2. job.rev \in R /\ job.repo \in Repo
    BY <2>1, JobFields
  <2>3. point' \in [Repo -> R]
    BY <1>1, <2>1, <2>2
  <2>4. QED
    BY <2>3 DEF R
<1>3. TypeOK'
  BY <1>1, <1>2, IdleFits, TypeParts DEF UpstreamInv, TypeOK
<1>4. Kept
  BY <1>1, Facts, IdleFits, NoneFollows
<1>5. QED
  BY <1>3, <1>4

LEMMA CrashKeeps ==
  ASSUME UpstreamInv, Crash
  PROVE  TypeOK' /\ Kept
<1>1. job' = Idle /\ UNCHANGED <<log, central, known, point, noted, syncs, master, filed>>
  BY DEF Crash
<1>2. TypeOK'
  BY <1>1, IdleFits, TypeParts DEF UpstreamInv, TypeOK
<1>3. Kept
  BY <1>1, Facts, IdleFits, NoneFollows
<1>4. QED
  BY <1>2, <1>3

LEMMA UpdateSyncKeeps ==
  ASSUME UpstreamInv, NEW i \in 1..Len(syncs), UpdateSync(i)
  PROVE  TypeOK' /\ Kept
<1>1. /\ known' = central /\ noted' = noted \cup GeckoCommits(syncs[i])
      /\ job' = [Idle EXCEPT !.kind = "update", !.todo = {i}, !.land = {i}]
      /\ UNCHANGED <<log, central, point, syncs, master, filed>>
      /\ syncs[i].status \in Unfinished
  BY DEF UpdateSync, OpenSyncs, Unfinished
<1>2. job' \in JobSet(0..Len(log), 1..Len(syncs)) /\ job'.todo = {i} /\ job'.kind = "update"
  <2> DEFINE R == 0..Len(log)
             T == 1..Len(syncs)
  <2>1. Idle \in JobSet(R, T) /\ {i} \in SUBSET T
    BY IdleFits
  <2> HIDE DEF R, T
  <2>2. job' \in JobSet(R, T) /\ job'.todo = {i} /\ job'.kind = "update"
    BY <1>1, <2>1 DEF JobSet
  <2>3. QED
    BY <2>2 DEF R, T
<1>3. noted' \subseteq 1..Len(log)
  BY <1>1, Facts, GeckoCommitsExist DEF UpstreamInv, TypeOK
<1>4. TypeOK'
  BY <1>1, <1>2, <1>3, CentralSeen, TypeParts DEF UpstreamInv, TypeOK
<1>5. Kept
  BY <1>1, <1>2, Facts, NoneFollows
<1>6. QED
  BY <1>4, <1>5

\* The handlers of events, while no job runs.
LEMMA IdleSetKeeps ==
  ASSUME UpstreamInv, NEW i \in 1..Len(syncs), NEW t, Follows(syncs[i], t), Set(i, t),
         job = Idle, known' \in 0..central, UNCHANGED <<log, central, point, noted, filed, job>>
  PROVE  TypeOK' /\ Kept
BY IdleFits, SetKeeps

LEMMA FinishFollows ==
  ASSUME NEW s, Fits(s), s.pr = "merged", NEW status \in Finished
  PROVE  Follows(s, Finish(s, status))
<1>1. PICK t : t = Finish(s, status)
  OBVIOUS
<1>2. Fits(t) /\ t.bug = s.bug /\ t.status = status /\ t.pr = s.pr /\ t.sent = s.sent
  BY <1>1, FinishFacts DEF Finished, Statuses
<1>3. Follows(s, t)
  BY <1>2 DEF Follows, Finished, Unfinished
<1>4. QED
  BY <1>1, <1>3

LEMMA RefreshPrKeeps ==
  ASSUME UpstreamInv, NEW i \in 1..Len(syncs), RefreshPr(i)
  PROVE  TypeOK' /\ Kept
<1>1. job = Idle /\ known' = central /\ UNCHANGED <<log, central, point, noted, filed, job>>
  BY DEF RefreshPr
<1>2. Fits(syncs[i]) /\ (syncs[i].status \in Finished => syncs[i].pr = "merged")
  BY Facts DEF UpstreamInv, AllMerged
<1>3. \E t : Set(i, t) /\ Follows(syncs[i], t)
  <2>1. CASE /\ syncs[i].pr = "merged"
             /\ \E status \in {"wpt-merged", "complete"} : Set(i, Finish(syncs[i], status))
    BY <1>2, <2>1, FinishFollows DEF Finished
  <2>2. CASE \E o \in TryLandPr(syncs[i]) : Set(i, o.s)
    BY <1>2, <2>2, LandFollows
  <2>3. QED
    BY <2>1, <2>2 DEF RefreshPr
<1>4. QED
  BY <1>1, <1>3, CentralSeen, IdleSetKeeps DEF UpstreamInv

LEMMA PrMergedKeeps ==
  ASSUME UpstreamInv, NEW i \in 1..Len(syncs), PrMerged(i)
  PROVE  TypeOK' /\ Kept
<1>1. /\ job = Idle /\ syncs[i].pr = "merged" /\ Set(i, Finish(syncs[i], "wpt-merged"))
      /\ UNCHANGED <<log, central, known, point, noted, filed, job>>
  BY DEF PrMerged
<1>2. Follows(syncs[i], Finish(syncs[i], "wpt-merged"))
  BY <1>1, Facts, FinishFollows DEF Finished
<1>3. known' \in 0..central
  BY <1>1 DEF UpstreamInv, TypeOK
<1>4. QED
  BY <1>1, <1>2, <1>3, IdleSetKeeps

LEMMA CheckRunKeeps ==
  ASSUME UpstreamInv, NEW i \in 1..Len(syncs), CheckRun(i)
  PROVE  TypeOK' /\ Kept
<1> DEFINE passed == [syncs[i] EXCEPT !.error = FALSE]
           failed == [syncs[i] EXCEPT !.error = TRUE]
<1>1. /\ job = Idle /\ syncs[i].status = "open"
      /\ UNCHANGED <<log, central, known, point, noted, filed, job>>
      /\ \/ \E o \in TryLandPr(passed) : Set(i, o.s)
         \/ Set(i, passed)
         \/ Set(i, failed)
  <2>1. \A o \in {Ok(passed)} : o.s = passed
    BY OutcomeFields
  <2>2. QED
    BY <2>1 DEF CheckRun
<1>2. Follows(syncs[i], syncs[i])
  BY <1>1, Facts DEF Follows, Finished
<1>3. Follows(syncs[i], passed) /\ Follows(syncs[i], failed)
  BY <1>2, ErrorFollows
<1>4. passed.status = "open" /\ passed.sent = syncs[i].sent /\ passed.pr = syncs[i].pr
  BY <1>1, Facts DEF Sync
<1> HIDE DEF passed, failed
<1>5. ASSUME NEW o \in TryLandPr(passed) PROVE Follows(syncs[i], o.s)
  <2>1. Fits(passed) /\ (passed.status \in Finished => passed.pr = "merged")
    BY <1>3, <1>4 DEF Follows
  <2>2. Follows(passed, o.s)
    BY <2>1, LandFollows
  <2>3. QED
    BY <1>1, <1>3, <1>4, <2>2 DEF Follows, Unfinished
<1>6. \E t : Set(i, t) /\ Follows(syncs[i], t)
  BY <1>1, <1>3, <1>5
<1>7. known' \in 0..central
  BY <1>1 DEF UpstreamInv, TypeOK
<1>8. QED
  BY <1>1, <1>6, <1>7, IdleSetKeeps

\* What others do to a PR may happen at any time.
LEMMA OtherEditsKeep ==
  ASSUME UpstreamInv, NEW i \in 1..Len(syncs), OtherEdits(i)
  PROVE  TypeOK' /\ Kept
<1>1. /\ UNCHANGED <<log, central, known, point, noted, filed, job>>
      /\ syncs[i].pr \in {"open", "closed"}
      /\ \E pr \in {"open", "closed", "merged"} :
           pr # syncs[i].pr /\ Set(i, [syncs[i] EXCEPT !.pr = pr])
  BY DEF OtherEdits
<1>2. PICK pr \in {"open", "closed", "merged"} :
        pr # syncs[i].pr /\ Set(i, [syncs[i] EXCEPT !.pr = pr])
  BY <1>1
<1>3. PICK t : t = [syncs[i] EXCEPT !.pr = pr]
  OBVIOUS
<1>4. Fits(t) /\ t.bug = syncs[i].bug /\ t.status = syncs[i].status /\ t.pr = pr /\ t.sent = syncs[i].sent
  <2>1. PICK s : s = syncs[i] /\ Fits(s)
    BY Facts
  <2>2. PICK p \in {"none", "open", "closed", "merged"} : p = pr
    OBVIOUS
  <2>3. t = [s EXCEPT !.pr = p]
    BY <1>3, <2>1, <2>2
  <2>4. Fits(t) /\ t.bug = s.bug /\ t.status = s.status /\ t.pr = p /\ t.sent = s.sent
    <3>1. Fits(s)
      BY <2>1
    <3>2. QED
      BY <2>3, <3>1, PrFacts
  <2>5. QED
    BY <2>1, <2>2, <2>4
<1>5. syncs[i].status \notin Finished
  BY <1>1 DEF UpstreamInv, AllMerged
<1>6. Follows(syncs[i], t)
  BY <1>4, <1>5 DEF Follows
<1>7. Set(i, t)
  BY <1>2, <1>3
<1>8. syncs' = [syncs EXCEPT ![i] = t] /\ syncs' \in Seq(Sync) /\ Len(syncs') = Len(syncs)
  BY <1>6, <1>7, Facts, ExceptSeq DEF Set, Follows, Fits
<1>9. AllFit' /\ OneOpen' /\ AllMerged' /\ ClosedKept
  <2>1. \A j \in 1..Len(syncs) : syncs'[j] = IF j = i THEN t ELSE syncs[j]
    BY <1>8, Facts, ExceptSeq
  <2>2. AllFit'
    BY <1>1, <1>6, <1>8, <2>1, Facts DEF AllFit, Fits, Follows
  <2>3. OneOpen'
    BY <1>4, <1>8, <2>1 DEF UpstreamInv, OneOpen
  <2>4. AllMerged'
    BY <1>4, <1>5, <1>8, <2>1 DEF UpstreamInv, AllMerged
  <2>5. ClosedKept
    BY <1>4, <1>8, <2>1 DEF ClosedKept
  <2>6. QED
    BY <2>2, <2>3, <2>4, <2>5
<1>10. TodoOpen'
  <2>1. \A j \in 1..Len(syncs) : syncs'[j].status = syncs[j].status
    BY <1>4, <1>8, Facts, ExceptSeq
  <2>2. job.todo \subseteq 1..Len(syncs)
    BY JobTypes, JobFields DEF UpstreamInv
  <2>3. QED
    BY <1>1, <2>1, <2>2 DEF UpstreamInv, TodoOpen
<1>11. TypeOK'
  <2>1. master' \subseteq 1..Len(log)
    <3>1. master \subseteq 1..Len(log) /\ t.sent \subseteq 1..Len(log)
      BY <1>4 DEF UpstreamInv, TypeOK, Fits
    <3>2. QED
      BY <1>7, <3>1 DEF Set, Apply, Changes
  <2>2. job' \in JobSet(0..Len(log), 1..Len(syncs'))
    BY <1>1, <1>8, JobTypes DEF UpstreamInv
  <2>3. QED
    BY <1>1, <1>8, <2>1, <2>2, TypeParts DEF UpstreamInv, TypeOK
<1>12. QED
  BY <1>9, <1>10, <1>11 DEF Kept

-----------------------------------------------------------------------------
(* Gecko. *)

LEMMA Grows ==
  ASSUME UpstreamInv, NEW commit \in [bug : Bugs, outs : SUBSET (1..Len(log))], Push(commit)
  PROVE  TypeOK' /\ Kept
<1>1. /\ log' = Append(log, commit) /\ Len(log) < MaxCommits
      /\ UNCHANGED <<central, known, point, noted, syncs, master, filed, job>>
  BY DEF Push
<1>2. commit \in [bug : Bugs, outs : SUBSET Commit]
  <2>1. 1..Len(log) \subseteq Commit
    BY <1>1, Facts, BoundAssumption DEF Commit
  <2>2. QED
    BY <2>1
<1>3. /\ log' \in Seq([bug : Bugs, outs : SUBSET Commit]) /\ Len(log') = Len(log) + 1
      /\ Len(log) \in Nat
  BY <1>1, <1>2, Facts, AppendProperties DEF UpstreamInv, TypeOK
<1>4. 1..Len(log) \subseteq 1..Len(log') /\ 0..Len(log) \subseteq 0..Len(log')
  BY <1>3
<1>5. job' \in JobSet(0..Len(log'), 1..Len(syncs'))
  <2> DEFINE R == 0..Len(log)
             Q == 0..Len(log')
             T == 1..Len(syncs)
  <2>1. job \in JobSet(R, T) /\ R \subseteq Q
    BY <1>4, JobTypes DEF UpstreamInv
  <2> HIDE DEF R, Q, T
  <2>2. job \in JobSet(Q, T)
    BY <2>1 DEF JobSet
  <2>3. QED
    BY <1>1, <2>2 DEF Q, T
<1>6. TypeOK'
  <2>1. central' \in 0..Len(log') /\ known' \in 0..central'
    BY <1>1, <1>4 DEF UpstreamInv, TypeOK
  <2>2. point' \in [Repo -> 0..Len(log')]
    BY <1>1, <1>4 DEF UpstreamInv, TypeOK
  <2>3. noted' \subseteq 1..Len(log') /\ filed' \subseteq 1..Len(log') /\ master' \subseteq 1..Len(log')
    BY <1>1, <1>4 DEF UpstreamInv, TypeOK
  <2>4. Len(log') <= MaxCommits /\ syncs' \in Seq(Sync) /\ Len(syncs') <= MaxSyncs
    BY <1>1, <1>3, BoundAssumption DEF UpstreamInv, TypeOK
  <2>5. QED
    BY <1>3, <1>5, <2>1, <2>2, <2>3, <2>4 DEF TypeOK, JobSet
<1>7. Kept
  BY <1>1, <1>3, NoneFollows DEF UpstreamInv, TodoOpen
<1>8. QED
  BY <1>6, <1>7

LEMMA CommitChangeKeeps ==
  ASSUME UpstreamInv, NEW b \in Bugs, CommitChange(b)
  PROVE  TypeOK' /\ Kept
<1>1. [bug |-> b, outs |-> {}] \in [bug : Bugs, outs : SUBSET (1..Len(log))]
  OBVIOUS
<1>2. QED
  BY <1>1, Grows DEF CommitChange

LEMMA BackOutKeeps ==
  ASSUME UpstreamInv, NEW b \in Bugs, BackOut(b)
  PROVE  TypeOK' /\ Kept
<1>1. \A d : Of(d, Tree(Len(log))) \subseteq 1..Len(log)
  BY DEF Of, Tree, Changes
<1>2. PICK outs \in SUBSET (1..Len(log)) : Push([bug |-> b, outs |-> outs])
  <2> DEFINE live == Of(b, Tree(Len(log)))
  <2>1. \E outs : /\ Push([bug |-> b, outs |-> outs])
                  /\ \/ outs = live \/ outs = Ends(live) \/ outs = Starts(live)
                     \/ \E d \in Bugs : outs = live \cup Of(d, Tree(Len(log)))
    BY DEF BackOut
  <2>2. live \subseteq 1..Len(log) /\ Ends(live) \subseteq live /\ Starts(live) \subseteq live
    BY <1>1 DEF Ends, Starts
  <2>3. QED
    BY <1>1, <2>1, <2>2
<1>3. [bug |-> b, outs |-> outs] \in [bug : Bugs, outs : SUBSET (1..Len(log))]
  OBVIOUS
<1>4. QED
  BY <1>2, <1>3, Grows

LEMMA MergeKeeps ==
  ASSUME UpstreamInv, MergeToCentral
  PROVE  TypeOK' /\ Kept
<1>1. /\ central' \in (central + 1)..Len(log)
      /\ UNCHANGED <<log, known, point, noted, syncs, master, filed, job>>
  BY DEF MergeToCentral
<1>2. central' \in 0..Len(log) /\ known \in 0..central'
  BY <1>1, Facts DEF UpstreamInv, TypeOK
<1>3. TypeOK'
  <2>1. /\ central' \in 0..Len(log') /\ known' \in 0..central'
    BY <1>1, <1>2
  <2>2. QED
    BY <1>1, <2>1 DEF UpstreamInv, TypeOK
<1>4. Kept
  BY <1>1, Facts, NoneFollows DEF UpstreamInv, TodoOpen
<1>5. QED
  BY <1>3, <1>4

-----------------------------------------------------------------------------
(* The theorems. *)

LEMMA UpstreamInvStarts == Init => UpstreamInv
<1> SUFFICES ASSUME Init PROVE UpstreamInv
  OBVIOUS
<1>1. Len(log) = 0 /\ Len(syncs) = 0 /\ log = <<>> /\ syncs = <<>>
  BY EmptySeq DEF Init
<1>2. TypeOK
  <2>1. log \in Seq([bug : Bugs, outs : SUBSET Commit]) /\ syncs \in Seq(Sync)
    BY <1>1, EmptySeq
  <2>2. job \in JobSet(0..Len(log), 1..Len(syncs))
    BY <1>1, JobTypes DEF Init
  <2>3. QED
    BY <1>1, <2>1, <2>2, BoundAssumption DEF Init, TypeOK, JobSet
<1>3. AllFit /\ OneOpen /\ AllMerged
  BY <1>1 DEF AllFit, OneOpen, AllMerged
<1>4. TodoOpen
  BY JobTypes DEF Init, TodoOpen
<1>5. QED
  BY <1>2, <1>3, <1>4 DEF UpstreamInv

LEMMA UpstreamInvKept ==
  ASSUME UpstreamInv, [Next]_vars
  PROVE  UpstreamInv' /\ ClosedKept
<1>1. TypeOK' /\ Kept
  <2>1. ASSUME NEW b \in Bugs, CommitChange(b) \/ BackOut(b) PROVE TypeOK' /\ Kept
    BY <2>1, CommitChangeKeeps, BackOutKeeps
  <2>2. CASE MergeToCentral
    BY <2>2, MergeKeeps
  <2>3. ASSUME NEW r \in Repo, NEW rev \in 1..Len(log), GeckoPush(r, rev) PROVE TypeOK' /\ Kept
    BY <2>3, PushKeeps
  <2>4. ASSUME NEW i \in 1..Len(syncs),
               \/ Update(i) \/ Land(i) \/ UpdateSync(i) \/ RefreshPr(i) \/ PrMerged(i)
               \/ CheckRun(i) \/ OtherEdits(i)
        PROVE  TypeOK' /\ Kept
    BY <2>4, UpdateKeeps, LandKeeps, UpdateSyncKeeps, RefreshPrKeeps, PrMergedKeeps,
       CheckRunKeeps, OtherEditsKeep
  <2>5. CASE Done
    BY <2>5, DoneKeeps
  <2>6. CASE Crash
    BY <2>6, CrashKeeps
  <2>7. CASE UNCHANGED vars
    <3>1. TypeOK'
      BY <2>7 DEF UpstreamInv, TypeOK, vars
    <3>2. Kept
      BY <2>7, Facts, NoneFollows DEF UpstreamInv, TodoOpen, vars
    <3>3. QED
      BY <3>1, <3>2
  <2>8. DOMAIN syncs = 1..Len(syncs)
    BY Facts
  <2>9. QED
    BY <2>1, <2>2, <2>3, <2>4, <2>5, <2>6, <2>7, <2>8 DEF Next
<1>2. QED
  BY <1>1 DEF UpstreamInv, Kept

\* The invariant holds of every state of the specification.
THEOREM UpstreamInvHolds == Spec => []UpstreamInv
<1>1. UpstreamInv /\ [Next]_vars => UpstreamInv'
  BY UpstreamInvKept
<1>2. QED
  BY <1>1, UpstreamInvStarts, PTL DEF Spec

\* The commits, syncs and job are what the handlers take them to be: a sync is about commits
\* that exist, whatever is backed out, created or crashes.
THEOREM TypesCorrect == Spec => []TypeOK
<1>1. UpstreamInv => TypeOK
  BY DEF UpstreamInv
<1>2. QED
  BY <1>1, UpstreamInvHolds, PTL

\* updated_syncs_for_push and updates_for_backout never find two syncs of a bug to choose from.
THEOREM OneSyncPerBug == Spec => []OneOpenSync
<1>1. UpstreamInv => OneOpenSync
  <2> SUFFICES ASSUME UpstreamInv PROVE OneOpenSync
    OBVIOUS
  <2>1. DOMAIN syncs = 1..Len(syncs)
    BY Facts
  <2>2. QED
    BY <2>1 DEF UpstreamInv, OneOpen, OneOpenSync, Unfinished
<1>2. QED
  BY <1>1, UpstreamInvHolds, PTL

\* A sync is finished only when its PR was merged, by try_land_pr or by somebody else,
\* whatever failed to apply on the way.
THEOREM FinishedWasMerged == Spec => []FinishedMerged
<1>1. UpstreamInv => FinishedMerged
  <2> SUFFICES ASSUME UpstreamInv PROVE FinishedMerged
    OBVIOUS
  <2>1. DOMAIN syncs = 1..Len(syncs)
    BY Facts
  <2>2. QED
    BY <2>1 DEF UpstreamInv, AllMerged, FinishedMerged, Finished
<1>2. QED
  BY <1>1, UpstreamInvHolds, PTL

\* The branch of a closed PR is not pushed to: update_github reopens the PR first, also when
\* it pushes what update_wpt_commits applied before an AbortError that is swallowed.
THEOREM ClosedBranchesKept == Spec => ClosedUntouched
<1>1. UpstreamInv /\ [Next]_vars =>
        [\A i \in DOMAIN syncs :
           syncs[i].pr = "closed" /\ syncs'[i].pr = "closed" => syncs'[i].sent = syncs[i].sent]_vars
  <2> SUFFICES ASSUME UpstreamInv, [Next]_vars
               PROVE  \A i \in DOMAIN syncs :
                        syncs[i].pr = "closed" /\ syncs'[i].pr = "closed"
                          => syncs'[i].sent = syncs[i].sent
    OBVIOUS
  <2>1. DOMAIN syncs = 1..Len(syncs)
    BY Facts
  <2>2. QED
    BY <2>1, UpstreamInvKept DEF ClosedKept
<1>2. QED
  BY <1>1, UpstreamInvHolds, PTL DEF Spec, ClosedUntouched
=============================================================================
