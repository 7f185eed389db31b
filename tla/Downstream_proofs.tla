-------------------------- MODULE Downstream_proofs --------------------------
(***************************************************************************)
(* Proofs about Downstream, for any PRs, versions, reverts, results and    *)
(* failures, and any bounds.                                               *)
(***************************************************************************)
EXTENDS Downstream, SequenceTheorems, TLAPS

\* The latest metadata commit of a sync, wherever it is.
Top(s) == IF s.meta # 0 THEN s.meta ELSE s.stash

\* A sync is of a version that was fetched, and has one metadata commit.
Fit(s, r) ==
  /\ s \in Sync /\ 1 <= s.head /\ s.head <= r /\ s.of <= s.head /\ s.base <= central
  /\ s.meta = 0 \/ s.stash = 0

(***************************************************************************)
(* A try push of a sync is of a version up to its head.  Those of a sync   *)
(* follow each other, and a stability one without a metadata commit is not *)
(* followed by one of the same commits.                                    *)
(***************************************************************************)
TryFit(t, s) ==
  /\ t.head = t.gecko[1] /\ 1 <= t.gecko[1] /\ t.gecko[1] <= s.head /\ t.gecko[2] <= s.base
Ordered(t, u) ==
  /\ t.gecko[1] <= u.gecko[1] /\ t.gecko[2] <= u.gecko[2]
  /\ t.stability /\ t.gecko[3] = 0 => t.gecko[1] # u.gecko[1] \/ t.gecko[2] # u.gecko[2]
TriesFit(ts, s) ==
  /\ ts \in Seq(Try)
  /\ \A k \in 1..Len(ts) : TryFit(ts[k], s)
  /\ \A j, k \in 1..Len(ts) : j < k => Ordered(ts[j], ts[k])

(***************************************************************************)
(* The inductive invariant, for the syncs S, the try pushes T and refs R.  *)
(***************************************************************************)
Good(S, T, R) ==
  /\ S \in [PR -> Sync \cup {NoSync}] /\ T \in [PR -> Seq(Try)] /\ R \in [PR -> 0..MaxHeads]
  /\ \A n \in PR : S[n] = NoSync => T[n] = <<>>
  /\ \A n \in PR : S[n] # NoSync => Fit(S[n], R[n]) /\ TriesFit(T[n], S[n])

\* What a step may make of a sync s, and of the syncs S with the try pushes T.
Later(s, t) ==
  /\ s.head <= t.head /\ s.base <= t.base /\ (s.skip => t.skip)
  /\ "conflict" \notin Faults => Top(s) <= Top(t)
Kept(S, T, S2, T2) ==
  \A m \in PR : S[m] # NoSync =>
    S2[m] # NoSync /\ Later(S[m], S2[m]) /\ Len(T[m]) <= Len(T2[m])

-----------------------------------------------------------------------------
(* Lemmas on one sync. *)

LEMMA SyncFields ==
  ASSUME NEW s \in Sync
  PROVE  /\ s.open \in BOOLEAN /\ s.error \in BOOLEAN /\ s.skip \in BOOLEAN
         /\ s.rebased \in BOOLEAN /\ s.bug \in BOOLEAN /\ s.onto \in BOOLEAN
         /\ s.head \in 0..MaxHeads /\ s.of \in 0..MaxHeads /\ s.base \in 0..MaxBase
         /\ s.meta \in 0..MaxMeta /\ s.stash \in 0..MaxMeta
         /\ s.tests \in {"unknown", "some", "none"} /\ s # NoSync
BY SyncAssumption DEF Sync

\* What the calls below leave alone.
Alike(s, t) ==
  t.open = s.open /\ t.skip = s.skip /\ t.head = s.head /\ t.of = s.of /\ t.base = s.base

LEMMA LaterTransitive ==
  ASSUME NEW r \in 0..MaxHeads, NEW s, NEW t, NEW u, Fit(s, r), Fit(t, r), Fit(u, r),
         Later(s, t), Later(t, u)
  PROVE  Later(s, u)
<1>1. /\ s.head \in Int /\ t.head \in Int /\ u.head \in Int
      /\ s.base \in Int /\ t.base \in Int /\ u.base \in Int
      /\ Top(s) \in Int /\ Top(t) \in Int /\ Top(u) \in Int
  BY SyncFields, BoundAssumption, VersionAssumption DEF Fit, Top
<1>2. QED
  BY <1>1 DEF Later

LEMMA AlikeLater ==
  ASSUME NEW r \in 0..MaxHeads, NEW s, NEW t \in Sync, Fit(s, r), Alike(s, t),
         t.meta = s.meta /\ t.stash = s.stash
  PROVE  Fit(t, r) /\ Later(s, t)
<1>1. /\ s.head \in Int /\ s.base \in Int /\ s.meta \in Int /\ s.stash \in Int
  BY SyncFields, BoundAssumption, VersionAssumption DEF Fit
<1>2. QED
  BY <1>1 DEF Fit, Later, Alike, Top

LEMMA RestoreFacts ==
  ASSUME NEW r \in 0..MaxHeads, NEW s, Fit(s, r), NEW t \in Restore(s)
  PROVE  /\ Fit(t, r) /\ Later(s, t) /\ Alike(s, t) /\ t.stash = 0 /\ t.tests = s.tests
         /\ "conflict" \notin Faults /\ s.stash # 0 => t.meta # 0
<1>1. /\ s \in Sync /\ s.head \in Int /\ s.base \in Int /\ s.meta \in 0..MaxMeta /\ s.stash \in 0..MaxMeta
      /\ MaxMeta \in Nat
  BY SyncFields, BoundAssumption, VersionAssumption DEF Fit
<1>2. CASE t = s /\ (s.meta # 0 \/ s.stash = 0)
  BY <1>1, <1>2 DEF Fit, Later, Alike, Top
<1>3. CASE t = [s EXCEPT !.meta = s.stash, !.stash = 0] /\ s.meta = 0
  <2>1. t \in Sync /\ Alike(s, t) /\ t.meta = s.stash /\ t.stash = 0 /\ t.tests = s.tests
    BY <1>1, <1>3 DEF Sync, Alike
  <2>2. QED
    BY <1>1, <1>3, <2>1 DEF Fit, Later, Alike, Top
<1>4. CASE t = [s EXCEPT !.stash = 0] /\ s.meta = 0 /\ "conflict" \in Faults
  <2>1. t \in Sync /\ Alike(s, t) /\ t.meta = s.meta /\ t.stash = 0 /\ t.tests = s.tests
    BY <1>1, <1>4 DEF Sync, Alike
  <2>2. QED
    BY <1>1, <1>4, <2>1 DEF Fit, Later, Alike, Top
<1>5. QED
  BY <1>2, <1>3, <1>4 DEF Restore, When

LEMMA MoveFacts ==
  ASSUME NEW r \in 0..MaxHeads, NEW s, Fit(s, r), s.stash = 0, NEW n
  PROVE  LET t == MoveMetadata(s, n)
         IN  Fit(t, r) /\ Later(s, t) /\ Alike(s, t) /\ t.tests = s.tests
<1>1. /\ s \in Sync /\ s.head \in Int /\ s.base \in Int /\ s.meta \in 0..MaxMeta /\ s.stash \in 0..MaxMeta
      /\ MaxMeta \in Nat \ {0}
  BY SyncFields, BoundAssumption, VersionAssumption DEF Fit
<1>2. CASE MoveMetadata(s, n) = s
  BY <1>1, <1>2 DEF Fit, Later, Alike, Top
<1>3. CASE s.meta = 0 /\ MoveMetadata(s, n) = [s EXCEPT !.meta = 1]
  <2> DEFINE t == [s EXCEPT !.meta = 1]
  <2>1. t \in Sync /\ Alike(s, t) /\ t.meta = 1 /\ t.stash = 0 /\ t.tests = s.tests
    BY <1>1 DEF Sync, Alike
  <2> HIDE DEF t
  <2>2. Fit(t, r) /\ Later(s, t)
    BY <1>1, <1>3, <2>1 DEF Fit, Later, Alike, Top
  <2>3. QED
    BY <1>3, <2>1, <2>2 DEF t
<1>4. QED
  BY <1>2, <1>3 DEF MoveMetadata

\* The commits are removed, or replaced: the metadata commit is stashed.
Redone(s, of, base, onto) == [Stripped(s) EXCEPT !.of = of, !.base = base, !.onto = onto]

LEMMA StrippedFacts ==
  ASSUME NEW r \in 0..MaxHeads, NEW s, Fit(s, r), NEW of \in {0, s.head},
         NEW base \in 0..MaxBase, s.base <= base, base <= central, NEW onto \in BOOLEAN
  PROVE  LET t == Redone(s, of, base, onto)
         IN  /\ Fit(t, r) /\ Later(s, t) /\ t.head = s.head /\ t.open = s.open /\ t.skip = s.skip
             /\ t.of = of /\ t.tests = "unknown"
<1> DEFINE t == Redone(s, of, base, onto)
<1>1. /\ s \in Sync /\ s.head \in 0..MaxHeads /\ s.base \in Int
      /\ s.meta \in 0..MaxMeta /\ s.stash \in 0..MaxMeta
      /\ MaxMeta \in Nat /\ MaxHeads \in Nat
  BY SyncFields, BoundAssumption, VersionAssumption DEF Fit
<1> DEFINE stash == IF s.meta # 0 THEN s.meta ELSE s.stash
<1>0. /\ stash \in 0..MaxMeta /\ of \in 0..MaxHeads /\ 0 \in 0..MaxMeta /\ 0 \in 0..MaxHeads
      /\ Stripped(s) = [s EXCEPT !.stash = stash, !.meta = 0, !.of = 0, !.tests = "unknown"]
  BY <1>1 DEF Stripped, Sync
<1> HIDE DEF stash
<1>2. /\ t \in Sync /\ t.head = s.head /\ t.open = s.open /\ t.skip = s.skip
      /\ t.of = of /\ t.tests = "unknown" /\ t.base = base /\ t.meta = 0
      /\ t.stash = stash
  BY <1>0, <1>1 DEF Sync, Redone
<1> HIDE DEF t
<1>3. Fit(t, r) /\ Later(s, t)
  BY <1>1, <1>2 DEF Fit, Later, Top, stash
<1>4. QED
  BY <1>2, <1>3 DEF t

LEMMA StrippedAlone ==
  ASSUME NEW r \in 0..MaxHeads, NEW s, Fit(s, r),
         NEW t \in {Stripped(s), [Stripped(s) EXCEPT !.onto = TRUE]}
  PROVE  /\ Fit(t, r) /\ Later(s, t) /\ t.head = s.head /\ t.open = s.open /\ t.skip = s.skip
         /\ t.of = 0 /\ t.tests = "unknown"
<1>1. /\ s \in Sync /\ s.base \in 0..MaxBase /\ s.base <= s.base /\ s.base <= central
      /\ s.onto \in BOOLEAN /\ 0 \in {0, s.head}
  BY SyncFields, BoundAssumption DEF Fit
<1>2. Stripped(s) = Redone(s, 0, s.base, s.onto)
  BY <1>1 DEF Sync, Stripped, Redone
<1>3. [Stripped(s) EXCEPT !.onto = TRUE] = Redone(s, 0, s.base, TRUE)
  BY <1>1 DEF Sync, Stripped, Redone
<1>4. PICK b \in BOOLEAN : t = Redone(s, 0, s.base, b)
  BY <1>1, <1>2, <1>3
<1>5. QED
  BY <1>1, <1>4, StrippedFacts

LEMMA AppliedFacts ==
  ASSUME central \in 0..MaxBase,
         NEW r \in 0..MaxHeads, NEW s, Fit(s, r), NEW t \in Applied(s)
  PROVE  /\ Fit(t, r) /\ Later(s, t) /\ t.head = s.head /\ t.open = s.open /\ t.skip = s.skip
         /\ t.of = s.head /\ t.tests = "unknown"
<1>1. /\ s \in Sync /\ s.base \in 0..MaxBase /\ s.base <= s.base /\ s.base <= central
      /\ central <= central /\ s.onto \in BOOLEAN /\ Stripped(s).onto = s.onto
      /\ TRUE \in BOOLEAN /\ s.head \in {0, s.head}
  BY SyncFields, BoundAssumption DEF Fit, Sync, Stripped
<1>2. PICK b \in {central, s.base}, onto \in BOOLEAN :
        t = Redone(s, s.head, b, onto)
  <2>1. ASSUME NEW b \in {central, s.base}, t = [Stripped(s) EXCEPT !.of = s.head, !.base = b]
        PROVE  t = Redone(s, s.head, b, s.onto)
    BY <1>1, <2>1 DEF Sync, Stripped, Redone
  <2>2. \/ t = Redone(s, s.head, central, TRUE)
        \/ \E b \in {central, s.base} : t = [Stripped(s) EXCEPT !.of = s.head, !.base = b]
    BY DEF Applied, When, Redone
  <2>3. QED
    BY <1>1, <2>1, <2>2
<1>3. b \in 0..MaxBase /\ s.base <= b /\ b <= central
  BY <1>1
<1>4. QED
  BY <1>1, <1>2, <1>3, StrippedFacts

LEMMA ErrorFacts ==
  ASSUME NEW r \in 0..MaxHeads, NEW s, Fit(s, r), NEW e \in BOOLEAN
  PROVE  LET t == [s EXCEPT !.error = e]
         IN  Fit(t, r) /\ Later(s, t) /\ Alike(s, t) /\ t.tests = s.tests /\ t.error = e
<1> DEFINE t == [s EXCEPT !.error = e]
<1>1. /\ t \in Sync /\ Alike(s, t) /\ t.meta = s.meta /\ t.stash = s.stash /\ t.tests = s.tests
      /\ t.error = e
  BY DEF Fit, Sync, Alike
<1> HIDE DEF t
<1>2. Fit(t, r) /\ Later(s, t)
  BY <1>1, AlikeLater
<1>3. QED
  BY <1>1, <1>2 DEF t

(***************************************************************************)
(* What update_commits makes of a sync: its branch is empty or holds the   *)
(* commits of its head, unless there was an error; what is known of its    *)
(* tests is of the commits on the branch.                                  *)
(***************************************************************************)
Current(s, n) == s.of = IF <<n, s.head>> \in NoChange THEN 0 ELSE s.head
Reapplied(s, t) ==
  /\ t.head = s.head /\ t.open = s.open /\ t.skip = s.skip
  /\ \/ t.of = s.of /\ t.tests = s.tests
     \/ t.tests = "unknown"

LEMMA ReappliedLater ==
  ASSUME NEW r \in 0..MaxHeads, NEW s, Fit(s, r), NEW t, Fit(t, r), Later(s, t), Reapplied(s, t),
         NEW u, Fit(u, r), Later(t, u), Alike(t, u), u.tests = t.tests
  PROVE  Later(s, u) /\ Reapplied(s, u) /\ u.of = t.of
<1>1. Later(s, u)
  BY LaterTransitive
<1>2. QED
  BY <1>1 DEF Reapplied, Alike

LEMMA ApplyFacts ==
  ASSUME central \in 0..MaxBase, NEW r \in 0..MaxHeads, NEW s, Fit(s, r), NEW n,
         NEW a \in Apply(s, n)
  PROVE  /\ Fit(a.sync, r) /\ Later(s, a.sync) /\ Reapplied(s, a.sync)
         /\ a.raised \in {"none", "error"} /\ a.sync.error = (a.raised # "none")
         /\ a.raised = "none" => Current(a.sync, n)
         /\ s.of = s.head /\ <<n, s.head>> \notin NoChange => a.sync.of = s.head
<1> DEFINE restored == UNION {Restore(x) : x \in Applied(s)}
           moved    == {MoveMetadata(x, n) : x \in restored}
           T(x, of) == Fit(x, r) /\ Later(s, x) /\ Reapplied(s, x) /\ x.of = of
           Ok(x)    == a = [sync |-> [x EXCEPT !.error = FALSE], raised |-> "none"]
           Fail(x)  == a = [sync |-> [x EXCEPT !.error = TRUE], raised |-> "error"]
<1>0. s \in Sync /\ s.head \in Int /\ s.base \in Int /\ Top(s) \in Int
  BY SyncFields, BoundAssumption DEF Fit, Top
<1>1. T(s, s.of)
  BY <1>0 DEF Later, Reapplied
<1>2. \A x \in Applied(s) : T(x, s.head)
  <2>1. ASSUME NEW x \in Applied(s) PROVE T(x, s.head)
    BY AppliedFacts DEF Reapplied
  <2>2. QED
    BY <2>1
<1>3. \A x \in restored : T(x, s.head) /\ x.stash = 0
  <2>1. ASSUME NEW y \in Applied(s), NEW x \in Restore(y) PROVE T(x, s.head) /\ x.stash = 0
    <3>1. T(y, s.head)
      BY <1>2
    <3>2. Fit(x, r) /\ Later(y, x) /\ Alike(y, x) /\ x.stash = 0 /\ x.tests = y.tests
      BY <3>1, RestoreFacts
    <3>3. QED
      BY <3>1, <3>2, ReappliedLater
  <2>2. QED
    BY <2>1
<1>4. \A x \in moved : T(x, s.head)
  <2>1. ASSUME NEW y \in restored, NEW x, x = MoveMetadata(y, n) PROVE T(x, s.head)
    <3>1. T(y, s.head) /\ y.stash = 0
      BY <1>3
    <3> HIDE DEF restored
    <3>2. Fit(x, r) /\ Later(y, x) /\ Alike(y, x) /\ x.tests = y.tests
      BY <2>1, <3>1, MoveFacts
    <3>3. QED
      BY <3>1, <3>2, ReappliedLater
  <2> HIDE DEF T, restored
  <2>2. QED
    BY <2>1
<1>5. \A x \in {Stripped(s), [Stripped(s) EXCEPT !.onto = TRUE]} : T(x, 0)
  <2>1. ASSUME NEW x \in {Stripped(s), [Stripped(s) EXCEPT !.onto = TRUE]} PROVE T(x, 0)
    BY StrippedAlone DEF Reapplied
  <2>2. QED
    BY <2>1
<1>6. \A x \in Restore(Stripped(s)) : T(x, 0)
  <2>1. ASSUME NEW x \in Restore(Stripped(s)) PROVE T(x, 0)
    <3>1. T(Stripped(s), 0)
      BY <1>5
    <3>2. Fit(x, r) /\ Later(Stripped(s), x) /\ Alike(Stripped(s), x) /\ x.tests = Stripped(s).tests
      BY <3>1, RestoreFacts
    <3>3. QED
      BY <3>1, <3>2, ReappliedLater
  <2>2. QED
    BY <2>1
<1>7. s.of = 0 => T([s EXCEPT !.tests = "unknown"], 0)
  <2> DEFINE u == [s EXCEPT !.tests = "unknown"]
  <2>1. u \in Sync /\ Alike(s, u) /\ u.meta = s.meta /\ u.stash = s.stash /\ u.tests = "unknown"
    BY <1>0 DEF Sync, Alike
  <2> HIDE DEF u
  <2>2. Fit(u, r) /\ Later(s, u)
    BY <2>1, AlikeLater
  <2>3. s.of = 0 => T(u, 0)
    BY <2>1, <2>2 DEF Reapplied, Alike
  <2>4. QED
    BY <2>3 DEF u
<1>8. \/ <<n, s.head>> \in NoChange /\ s.of = 0 /\ Ok([s EXCEPT !.tests = "unknown"])
      \/ <<n, s.head>> \in NoChange /\ \E x \in Restore(Stripped(s)) : Ok(x)
      \/ <<n, s.head>> \notin NoChange /\ s.of = s.head /\ Ok(s)
      \/ <<n, s.head>> \notin NoChange /\ \E x \in moved : Ok(x)
      \/ s.of # s.head /\ \E x \in Applied(s) \cup restored \cup moved : Fail(x)
      \/ s.of # s.head /\ Fail([Stripped(s) EXCEPT !.onto = TRUE])
  BY DEF Apply, When
<1> HIDE DEF restored, moved
<1>9. ASSUME NEW x, NEW of, T(x, of), Ok(x),
             of = IF <<n, s.head>> \in NoChange THEN 0 ELSE s.head
      PROVE  /\ Fit(a.sync, r) /\ Later(s, a.sync) /\ Reapplied(s, a.sync)
             /\ a.raised = "none" /\ a.sync.error = FALSE /\ a.sync.of = of
             /\ Current(a.sync, n)
  <2> DEFINE y == [x EXCEPT !.error = FALSE]
  <2>1. Fit(y, r) /\ Later(x, y) /\ Alike(x, y) /\ y.tests = x.tests /\ y.error = FALSE
    BY <1>9, ErrorFacts
  <2>2. a.sync = y /\ a.raised = "none"
    BY <1>9
  <2> HIDE DEF y
  <2>3. Later(s, y) /\ Reapplied(s, y) /\ y.of = of
    BY <1>9, <2>1, ReappliedLater
  <2>4. QED
    BY <1>9, <2>1, <2>2, <2>3 DEF Current, Reapplied
<1>10. ASSUME NEW x, NEW of, T(x, of), Fail(x)
       PROVE  /\ Fit(a.sync, r) /\ Later(s, a.sync) /\ Reapplied(s, a.sync)
              /\ a.raised = "error" /\ a.sync.error = TRUE
  <2> DEFINE y == [x EXCEPT !.error = TRUE]
  <2>1. Fit(y, r) /\ Later(x, y) /\ Alike(x, y) /\ y.tests = x.tests /\ y.error = TRUE
    BY <1>10, ErrorFacts
  <2>2. a.sync = y /\ a.raised = "error"
    BY <1>10
  <2> HIDE DEF y
  <2>3. Later(s, y) /\ Reapplied(s, y)
    BY <1>10, <2>1, ReappliedLater
  <2>4. QED
    BY <2>1, <2>2, <2>3
<1> HIDE DEF T, Ok, Fail
<1>11. CASE <<n, s.head>> \in NoChange /\ s.of = 0 /\ Ok([s EXCEPT !.tests = "unknown"])
  BY <1>7, <1>9, <1>11
<1>12. CASE <<n, s.head>> \in NoChange /\ \E x \in Restore(Stripped(s)) : Ok(x)
  BY <1>6, <1>9, <1>12
<1>13. CASE <<n, s.head>> \notin NoChange /\ s.of = s.head /\ Ok(s)
  BY <1>1, <1>9, <1>13
<1>14. CASE <<n, s.head>> \notin NoChange /\ \E x \in moved : Ok(x)
  BY <1>4, <1>9, <1>14
<1>15. CASE s.of # s.head /\ \E x \in Applied(s) \cup restored \cup moved : Fail(x)
  BY <1>2, <1>3, <1>4, <1>10, <1>15
<1>16. CASE s.of # s.head /\ Fail([Stripped(s) EXCEPT !.onto = TRUE])
  BY <1>5, <1>10, <1>16
<1>17. QED
  BY <1>8, <1>11, <1>12, <1>13, <1>14, <1>15, <1>16

LEMMA AffectedFacts ==
  ASSUME NEW r \in 0..MaxHeads, NEW s, Fit(s, r), NEW n, NEW t \in AffectedTests(s, n)
  PROVE  /\ Fit(t, r) /\ Later(s, t) /\ Alike(s, t) /\ t.error = s.error
         /\ t.tests = s.tests \/ (t.tests = "none" => <<n, s.head>> \notin HasTests)
<1>1. PICK k \in {s.tests, "some", "none"} :
        /\ t = [s EXCEPT !.tests = k]
        /\ k = s.tests \/ (k = "none" => <<n, s.head>> \notin HasTests)
  <2>1. s = [s EXCEPT !.tests = s.tests]
    BY DEF Fit, Sync
  <2>2. \/ t = s
        \/ t = [s EXCEPT !.tests = IF <<n, s.head>> \in HasTests THEN "some" ELSE "none"]
    BY DEF AffectedTests, When
  <2>3. QED
    BY <2>1, <2>2
<1>2. k \in {"unknown", "some", "none"} /\ s \in Sync
  BY SyncFields DEF Fit
<1>3. /\ t \in Sync /\ Alike(s, t) /\ t.meta = s.meta /\ t.stash = s.stash /\ t.tests = k
      /\ t.error = s.error
  BY <1>1, <1>2 DEF Sync, Alike
<1>4. Fit(t, r) /\ Later(s, t)
  BY <1>3, AlikeLater
<1>5. QED
  BY <1>1, <1>3, <1>4

LEMMA MetadataFacts ==
  ASSUME NEW r \in 0..MaxHeads, NEW s, Fit(s, r), NEW m \in UpdateMetadata(s)
  PROVE  /\ Fit(m.sync, r) /\ Later(s, m.sync) /\ Alike(s, m.sync) /\ m.sync.tests = s.tests
<1>1. Fit(s, r) /\ Later(s, s) /\ Alike(s, s) /\ s.tests = s.tests
  BY AlikeLater DEF Alike, Fit
<1>2. CASE m.sync = s
  BY <1>1, <1>2
<1>3. ASSUME NEW x \in Restore(s), x.meta < MaxMeta,
             m.sync = x \/ m.sync = [x EXCEPT !.meta = @ + 1]
      PROVE  Fit(m.sync, r) /\ Later(s, m.sync) /\ Alike(s, m.sync) /\ m.sync.tests = s.tests
  <2> DEFINE y == [x EXCEPT !.meta = @ + 1]
  <2>1. Fit(x, r) /\ Later(s, x) /\ Alike(s, x) /\ x.stash = 0 /\ x.tests = s.tests
    BY RestoreFacts
  <2>2. /\ x \in Sync /\ x.head \in Int /\ x.base \in Int /\ x.meta \in 0..MaxMeta
        /\ MaxMeta \in Nat /\ x.meta + 1 \in 0..MaxMeta
    BY <1>3, <2>1, SyncFields, BoundAssumption DEF Fit
  <2>3. y \in Sync /\ Alike(x, y) /\ y.meta = x.meta + 1 /\ y.stash = 0 /\ y.tests = x.tests
    BY <2>1, <2>2 DEF Sync, Alike
  <2> HIDE DEF y
  <2>4. Fit(y, r) /\ Later(x, y)
    BY <2>1, <2>2, <2>3 DEF Fit, Later, Alike, Top
  <2>5. Later(s, y) /\ Alike(s, y)
    BY <2>1, <2>3, <2>4, LaterTransitive DEF Alike
  <2>6. QED
    BY <1>3, <2>1, <2>3, <2>4, <2>5 DEF y
<1>4. \/ m.sync = s
      \/ \E x \in Restore(s) : x.meta < MaxMeta /\ (m.sync = x \/ m.sync = [x EXCEPT !.meta = @ + 1])
  BY DEF UpdateMetadata, When
<1>5. QED
  BY <1>2, <1>3, <1>4

-----------------------------------------------------------------------------
(* Lemmas on all syncs and try pushes. *)

LEMMA TriesLater ==
  ASSUME NEW r \in 0..MaxHeads, NEW s, NEW t, Fit(s, r), Fit(t, r), Later(s, t),
         NEW ts, TriesFit(ts, s)
  PROVE  TriesFit(ts, t)
<1>1. s.head \in Int /\ t.head \in Int /\ s.base \in Int /\ t.base \in Int
  BY SyncFields, BoundAssumption, VersionAssumption DEF Fit
<1>2. Len(ts) \in Nat /\ \A k \in 1..Len(ts) : ts[k].gecko[1] \in Int /\ ts[k].gecko[2] \in Int
  <2>1. Len(ts) \in Nat /\ \A k \in 1..Len(ts) : ts[k] \in Try
    BY ElementOfSeq, LenProperties DEF TriesFit
  <2>2. \A u \in Try : u.gecko \in (0..MaxHeads) \X (0..MaxBase) \X (0..MaxMeta)
    BY DEF Try
  <2>3. QED
    BY <2>1, <2>2, BoundAssumption, VersionAssumption
<1>3. \A k \in 1..Len(ts) : TryFit(ts[k], t)
  BY <1>1, <1>2 DEF TriesFit, TryFit, Later
<1>4. QED
  BY <1>3 DEF TriesFit

LEMMA LaterReflexive ==
  ASSUME NEW r \in 0..MaxHeads, NEW s, Fit(s, r)
  PROVE  Later(s, s)
<1>1. s \in Sync /\ Alike(s, s)
  BY DEF Fit, Alike
<1>2. QED
  BY <1>1, AlikeLater

LEMMA GoodFacts ==
  ASSUME NEW S, NEW T, NEW R, Good(S, T, R), NEW n \in PR, S[n] # NoSync
  PROVE  /\ S[n] \in Sync /\ R[n] \in 0..MaxHeads /\ Fit(S[n], R[n]) /\ TriesFit(T[n], S[n])
         /\ Later(S[n], S[n]) /\ T[n] \in Seq(Try) /\ Len(T[n]) \in Nat
         /\ DOMAIN T[n] = 1..Len(T[n])
<1>1. /\ R[n] \in 0..MaxHeads /\ Fit(S[n], R[n]) /\ TriesFit(T[n], S[n])
      /\ S[n] \in Sync /\ T[n] \in Seq(Try)
  BY DEF Good, Fit
<1>2. Later(S[n], S[n])
  BY <1>1, LaterReflexive
<1>3. QED
  BY <1>1, <1>2, LenProperties

LEMMA KeptReflexive ==
  ASSUME NEW S, NEW T, NEW R, Good(S, T, R)
  PROVE  Kept(S, T, S, T)
<1>1. ASSUME NEW m \in PR, S[m] # NoSync
      PROVE  Later(S[m], S[m]) /\ Len(T[m]) \in Nat
  BY <1>1, GoodFacts
<1>2. ASSUME NEW m \in PR, S[m] # NoSync
      PROVE  Later(S[m], S[m]) /\ Len(T[m]) <= Len(T[m])
  BY <1>1, <1>2
<1>3. QED
  BY <1>2 DEF Kept

LEMMA KeptTransitive ==
  ASSUME NEW S, NEW T, NEW S2, NEW T2, NEW S3, NEW T3, NEW R,
         Good(S, T, R), Good(S2, T2, R), Good(S3, T3, R),
         Kept(S, T, S2, T2), Kept(S2, T2, S3, T3)
  PROVE  Kept(S, T, S3, T3)
<1>1. ASSUME NEW m \in PR, S[m] # NoSync
      PROVE  S3[m] # NoSync /\ Later(S[m], S3[m]) /\ Len(T[m]) <= Len(T3[m])
  <2>1. /\ S2[m] # NoSync /\ S3[m] # NoSync /\ Later(S[m], S2[m]) /\ Later(S2[m], S3[m])
        /\ Len(T[m]) <= Len(T2[m]) /\ Len(T2[m]) <= Len(T3[m])
    BY <1>1 DEF Kept
  <2>2. Fit(S[m], R[m]) /\ R[m] \in 0..MaxHeads /\ Len(T[m]) \in Nat
    BY <1>1, GoodFacts
  <2>3. Fit(S2[m], R[m]) /\ Len(T2[m]) \in Nat
    BY <2>1, GoodFacts
  <2>4. Fit(S3[m], R[m]) /\ Len(T3[m]) \in Nat
    BY <2>1, GoodFacts
  <2>5. Later(S[m], S3[m])
    BY <2>1, <2>2, <2>3, <2>4, LaterTransitive
  <2>6. QED
    BY <2>1, <2>2, <2>3, <2>4, <2>5
<1>2. QED
  BY <1>1 DEF Kept

LEMMA PutGood ==
  ASSUME NEW S, NEW T, NEW R, Good(S, T, R), NEW n \in PR, S[n] # NoSync,
         NEW t, Fit(t, R[n]), Later(S[n], t)
  PROVE  /\ Good(Put(S, n, t), T, R) /\ Kept(S, T, Put(S, n, t), T)
         /\ Put(S, n, t)[n] = t /\ Put(S, n, t)[n] # NoSync
<1> DEFINE S2 == Put(S, n, t)
<1>1. t \in Sync /\ t # NoSync
  BY SyncAssumption DEF Fit
<1>2. /\ S2 \in [PR -> Sync \cup {NoSync}] /\ S2[n] = t /\ \A m \in PR : m # n => S2[m] = S[m]
  BY <1>1 DEF Good, Put
<1> HIDE DEF S2
<1>3. Fit(S[n], R[n]) /\ R[n] \in 0..MaxHeads /\ TriesFit(T[n], S[n])
  BY GoodFacts
<1>4. TriesFit(T[n], t)
  BY <1>3, TriesLater
<1>5. \A m \in PR : S2[m] # NoSync => Fit(S2[m], R[m]) /\ TriesFit(T[m], S2[m])
  BY <1>1, <1>2, <1>4 DEF Good
<1>6. \A m \in PR : S2[m] = NoSync => T[m] = <<>>
  BY <1>1, <1>2 DEF Good
<1>7. Good(S2, T, R)
  BY <1>2, <1>5, <1>6 DEF Good
<1>8. Kept(S, T, S2, T)
  <2>1. Kept(S, T, S, T)
    BY KeptReflexive
  <2>2. ASSUME NEW m \in PR, S[m] # NoSync
        PROVE  S2[m] # NoSync /\ Later(S[m], S2[m]) /\ Len(T[m]) <= Len(T[m])
    BY <1>1, <1>2, <2>1, <2>2 DEF Kept
  <2>3. QED
    BY <2>2 DEF Kept
<1>9. QED
  BY <1>1, <1>2, <1>7, <1>8 DEF S2

LEMMA PutTries ==
  ASSUME NEW S, NEW T, NEW R, Good(S, T, R), NEW n \in PR, S[n] # NoSync,
         NEW ts, TriesFit(ts, S[n]), Len(T[n]) <= Len(ts)
  PROVE  /\ Good(S, [T EXCEPT ![n] = ts], R) /\ Kept(S, T, S, [T EXCEPT ![n] = ts])
<1> DEFINE T2 == [T EXCEPT ![n] = ts]
<1>1. /\ T2 \in [PR -> Seq(Try)] /\ T2[n] = ts /\ \A m \in PR : m # n => T2[m] = T[m]
  BY DEF Good, TriesFit
<1> HIDE DEF T2
<1>2. Good(S, T2, R)
  BY <1>1 DEF Good
<1>3. Kept(S, T, S, T2)
  <2>1. Kept(S, T, S, T)
    BY KeptReflexive
  <2>2. ASSUME NEW m \in PR, S[m] # NoSync
        PROVE  Later(S[m], S[m]) /\ Len(T[m]) <= Len(T2[m])
    BY <1>1, <2>1, <2>2 DEF Kept
  <2>3. QED
    BY <2>2 DEF Kept
<1>4. QED
  BY <1>2, <1>3 DEF T2

\* A try push of a sync changes, but not what it was made of.
LEMMA ChangedTry ==
  ASSUME NEW s, NEW ts, TriesFit(ts, s), NEW k \in 1..Len(ts), NEW u \in Try,
         u.stability = ts[k].stability, u.head = ts[k].head, u.gecko = ts[k].gecko
  PROVE  TriesFit([ts EXCEPT ![k] = u], s) /\ Len([ts EXCEPT ![k] = u]) = Len(ts)
<1> DEFINE us == [ts EXCEPT ![k] = u]
<1>1. ts \in Seq(Try) /\ Len(ts) \in Nat
  BY LenProperties DEF TriesFit
<1>2. us \in Seq(Try) /\ Len(us) = Len(ts) /\ us[k] = u /\ \A j \in 1..Len(ts) : j # k => us[j] = ts[j]
  BY <1>1, ExceptSeq
<1> HIDE DEF us
<1>3. \A j \in 1..Len(ts) : us[j].stability = ts[j].stability /\ us[j].head = ts[j].head
                             /\ us[j].gecko = ts[j].gecko
  BY <1>2
<1>4. \A j \in 1..Len(us) : TryFit(us[j], s)
  BY <1>2, <1>3 DEF TriesFit, TryFit
<1>5. \A i, j \in 1..Len(us) : i < j => Ordered(us[i], us[j])
  BY <1>2, <1>3 DEF TriesFit, Ordered
<1>6. TriesFit(us, s)
  BY <1>2, <1>4, <1>5 DEF TriesFit
<1>7. QED
  BY <1>2, <1>6 DEF us

LEMMA MoreTries ==
  ASSUME NEW s, NEW ts, TriesFit(ts, s), NEW u \in Try, TryFit(u, s),
         \A j \in 1..Len(ts) : Ordered(ts[j], u)
  PROVE  TriesFit(Append(ts, u), s) /\ Len(Append(ts, u)) = Len(ts) + 1
<1> DEFINE us == Append(ts, u)
<1>1. ts \in Seq(Try) /\ Len(ts) \in Nat
  BY LenProperties DEF TriesFit
<1>2. /\ us \in Seq(Try) /\ Len(us) = Len(ts) + 1 /\ us[Len(ts) + 1] = u
      /\ \A j \in 1..Len(ts) : us[j] = ts[j]
  BY <1>1, AppendProperties
<1> HIDE DEF us
<1>3. \A j \in 1..Len(us) : TryFit(us[j], s)
  BY <1>1, <1>2 DEF TriesFit
<1>4. \A i, j \in 1..Len(us) : i < j => Ordered(us[i], us[j])
  <2>1. SUFFICES ASSUME NEW i \in 1..Len(us), NEW j \in 1..Len(us), i < j
                 PROVE  Ordered(us[i], us[j])
    OBVIOUS
  <2>2. i \in 1..Len(ts) /\ us[i] = ts[i]
    BY <1>1, <1>2, <2>1
  <2>3. CASE j = Len(ts) + 1
    BY <1>2, <2>2, <2>3
  <2>4. CASE j \in 1..Len(ts)
    BY <1>2, <2>1, <2>2, <2>4 DEF TriesFit
  <2>5. QED
    BY <1>1, <1>2, <2>3, <2>4
<1>5. QED
  BY <1>2, <1>3, <1>4 DEF TriesFit, us

-----------------------------------------------------------------------------
(* What a call for PR n makes of the syncs and the try pushes. *)

Does(S, T, R, n, o) == Good(o.sync, o.tries, R) /\ Kept(S, T, o.sync, o.tries) /\ o.sync[n] # NoSync

LEMMA OutFields ==
  ASSUME NEW S, NEW T, NEW raised
  PROVE  /\ Out(S, T, raised).sync = S /\ Out(S, T, raised).tries = T
         /\ Out(S, T, raised).raised = raised
BY DEF Out

\* What becomes of a sync of which n takes over the head, or which n reverts.
Taken(s, r)    == [s EXCEPT !.head = r, !.skip = s.skip]
Reverting(s, r) == [s EXCEPT !.head = r, !.skip = s.skip \/ s.open]

LEMMA TakenFacts ==
  ASSUME NEW r \in 0..MaxHeads, NEW s, Fit(s, r), NEW t \in {Taken(s, r), Reverting(s, r)}
  PROVE  /\ Fit(t, r) /\ Later(s, t) /\ t.head = r /\ t.open = s.open
         /\ t.of = s.of /\ t.tests = s.tests /\ t.error = s.error
<1>0. s \in Sync /\ s.skip \in BOOLEAN /\ (s.skip \/ s.open) \in BOOLEAN
  BY SyncFields DEF Fit
<1>1. PICK b \in BOOLEAN : (s.skip => b) /\ t = [s EXCEPT !.head = r, !.skip = b]
  BY <1>0 DEF Taken, Reverting
<1>2. /\ t \in Sync /\ t.head = r /\ t.open = s.open /\ t.skip = b
      /\ t.of = s.of /\ t.tests = s.tests /\ t.error = s.error /\ t.base = s.base
      /\ t.meta = s.meta /\ t.stash = s.stash
  BY <1>0, <1>1 DEF Sync
<1>3. s.head \in Int /\ s.base \in Int /\ s.of \in Int /\ r \in Int /\ Top(s) \in Int
  BY <1>0, SyncFields, BoundAssumption, VersionAssumption DEF Top
<1>4. Fit(t, r) /\ Later(s, t)
  BY <1>1, <1>2, <1>3 DEF Fit, Later, Top
<1>5. QED
  BY <1>2, <1>4

LEMMA TakenOverShape ==
  ASSUME NEW S, NEW T, NEW R, Good(S, T, R), NEW n \in PR, S[n] # NoSync
  PROVE  LET reverts == Reverted(S, n)
             S2      == TakenOver(S, R, n, reverts)
         IN  /\ \A m \in reverts : S[m] # NoSync /\ <<n, m>> \in Reverts /\ m \in PR
             /\ \A m \in PR : S2[m] = IF m \in reverts THEN Reverting(S[m], R[m])
                                      ELSE IF m = n THEN Taken(S[m], R[m]) ELSE S[m]
             /\ DOMAIN S2 = PR /\ S2 = [m \in PR |-> S2[m]]
<1>1. \A m \in Reverted(S, n) : S[m] # NoSync /\ <<n, m>> \in Reverts /\ m \in PR
  BY DEF Reverted
<1>2. \A m \in Reverted(S, n) :
        [S[m] EXCEPT !.head = R[m], !.skip = @ \/ S[m].open] = Reverting(S[m], R[m])
  BY <1>1 DEF Good, Sync, Reverting
<1>3. [S[n] EXCEPT !.head = R[n]] = Taken(S[n], R[n])
  BY DEF Good, Sync, Taken
<1>4. QED
  BY <1>1, <1>2, <1>3 DEF TakenOver

LEMMA TakenOverFacts ==
  ASSUME NEW S, NEW T, NEW R, Good(S, T, R), NEW n \in PR, S[n] # NoSync
  PROVE  LET S2 == TakenOver(S, R, n, Reverted(S, n))
         IN  /\ Good(S2, T, R) /\ Kept(S, T, S2, T) /\ S2[n] # NoSync
             /\ \A m \in {n} \cup Reverted(S, n) :
                  /\ S2[m] \in {Taken(S[m], R[m]), Reverting(S[m], R[m])}
                  /\ S2[m].head = R[m] /\ S2[m].open = S[m].open /\ S2[m].of = S[m].of
                  /\ S2[m].tests = S[m].tests /\ S2[m].error = S[m].error
<1> DEFINE reverts == Reverted(S, n)
           S2 == TakenOver(S, R, n, reverts)
<1>1. /\ \A m \in reverts : S[m] # NoSync /\ <<n, m>> \in Reverts /\ m \in PR
      /\ \A m \in PR : S2[m] = IF m \in reverts THEN Reverting(S[m], R[m])
                               ELSE IF m = n THEN Taken(S[m], R[m]) ELSE S[m]
      /\ DOMAIN S2 = PR /\ S2 = [m \in PR |-> S2[m]]
  BY TakenOverShape
<1>2. ASSUME NEW m \in PR, S[m] # NoSync
      PROVE  \A t \in {Taken(S[m], R[m]), Reverting(S[m], R[m])} :
               /\ Fit(t, R[m]) /\ Later(S[m], t) /\ t.head = R[m] /\ t.open = S[m].open
               /\ t.of = S[m].of /\ t.tests = S[m].tests /\ t.error = S[m].error
  <2>1. Fit(S[m], R[m]) /\ R[m] \in 0..MaxHeads
    BY <1>2, GoodFacts
  <2>2. QED
    BY <2>1, TakenFacts
<1> HIDE DEF S2, reverts
<1>3. \A m \in PR : S[m] # NoSync =>
        S2[m] # NoSync /\ Fit(S2[m], R[m]) /\ Later(S[m], S2[m])
  <2>1. ASSUME NEW m \in PR, S[m] # NoSync
        PROVE  Fit(S2[m], R[m]) /\ Later(S[m], S2[m])
    <3>1. Fit(S[m], R[m]) /\ Later(S[m], S[m])
      BY <2>1, GoodFacts
    <3>2. S2[m] \in {S[m], Taken(S[m], R[m]), Reverting(S[m], R[m])}
      BY <1>1
    <3>3. QED
      BY <1>2, <2>1, <3>1, <3>2
  <2>2. QED
    BY <2>1, SyncAssumption DEF Fit
<1>4. \A m \in PR : S[m] = NoSync => S2[m] = NoSync
  BY <1>1
<1>5. S2 \in [PR -> Sync \cup {NoSync}]
  <2>1. \A m \in PR : S2[m] \in Sync \cup {NoSync}
    BY <1>3, <1>4 DEF Fit
  <2>2. QED
    BY <1>1, <2>1
<1>6. \A m \in PR : S2[m] # NoSync => TriesFit(T[m], S2[m])
  <2>1. ASSUME NEW m \in PR, S2[m] # NoSync
        PROVE  TriesFit(T[m], S2[m])
    <3>1. S[m] # NoSync
      BY <1>4, <2>1
    <3>2. Fit(S[m], R[m]) /\ R[m] \in 0..MaxHeads /\ TriesFit(T[m], S[m])
      BY <3>1, GoodFacts
    <3>3. Fit(S2[m], R[m]) /\ Later(S[m], S2[m])
      BY <1>3, <3>1
    <3>4. QED
      BY <3>2, <3>3, TriesLater
  <2>2. QED
    BY <2>1
<1>7. Good(S2, T, R)
  BY <1>3, <1>4, <1>5, <1>6 DEF Good
<1>8. Kept(S, T, S2, T)
  <2>1. Kept(S, T, S, T)
    BY KeptReflexive
  <2>2. ASSUME NEW m \in PR, S[m] # NoSync
        PROVE  S2[m] # NoSync /\ Later(S[m], S2[m]) /\ Len(T[m]) <= Len(T[m])
    BY <1>3, <2>1, <2>2 DEF Kept
  <2>3. QED
    BY <2>2 DEF Kept
<1>9. \A m \in {n} \cup reverts :
        /\ S2[m] \in {Taken(S[m], R[m]), Reverting(S[m], R[m])}
        /\ S2[m].head = R[m] /\ S2[m].open = S[m].open /\ S2[m].of = S[m].of
        /\ S2[m].tests = S[m].tests /\ S2[m].error = S[m].error
  <2>1. ASSUME NEW m \in {n} \cup reverts
        PROVE  m \in PR /\ S[m] # NoSync /\ S2[m] \in {Taken(S[m], R[m]), Reverting(S[m], R[m])}
    BY <1>1
  <2>2. QED
    BY <1>2, <2>1
<1>10. S2[n] # NoSync
  BY <1>3
<1>11. QED
  BY <1>7, <1>8, <1>9, <1>10 DEF S2, reverts

\* n is skipped only because it reverts another PR that is.
SkippedFor(S, n) == \E m \in PR : <<n, m>> \in Reverts /\ S[m] # NoSync /\ S[m].skip
\* What a call for n makes of the other syncs.
Besides(S, R, n, S2) ==
  \A m \in PR \ {n} :
    \/ S2[m] = S[m]
    \/ <<n, m>> \in Reverts /\ S[m] # NoSync /\ S2[m] = Reverting(S[m], R[m])

LEMMA RevertingSkip ==
  ASSUME NEW s \in Sync, NEW r \in 0..MaxHeads
  PROVE  /\ Reverting(s, r).skip = (s.skip \/ s.open)
         /\ Taken(s, r).skip = s.skip
<1>1. s.skip \in BOOLEAN /\ (s.skip \/ s.open) \in BOOLEAN
  BY SyncFields
<1>2. \A b \in BOOLEAN : [s EXCEPT !.head = r, !.skip = b].skip = b
  BY DEF Sync
<1> DEFINE b == s.skip \/ s.open
<1>3. [s EXCEPT !.head = r, !.skip = b].skip = b
  <2> HIDE DEF b
  <2>1. b \in BOOLEAN
    BY <1>1 DEF b
  <2>2. QED
    BY <1>2, <2>1
<1>4. QED
  BY <1>1, <1>2, <1>3 DEF Reverting, Taken

LEMMA UpdateCommitsFacts ==
  ASSUME central \in 0..MaxBase, NEW S, NEW T, NEW R, Good(S, T, R),
         NEW n \in PR, S[n] # NoSync, NEW o \in UpdateCommits(S, T, R, n)
  PROVE  LET s == S[n]
             t == o.sync[n]
         IN  /\ Does(S, T, R, n, o) /\ o.tries = T /\ o.raised \in {"none", "error"}
             /\ t.head = R[n] /\ t.open = s.open /\ t.error = (o.raised # "none")
             /\ o.raised = "none" => t.skip \/ Current(t, n)
             /\ (t.of = s.of /\ t.tests = s.tests) \/ t.tests = "unknown"
             /\ s.of = R[n] /\ <<n, R[n]>> \notin NoChange => t.of = R[n]
             /\ Besides(S, R, n, o.sync)
             /\ t.skip => s.skip \/ SkippedFor(o.sync, n)
<1> DEFINE reverts == Reverted(S, n)
           S2   == TakenOver(S, R, n, reverts)
           s    == S[n]
           skip == [S2[n] EXCEPT !.skip = TRUE, !.error = FALSE]
<1>1. /\ Good(S2, T, R) /\ Kept(S, T, S2, T) /\ S2[n] # NoSync
      /\ S2[n] \in {Taken(S[n], R[n]), Reverting(S[n], R[n])}
      /\ S2[n].head = R[n] /\ S2[n].open = S[n].open /\ S2[n].of = S[n].of
      /\ S2[n].tests = S[n].tests /\ S2[n].error = S[n].error
  BY TakenOverFacts
<1>2. /\ \A m \in reverts : S[m] # NoSync /\ <<n, m>> \in Reverts /\ m \in PR
      /\ \A m \in PR : S2[m] = IF m \in reverts THEN Reverting(S[m], R[m])
                               ELSE IF m = n THEN Taken(S[m], R[m]) ELSE S[m]
  BY TakenOverShape
<1>3. \/ reverts # {} /\ (\A m \in reverts : S[m].open) /\ o = Out(Put(S2, n, skip), T, "none")
      \/ \E a \in Apply(S2[n], n) : o = Out(Put(S2, n, a.sync), T, a.raised)
  BY DEF UpdateCommits
<1> HIDE DEF S2, reverts
<1>4. Fit(S2[n], R[n]) /\ S2[n] \in Sync /\ R[n] \in 0..MaxHeads /\ s \in Sync
  BY <1>1, GoodFacts
<1>5. ASSUME NEW t, Fit(t, R[n]), Later(S2[n], t), o.sync = Put(S2, n, t), o.tries = T
      PROVE  Does(S, T, R, n, o) /\ o.sync[n] = t /\ Besides(S, R, n, o.sync)
             /\ \A m \in PR \ {n} : o.sync[m] = S2[m]
  <2>1. Good(Put(S2, n, t), T, R) /\ Kept(S2, T, Put(S2, n, t), T)
        /\ Put(S2, n, t)[n] = t /\ Put(S2, n, t)[n] # NoSync
    BY <1>1, <1>5, PutGood
  <2>2. Kept(S, T, Put(S2, n, t), T)
    BY <1>1, <2>1, KeptTransitive
  <2>3. \A m \in PR \ {n} : Put(S2, n, t)[m] = S2[m]
    BY DEF Put
  <2>4. Besides(S, R, n, Put(S2, n, t))
    BY <1>2, <2>3 DEF Besides
  <2>5. QED
    BY <1>5, <2>1, <2>2, <2>3, <2>4 DEF Does
<1>6. CASE reverts # {} /\ (\A m \in reverts : S[m].open) /\ o = Out(Put(S2, n, skip), T, "none")
  <2>1. /\ skip \in Sync /\ skip.head = R[n] /\ skip.open = s.open /\ skip.error = FALSE
        /\ skip.skip = TRUE /\ skip.of = s.of /\ skip.tests = s.tests
        /\ skip.base = S2[n].base /\ skip.meta = S2[n].meta /\ skip.stash = S2[n].stash
    BY <1>1, <1>4 DEF Sync
  <2> HIDE DEF skip
  <2>2. Fit(skip, R[n]) /\ Later(S2[n], skip)
    <3>1. S2[n].head \in Int /\ S2[n].base \in Int /\ Top(S2[n]) \in Int
      BY <1>4, SyncFields, BoundAssumption, VersionAssumption DEF Top
    <3>2. QED
      BY <1>1, <1>4, <2>1, <3>1 DEF Fit, Later, Top
  <2>3. /\ Does(S, T, R, n, o) /\ o.sync[n] = skip /\ Besides(S, R, n, o.sync)
        /\ \A m \in PR \ {n} : o.sync[m] = S2[m]
    BY <1>5, <1>6, <2>2, OutFields
  <2>4. SkippedFor(o.sync, n)
    <3>1. PICK m \in reverts : S[m].open
      BY <1>6
    <3>2. S[m] \in Sync /\ S2[m] = Reverting(S[m], R[m]) /\ R[m] \in 0..MaxHeads /\ m \in PR
      BY <1>2, GoodFacts
    <3>3. S2[m].skip = (S[m].skip \/ S[m].open)
      BY <3>2, RevertingSkip
    <3>4. o.sync[m] # NoSync
      BY <1>2, <2>3, <3>2 DEF Does, Kept
    <3>5. CASE m = n
      BY <1>2, <2>1, <2>3, <3>2, <3>4, <3>5 DEF SkippedFor
    <3>6. CASE m # n
      BY <1>2, <2>3, <3>1, <3>2, <3>3, <3>4, <3>6 DEF SkippedFor
    <3>7. QED
      BY <3>5, <3>6
  <2>5. o.tries = T /\ o.raised = "none" /\ (o.raised # "none") = FALSE
    BY <1>6, OutFields
  <2>6. o.sync[n].error = (o.raised # "none")
    BY <2>1, <2>3, <2>5
  <2>7. QED
    BY <2>1, <2>3, <2>4, <2>5, <2>6
<1>7. ASSUME NEW a \in Apply(S2[n], n), o = Out(Put(S2, n, a.sync), T, a.raised)
      PROVE  /\ Does(S, T, R, n, o) /\ o.tries = T /\ o.raised \in {"none", "error"}
             /\ o.sync[n].head = R[n] /\ o.sync[n].open = s.open
             /\ o.sync[n].error = (o.raised # "none")
             /\ o.raised = "none" => Current(o.sync[n], n)
             /\ (o.sync[n].of = s.of /\ o.sync[n].tests = s.tests) \/ o.sync[n].tests = "unknown"
             /\ s.of = R[n] /\ <<n, R[n]>> \notin NoChange => o.sync[n].of = R[n]
             /\ Besides(S, R, n, o.sync)
             /\ o.sync[n].skip => s.skip \/ SkippedFor(o.sync, n)
  <2>1. /\ Fit(a.sync, R[n]) /\ Later(S2[n], a.sync) /\ Reapplied(S2[n], a.sync)
        /\ a.raised \in {"none", "error"} /\ a.sync.error = (a.raised # "none")
        /\ a.raised = "none" => Current(a.sync, n)
        /\ S2[n].of = S2[n].head /\ <<n, S2[n].head>> \notin NoChange => a.sync.of = S2[n].head
    BY <1>4, ApplyFacts
  <2>2. /\ Does(S, T, R, n, o) /\ o.sync[n] = a.sync /\ Besides(S, R, n, o.sync)
        /\ o.tries = T /\ o.raised = a.raised
    BY <1>5, <1>7, <2>1, OutFields
  <2>3. o.sync[n].skip => s.skip \/ SkippedFor(o.sync, n)
    <3>1. o.sync[n].skip = S2[n].skip
      BY <2>1, <2>2 DEF Reapplied
    <3>2. CASE n \in reverts
      BY <1>2, <2>2, <3>2 DEF SkippedFor, Does
    <3>3. CASE n \notin reverts
      <4>1. S2[n] = Taken(s, R[n])
        BY <1>2, <3>3
      <4>2. S2[n].skip = s.skip
        BY <1>4, <4>1, RevertingSkip
      <4>3. QED
        BY <3>1, <4>2
    <3>4. QED
      BY <3>2, <3>3
  <2>4. QED
    BY <1>1, <2>1, <2>2, <2>3 DEF Reapplied
<1>8. QED
  BY <1>3, <1>6, <1>7

\* What a rebase, or a call that is only about tests, leaves alone.
Kin(s, t) ==
  /\ t.head = s.head /\ t.open = s.open /\ t.skip = s.skip /\ t.of = s.of /\ t.error = s.error

LEMMA TryRebaseFacts ==
  ASSUME central \in 0..MaxBase, NEW S, NEW T, NEW R, Good(S, T, R),
         NEW n \in PR, S[n] # NoSync, NEW o \in TryRebase(S, T, n)
  PROVE  /\ Does(S, T, R, n, o) /\ o.tries = T /\ o.raised \in {"none", "abort"}
         /\ Kin(S[n], o.sync[n]) /\ o.sync[n].tests = S[n].tests
         /\ \A m \in PR \ {n} : o.sync[m] = S[m]
<1> DEFINE s      == S[n]
           moved  == [s EXCEPT !.base = central, !.onto = FALSE, !.rebased = @ \/ s.onto]
           failed == [s EXCEPT !.rebased = TRUE]
<1>0. s \in Sync /\ Fit(s, R[n]) /\ R[n] \in 0..MaxHeads
  BY GoodFacts
<1>1. /\ s.rebased \in BOOLEAN /\ s.onto \in BOOLEAN /\ (s.rebased \/ s.onto) \in BOOLEAN
      /\ s.head \in Int /\ s.base \in Int /\ Top(s) \in Int
  BY <1>0, SyncFields, BoundAssumption, VersionAssumption DEF Top
<1>2. /\ Fit(moved, R[n]) /\ Later(s, moved) /\ Kin(s, moved) /\ moved.tests = s.tests
  <2>1. PICK b \in BOOLEAN : moved = [s EXCEPT !.base = central, !.onto = FALSE, !.rebased = b]
    BY <1>0, <1>1 DEF Sync
  <2> HIDE DEF moved
  <2>2. /\ moved \in Sync /\ Kin(s, moved) /\ moved.tests = s.tests /\ moved.base = central
        /\ moved.meta = s.meta /\ moved.stash = s.stash
    BY <1>0, <2>1 DEF Sync, Kin
  <2>3. QED
    BY <1>0, <1>1, <2>2 DEF Fit, Later, Kin, Top
<1>3. /\ Fit(failed, R[n]) /\ Later(s, failed) /\ Kin(s, failed) /\ failed.tests = s.tests
  <2>1. /\ failed \in Sync /\ Kin(s, failed) /\ failed.tests = s.tests /\ failed.base = s.base
        /\ failed.meta = s.meta /\ failed.stash = s.stash
    BY <1>0 DEF Sync, Kin
  <2> HIDE DEF failed
  <2>2. QED
    BY <1>0, <1>1, <2>1 DEF Fit, Later, Kin, Top
<1>4. o = Out(Put(S, n, moved), T, "none") \/ o = Out(Put(S, n, failed), T, "abort")
  BY DEF TryRebase, When
<1> HIDE DEF moved, failed
<1>5. ASSUME NEW t \in {moved, failed}, o.sync = Put(S, n, t), o.tries = T
      PROVE  Does(S, T, R, n, o) /\ Kin(s, o.sync[n]) /\ o.sync[n].tests = s.tests
             /\ \A m \in PR \ {n} : o.sync[m] = S[m]
  <2>1. Fit(t, R[n]) /\ Later(S[n], t) /\ Kin(s, t) /\ t.tests = s.tests
    BY <1>2, <1>3
  <2>2. Good(Put(S, n, t), T, R) /\ Kept(S, T, Put(S, n, t), T)
        /\ Put(S, n, t)[n] = t /\ Put(S, n, t)[n] # NoSync
    BY <2>1, PutGood
  <2>3. \A m \in PR \ {n} : Put(S, n, t)[m] = S[m]
    BY DEF Put
  <2>4. QED
    BY <1>5, <2>1, <2>2, <2>3 DEF Does
<1>6. o.tries = T /\ o.raised \in {"none", "abort"} /\ \E t \in {moved, failed} : o.sync = Put(S, n, t)
  BY <1>4, OutFields
<1>7. QED
  BY <1>5, <1>6

(***************************************************************************)
(* next_action asks for a try push only of a merged PR, and for another    *)
(* stability one only when none of the same commits is valid.              *)
(***************************************************************************)
LEMMA ActionFacts ==
  ASSUME NEW S, NEW T, NEW R, Good(S, T, R), NEW n \in PR, S[n] # NoSync, NEW merged,
         S[n].skip \/ Current(S[n], n),
         NextAction(S, T, R, n, merged) \in {"try_push", "try_push_stability"}
  PROVE  /\ merged /\ ~S[n].skip /\ ~S[n].error /\ S[n].of # 0 /\ S[n].of = S[n].head
         /\ <<n, S[n].head>> \notin NoChange
         /\ \A j \in 1..Len(T[n]) :
              ~(/\ T[n][j].stability /\ T[n][j].gecko[3] = 0
                /\ T[n][j].gecko[1] = S[n].of /\ T[n][j].gecko[2] = S[n].base)
<1> DEFINE s == S[n]
           ts == T[n]
           valid == LatestValid(S, T, R, n)
           u == [s EXCEPT !.meta = 0]
<1>0. /\ s \in Sync /\ TriesFit(ts, s) /\ Len(ts) \in Nat /\ DOMAIN ts = 1..Len(ts)
  BY GoodFacts
<1>1. /\ merged /\ ~s.skip /\ ~s.error /\ s.of # 0
      /\ valid = {} \/ \E t \in valid : ~t.stability
  BY DEF NextAction
<1>2. s.of = s.head /\ <<n, s.head>> \notin NoChange
  BY <1>1 DEF Current
<1>3. ASSUME NEW j \in 1..Len(ts), ts[j].stability, ts[j].gecko[3] = 0,
             ts[j].gecko[1] = s.of, ts[j].gecko[2] = s.base
      PROVE  FALSE
  <2> DEFINE m == Len(ts)
             L == ts[m]
  <2>1. m \in 1..Len(ts) /\ Last(ts) = L /\ \A t \in valid : t = L
    BY <1>0 DEF Last, LatestValid
  <2>2. \A k \in 1..Len(ts) : /\ ts[k] \in Try /\ ts[k].gecko \in (0..MaxHeads) \X (0..MaxBase) \X (0..MaxMeta)
                              /\ ts[k].gecko[1] \in 0..MaxHeads /\ ts[k].gecko[2] \in 0..MaxBase
    <3>1. \A t \in Try : t.gecko \in (0..MaxHeads) \X (0..MaxBase) \X (0..MaxMeta)
      BY DEF Try
    <3>2. \A k \in 1..Len(ts) : ts[k] \in Try
      BY <1>0, ElementOfSeq DEF TriesFit
    <3>3. QED
      BY <3>1, <3>2
  <2>3. TryFit(L, s) /\ TryFit(ts[j], s) /\ (j < m => Ordered(ts[j], L))
    BY <1>0, <2>1 DEF TriesFit
  <2>4. s.head \in Int /\ s.base \in Int
    BY <1>0, SyncFields, BoundAssumption, VersionAssumption
  <2>5. j = m
    <3>1. CASE j < m
      <4>1. L.gecko[1] = s.of /\ L.gecko[2] = s.base
        <5>1. L.gecko[1] \in Int /\ L.gecko[2] \in Int
          BY <2>1, <2>2, BoundAssumption, VersionAssumption
        <5>2. QED
          BY <1>2, <1>3, <2>3, <2>4, <3>1, <5>1 DEF TryFit, Ordered
      <4>2. QED
        BY <1>3, <2>3, <3>1, <4>1 DEF Ordered
    <3>2. QED
      BY <1>0, <3>1
  <2>6. L \in valid
    <3>1. Gecko(u) = <<s.of, s.base, 0>>
      BY <1>0 DEF Gecko, Sync
    <3>2. L.gecko = <<s.of, s.base, 0>>
      BY <1>3, <2>1, <2>2, <2>5
    <3>3. L.head = s.head
      BY <1>2, <1>3, <2>3, <2>5 DEF TryFit
    <3>4. L \in ToSet(ts)
      BY <1>0, <2>1 DEF ToSet
    <3>5. QED
      BY <2>1, <3>1, <3>2, <3>3, <3>4 DEF LatestValid
  <2>7. QED
    BY <1>1, <1>3, <2>1, <2>5, <2>6
<1>4. QED
  BY <1>1, <1>2, <1>3

(***************************************************************************)
(* A try push is added only for the commits that are on the branch of a    *)
(* merged PR, which is not skipped.                                        *)
(***************************************************************************)
Pushed(T, T2, n, s, merged) ==
  \/ T2 = T
  \/ /\ merged /\ ~s.skip /\ s.of # 0 /\ s.of = s.head /\ <<n, s.head>> \notin NoChange
     /\ \E u \in Try : /\ u.gecko[1] = s.of /\ u.status = "open"
                       /\ T2 = [T EXCEPT ![n] = Append(T[n], u)]

LEMMA ScheduleFacts ==
  ASSUME NEW S, NEW T, NEW R, Good(S, T, R), NEW n \in PR, S[n] # NoSync, NEW merged,
         S[n].skip \/ Current(S[n], n), NEW action, action = NextAction(S, T, R, n, merged),
         NEW o \in Schedule(S, T, n, action)
  PROVE  /\ Does(S, T, R, n, o) /\ o.sync = S /\ o.raised \in {"none", "retry"}
         /\ Pushed(T, o.tries, n, S[n], merged)
<1> DEFINE s == S[n]
           ts == T[n]
           t(b) == [stability |-> b, head |-> s.head, gecko |-> Gecko(s), status |-> "open",
                    infra |-> FALSE, group |-> FALSE, news |-> FALSE, result |-> "none"]
<1>0. /\ s \in Sync /\ Fit(s, R[n]) /\ TriesFit(ts, s) /\ ts \in Seq(Try) /\ Len(ts) \in Nat
  BY GoodFacts
<1>1. Kept(S, T, S, T)
  BY KeptReflexive
<1>2. CASE o.sync = S /\ o.tries = T /\ o.raised \in {"none", "retry"}
  BY <1>1, <1>2 DEF Does, Pushed
<1>3. ASSUME NEW b \in BOOLEAN, action \in {"try_push", "try_push_stability"},
             o = Out(S, [T EXCEPT ![n] = Append(@, t(b))], "none")
      PROVE  /\ Does(S, T, R, n, o) /\ o.sync = S /\ o.raised \in {"none", "retry"}
             /\ Pushed(T, o.tries, n, S[n], merged)
  <2> DEFINE u == t(b)
  <2>1. /\ merged /\ ~s.skip /\ s.of # 0 /\ s.of = s.head /\ <<n, s.head>> \notin NoChange
        /\ \A j \in 1..Len(ts) :
              ~(/\ ts[j].stability /\ ts[j].gecko[3] = 0
                /\ ts[j].gecko[1] = s.of /\ ts[j].gecko[2] = s.base)
    BY <1>3, ActionFacts
  <2>2. /\ s.of \in 0..MaxHeads /\ s.head \in 0..MaxHeads /\ s.base \in 0..MaxBase
        /\ s.meta \in 0..MaxMeta
    BY <1>0, SyncFields
  <2>3. Gecko(s) \in (0..MaxHeads) \X (0..MaxBase) \X (0..MaxMeta) /\ Gecko(s) = <<s.of, s.base, s.meta>>
    BY <2>2 DEF Gecko
  <2>4. u \in Try
    BY <2>2, <2>3 DEF Try, ResultKinds
  <2>5. /\ u.head = s.head /\ u.gecko[1] = s.of /\ u.gecko[2] = s.base /\ u.status = "open"
    BY <2>3
  <2> HIDE DEF u
  <2>6. TryFit(u, s)
    BY <1>0, <2>1, <2>2, <2>5, BoundAssumption, VersionAssumption DEF TryFit, Fit
  <2>7. \A j \in 1..Len(ts) : Ordered(ts[j], u)
    <3>1. \A j \in 1..Len(ts) : TryFit(ts[j], s)
      BY <1>0 DEF TriesFit
    <3>2. QED
      BY <2>1, <2>5, <3>1 DEF TryFit, Ordered
  <2>8. TriesFit(Append(ts, u), s) /\ Len(Append(ts, u)) = Len(ts) + 1
    BY <1>0, <2>4, <2>6, <2>7, MoreTries
  <2>9. Len(ts) <= Len(Append(ts, u))
    BY <1>0, <2>8
  <2>10. /\ Good(S, [T EXCEPT ![n] = Append(ts, u)], R)
         /\ Kept(S, T, S, [T EXCEPT ![n] = Append(ts, u)])
    BY <2>8, <2>9, PutTries
  <2>11. o.sync = S /\ o.tries = [T EXCEPT ![n] = Append(ts, u)] /\ o.raised = "none"
    BY <1>3, OutFields DEF u
  <2>12. QED
    BY <2>1, <2>4, <2>5, <2>10, <2>11 DEF Does, Pushed
<1>4. \/ o = Out(S, T, "none") \/ o = Out(S, T, "retry")
      \/ /\ action \in {"try_push", "try_push_stability"}
         /\ \E b \in BOOLEAN : o = Out(S, [T EXCEPT ![n] = Append(@, t(b))], "none")
  BY DEF Schedule, CreateTry, When
<1>5. CASE o = Out(S, T, "none") \/ o = Out(S, T, "retry")
  BY <1>2, <1>5, OutFields
<1>6. QED
  BY <1>3, <1>4, <1>5

(***************************************************************************)
(* What next_try_push does.                                                *)
(***************************************************************************)
Known(s, t, n) ==
  \/ t.skip \/ t.tests # "none" \/ <<n, t.of>> \notin HasTests
  \/ t.of = s.of /\ t.tests = s.tests
Went(S, T, R, n, merged, o) ==
  LET s == S[n]
      t == o.sync[n]
  IN  /\ Does(S, T, R, n, o) /\ Besides(S, R, n, o.sync)
      /\ t.head = R[n] /\ t.open = s.open /\ Known(s, t, n)
      /\ s.of = R[n] /\ <<n, R[n]>> \notin NoChange => t.of = R[n]
      /\ t.skip => s.skip \/ SkippedFor(o.sync, n)
      /\ o.raised # "error" => t.skip \/ Current(t, n)
      /\ Pushed(T, o.tries, n, t, merged)

LEMMA DoesTransitive ==
  ASSUME NEW S, NEW T, NEW R, Good(S, T, R), NEW n \in PR, NEW o, NEW p,
         Does(S, T, R, n, o), Does(o.sync, o.tries, R, n, p)
  PROVE  Does(S, T, R, n, p)
<1>1. Kept(S, T, p.sync, p.tries)
  BY KeptTransitive DEF Does
<1>2. QED
  BY <1>1 DEF Does

LEMMA SkippedForSame ==
  ASSUME NEW S, NEW S2, NEW n \in PR, S[n] # NoSync, S2[n] # NoSync, S2[n].skip = S[n].skip,
         \A m \in PR \ {n} : S2[m] = S[m], SkippedFor(S, n)
  PROVE  SkippedFor(S2, n)
<1>1. PICK m \in PR : <<n, m>> \in Reverts /\ S[m] # NoSync /\ S[m].skip
  BY DEF SkippedFor
<1>2. S2[m] # NoSync /\ S2[m].skip
  BY <1>1
<1>3. QED
  BY <1>1, <1>2 DEF SkippedFor

LEMMA PutOut ==
  ASSUME NEW S, NEW T, NEW R, Good(S, T, R), NEW n \in PR, S[n] # NoSync,
         NEW t, Fit(t, R[n]), Later(S[n], t), NEW o, o.sync = Put(S, n, t), o.tries = T
  PROVE  Does(S, T, R, n, o) /\ o.sync[n] = t /\ \A m \in PR \ {n} : o.sync[m] = S[m]
<1>1. Good(Put(S, n, t), T, R) /\ Kept(S, T, Put(S, n, t), T)
      /\ Put(S, n, t)[n] = t /\ Put(S, n, t)[n] # NoSync
  BY PutGood
<1>2. \A m \in PR \ {n} : Put(S, n, t)[m] = S[m]
  BY DEF Put
<1>3. QED
  BY <1>1, <1>2 DEF Does

LEMMA NextTryPushFacts ==
  ASSUME central \in 0..MaxBase, NEW S, NEW T, NEW R, Good(S, T, R),
         NEW n \in PR, S[n] # NoSync, NEW merged, NEW o \in NextTryPush(S, T, R, n, merged)
  PROVE  \/ (S[n].skip \/ ~S[n].open) /\ o = Out(S, T, "none")
         \/ ~S[n].skip /\ S[n].open /\ Went(S, T, R, n, merged, o)
<1> DEFINE applied == UpdateCommits(S, T, R, n)
           After(a) == IF Raised(a) THEN {a}
                       ELSE {Out(Put(a.sync, n, t), T, "none") : t \in AffectedTests(a.sync[n], n)}
           tested == UNION {After(a) : a \in applied}
           Action(x) == NextAction(x.sync, T, R, n, merged)
           Rebase(x) == IF ~Raised(x) /\ Action(x) = "try_rebase" THEN TryRebase(x.sync, T, n) ELSE {x}
           rebased == UNION {Rebase(x) : x \in tested}
           Last3(y) == IF Raised(y) THEN {y} ELSE Schedule(y.sync, T, n, Action(y))
           W(x) == Went(S, T, R, n, merged, x) /\ x.tries = T
<1>1. CASE (S[n].skip \/ ~S[n].open) /\ o = Out(S, T, "none")
  BY <1>1
<1>2. CASE ~S[n].skip /\ S[n].open /\ o \in UNION {Last3(y) : y \in rebased}
  <2>1. PICK y \in rebased : o \in Last3(y)
    BY <1>2
  <2>2. PICK x \in tested : y \in Rebase(x)
    BY <2>1
  <2>3. PICK a \in applied : x \in After(a)
    BY <2>2
  <2> HIDE DEF applied, tested, rebased, After, Rebase, Last3, Action
  <2>4. W(a)
    <3>1. /\ Does(S, T, R, n, a) /\ a.tries = T /\ a.raised \in {"none", "error"}
          /\ a.sync[n].head = R[n] /\ a.sync[n].open = S[n].open
          /\ a.raised = "none" => a.sync[n].skip \/ Current(a.sync[n], n)
          /\ (a.sync[n].of = S[n].of /\ a.sync[n].tests = S[n].tests) \/ a.sync[n].tests = "unknown"
          /\ S[n].of = R[n] /\ <<n, R[n]>> \notin NoChange => a.sync[n].of = R[n]
          /\ Besides(S, R, n, a.sync)
          /\ a.sync[n].skip => S[n].skip \/ SkippedFor(a.sync, n)
      BY UpdateCommitsFacts DEF applied
    <3>2. QED
      BY <3>1 DEF Went, Known, Pushed
  <2>5. W(x)
    <3>1. CASE x = a
      BY <2>4, <3>1
    <3>2. ASSUME NEW t \in AffectedTests(a.sync[n], n), ~Raised(a), x = Out(Put(a.sync, n, t), T, "none")
          PROVE  W(x)
      <4>1. Good(a.sync, T, R) /\ a.sync[n] # NoSync /\ a.raised = "none" /\ a.tries = T
        BY <2>4, <3>2 DEF Went, Does, Raised
      <4>2. Fit(a.sync[n], R[n]) /\ R[n] \in 0..MaxHeads
        BY <4>1, GoodFacts
      <4>3. /\ Fit(t, R[n]) /\ Later(a.sync[n], t) /\ Alike(a.sync[n], t)
            /\ t.tests = a.sync[n].tests \/ (t.tests = "none" => <<n, a.sync[n].head>> \notin HasTests)
        BY <4>2, AffectedFacts
      <4>4. x.sync = Put(a.sync, n, t) /\ x.tries = T /\ x.raised = "none"
        BY <3>2, OutFields
      <4>5. Does(a.sync, T, R, n, x) /\ x.sync[n] = t /\ \A m \in PR \ {n} : x.sync[m] = a.sync[m]
        BY <4>1, <4>3, <4>4, PutOut
      <4>6. Does(S, T, R, n, x)
        BY <2>4, <4>1, <4>5, DoesTransitive DEF Went
      <4>7. t.skip \/ Current(t, n)
        BY <2>4, <4>1, <4>3 DEF Went, Alike, Current
      <4>8. Known(S[n], t, n)
        <5>1. CASE t.tests = a.sync[n].tests
          BY <2>4, <4>3, <5>1 DEF Went, Known, Alike
        <5>2. CASE t.tests = "none" => <<n, a.sync[n].head>> \notin HasTests
          <6>1. <<n, 0>> \notin HasTests
            BY VersionAssumption
          <6>2. QED
            BY <4>3, <4>7, <5>2, <6>1 DEF Known, Alike, Current
        <5>3. QED
          BY <4>3, <5>1, <5>2
      <4>9. t.skip => S[n].skip \/ SkippedFor(x.sync, n)
        BY <2>4, <4>1, <4>3, <4>5, SkippedForSame DEF Went, Alike, Does
      <4>10. Besides(S, R, n, x.sync)
        BY <2>4, <4>5 DEF Went, Besides
      <4>11. QED
        BY <2>4, <4>3, <4>4, <4>5, <4>6, <4>7, <4>8, <4>9, <4>10 DEF Went, Alike, Pushed
    <3>3. QED
      BY <2>3, <3>1, <3>2 DEF After
  <2>6. W(y)
    <3>1. CASE y = x
      BY <2>5, <3>1
    <3>2. CASE ~Raised(x) /\ y \in TryRebase(x.sync, T, n)
      <4>1. Good(x.sync, T, R) /\ x.sync[n] # NoSync /\ x.raised = "none" /\ x.tries = T
        BY <2>5, <3>2 DEF Went, Does, Raised
      <4>2. /\ Does(x.sync, T, R, n, y) /\ y.tries = T
            /\ Kin(x.sync[n], y.sync[n]) /\ y.sync[n].tests = x.sync[n].tests
            /\ \A m \in PR \ {n} : y.sync[m] = x.sync[m]
        BY <3>2, <4>1, TryRebaseFacts
      <4>3. Does(S, T, R, n, y)
        BY <2>5, <4>1, <4>2, DoesTransitive DEF Went
      <4>4. y.sync[n].skip \/ Current(y.sync[n], n)
        BY <2>5, <4>1, <4>2 DEF Went, Kin, Current
      <4>5. Known(S[n], y.sync[n], n)
        BY <2>5, <4>2 DEF Went, Known, Kin
      <4>6. y.sync[n].skip => S[n].skip \/ SkippedFor(y.sync, n)
        BY <2>5, <4>1, <4>2, SkippedForSame DEF Went, Kin, Does
      <4>7. Besides(S, R, n, y.sync)
        BY <2>5, <4>2 DEF Went, Besides
      <4>8. QED
        BY <2>5, <4>2, <4>3, <4>4, <4>5, <4>6, <4>7 DEF Went, Kin, Pushed
    <3>3. QED
      BY <2>2, <3>1, <3>2 DEF Rebase
  <2>7. CASE o = y
    BY <1>2, <2>6, <2>7
  <2>8. CASE ~Raised(y) /\ o \in Schedule(y.sync, T, n, Action(y))
    <3>1. Good(y.sync, T, R) /\ y.sync[n] # NoSync /\ y.raised = "none" /\ y.tries = T
          /\ (y.sync[n].skip \/ Current(y.sync[n], n))
      BY <2>6, <2>8 DEF Went, Does, Raised
    <3>2. /\ Does(y.sync, T, R, n, o) /\ o.sync = y.sync /\ o.raised \in {"none", "retry"}
          /\ Pushed(T, o.tries, n, y.sync[n], merged)
      BY <2>8, <3>1, ScheduleFacts DEF Action
    <3>3. Does(S, T, R, n, o)
      BY <2>6, <3>1, <3>2, DoesTransitive DEF Went
    <3>4. QED
      BY <1>2, <2>6, <3>1, <3>2, <3>3 DEF Went
  <2>9. QED
    BY <2>1, <2>7, <2>8 DEF Last3
<1>3. QED
  BY <1>1, <1>2 DEF NextTryPush

-----------------------------------------------------------------------------
(***************************************************************************)
(* What holds as long as no event is lost or handled before its commits    *)
(* are fetched, no landing runs before an event is handled, and reverts    *)
(* are merged.  The PR of a try push is merged, and the try push is of the *)
(* commits that were; one that is complete without an infrastructure       *)
(* failure has results; a sync is skipped for a revert; and what is known  *)
(* of its tests is of the commits on its branch.                           *)
(***************************************************************************)
ExcusedIn(S, n) ==
  \E p \in Reverts : /\ n \in {p[1], p[2]} /\ gh[p[1]] \in {"open", "merged"}
                     /\ S[p[2]] # NoSync /\ S[p[2]].skip
Frozen(s, r, n) ==
  /\ gh[n] = "merged" /\ r = head[n] /\ s.head = head[n] /\ s.of = head[n]
  /\ <<n, head[n]>> \notin NoChange
TryDone(t) == t.status = "complete" /\ ~t.infra => Completed(t)
CalmPr(S, T, R, n) ==
  /\ T[n] # <<>> => Frozen(S[n], R[n], n)
  /\ \A k \in 1..Len(T[n]) : T[n][k].gecko[1] = head[n] /\ TryDone(T[n][k])
  /\ S[n].skip => ExcusedIn(S, n)
  /\ ~S[n].skip /\ S[n].tests = "none" => <<n, S[n].of>> \notin HasTests
Calm(S, T, R) == \A n \in PR : S[n] # NoSync => CalmPr(S, T, R, n)

\* What a handler knows of the PR n it works on.
Allowed(R, n, merged) ==
  /\ merged => gh[n] = "merged" /\ R[n] = head[n]
  /\ gh[n] \in {"open", "merged"} \/ \A m \in PR : <<n, m>> \notin Reverts

(***************************************************************************)
(* What a part of a handler does, and what follows for any sequence of     *)
(* such parts.                                                             *)
(***************************************************************************)
Handled(S, T, R, n, merged, o) ==
  LET s == S[n]
      t == o.sync[n]
  IN  /\ Does(S, T, R, n, o) /\ Besides(S, R, n, o.sync)
      /\ t.head \in {s.head, R[n]} /\ Known(s, t, n)
      /\ s.head = R[n] /\ s.of = R[n] /\ <<n, R[n]>> \notin NoChange => t.of = R[n]
      /\ t.skip => s.skip \/ SkippedFor(o.sync, n)
      /\ Pushed(T, o.tries, n, t, merged) /\ (o.tries = T \/ t.head = R[n])
Sound(S, T, R, n, merged, o) ==
  /\ Does(S, T, R, n, o) /\ Besides(S, R, n, o.sync)
  /\ Calm(S, T, R) /\ Allowed(R, n, merged) => Calm(o.sync, o.tries, R)

LEMMA ExcusedKept ==
  ASSUME NEW S, NEW T, NEW S2, NEW T2, Kept(S, T, S2, T2), NEW n, ExcusedIn(S, n)
  PROVE  ExcusedIn(S2, n)
<1>1. PICK p \in Reverts : /\ n \in {p[1], p[2]} /\ gh[p[1]] \in {"open", "merged"}
                           /\ S[p[2]] # NoSync /\ S[p[2]].skip
  BY DEF ExcusedIn
<1>2. p[2] \in PR
  BY VersionAssumption
<1>3. S2[p[2]] # NoSync /\ S2[p[2]].skip
  BY <1>1, <1>2 DEF Kept, Later
<1>4. QED
  BY <1>1, <1>3 DEF ExcusedIn

LEMMA HandledSound ==
  ASSUME NEW S, NEW T, NEW R, Good(S, T, R), NEW n \in PR, S[n] # NoSync, NEW merged, NEW o,
         Handled(S, T, R, n, merged, o)
  PROVE  Sound(S, T, R, n, merged, o)
<1> DEFINE S2 == o.sync
           T2 == o.tries
<1>1. /\ Does(S, T, R, n, o) /\ Besides(S, R, n, S2) /\ Kept(S, T, S2, T2) /\ Good(S2, T2, R)
  BY DEF Handled, Does
<1>2. /\ S2[n].head \in {S[n].head, R[n]} /\ Known(S[n], S2[n], n)
      /\ S[n].head = R[n] /\ S[n].of = R[n] /\ <<n, R[n]>> \notin NoChange => S2[n].of = R[n]
      /\ S2[n].skip => S[n].skip \/ SkippedFor(S2, n)
      /\ Pushed(T, T2, n, S2[n], merged) /\ (T2 = T \/ S2[n].head = R[n])
      /\ S2[n] # NoSync
  BY DEF Handled, Does
<1> HIDE DEF S2, T2
<1>3. SUFFICES ASSUME Calm(S, T, R), Allowed(R, n, merged) PROVE Calm(S2, T2, R)
  BY <1>1 DEF Sound, S2, T2
<1>4. /\ Fit(S[n], R[n]) /\ T[n] \in Seq(Try) /\ Len(T[n]) \in Nat
      /\ CalmPr(S, T, R, n)
  BY <1>3, GoodFacts DEF Calm
<1>5. ASSUME NEW m \in PR \ {n}, S2[m] # NoSync
      PROVE  CalmPr(S2, T2, R, m)
  <2>1. T2[m] = T[m]
    <3>1. n \in PR /\ m # n /\ T \in [PR -> Seq(Try)]
      BY DEF Good
    <3>2. QED
      BY <1>2, <3>1 DEF Pushed
  <2>2. CASE S2[m] = S[m]
    <3>1. CalmPr(S, T, R, m)
      BY <1>3, <1>5, <2>2 DEF Calm
    <3>2. S2[m].skip => ExcusedIn(S2, m)
      BY <1>1, <2>2, <3>1, ExcusedKept DEF CalmPr
    <3>3. QED
      BY <2>1, <2>2, <3>1, <3>2 DEF CalmPr
  <2>3. CASE <<n, m>> \in Reverts /\ S[m] # NoSync /\ S2[m] = Reverting(S[m], R[m])
    <3>1. CalmPr(S, T, R, m) /\ Fit(S[m], R[m]) /\ R[m] \in 0..MaxHeads
      BY <1>3, <2>3, GoodFacts DEF Calm
    <3>2. S2[m].head = R[m] /\ S2[m].of = S[m].of /\ S2[m].tests = S[m].tests
      BY <2>3, <3>1, TakenFacts
    <3>3. T2[m] # <<>> => Frozen(S2[m], R[m], m)
      BY <2>1, <3>1, <3>2 DEF CalmPr, Frozen
    <3>4. S2[m].skip => ExcusedIn(S2, m)
      <4>1. gh[n] \in {"open", "merged"}
        BY <1>3, <2>3 DEF Allowed
      <4>2. DEFINE p == <<n, m>>
      <4>3. p \in Reverts /\ m \in {p[1], p[2]} /\ p[1] = n /\ p[2] = m
        BY <2>3
      <4>4. QED
        BY <1>5, <4>1, <4>3 DEF ExcusedIn
    <3>5. S[m].skip => S2[m].skip
      BY <1>1, <2>3 DEF Kept, Later
    <3>6. QED
      BY <2>1, <3>1, <3>2, <3>3, <3>4, <3>5 DEF CalmPr
  <2>4. QED
    BY <1>1, <1>5, <2>2, <2>3 DEF Besides
<1>6. CalmPr(S2, T2, R, n)
  <2>1. T[n] # <<>> => Frozen(S[n], R[n], n)
    BY <1>4 DEF CalmPr
  <2>2. T[n] # <<>> => Frozen(S2[n], R[n], n)
    BY <1>2, <2>1 DEF Frozen
  <2>3. CASE T2 = T
    <3>1. \A k \in 1..Len(T2[n]) : T2[n][k].gecko[1] = head[n] /\ TryDone(T2[n][k])
      BY <1>4, <2>3 DEF CalmPr
    <3>2. T2[n] # <<>> => Frozen(S2[n], R[n], n)
      BY <2>2, <2>3
    <3>3. QED
      <4>1. S2[n].skip => ExcusedIn(S2, n)
        <5>1. CASE S[n].skip
          <6>1. ExcusedIn(S, n)
            BY <1>4, <5>1 DEF CalmPr
          <6>2. QED
            BY <1>1, <6>1, ExcusedKept
        <5>2. CASE SkippedFor(S2, n)
          <6>1. PICK m \in PR : <<n, m>> \in Reverts /\ S2[m] # NoSync /\ S2[m].skip
            BY <5>2 DEF SkippedFor
          <6>2. gh[n] \in {"open", "merged"}
            BY <1>3, <6>1 DEF Allowed
          <6>3. DEFINE p == <<n, m>>
          <6>4. p \in Reverts /\ n \in {p[1], p[2]} /\ p[1] = n /\ p[2] = m
            BY <6>1
          <6>5. QED
            BY <6>1, <6>2, <6>4 DEF ExcusedIn
        <5>3. QED
          BY <1>2, <5>1, <5>2
      <4>2. ~S2[n].skip /\ S2[n].tests = "none" => <<n, S2[n].of>> \notin HasTests
        <5>1. S[n].skip => S2[n].skip
          BY <1>1 DEF Kept, Later
        <5>2. ~S[n].skip /\ S[n].tests = "none" => <<n, S[n].of>> \notin HasTests
          BY <1>4 DEF CalmPr
        <5>3. QED
          BY <1>2, <5>1, <5>2 DEF Known
      <4>3. QED
        BY <3>1, <3>2, <4>1, <4>2 DEF CalmPr
  <2>4. ASSUME merged, ~S2[n].skip, S2[n].of # 0, S2[n].of = S2[n].head,
               <<n, S2[n].head>> \notin NoChange, S2[n].head = R[n],
               NEW u \in Try, u.gecko[1] = S2[n].of, u.status = "open",
               T2 = [T EXCEPT ![n] = Append(T[n], u)]
        PROVE  CalmPr(S2, T2, R, n)
    <3>1. gh[n] = "merged" /\ R[n] = head[n]
      BY <1>3, <2>4 DEF Allowed
    <3>2. Frozen(S2[n], R[n], n)
      BY <2>4, <3>1 DEF Frozen
    <3>3. /\ Len(T2[n]) = Len(T[n]) + 1 /\ T2[n][Len(T[n]) + 1] = u
          /\ \A k \in 1..Len(T[n]) : T2[n][k] = T[n][k]
      <4>1. T2[n] = Append(T[n], u)
        BY <2>4 DEF Good
      <4>2. QED
        BY <1>4, <4>1, AppendProperties
    <3>4. \A k \in 1..Len(T2[n]) : T2[n][k].gecko[1] = head[n] /\ TryDone(T2[n][k])
      <4>1. u.gecko[1] = head[n] /\ TryDone(u)
        BY <2>4, <3>1 DEF TryDone
      <4>2. \A k \in 1..Len(T[n]) : T[n][k].gecko[1] = head[n] /\ TryDone(T[n][k])
        BY <1>4 DEF CalmPr
      <4>3. \A k \in 1..(Len(T[n]) + 1) : k \in 1..Len(T[n]) \/ k = Len(T[n]) + 1
        BY <1>4
      <4>4. QED
        BY <3>3, <4>1, <4>2, <4>3
    <3>5. S2[n].tests = "none" => <<n, S2[n].of>> \notin HasTests
      <4>1. S[n].skip => S2[n].skip
        BY <1>1 DEF Kept, Later
      <4>2. ~S[n].skip /\ S[n].tests = "none" => <<n, S[n].of>> \notin HasTests
        BY <1>4 DEF CalmPr
      <4>3. QED
        BY <1>2, <2>4, <4>1, <4>2 DEF Known
    <3>6. QED
      BY <2>4, <3>2, <3>4, <3>5 DEF CalmPr
  <2>5. QED
    BY <1>2, <2>3, <2>4 DEF Pushed
<1>7. QED
  BY <1>5, <1>6 DEF Calm

LEMMA BesidesTransitive ==
  ASSUME NEW S, NEW T, NEW R, Good(S, T, R), NEW n \in PR, NEW S2, NEW S3,
         Besides(S, R, n, S2), Besides(S2, R, n, S3)
  PROVE  Besides(S, R, n, S3)
<1>1. ASSUME NEW m \in PR, S[m] # NoSync
      PROVE  Reverting(Reverting(S[m], R[m]), R[m]) = Reverting(S[m], R[m])
  <2> DEFINE s == S[m]
             r == R[m]
             b == s.skip \/ s.open
  <2>1. s \in Sync /\ r \in 0..MaxHeads
    BY <1>1, GoodFacts
  <2>2. Reverting(s, r).skip = b /\ Reverting(s, r).open = s.open /\ (b \/ s.open) = b /\ b \in BOOLEAN
    BY <2>1, RevertingSkip DEF Reverting, Sync
  <2>3. Reverting(Reverting(s, r), r) = [Reverting(s, r) EXCEPT !.head = r, !.skip = b]
    BY <2>2 DEF Reverting
  <2>4. Reverting(s, r) = [s EXCEPT !.head = r, !.skip = b]
    BY DEF Reverting
  <2> HIDE DEF b, s, r
  <2>5. [[s EXCEPT !.head = r, !.skip = b] EXCEPT !.head = r, !.skip = b] = [s EXCEPT !.head = r, !.skip = b]
    BY <2>1, <2>2 DEF Sync
  <2>6. QED
    BY <2>3, <2>4, <2>5 DEF s, r
<1>2. QED
  BY <1>1 DEF Besides

LEMMA SoundTransitive ==
  ASSUME NEW S, NEW T, NEW R, Good(S, T, R), NEW n \in PR, NEW merged, NEW o, NEW p,
         Sound(S, T, R, n, merged, o), Sound(o.sync, o.tries, R, n, merged, p)
  PROVE  Sound(S, T, R, n, merged, p)
<1>1. Does(S, T, R, n, p)
  BY DoesTransitive DEF Sound
<1>2. Besides(S, R, n, p.sync)
  BY BesidesTransitive DEF Sound
<1>3. QED
  BY <1>1, <1>2 DEF Sound

\* A call that marks the sync: it is opened, finished, or gets a bug or an error.
Marked(s, t) == t.head = s.head /\ t.skip = s.skip /\ t.of = s.of /\ t.tests = s.tests

LEMMA MarkedSound ==
  ASSUME NEW S, NEW T, NEW R, Good(S, T, R), NEW n \in PR, S[n] # NoSync,
         NEW t, Fit(t, R[n]), Later(S[n], t), Marked(S[n], t), NEW merged,
         NEW o, o.sync = Put(S, n, t), o.tries = T
  PROVE  Sound(S, T, R, n, merged, o) /\ o.sync[n] = t /\ Good(o.sync, o.tries, R)
<1>1. Does(S, T, R, n, o) /\ o.sync[n] = t /\ \A m \in PR \ {n} : o.sync[m] = S[m]
  BY PutOut
<1>2. Handled(S, T, R, n, merged, o)
  BY <1>1 DEF Handled, Besides, Marked, Known, Pushed
<1>3. QED
  BY <1>1, <1>2, HandledSound DEF Does

LEMMA SameSound ==
  ASSUME NEW S, NEW T, NEW R, Good(S, T, R), NEW n \in PR, S[n] # NoSync, NEW merged,
         NEW o, o.sync = S, o.tries = T
  PROVE  Sound(S, T, R, n, merged, o)
<1>1. Kept(S, T, S, T)
  BY KeptReflexive
<1>2. QED
  BY <1>1 DEF Sound, Does, Besides

Marks(s, open, error, bug) == [s EXCEPT !.open = open, !.error = error, !.bug = bug]

LEMMA MarkFacts ==
  ASSUME NEW r \in 0..MaxHeads, NEW s, Fit(s, r), NEW open \in BOOLEAN, NEW error \in BOOLEAN,
         NEW bug \in BOOLEAN
  PROVE  /\ Fit(Marks(s, open, error, bug), r) /\ Later(s, Marks(s, open, error, bug))
         /\ Marked(s, Marks(s, open, error, bug)) /\ Marks(s, open, error, bug).open = open
<1> DEFINE t == Marks(s, open, error, bug)
<1>1. /\ t \in Sync /\ Marked(s, t) /\ t.base = s.base /\ t.meta = s.meta /\ t.stash = s.stash
      /\ t.open = open
  BY DEF Fit, Sync, Marked, Marks
<1>2. s.head \in Int /\ s.base \in Int /\ Top(s) \in Int
  BY SyncFields, BoundAssumption, VersionAssumption DEF Fit, Top
<1> HIDE DEF t
<1>3. Fit(t, r) /\ Later(s, t)
  BY <1>1, <1>2 DEF Fit, Later, Marked, Top
<1>4. QED
  BY <1>1, <1>3 DEF t

LEMMA MarksFacts ==
  ASSUME NEW r \in 0..MaxHeads, NEW s, Fit(s, r),
         NEW t \in {[s EXCEPT !.open = TRUE], [s EXCEPT !.error = TRUE], [s EXCEPT !.bug = TRUE], Finish(s)}
  PROVE  /\ Fit(t, r) /\ Later(s, t) /\ Marked(s, t)
         /\ t # Finish(s) => t.open = s.open \/ t.open
         /\ t = [s EXCEPT !.open = TRUE] => t.open
         /\ t = [s EXCEPT !.error = TRUE] => t.error /\ t.open = s.open
<1>1. s \in Sync /\ s.open \in BOOLEAN /\ s.error \in BOOLEAN /\ s.bug \in BOOLEAN
  BY SyncFields DEF Fit
<1>2. [s EXCEPT !.open = TRUE] = Marks(s, TRUE, s.error, s.bug)
  BY <1>1 DEF Sync, Marks
<1>3. [s EXCEPT !.error = TRUE] = Marks(s, s.open, TRUE, s.bug)
  BY <1>1 DEF Sync, Marks
<1>4. [s EXCEPT !.bug = TRUE] = Marks(s, s.open, s.error, TRUE)
  BY <1>1 DEF Sync, Marks
<1>5. Finish(s) \in {Marks(s, FALSE, FALSE, s.bug), [s EXCEPT !.error = TRUE]}
  <2>1. [s EXCEPT !.open = FALSE, !.error = FALSE] = Marks(s, FALSE, FALSE, s.bug)
    BY <1>1 DEF Sync, Marks
  <2>2. QED
    BY <2>1 DEF Finish
<1>6. PICK open \in BOOLEAN, error \in BOOLEAN, bug \in BOOLEAN :
        /\ t = Marks(s, open, error, bug)
        /\ t # Finish(s) => open = s.open \/ open
  BY <1>1, <1>2, <1>3, <1>4, <1>5
<1>7. Fit(t, r) /\ Later(s, t) /\ Marked(s, t) /\ t.open = open
  BY <1>6, MarkFacts
<1>8. t = [s EXCEPT !.open = TRUE] => t.open
  BY <1>1 DEF Sync
<1>9. t = [s EXCEPT !.error = TRUE] => t.error /\ t.open = s.open
  BY <1>1 DEF Sync
<1>10. QED
  BY <1>6, <1>7, <1>8, <1>9

LEMMA CreateBugFacts ==
  ASSUME NEW S, NEW T, NEW R, Good(S, T, R), NEW n \in PR, S[n] # NoSync, NEW raised, NEW merged,
         NEW o \in CreateBug(S, T, n, raised)
  PROVE  /\ Sound(S, T, R, n, merged, o) /\ o.tries = T /\ o.raised \in {"none", raised}
         /\ Marked(S[n], o.sync[n]) /\ o.sync[n].open = S[n].open
         /\ o.sync[n].error = S[n].error
<1> DEFINE t == [S[n] EXCEPT !.bug = TRUE]
<1>1. o = Out(Put(S, n, t), T, "none") \/ o = Out(S, T, raised)
  BY DEF CreateBug, When
<1>2. Fit(S[n], R[n]) /\ R[n] \in 0..MaxHeads /\ S[n] \in Sync
  BY GoodFacts
<1>3. Fit(t, R[n]) /\ Later(S[n], t) /\ Marked(S[n], t)
  BY <1>2, MarksFacts
<1>4. t.open = S[n].open /\ t.error = S[n].error
  BY <1>2 DEF Sync
<1> HIDE DEF t
<1>5. CASE o = Out(Put(S, n, t), T, "none")
  <2>1. o.sync = Put(S, n, t) /\ o.tries = T /\ o.raised = "none"
    BY <1>5, OutFields
  <2>2. QED
    BY <1>3, <1>4, <2>1, MarkedSound
<1>6. CASE o = Out(S, T, raised)
  <2>1. o.sync = S /\ o.tries = T /\ o.raised = raised
    BY <1>6, OutFields
  <2>2. QED
    BY <2>1, SameSound DEF Marked
<1>7. QED
  BY <1>1, <1>5, <1>6

\* A handler flags the error that it ends with.
LEMMA FlagFacts ==
  ASSUME NEW S, NEW T, NEW R, Good(S, T, R), NEW n \in PR, NEW merged, NEW outs,
         \A x \in outs : Sound(S, T, R, n, merged, x),
         NEW o \in Flag(CheckBug(outs, n), n)
  PROVE  /\ Sound(S, T, R, n, merged, o)
         /\ \E x \in outs :
              /\ o.tries = x.tries /\ o.sync[n].open = x.sync[n].open
              /\ o.sync[n].error \/ (x.raised = "none" /\ o.sync[n] = x.sync[n])
<1>1. PICK x \in outs :
        \/ x.raised = "none" /\ o = x
        \/ o.sync = Put(x.sync, n, [x.sync[n] EXCEPT !.error = TRUE]) /\ o.tries = x.tries
  <2> DEFINE E(y) == Put(y.sync, n, [y.sync[n] EXCEPT !.error = TRUE])
  <2>1. PICK y \in CheckBug(outs, n) :
          o = IF Raised(y) THEN Out(E(y), y.tries, y.raised) ELSE y
    BY DEF Flag
  <2>2. PICK x \in outs : y = IF Raised(x) \/ x.sync[n].bug THEN x ELSE Out(x.sync, x.tries, "error")
    BY DEF CheckBug
  <2>0. \A y1, y2 : y1.sync = y2.sync => E(y1) = E(y2)
    OBVIOUS
  <2> HIDE DEF E
  <2>3. CASE y = x
    <3>1. CASE Raised(x)
      <4>1. o = Out(E(x), x.tries, x.raised)
        BY <2>1, <2>3, <3>1
      <4>2. o.sync = E(x) /\ o.tries = x.tries
        BY <4>1, OutFields
      <4>3. QED
        BY <4>2 DEF E
    <3>2. CASE ~Raised(x)
      BY <2>1, <2>3, <3>2 DEF Raised
    <3>3. QED
      BY <3>1, <3>2
  <2>4. CASE y = Out(x.sync, x.tries, "error")
    <3>1. y.sync = x.sync /\ y.tries = x.tries /\ y.raised = "error"
      BY <2>4, OutFields
    <3>2. E(y) = E(x)
      BY <2>0, <3>1
    <3>3. o = Out(E(x), x.tries, "error")
      BY <2>1, <3>1, <3>2 DEF Raised
    <3>4. o.sync = E(x) /\ o.tries = x.tries
      BY <3>3, OutFields
    <3>5. QED
      BY <3>4 DEF E
  <2>5. QED
    BY <2>2, <2>3, <2>4
<1>2. Sound(S, T, R, n, merged, x) /\ Good(x.sync, x.tries, R) /\ x.sync[n] # NoSync
  BY DEF Sound, Does
<1>3. CASE x.raised = "none" /\ o = x
  BY <1>2, <1>3
<1>4. CASE o.sync = Put(x.sync, n, [x.sync[n] EXCEPT !.error = TRUE]) /\ o.tries = x.tries
  <2> DEFINE t == [x.sync[n] EXCEPT !.error = TRUE]
  <2>1. Fit(x.sync[n], R[n]) /\ R[n] \in 0..MaxHeads
    BY <1>2, GoodFacts
  <2>2. Fit(t, R[n]) /\ Later(x.sync[n], t) /\ Marked(x.sync[n], t) /\ t.error /\ t.open = x.sync[n].open
    BY <2>1, MarksFacts
  <2> HIDE DEF t
  <2>3. Sound(x.sync, x.tries, R, n, merged, o) /\ o.sync[n] = t
    BY <1>2, <1>4, <2>2, MarkedSound DEF t
  <2>4. Sound(S, T, R, n, merged, o)
    BY <1>2, <2>3, SoundTransitive
  <2>5. QED
    BY <1>4, <2>2, <2>3, <2>4
<1>5. QED
  BY <1>1, <1>3, <1>4

-----------------------------------------------------------------------------
(* The handlers of PR events. *)

\* The commits that are on the branch are those of the version r, or it is known that not.
UpTo(t, r, n) == t.skip \/ t.error \/ (t.head = r /\ Current(t, n))

LEMMA NextTryPushSound ==
  ASSUME central \in 0..MaxBase, NEW S, NEW T, NEW R, Good(S, T, R),
         NEW n \in PR, S[n] # NoSync, NEW merged, NEW o \in NextTryPush(S, T, R, n, merged)
  PROVE  /\ Sound(S, T, R, n, merged, o) /\ o.sync[n].open = S[n].open
         /\ S[n].open /\ o.raised = "none" => UpTo(o.sync[n], R[n], n)
<1>1. CASE (S[n].skip \/ ~S[n].open) /\ o = Out(S, T, "none")
  <2>1. o.sync = S /\ o.tries = T
    BY <1>1, OutFields
  <2>2. QED
    BY <1>1, <2>1, SameSound DEF UpTo
<1>2. CASE ~S[n].skip /\ S[n].open /\ Went(S, T, R, n, merged, o)
  <2>1. Handled(S, T, R, n, merged, o)
    BY <1>2 DEF Went, Handled
  <2>2. Sound(S, T, R, n, merged, o)
    BY <2>1, HandledSound
  <2>3. QED
    BY <1>2, <2>2 DEF Went, UpTo
<1>3. QED
  BY <1>1, <1>2, NextTryPushFacts

LEMMA UpdatePrFacts ==
  ASSUME central \in 0..MaxBase, NEW S, NEW T, NEW R, Good(S, T, R),
         NEW n \in PR, S[n] # NoSync, NEW merged, NEW action,
         NEW o \in UpdatePr(S, T, R, n, action, merged)
  PROVE  /\ Sound(S, T, R, n, merged, o)
         /\ action # "closed" \/ merged => (S[n].open \/ action = "reopened" => o.sync[n].open)
         /\ action = "closed" /\ merged /\ S[n].open => UpTo(o.sync[n], R[n], n)
<1> DEFINE Handle(b) ==
        CASE action = "closed"   -> NextTryPush(b.sync, T, R, n, merged)
          [] action = "reopened" ->
               NextTryPush(Put(b.sync, n, [b.sync[n] EXCEPT !.open = TRUE]), T, R, n, merged)
          [] OTHER               -> {Out(b.sync, T, "none")}
      outs == IF action = "closed" /\ ~merged
              THEN {Out(Put(S, n, Finish(S[n])), T, "none")}
              ELSE UNION {Handle(b) : b \in CreateBug(S, T, n, "none")}
      Fine(x) == /\ Sound(S, T, R, n, merged, x)
                 /\ action # "closed" \/ merged => (S[n].open \/ action = "reopened" => x.sync[n].open)
                 /\ action = "closed" /\ merged /\ S[n].open /\ x.raised = "none" =>
                      UpTo(x.sync[n], R[n], n)
<1>1. o \in Flag(CheckBug(outs, n), n)
  BY DEF UpdatePr
<1>2. ASSUME NEW x \in outs PROVE Fine(x)
  <2>1. CASE action = "closed" /\ ~merged /\ x = Out(Put(S, n, Finish(S[n])), T, "none")
    <3>1. Fit(S[n], R[n]) /\ R[n] \in 0..MaxHeads
      BY GoodFacts
    <3> DEFINE t == Finish(S[n])
    <3>2. Fit(t, R[n]) /\ Later(S[n], t) /\ Marked(S[n], t)
      BY <3>1, MarksFacts
    <3>3. x.sync = Put(S, n, t) /\ x.tries = T
      BY <2>1, OutFields
    <3> HIDE DEF t
    <3>4. Sound(S, T, R, n, merged, x)
      BY <3>2, <3>3, MarkedSound
    <3>5. QED
      BY <2>1, <3>4
  <2>2. ASSUME action # "closed" \/ merged, NEW b \in CreateBug(S, T, n, "none"), x \in Handle(b)
        PROVE  Fine(x)
    <3>1. /\ Sound(S, T, R, n, merged, b) /\ b.tries = T /\ b.raised = "none"
          /\ Marked(S[n], b.sync[n]) /\ b.sync[n].open = S[n].open
      BY CreateBugFacts
    <3>2. Good(b.sync, T, R) /\ b.sync[n] # NoSync
      BY <3>1 DEF Sound, Does
    <3>3. CASE action = "closed" /\ x \in NextTryPush(b.sync, T, R, n, merged)
      <4>1. /\ Sound(b.sync, T, R, n, merged, x) /\ x.sync[n].open = b.sync[n].open
            /\ b.sync[n].open /\ x.raised = "none" => UpTo(x.sync[n], R[n], n)
        BY <3>2, <3>3, NextTryPushSound
      <4>2. Sound(S, T, R, n, merged, x)
        BY <3>1, <4>1, SoundTransitive
      <4>3. QED
        BY <3>1, <3>3, <4>1, <4>2
    <3>4. CASE action = "reopened"
               /\ x \in NextTryPush(Put(b.sync, n, [b.sync[n] EXCEPT !.open = TRUE]), T, R, n, merged)
      <4> DEFINE t == [b.sync[n] EXCEPT !.open = TRUE]
                 c == Out(Put(b.sync, n, t), T, "none")
      <4>1. Fit(b.sync[n], R[n]) /\ R[n] \in 0..MaxHeads
        BY <3>2, GoodFacts
      <4>2. Fit(t, R[n]) /\ Later(b.sync[n], t) /\ Marked(b.sync[n], t) /\ t.open
        BY <4>1, MarksFacts
      <4>3. x \in NextTryPush(Put(b.sync, n, t), T, R, n, merged)
        BY <3>4
      <4> HIDE DEF t
      <4>4. c.sync = Put(b.sync, n, t) /\ c.tries = T
        BY OutFields
      <4> HIDE DEF c
      <4>5. Sound(b.sync, T, R, n, merged, c) /\ c.sync[n] = t /\ Good(c.sync, T, R)
        BY <3>2, <4>2, <4>4, MarkedSound
      <4>6. c.sync[n] # NoSync /\ x \in NextTryPush(c.sync, T, R, n, merged)
        BY <4>3, <4>4, <4>5 DEF Sound, Does
      <4>7. Sound(c.sync, T, R, n, merged, x) /\ x.sync[n].open = c.sync[n].open
        BY <4>5, <4>6, NextTryPushSound
      <4>8. Sound(S, T, R, n, merged, c)
        BY <3>1, <4>5, SoundTransitive
      <4>9. Sound(S, T, R, n, merged, x)
        BY <4>4, <4>7, <4>8, SoundTransitive
      <4>10. QED
        BY <3>4, <4>2, <4>5, <4>7, <4>9
    <3>5. CASE action \notin {"closed", "reopened"} /\ x = Out(b.sync, T, "none")
      <4>1. x.sync = b.sync /\ x.tries = b.tries
        BY <3>1, <3>5, OutFields
      <4>2. Sound(S, T, R, n, merged, x)
        BY <3>1, <4>1 DEF Sound, Does
      <4>3. QED
        BY <3>1, <3>5, <4>1, <4>2
    <3>6. QED
      BY <2>2, <3>3, <3>4, <3>5
  <2> HIDE DEF Fine, Handle
  <2>3. QED
    BY <2>1, <2>2
<1> HIDE DEF outs
<1>3. /\ Sound(S, T, R, n, merged, o)
      /\ \E x \in outs :
              /\ o.sync[n].open = x.sync[n].open
              /\ o.sync[n].error \/ (x.raised = "none" /\ o.sync[n] = x.sync[n])
  BY <1>1, <1>2, FlagFacts
<1>4. QED
  BY <1>2, <1>3 DEF UpTo

NewSync(r) ==
  [open |-> TRUE, error |-> FALSE, skip |-> FALSE, rebased |-> FALSE, bug |-> FALSE,
   head |-> r, of |-> 0, base |-> central, onto |-> FALSE, meta |-> 0, stash |-> 0,
   tests |-> "unknown"]

LEMMA NewSyncSound ==
  ASSUME central \in 0..MaxBase, NEW S, NEW T, NEW R, Good(S, T, R), NEW n \in PR, S[n] = NoSync,
         1 <= R[n], NEW merged, NEW s, s = NewSync(R[n]), NEW o, o.sync = Put(S, n, s), o.tries = T
  PROVE  Sound(S, T, R, n, merged, o) /\ Good(o.sync, T, R) /\ o.sync[n] = s /\ s.open /\ s # NoSync
<1>1. R[n] \in 0..MaxHeads /\ T[n] = <<>> /\ MaxMeta \in Nat /\ MaxHeads \in Nat /\ MaxBase \in Nat
  BY BoundAssumption, VersionAssumption DEF Good
<1>2. s \in Sync /\ s.head = R[n] /\ s.of = 0 /\ s.base = central /\ s.meta = 0 /\ s.skip = FALSE
      /\ s.tests = "unknown" /\ s.open = TRUE
  BY <1>1 DEF Sync, NewSync
<1>3. Fit(s, R[n]) /\ s # NoSync
  <2>1. central <= central /\ R[n] <= R[n] /\ 0 <= R[n]
    BY <1>1
  <2>2. QED
    BY <1>2, <2>1, SyncAssumption DEF Fit
<1>4. TriesFit(T[n], s)
  <2>1. T[n] \in Seq(Try) /\ Len(T[n]) = 0
    BY <1>1 DEF Good
  <2>2. QED
    BY <2>1 DEF TriesFit
<1> DEFINE S2 == Put(S, n, s)
<1>5. /\ S2 \in [PR -> Sync \cup {NoSync}] /\ S2[n] = s /\ \A m \in PR : m # n => S2[m] = S[m]
  BY <1>2 DEF Good, Put
<1> HIDE DEF S2
<1>6. Good(S2, T, R)
  BY <1>3, <1>4, <1>5 DEF Good
<1>7. Kept(S, T, S2, T)
  <2>1. Kept(S, T, S, T)
    BY KeptReflexive
  <2>2. ASSUME NEW m \in PR, S[m] # NoSync
        PROVE  S2[m] # NoSync /\ Later(S[m], S2[m]) /\ Len(T[m]) <= Len(T[m])
    BY <1>5, <2>1, <2>2 DEF Kept
  <2>3. QED
    BY <2>2 DEF Kept
<1>8. Besides(S, R, n, S2)
  BY <1>5 DEF Besides
<1>9. Calm(S, T, R) => Calm(S2, T, R)
  <2>1. SUFFICES ASSUME Calm(S, T, R), NEW m \in PR, S2[m] # NoSync PROVE CalmPr(S2, T, R, m)
    BY DEF Calm
  <2>2. CASE m = n
    BY <1>1, <1>2, <1>5, <2>2 DEF CalmPr
  <2>3. CASE m # n
    <3>1. S2[m] = S[m] /\ CalmPr(S, T, R, m)
      BY <1>5, <2>1, <2>3 DEF Calm
    <3>2. S2[m].skip => ExcusedIn(S2, m)
      BY <1>7, <3>1, ExcusedKept DEF CalmPr
    <3>3. QED
      BY <3>1, <3>2 DEF CalmPr
  <2>4. QED
    BY <2>2, <2>3
<1>10. QED
  BY <1>2, <1>3, <1>5, <1>6, <1>7, <1>8, <1>9 DEF Sound, Does, S2

LEMMA UpdateCommitsSound ==
  ASSUME central \in 0..MaxBase, NEW S, NEW T, NEW R, Good(S, T, R),
         NEW n \in PR, S[n] # NoSync, NEW merged, NEW o \in UpdateCommits(S, T, R, n)
  PROVE  Sound(S, T, R, n, merged, o) /\ o.tries = T /\ o.sync[n].open = S[n].open
<1>1. /\ Does(S, T, R, n, o) /\ o.tries = T
      /\ o.sync[n].head = R[n] /\ o.sync[n].open = S[n].open
      /\ (o.sync[n].of = S[n].of /\ o.sync[n].tests = S[n].tests) \/ o.sync[n].tests = "unknown"
      /\ S[n].of = R[n] /\ <<n, R[n]>> \notin NoChange => o.sync[n].of = R[n]
      /\ Besides(S, R, n, o.sync)
      /\ o.sync[n].skip => S[n].skip \/ SkippedFor(o.sync, n)
  BY UpdateCommitsFacts
<1>2. Handled(S, T, R, n, merged, o)
  BY <1>1 DEF Handled, Known, Pushed
<1>3. QED
  BY <1>1, <1>2, HandledSound

LEMMA NewWptPrFacts ==
  ASSUME central \in 0..MaxBase, NEW S, NEW T, NEW R, Good(S, T, R), NEW n \in PR, S[n] = NoSync,
         1 <= R[n], NEW merged, NEW o \in NewWptPr(S, T, R, n)
  PROVE  Sound(S, T, R, n, merged, o) /\ o.tries = T /\ o.sync[n].open
<1> DEFINE s == NewSync(R[n])
           b == Out(Put(S, n, s), T, "none")
<1>1. PICK c \in CreateBug(Put(S, n, s), T, n, "error") :
        IF Raised(c) THEN o = c ELSE o \in Flag(CheckBug(UpdateCommits(c.sync, T, R, n), n), n)
  BY DEF NewWptPr, NewSync
<1>0. b.sync = Put(S, n, s) /\ b.tries = T
  BY OutFields
<1> HIDE DEF b
<1>2. Sound(S, T, R, n, merged, b) /\ Good(b.sync, T, R) /\ b.sync[n] = s /\ s.open /\ s # NoSync
  BY <1>0, NewSyncSound
<1> HIDE DEF s
<1>3. c \in CreateBug(b.sync, T, n, "error") /\ b.sync[n] # NoSync
  BY <1>0, <1>1, <1>2
<1>4. /\ Sound(b.sync, T, R, n, merged, c) /\ c.tries = T /\ c.sync[n].open = b.sync[n].open
  BY <1>2, <1>3, CreateBugFacts
<1>5. Sound(S, T, R, n, merged, c) /\ c.sync[n].open
  BY <1>0, <1>2, <1>4, SoundTransitive
<1> DEFINE outs == UpdateCommits(c.sync, T, R, n)
<1>6. CASE ~Raised(c) /\ o \in Flag(CheckBug(UpdateCommits(c.sync, T, R, n), n), n)
  <2>1. Good(c.sync, T, R) /\ c.sync[n] # NoSync
    BY <1>4, <1>5 DEF Sound, Does
  <2>2. \A x \in outs :
          Sound(c.sync, T, R, n, merged, x) /\ x.tries = T /\ x.sync[n].open = c.sync[n].open
    BY <2>1, UpdateCommitsSound
  <2>0. o \in Flag(CheckBug(outs, n), n)
    BY <1>6
  <2> HIDE DEF outs
  <2>3. /\ Sound(c.sync, T, R, n, merged, o)
        /\ \E x \in outs : o.tries = x.tries /\ o.sync[n].open = x.sync[n].open
    BY <2>0, <2>1, <2>2, FlagFacts
  <2>4. Sound(S, T, R, n, merged, o)
    BY <1>4, <1>5, <2>3, SoundTransitive
  <2>5. QED
    BY <1>5, <2>2, <2>3, <2>4
<1>7. QED
  BY <1>1, <1>4, <1>5, <1>6

LEMMA HandlePrFacts ==
  ASSUME central \in 0..MaxBase, NEW S, NEW T, NEW R, Good(S, T, R), NEW n \in PR, 1 <= R[n],
         NEW merged, NEW action, NEW o \in HandlePr(S, T, R, n, action, merged)
  PROVE  /\ Sound(S, T, R, n, merged, o)
         /\ action # "closed" \/ merged =>
              (S[n] = NoSync \/ S[n].open \/ action = "reopened" => o.sync[n].open)
         /\ action = "closed" /\ merged /\ S[n] # NoSync /\ S[n].open => UpTo(o.sync[n], R[n], n)
<1>1. CASE S[n] # NoSync
  <2>1. PICK c \in {Out(S, T, "none")} :
          IF Raised(c) THEN o = c ELSE o \in UpdatePr(c.sync, T, R, n, action, merged)
    BY <1>1 DEF HandlePr
  <2>2. c.sync = S /\ c.raised = "none"
    BY <2>1, OutFields
  <2>3. o \in UpdatePr(S, T, R, n, action, merged)
    BY <2>1, <2>2 DEF Raised
  <2>4. QED
    BY <1>1, <2>3, UpdatePrFacts
<1>2. CASE S[n] = NoSync
  <2>1. PICK c \in NewWptPr(S, T, R, n) :
          IF Raised(c) THEN o = c ELSE o \in UpdatePr(c.sync, T, R, n, action, merged)
    BY <1>2 DEF HandlePr
  <2>2. Sound(S, T, R, n, merged, c) /\ c.tries = T /\ c.sync[n].open
    BY <1>2, NewWptPrFacts
  <2>3. CASE o = c
    BY <1>2, <2>2, <2>3
  <2>4. CASE o \in UpdatePr(c.sync, T, R, n, action, merged)
    <3>1. Good(c.sync, T, R) /\ c.sync[n] # NoSync
      BY <2>2 DEF Sound, Does
    <3>2. /\ Sound(c.sync, T, R, n, merged, o)
          /\ action # "closed" \/ merged => o.sync[n].open
      BY <2>2, <2>4, <3>1, UpdatePrFacts
    <3>3. Sound(S, T, R, n, merged, o)
      BY <2>2, <3>2, SoundTransitive
    <3>4. QED
      BY <1>2, <3>2, <3>3
  <2>5. QED
    BY <2>1, <2>3, <2>4
<1>3. QED
  BY <1>1, <1>2

-----------------------------------------------------------------------------
(* The handlers of try pushes. *)

LEMMA TryFields ==
  ASSUME NEW t \in Try
  PROVE  /\ t.stability \in BOOLEAN /\ t.head \in 0..MaxHeads
         /\ t.gecko \in (0..MaxHeads) \X (0..MaxBase) \X (0..MaxMeta)
         /\ t.status \in {"open", "complete"} /\ t.infra \in BOOLEAN /\ t.group \in BOOLEAN
         /\ t.news \in BOOLEAN /\ t.result \in ResultKinds \cup {"none", "running"}
BY DEF Try

LEMMA TryFound ==
  ASSUME NEW S, NEW T, NEW R, Good(S, T, R), NEW n \in PR, NEW k \in DOMAIN T[n]
  PROVE  /\ S[n] # NoSync /\ T[n][k] \in Try /\ k \in 1..Len(T[n]) /\ T[n] # <<>>
<1>1. T[n] \in Seq(Try)
  BY DEF Good
<1>2. S[n] # NoSync
  <2>1. CASE T[n] = <<>>
    BY <2>1
  <2>2. CASE T[n] # <<>>
    BY <2>2 DEF Good
  <2>3. QED
    BY <2>1, <2>2
<1>3. QED
  BY <1>1, <1>2, ElementOfSeq, LenProperties

\* u is the try push t in another state.
Same(u, t) == u \in Try /\ u.stability = t.stability /\ u.head = t.head /\ u.gecko = t.gecko
SetTry(T, n, k, u) == [T EXCEPT ![n] = [T[n] EXCEPT ![k] = u]]

LEMMA TrySound ==
  ASSUME NEW S, NEW T, NEW R, Good(S, T, R), NEW n \in PR, NEW k \in DOMAIN T[n], NEW merged,
         NEW u, Same(u, T[n][k]), Calm(S, T, R) => TryDone(u),
         NEW o, o.sync = S, o.tries = SetTry(T, n, k, u)
  PROVE  Sound(S, T, R, n, merged, o) /\ Good(S, o.tries, R)
<1>0. /\ u \in Try /\ u.stability = T[n][k].stability /\ u.head = T[n][k].head
      /\ u.gecko = T[n][k].gecko
  BY DEF Same
<1>1. /\ S[n] # NoSync /\ k \in 1..Len(T[n]) /\ T[n] # <<>> /\ TriesFit(T[n], S[n])
      /\ T[n] \in Seq(Try) /\ Len(T[n]) \in Nat
  BY TryFound, GoodFacts
<1> DEFINE us == [T[n] EXCEPT ![k] = u]
<1>2. TriesFit(us, S[n]) /\ Len(us) = Len(T[n])
  BY <1>0, <1>1, ChangedTry
<1>3. us[k] = u /\ (\A j \in 1..Len(T[n]) : j # k => us[j] = T[n][j]) /\ DOMAIN us = DOMAIN T[n]
  BY <1>1
<1> HIDE DEF us
<1>4. o.tries = [T EXCEPT ![n] = us]
  BY DEF us, SetTry
<1>5. Good(S, o.tries, R) /\ Kept(S, T, S, o.tries)
  BY <1>1, <1>2, <1>4, PutTries
<1>6. o.tries[n] = us /\ \A m \in PR \ {n} : o.tries[m] = T[m]
  BY <1>4 DEF Good
<1>7. Calm(S, T, R) => Calm(S, o.tries, R)
  <2>1. SUFFICES ASSUME Calm(S, T, R), NEW m \in PR, S[m] # NoSync
                 PROVE  CalmPr(S, o.tries, R, m)
    BY DEF Calm
  <2>2. CalmPr(S, T, R, m)
    BY <2>1 DEF Calm
  <2>3. CASE m # n
    BY <1>6, <2>2, <2>3 DEF CalmPr
  <2>4. CASE m = n
    <3>1. \A j \in 1..Len(us) : us[j].gecko[1] = head[n] /\ TryDone(us[j])
      <4>1. \A j \in 1..Len(T[n]) : T[n][j].gecko[1] = head[n] /\ TryDone(T[n][j])
        BY <2>2, <2>4 DEF CalmPr
      <4>2. TryDone(u) /\ u.gecko[1] = head[n]
        BY <1>0, <1>1, <2>1, <4>1
      <4>3. QED
        BY <1>2, <1>3, <4>1, <4>2
    <3>2. QED
      BY <1>1, <1>6, <2>2, <2>4, <3>1 DEF CalmPr
  <2>5. QED
    BY <2>3, <2>4
<1>8. QED
  BY <1>1, <1>3, <1>5, <1>6, <1>7 DEF Sound, Does, Besides, us

\* What is found out about the tests of a sync that has try pushes is of its commits.
Probed(s, t, n) ==
  /\ t.head = s.head /\ t.skip = s.skip /\ t.of = s.of /\ t.open = s.open
  /\ t.tests = s.tests \/ (t.tests = "none" => <<n, s.head>> \notin HasTests)

LEMMA ProbedSound ==
  ASSUME NEW S, NEW T, NEW R, Good(S, T, R), NEW n \in PR, T[n] # <<>>, NEW merged,
         NEW t, Fit(t, R[n]), Later(S[n], t), Probed(S[n], t, n),
         NEW o, o.sync = Put(S, n, t), o.tries = T
  PROVE  Sound(S, T, R, n, merged, o) /\ o.sync[n] = t
<1>0. S[n] # NoSync
  BY DEF Good
<1>1. Does(S, T, R, n, o) /\ o.sync[n] = t /\ \A m \in PR \ {n} : o.sync[m] = S[m]
  BY <1>0, PutOut
<1>2. Besides(S, R, n, o.sync)
  BY <1>1 DEF Besides
<1>3. CASE Calm(S, T, R)
  <2>1. Frozen(S[n], R[n], n)
    BY <1>0, <1>3 DEF Calm, CalmPr
  <2>2. Known(S[n], t, n)
    BY <2>1 DEF Known, Frozen, Probed
  <2>3. Handled(S, T, R, n, merged, o)
    BY <1>1, <1>2, <2>2 DEF Handled, Pushed, Probed
  <2>4. QED
    BY <1>0, <1>1, <2>3, HandledSound
<1>4. CASE ~Calm(S, T, R)
  BY <1>1, <1>2, <1>4 DEF Sound
<1>5. QED
  BY <1>3, <1>4

LEMMA CompletedTry ==
  ASSUME NEW t \in Try
  PROVE  LET done == [t EXCEPT !.status = "complete"]
             broken == [done EXCEPT !.infra = TRUE]
         IN  /\ done \in Try /\ done.stability = t.stability /\ done.head = t.head
             /\ done.gecko = t.gecko
             /\ Completed(t) => TryDone(done)
             /\ broken \in Try /\ broken.stability = t.stability /\ broken.head = t.head
             /\ broken.gecko = t.gecko /\ TryDone(broken)
BY DEF Try, TryDone, Completed

LEMMA TryPushCompleteFacts ==
  ASSUME central \in 0..MaxBase, NEW S, NEW T, NEW R, Good(S, T, R), NEW n \in PR,
         NEW k \in DOMAIN T[n], Ended(T[n][k]), NEW o \in TryPushComplete(S, T, R, n, k)
  PROVE  Sound(S, T, R, n, gh[n] = "merged", o) /\ o.sync[n].open = S[n].open
<1> DEFINE merged == gh[n] = "merged"
           t      == T[n][k]
           Set(u) == [T EXCEPT ![n] = [@ EXCEPT ![k] = u]]
           done   == [t EXCEPT !.status = "complete"]
           broken == [done EXCEPT !.infra = TRUE]
           probed == UNION {IF s.tests = "none" THEN {[sync |-> s, raised |-> "none"]}
                            ELSE UpdateMetadata(s) : s \in AffectedTests(S[n], n)}
           Fine(x) == Sound(S, T, R, n, merged, x) /\ x.sync[n].open = S[n].open
<1> HIDE DEF merged
<1>0. TryDone(broken) /\ (Completed(t) => TryDone(done))
  <2>1. t \in Try
    BY TryFound
  <2> HIDE DEF t
  <2>2. QED
    BY <2>1, CompletedTry
<1>1. /\ S[n] # NoSync /\ t \in Try /\ k \in 1..Len(T[n]) /\ T[n] # <<>> /\ Fit(S[n], R[n])
      /\ R[n] \in 0..MaxHeads /\ T[n] \in Seq(Try) /\ S[n] \in Sync
  BY TryFound, GoodFacts
<1>2. ASSUME NEW x \in NextTryPush(S, T, R, n, merged) PROVE Fine(x)
  BY <1>1, NextTryPushSound
<1>3. ASSUME NEW u \in {done, broken}, TryDone(u), NEW S2, NEW b,
             b.sync = S2, b.tries = T, Fine(b), NEW x \in NextTryPush(S2, Set(u), R, n, merged)
      PROVE  Fine(x)
  <2>1. Same(u, T[n][k]) /\ TryDone(u)
    BY <1>1, <1>3, CompletedTry DEF Same
  <2> DEFINE c == Out(S2, Set(u), "none")
  <2>2. c.sync = S2 /\ c.tries = SetTry(T, n, k, u) /\ c.tries = Set(u)
    BY OutFields DEF SetTry
  <2> HIDE DEF c, done, broken, Set
  <2>3. Good(S2, T, R) /\ S2[n] # NoSync /\ Sound(S, T, R, n, merged, b) /\ S2[n].open = S[n].open
    BY <1>3 DEF Sound, Does
  <2>4. Sound(S2, T, R, n, merged, c) /\ Good(S2, c.tries, R)
    BY <2>1, <2>2, <2>3, TrySound
  <2>5. Sound(S2, c.tries, R, n, merged, x) /\ x.sync[n].open = S2[n].open
    BY <1>3, <2>2, <2>3, <2>4, NextTryPushSound
  <2>6. Sound(S, T, R, n, merged, c)
    BY <1>3, <2>3, <2>4, SoundTransitive
  <2>7. Sound(S, T, R, n, merged, x)
    BY <2>2, <2>5, <2>6, SoundTransitive
  <2>8. QED
    BY <2>3, <2>5, <2>7
<1>4. ASSUME NEW u \in {broken}, NEW t2, t2 = [S[n] EXCEPT !.error = TRUE],
             NEW x, x = Out(Put(S, n, t2), Set(u), "abort")
      PROVE  Fine(x)
  <2>1. Same(u, T[n][k]) /\ TryDone(u)
    BY <1>1, CompletedTry DEF Same
  <2>2. Fit(t2, R[n]) /\ Later(S[n], t2) /\ Marked(S[n], t2) /\ t2.open = S[n].open
    BY <1>1, <1>4, MarksFacts
  <2> DEFINE b == Out(Put(S, n, t2), T, "none")
  <2>3. b.sync = Put(S, n, t2) /\ b.tries = T
    BY OutFields
  <2> HIDE DEF b
  <2>4. Sound(S, T, R, n, merged, b) /\ b.sync[n] = t2 /\ Good(b.sync, T, R)
    BY <1>1, <2>2, <2>3, MarkedSound
  <2>5. x.sync = b.sync /\ x.tries = SetTry(T, n, k, u)
    BY <1>4, <2>3, OutFields DEF SetTry
  <2> HIDE DEF done, broken
  <2>6. Sound(b.sync, T, R, n, merged, x)
    BY <2>1, <2>4, <2>5, TrySound
  <2>7. Sound(S, T, R, n, merged, x)
    BY <2>3, <2>4, <2>6, SoundTransitive
  <2>8. QED
    BY <2>2, <2>4, <2>5, <2>7
<1>5. ASSUME NEW m \in probed, NEW b, b.sync = Put(S, n, m.sync), b.tries = T
      PROVE  Fine(b)
  <2>1. PICK s \in AffectedTests(S[n], n) :
          m \in IF s.tests = "none" THEN {[sync |-> s, raised |-> "none"]} ELSE UpdateMetadata(s)
    OBVIOUS
  <2>2. /\ Fit(s, R[n]) /\ Later(S[n], s) /\ Alike(S[n], s)
        /\ s.tests = S[n].tests \/ (s.tests = "none" => <<n, S[n].head>> \notin HasTests)
    BY <1>1, AffectedFacts
  <2>3. Fit(m.sync, R[n]) /\ Later(s, m.sync) /\ Alike(s, m.sync) /\ m.sync.tests = s.tests
    <3>1. CASE m = [sync |-> s, raised |-> "none"]
      <4>1. m.sync = s
        BY <3>1
      <4>2. QED
        BY <1>1, <2>2, <4>1, LaterReflexive DEF Alike
    <3>2. CASE m \in UpdateMetadata(s)
      BY <1>1, <2>2, <3>2, MetadataFacts
    <3>3. QED
      BY <2>1, <3>1, <3>2
  <2> DEFINE t2 == m.sync
  <2>4. Later(S[n], t2)
    BY <1>1, <2>2, <2>3, LaterTransitive
  <2>5. Probed(S[n], t2, n)
    BY <2>2, <2>3 DEF Alike, Probed
  <2>6. Fit(t2, R[n]) /\ b.sync = Put(S, n, t2)
    BY <1>5, <2>3
  <2> HIDE DEF t2, probed, t, done, broken, Set
  <2>7. Sound(S, T, R, n, merged, b) /\ b.sync[n] = t2
    BY <1>1, <1>5, <2>4, <2>5, <2>6, ProbedSound
  <2>8. QED
    BY <2>5, <2>7 DEF Probed
<1> DEFINE P(b, raised) == Out(Put(S, n, b), T, raised)
           outs ==
             IF t.status = "complete" THEN NextTryPush(S, T, R, n, merged)
             ELSE IF t.result \in {"invalid", "notests"} THEN NextTryPush(S, Set(broken), R, n, merged)
             ELSE IF t.result = "builds"
             THEN {Out(Put(S, n, [S[n] EXCEPT !.error = TRUE]), Set(broken), "abort")}
             ELSE IF t.result = "success" THEN NextTryPush(S, Set(done), R, n, merged)
             ELSE UNION {IF m.raised # "none" THEN {P(m.sync, m.raised)}
                         ELSE NextTryPush(Put(S, n, m.sync), Set(done), R, n, merged) : m \in probed}
<1>6. ASSUME NEW x \in outs PROVE Fine(x)
  <2>1. Completed(t) \/ t.result \in {"builds", "notests"}
    BY <1>1, TryFields DEF Ended, Completed, ResultKinds
  <2> DEFINE same == Out(S, T, "none")
  <2>2. same.sync = S /\ same.tries = T
    BY OutFields
  <2> HIDE DEF same, probed, done, broken, Set, P
  <2>3. Fine(same)
    BY <1>1, <2>2, SameSound
  <2> HIDE DEF Fine
  <2>4. CASE x \in NextTryPush(S, T, R, n, merged)
    BY <1>2, <2>4
  <2>5. CASE x \in NextTryPush(S, Set(broken), R, n, merged)
    BY <1>0, <1>3, <2>2, <2>3, <2>5
  <2>6. CASE x \in NextTryPush(S, Set(done), R, n, merged) /\ Completed(t)
    BY <1>0, <1>3, <2>2, <2>3, <2>6
  <2>7. CASE x = Out(Put(S, n, [S[n] EXCEPT !.error = TRUE]), Set(broken), "abort")
    BY <1>4, <2>7
  <2>8. ASSUME NEW m \in probed, x = P(m.sync, m.raised)
        PROVE  Fine(x)
    BY <1>5, <2>8, OutFields DEF P
  <2>9. ASSUME Completed(t), NEW m \in probed, x \in NextTryPush(Put(S, n, m.sync), Set(done), R, n, merged)
        PROVE  Fine(x)
    <3> DEFINE b == P(m.sync, "none")
    <3>1. b.sync = Put(S, n, m.sync) /\ b.tries = T
      BY OutFields DEF P
    <3> HIDE DEF b
    <3>2. Fine(b)
      BY <1>5, <3>1
    <3>3. QED
      BY <1>0, <1>3, <2>9, <3>1, <3>2
  <2>10. \/ x \in NextTryPush(S, T, R, n, merged)
         \/ x \in NextTryPush(S, Set(broken), R, n, merged)
         \/ x = Out(Put(S, n, [S[n] EXCEPT !.error = TRUE]), Set(broken), "abort")
         \/ x \in NextTryPush(S, Set(done), R, n, merged) /\ Completed(t)
         \/ \E m \in probed : x = P(m.sync, m.raised)
         \/ \E m \in probed : Completed(t) /\ x \in NextTryPush(Put(S, n, m.sync), Set(done), R, n, merged)
    <3>1. CASE t.status = "complete"
      BY <3>1
    <3>2. CASE t.status # "complete" /\ t.result \in {"invalid", "notests"}
      BY <3>2
    <3>3. CASE t.status # "complete" /\ t.result = "builds"
      BY <3>3
    <3>4. CASE t.status # "complete" /\ t.result = "success"
      BY <3>4 DEF Completed
    <3>5. CASE t.status # "complete" /\ t.result \notin {"invalid", "notests", "builds", "success"}
      <4>1. PICK m \in probed :
              x \in IF m.raised # "none" THEN {P(m.sync, m.raised)}
                   ELSE NextTryPush(Put(S, n, m.sync), Set(done), R, n, merged)
        BY <3>5
      <4>2. Completed(t)
        BY <2>1, <3>5
      <4>3. CASE m.raised # "none"
        <5>1. x = P(m.sync, m.raised)
          BY <4>1, <4>3
        <5>2. QED
          BY <4>1, <5>1
      <4>4. CASE m.raised = "none"
        BY <4>1, <4>2, <4>4
      <4>5. QED
        BY <4>3, <4>4
    <3>6. QED
      BY <3>1, <3>2, <3>3, <3>4, <3>5
  <2> HIDE DEF outs
  <2>11. QED
    BY <2>4, <2>5, <2>6, <2>7, <2>8, <2>9, <2>10
<1>7. \/ o = Out(S, T, "none")
      \/ \E x \in outs :
           \/ o = x
           \/ /\ x.sync[n].meta # 0 /\ x.sync[n].of = 0
              /\ o = Out(Put(x.sync, n, [x.sync[n] EXCEPT !.skip = TRUE]), x.tries, "none")
  BY DEF TryPushComplete, merged
<1> HIDE DEF outs
<1>8. CASE o = Out(S, T, "none")
  BY <1>1, <1>8, SameSound, OutFields
<1>9. ASSUME NEW x \in outs, x.sync[n].of = 0,
             o = Out(Put(x.sync, n, [x.sync[n] EXCEPT !.skip = TRUE]), x.tries, "none")
      PROVE  Fine(o)
  <2> DEFINE s2 == [x.sync[n] EXCEPT !.skip = TRUE]
  <2>1. Sound(S, T, R, n, merged, x) /\ x.sync[n].open = S[n].open
    BY <1>6
  <2>2. Good(x.sync, x.tries, R) /\ x.sync[n] # NoSync /\ Kept(S, T, x.sync, x.tries)
    BY <2>1 DEF Sound, Does
  <2>3. Fit(x.sync[n], R[n]) /\ x.sync[n] \in Sync
    BY <2>2, GoodFacts
  <2>4. /\ s2 \in Sync /\ s2.head = x.sync[n].head /\ s2.of = x.sync[n].of /\ s2.base = x.sync[n].base
        /\ s2.meta = x.sync[n].meta /\ s2.stash = x.sync[n].stash /\ s2.open = x.sync[n].open
        /\ s2.skip = TRUE
    BY <2>3 DEF Sync
  <2>5. o.sync = Put(x.sync, n, s2) /\ o.tries = x.tries
    BY <1>9, OutFields
  <2> HIDE DEF s2
  <2>6. Fit(s2, R[n]) /\ Later(x.sync[n], s2)
    <3>1. x.sync[n].head \in Int /\ x.sync[n].base \in Int /\ Top(x.sync[n]) \in Int
      BY <2>3, SyncFields, BoundAssumption, VersionAssumption DEF Top
    <3>2. QED
      BY <2>3, <2>4, <3>1 DEF Fit, Later, Top
  <2>7. Does(x.sync, x.tries, R, n, o) /\ o.sync[n] = s2 /\ \A m \in PR \ {n} : o.sync[m] = x.sync[m]
    BY <2>2, <2>5, <2>6, PutOut
  <2>8. Besides(x.sync, R, n, o.sync)
    BY <2>7 DEF Besides
  <2>9. ~Calm(x.sync, x.tries, R)
    <3>1. Len(x.tries[n]) \in Nat /\ Len(T[n]) <= Len(x.tries[n]) /\ Len(T[n]) \in Nat /\ Len(T[n]) # 0
      BY <1>1, <2>2, GoodFacts DEF Kept
    <3>2. x.tries[n] # <<>>
      BY <3>1
    <3>3. Calm(x.sync, x.tries, R) => x.sync[n].of = x.sync[n].head
      BY <2>2, <3>2 DEF Calm, CalmPr, Frozen
    <3>4. x.sync[n].head # 0
      BY <2>3 DEF Fit
    <3>5. QED
      BY <1>9, <3>3, <3>4
  <2>10. Sound(x.sync, x.tries, R, n, merged, o)
    BY <2>7, <2>8, <2>9 DEF Sound
  <2>11. Sound(S, T, R, n, merged, o)
    BY <2>1, <2>10, SoundTransitive
  <2>12. QED
    BY <2>1, <2>4, <2>7, <2>11
<1>10. QED
  BY <1>6, <1>7, <1>8, <1>9 DEF merged

\* The commits of a sync with try pushes are those of the merged PR.
LEMMA FrozenUpTo ==
  ASSUME NEW S, NEW T, NEW R, Calm(S, T, R), NEW n \in PR, S[n] # NoSync, T[n] # <<>>
  PROVE  UpTo(S[n], R[n], n)
<1>1. Frozen(S[n], R[n], n)
  BY DEF Calm, CalmPr
<1>2. QED
  BY <1>1 DEF Frozen, UpTo, Current

\* A handler that starts with a sync leaves one that is as up to date.
Updated(S, T, R, n, o) ==
  Calm(S, T, R) /\ Allowed(R, n, TRUE) /\ UpTo(S[n], R[n], n) => UpTo(o.sync[n], R[n], n)

LEMMA RetriggerFacts ==
  ASSUME central \in 0..MaxBase, NEW S, NEW T, NEW R, Good(S, T, R), NEW n \in PR, 1 <= R[n],
         gh[n] = "merged", NEW o \in RetriggerPr(S, T, R, n)
  PROVE  /\ Sound(S, T, R, n, TRUE, o)
         /\ S[n] = NoSync \/ S[n].open => o.sync[n].open
         /\ S[n] # NoSync => Updated(S, T, R, n, o)
<1> DEFINE bug   == CreateBug(S, T, n, "error")
           valid == LatestValid(S, T, R, n)
           ends  == \E t \in valid : t.group /\ t.status = "open" /\ Ended(t)
           tasks == UNION {IF ~Raised(b) /\ R[n] = b.sync[n].head /\ ends
                           THEN {IF c.raised = "abort" THEN Out(c.sync, c.tries, "none") ELSE c :
                                   c \in TryPushComplete(b.sync, T, R, n, Len(T[n]))}
                           ELSE {b} : b \in bug}
           Fine(x) == /\ Sound(S, T, R, n, TRUE, x) /\ x.sync[n].open = S[n].open
                      /\ Updated(S, T, R, n, x)
<1>1. CASE S[n] = NoSync
  <2>1. o \in HandlePr(S, T, R, n, "opened", TRUE)
    BY <1>1 DEF RetriggerPr
  <2>2. QED
    BY <1>1, <2>1, HandlePrFacts
<1>2. CASE S[n] # NoSync /\ ~S[n].open
  <2>1. o = Out(S, T, "none")
    BY <1>2 DEF RetriggerPr
  <2>2. o.sync = S /\ o.tries = T
    BY <2>1, OutFields
  <2>3. QED
    BY <1>2, <2>2, SameSound DEF Updated
<1>3. CASE S[n] # NoSync /\ S[n].open
  <2>1. ASSUME NEW b \in bug PROVE Fine(b) /\ b.tries = T
    <3>0. b \in CreateBug(S, T, n, "error") /\ S[n] # NoSync
      BY <1>3, <2>1
    <3> HIDE DEF bug, tasks, ends, valid
    <3>3. /\ \A merged : Sound(S, T, R, n, merged, b)
          /\ b.tries = T /\ Marked(S[n], b.sync[n]) /\ b.sync[n].open = S[n].open
          /\ b.sync[n].error = S[n].error
      BY <3>0, CreateBugFacts
    <3>1. /\ Sound(S, T, R, n, TRUE, b)
          /\ b.tries = T /\ Marked(S[n], b.sync[n]) /\ b.sync[n].open = S[n].open
          /\ b.sync[n].error = S[n].error
      BY <3>3, Zenon
    <3>2. QED
      BY <3>1 DEF Updated, UpTo, Marked, Current
  <2>2. ASSUME NEW b \in bug, ends, NEW c \in TryPushComplete(b.sync, T, R, n, Len(T[n])),
               NEW x, x.sync = c.sync, x.tries = c.tries
        PROVE  Fine(x)
    <3>1. /\ Sound(S, T, R, n, TRUE, b) /\ b.tries = T /\ b.sync[n].open = S[n].open
          /\ Good(b.sync, T, R) /\ Good(S, T, R)
      BY <2>1, <2>2 DEF Sound, Does
    <3>2. PICK t \in ToSet(T[n]) : t = Last(T[n]) /\ Ended(t)
      BY <2>2 DEF LatestValid
    <3>3. T[n] \in Seq(Try) /\ Len(T[n]) \in Nat /\ DOMAIN T[n] = 1..Len(T[n])
      BY <1>3, GoodFacts
    <3>4. Len(T[n]) \in DOMAIN T[n] /\ Ended(T[n][Len(T[n])]) /\ T[n] # <<>>
      BY <3>2, <3>3 DEF ToSet, Last
    <3>5. Sound(b.sync, T, R, n, gh[n] = "merged", c) /\ c.sync[n].open = b.sync[n].open
      BY <2>2, <3>1, <3>4, TryPushCompleteFacts
    <3>6. Sound(b.sync, T, R, n, TRUE, x) /\ x.sync[n].open = S[n].open
      BY <2>2, <3>1, <3>5 DEF Sound, Does, Allowed
    <3>7. Sound(S, T, R, n, TRUE, x)
      BY <3>1, <3>6, SoundTransitive
    <3>8. Updated(S, T, R, n, x)
      <4>1. SUFFICES ASSUME Calm(S, T, R), Allowed(R, n, TRUE) PROVE UpTo(x.sync[n], R[n], n)
        BY DEF Updated
      <4>2. /\ Calm(x.sync, x.tries, R) /\ x.sync[n] # NoSync /\ Len(T[n]) <= Len(x.tries[n])
            /\ Good(x.sync, x.tries, R)
        BY <1>3, <3>7, <4>1 DEF Sound, Does, Kept
      <4>3. x.tries[n] # <<>>
        BY <3>3, <3>4, <4>2, GoodFacts
      <4>4. QED
        BY <4>2, <4>3, FrozenUpTo
    <3>9. QED
      BY <3>6, <3>7, <3>8
  <2>3. ASSUME NEW x \in tasks PROVE Fine(x)
    <3> HIDE DEF Fine, bug, ends, valid
    <3>1. PICK b \in bug :
            \/ x = b
            \/ /\ ends
               /\ \E c \in TryPushComplete(b.sync, T, R, n, Len(T[n])) :
                    x = IF c.raised = "abort" THEN Out(c.sync, c.tries, "none") ELSE c
      BY <2>3
    <3>2. CASE x = b
      BY <2>1, <3>1, <3>2
    <3>3. ASSUME ends, NEW c \in TryPushComplete(b.sync, T, R, n, Len(T[n])),
                 x = IF c.raised = "abort" THEN Out(c.sync, c.tries, "none") ELSE c
          PROVE  Fine(x)
      <4>1. x.sync = c.sync /\ x.tries = c.tries
        BY <3>3, OutFields
      <4>2. QED
        BY <2>2, <3>1, <3>3, <4>1
    <3>4. QED
      BY <3>1, <3>2, <3>3
  <2>4. \/ o \in bug \/ o \in tasks
        \/ \E x \in tasks : o \in HandlePr(x.sync, x.tries, R, n, "closed", TRUE)
    BY <1>3 DEF RetriggerPr
  <2> HIDE DEF bug, tasks
  <2>5. ASSUME NEW x \in tasks, o \in HandlePr(x.sync, x.tries, R, n, "closed", TRUE)
        PROVE  /\ Sound(S, T, R, n, TRUE, o) /\ o.sync[n].open
               /\ Updated(S, T, R, n, o)
    <3>1. /\ Sound(S, T, R, n, TRUE, x) /\ x.sync[n].open = S[n].open
          /\ Good(x.sync, x.tries, R) /\ x.sync[n] # NoSync
      BY <2>3, <2>5 DEF Sound, Does
    <3>2. /\ Sound(x.sync, x.tries, R, n, TRUE, o) /\ o.sync[n].open
          /\ UpTo(o.sync[n], R[n], n)
      BY <1>3, <2>5, <3>1, HandlePrFacts
    <3>3. QED
      BY <3>1, <3>2, SoundTransitive DEF Updated
  <2>6. QED
    BY <1>3, <2>1, <2>3, <2>4, <2>5
<1>4. QED
  BY <1>1, <1>2, <1>3

-----------------------------------------------------------------------------
(***************************************************************************)
(* The events of a PR.  GitHub tells of everything, in order: what merged  *)
(* the PR is the last event, and what closed a PR that is open again is    *)
(* followed by what reopened it.                                           *)
(***************************************************************************)
Told(q, g) ==
  /\ \A i \in 1..Len(q) : q[i].merged => g = "merged" /\ q[i].action = "closed"
  /\ \A i \in 1..Len(q) : q[i].action = "closed" /\ ~q[i].merged /\ g \in {"open", "merged"} =>
                            \E j \in 1..Len(q) : i < j /\ q[j].action = "reopened"
  /\ g = "merged" /\ q # <<>> => q[Len(q)].action = "closed" /\ q[Len(q)].merged

(***************************************************************************)
(* What the waiting events make up for: that the PR has no sync, or one    *)
(* that was finished when it was closed, or whose commits are old.         *)
(***************************************************************************)
First(s, q, g) == s = NoSync /\ g # "none" => q # <<>> /\ q[1].action = "opened"
Due(s, q, g, r, n) ==
  /\ s # NoSync /\ g \in {"open", "merged"} /\ ~s.open =>
       \E i \in 1..Len(q) : q[i].action = "reopened"
  /\ s # NoSync /\ g = "merged" /\ q = <<>> => UpTo(s, r, n)

LEMMA TailFacts ==
  ASSUME NEW q \in Seq(Event), q # <<>>
  PROVE  /\ Tail(q) \in Seq(Event) /\ Len(q) \in Nat /\ Len(q) >= 1 /\ Len(Tail(q)) = Len(q) - 1
         /\ \A i \in 1..Len(Tail(q)) : Tail(q)[i] = q[i + 1]
         /\ Head(q) = q[1] /\ q[1] \in Event
BY HeadTailProperties, ElementOfSeq, LenProperties

LEMMA TailTold ==
  ASSUME NEW q \in Seq(Event), q # <<>>, NEW g, Told(q, g)
  PROVE  Told(Tail(q), g)
<1> DEFINE t == Tail(q)
           l == Len(q) - 1
<1>1. /\ t \in Seq(Event) /\ Len(q) \in Nat /\ l \in Nat /\ Len(t) = l
      /\ \A i \in 1..l : t[i] = q[i + 1]
  BY TailFacts
<1>0. Len(q) = l + 1
  BY <1>1
<1> HIDE DEF t, l
<1>2. \A i \in 1..l : i + 1 \in 1..(l + 1)
  BY <1>1
<1>3. \A i \in 1..l : t[i].merged => g = "merged" /\ t[i].action = "closed"
  BY <1>0, <1>1, <1>2 DEF Told
<1>4. ASSUME NEW i \in 1..l, t[i].action = "closed", ~t[i].merged, g \in {"open", "merged"}
      PROVE  \E j \in 1..l : i < j /\ t[j].action = "reopened"
  <2>1. PICK j \in 1..Len(q) : i + 1 < j /\ q[j].action = "reopened"
    BY <1>0, <1>1, <1>2, <1>4 DEF Told
  <2>2. j - 1 \in 1..l /\ i < j - 1 /\ (j - 1) + 1 = j
    BY <1>0, <1>1, <2>1
  <2>3. QED
    BY <1>1, <2>1, <2>2
<1>5. t # <<>> => l \in 1..l
  BY <1>1, EmptySeq
<1>6. g = "merged" /\ t # <<>> => t[l].action = "closed" /\ t[l].merged
  BY <1>0, <1>1, <1>5 DEF Told
<1>7. QED
  BY <1>1, <1>3, <1>4, <1>6 DEF Told, t

LEMMA AppendTold ==
  ASSUME NEW q \in Seq(Event), NEW g, NEW g2, NEW e \in Event, Told(q, g), g # "merged",
         e.merged => g2 = "merged" /\ e.action = "closed", g2 = "merged" => e.merged,
         e.action = "closed" /\ ~e.merged => g2 = "closed",
         g2 = "closed" \/ g = "open" \/ e.action = "reopened" \/ q = <<>>
  PROVE  Told(Append(q, e), g2)
<1> DEFINE t == Append(q, e)
           l == Len(q) + 1
<1>1. /\ Len(q) \in Nat /\ Len(t) = l /\ t[l] = e /\ \A i \in 1..Len(q) : t[i] = q[i]
      /\ t \in Seq(Event)
  BY AppendProperties, LenProperties
<1>2. \A i \in 1..l : i = l \/ i \in 1..Len(q)
  BY <1>1
<1>3. l \in 1..l /\ \A i \in 1..Len(q) : i \in 1..l /\ i < l
  BY <1>1
<1>0. q = <<>> => 1..Len(q) = {}
  OBVIOUS
<1> HIDE DEF t, l
<1>4. \A i \in 1..l : t[i].merged => g2 = "merged" /\ t[i].action = "closed"
  BY <1>1, <1>2 DEF Told
<1>5. ASSUME NEW i \in 1..l, t[i].action = "closed", ~t[i].merged, g2 \in {"open", "merged"}
      PROVE  \E j \in 1..l : i < j /\ t[j].action = "reopened"
  <2>1. i \in 1..Len(q) /\ t[i] = q[i]
    BY <1>1, <1>2, <1>5
  <2>2. CASE g = "open"
    <3>1. PICK j \in 1..Len(q) : i < j /\ q[j].action = "reopened"
      BY <1>5, <2>1, <2>2 DEF Told
    <3>2. QED
      BY <1>1, <1>3, <3>1
  <2>3. CASE e.action = "reopened"
    BY <1>1, <1>3, <2>1, <2>3
  <2>4. QED
    BY <1>0, <1>5, <2>1, <2>2, <2>3
<1>6. g2 = "merged" => t[l].action = "closed" /\ t[l].merged
  BY <1>1
<1>7. QED
  BY <1>1, <1>4, <1>5, <1>6 DEF Told, t

-----------------------------------------------------------------------------
(* The invariant. *)

World(n) ==
  /\ ref[n] <= head[n] /\ (IF gh[n] = "none" THEN head[n] = 0 ELSE 1 <= head[n])
  /\ sync[n] # NoSync \/ events[n] # <<>> \/ n \in landed => gh[n] # "none"
Quiet(n) ==
  /\ Told(events[n], gh[n]) /\ First(sync[n], events[n], gh[n])
  /\ n \notin landed => Due(sync[n], events[n], gh[n], head[n], n)
  /\ gh[n] = "closed" => \A m \in PR : <<n, m>> \notin Reverts

\* No event is lost or handled too early or too late, and no revert is given up.
Reliable == Faults \cap {"lost", "stale", "late", "abandon"} = {}

DownstreamInv ==
  /\ TypeOK /\ Good(sync, tries, ref) /\ \A n \in PR : World(n)
  /\ Reliable => Calm(sync, tries, ref) /\ \A n \in PR : Quiet(n)

LEMMA HeadsGood ==
  ASSUME head \in [PR -> 0..MaxHeads], NEW S, NEW T, NEW R, Good(S, T, R),
         \A m \in PR : R[m] <= head[m]
  PROVE  Good(S, T, head) /\ (Calm(S, T, R) => Calm(S, T, head))
<1>1. ASSUME NEW m \in PR, S[m] # NoSync
      PROVE  Fit(S[m], head[m]) /\ TriesFit(T[m], S[m])
  <2>1. Fit(S[m], R[m]) /\ TriesFit(T[m], S[m]) /\ R[m] \in 0..MaxHeads /\ head[m] \in 0..MaxHeads
    BY <1>1, GoodFacts
  <2>2. S[m].head \in 0..MaxHeads
    BY <2>1, SyncFields DEF Fit
  <2>3. QED
    BY <2>1, <2>2, VersionAssumption DEF Fit
<1>2. Good(S, T, head)
  BY <1>1 DEF Good
<1>3. ASSUME Calm(S, T, R) PROVE Calm(S, T, head)
  BY <1>3 DEF Calm, CalmPr, Frozen
<1>4. QED
  BY <1>2, <1>3

\* What a call for one PR means for another one.
LEMMA OthersKept ==
  ASSUME head \in [PR -> 0..MaxHeads], NEW S, NEW T, NEW R, Good(S, T, R), NEW n \in PR, NEW merged,
         NEW o, Sound(S, T, R, n, merged, o), NEW m \in PR \ {n}, R[m] <= head[m]
  PROVE  /\ o.sync[m] = NoSync <=> S[m] = NoSync
         /\ S[m] # NoSync => /\ o.sync[m].open = S[m].open
                             /\ UpTo(S[m], head[m], m) => UpTo(o.sync[m], head[m], m)
<1>1. CASE S[m] = NoSync
  BY <1>1 DEF Sound, Besides
<1>2. CASE S[m] # NoSync
  <2>1. /\ o.sync[m] # NoSync
        /\ o.sync[m] = S[m] \/ o.sync[m] = Reverting(S[m], R[m])
    BY <1>2 DEF Sound, Besides, Does, Kept
  <2>2. S[m] \in Sync /\ R[m] \in 0..MaxHeads /\ head[m] \in 0..MaxHeads /\ S[m].head <= R[m]
        /\ S[m].skip \in BOOLEAN /\ S[m].open \in BOOLEAN /\ S[m].head \in 0..MaxHeads
    BY <1>2, GoodFacts, SyncFields DEF Fit
  <2>3. CASE o.sync[m] = Reverting(S[m], R[m])
    <3> DEFINE b == S[m].skip \/ S[m].open
               t == Reverting(S[m], R[m])
    <3>1. b \in BOOLEAN
      BY <2>2
    <3>2. t = [S[m] EXCEPT !.head = R[m], !.skip = b]
      BY DEF Reverting
    <3>3. /\ t.open = S[m].open /\ t.error = S[m].error /\ t.of = S[m].of
          /\ t.head = R[m] /\ t.skip = b
      BY <2>2, <3>1, <3>2 DEF Sync
    <3> HIDE DEF b, t
    <3>4. ASSUME UpTo(S[m], head[m], m) PROVE UpTo(t, head[m], m)
      <4>1. CASE S[m].skip \/ S[m].error
        BY <3>3, <4>1 DEF UpTo, b
      <4>2. CASE S[m].head = head[m] /\ Current(S[m], m)
        <5>1. R[m] = head[m]
          BY <2>2, <4>2, VersionAssumption
        <5>2. QED
          BY <3>3, <4>2, <5>1 DEF UpTo, Current
      <4>3. QED
        BY <3>4, <4>1, <4>2 DEF UpTo
    <3>5. QED
      BY <1>2, <2>1, <2>3, <3>3, <3>4 DEF t
  <2>4. QED
    BY <1>2, <2>1, <2>3
<1>3. QED
  BY <1>1, <1>2

LEMMA WorkerStep ==
  ASSUME DownstreamInv, NEW n \in PR, gh[n] # "none", NEW R \in {ref, head}, NEW merged, NEW o,
         Sound(sync, tries, R, n, merged, o),
         sync' = o.sync, tries' = o.tries, ref' = R, UNCHANGED <<gh, head, central>>,
         landed \subseteq landed', landed' \subseteq landed \cup {n},
         events' \in [PR -> Seq(Event)], \A m \in PR \ {n} : events'[m] = events[m],
         Reliable => /\ Allowed(R, n, merged) /\ Told(events'[n], gh[n])
                     /\ n \notin landed' => Due(o.sync[n], events'[n], gh[n], head[n], n)
  PROVE  DownstreamInv' /\ Kept(sync, tries, sync', tries')
<1>1. /\ TypeOK /\ Good(sync, tries, R) /\ (\A m \in PR : World(m) /\ R[m] <= head[m])
      /\ Reliable => Calm(sync, tries, R) /\ \A m \in PR : Quiet(m)
      /\ \A m \in PR : head[m] <= head[m]
  <2>1. head \in [PR -> 0..MaxHeads] /\ \A m \in PR : ref[m] <= head[m]
    BY DEF DownstreamInv, TypeOK, World
  <2>2. \A m \in PR : head[m] <= head[m]
    BY <2>1, VersionAssumption
  <2>3. Good(sync, tries, ref)
    BY DEF DownstreamInv
  <2>4. Good(sync, tries, head) /\ (Calm(sync, tries, ref) => Calm(sync, tries, head))
    BY <2>1, <2>3, HeadsGood
  <2>5. QED
    BY <2>1, <2>2, <2>3, <2>4 DEF DownstreamInv
<1>2. /\ Good(sync', tries', R) /\ Kept(sync, tries, sync', tries')
      /\ sync'[n] # NoSync
      /\ Reliable => Calm(sync', tries', R)
  BY <1>1 DEF Sound, Does
<1>9. ASSUME NEW m \in PR \ {n}
      PROVE  /\ sync'[m] = NoSync <=> sync[m] = NoSync
             /\ sync[m] # NoSync => /\ sync'[m].open = sync[m].open
                                    /\ UpTo(sync[m], head[m], m) => UpTo(sync'[m], head[m], m)
  <2>1. head \in [PR -> 0..MaxHeads] /\ Good(sync, tries, R) /\ R[m] <= head[m]
    BY <1>1 DEF TypeOK
  <2>2. /\ o.sync[m] = NoSync <=> sync[m] = NoSync
        /\ sync[m] # NoSync => /\ o.sync[m].open = sync[m].open
                               /\ UpTo(sync[m], head[m], m) => UpTo(o.sync[m], head[m], m)
    BY <2>1, OthersKept
  <2>3. QED
    BY <2>2
<1>3. TypeOK'
  BY <1>1, <1>2 DEF TypeOK, Good
<1>4. Good(sync, tries, ref)'
  BY <1>2 DEF Good, Fit
<1>5. ASSUME NEW m \in PR PROVE World(m)'
  <2>1. CASE m = n
    BY <1>1, <2>1 DEF World
  <2>2. CASE m # n
    BY <1>1, <1>9, <2>2 DEF World
  <2>3. QED
    BY <2>1, <2>2
<1>6. ASSUME Reliable PROVE Calm(sync, tries, ref)'
  BY <1>2, <1>6 DEF Calm, CalmPr, Frozen, ExcusedIn
<1>7. ASSUME Reliable, NEW m \in PR PROVE Quiet(m)'
  <2>1. CASE m = n
    BY <1>1, <1>2, <1>7, <2>1 DEF Quiet, First
  <2>2. CASE m # n
    <3>1. /\ sync'[m] = NoSync <=> sync[m] = NoSync
          /\ sync[m] # NoSync => /\ sync'[m].open = sync[m].open
                                 /\ UpTo(sync[m], head[m], m) => UpTo(sync'[m], head[m], m)
      BY <1>9, <2>2
    <3>2. Quiet(m) /\ events'[m] = events[m] /\ (m \in landed' <=> m \in landed)
      BY <1>1, <1>7, <2>2
    <3>3. Told(events'[m], gh'[m]) /\ First(sync'[m], events'[m], gh'[m])
      BY <3>1, <3>2 DEF Quiet, First
    <3>4. m \notin landed' => Due(sync'[m], events'[m], gh'[m], head'[m], m)
      BY <3>1, <3>2 DEF Quiet, Due
    <3>5. QED
      BY <3>2, <3>3, <3>4 DEF Quiet
  <2>3. QED
    BY <2>1, <2>2
<1>8. QED
  BY <1>2, <1>3, <1>4, <1>5, <1>6, <1>7 DEF DownstreamInv

LEMMA RefFacts ==
  ASSUME DownstreamInv, NEW R \in {ref, head}
  PROVE  /\ Good(sync, tries, R) /\ central \in 0..MaxBase /\ (Reliable => Calm(sync, tries, R))
         /\ \A m \in PR : R[m] <= head[m]
<1>1. head \in [PR -> 0..MaxHeads] /\ (\A m \in PR : ref[m] <= head[m]) /\ central \in 0..MaxBase
  BY DEF DownstreamInv, TypeOK, World
<1>2. \A m \in PR : head[m] <= head[m]
  BY <1>1, VersionAssumption
<1>3. Good(sync, tries, ref)
  BY DEF DownstreamInv
<1>4. Good(sync, tries, head) /\ (Calm(sync, tries, ref) => Calm(sync, tries, head))
  BY <1>1, <1>3, HeadsGood
<1>5. QED
  BY <1>1, <1>2, <1>3, <1>4 DEF DownstreamInv

-----------------------------------------------------------------------------
(* The steps of the worker. *)

\* The first event is handled: t is what becomes of the sync s, q2 the events that are left.
LEMMA DueAfter ==
  ASSUME NEW q \in Seq(Event), q # <<>>, NEW g, g # "none", NEW s, NEW r, NEW n, NEW t, t # NoSync,
         Told(q, g), First(s, q, g), Due(s, q, g, r, n),
         q[1].action # "closed" \/ q[1].merged =>
           (s = NoSync \/ s.open \/ q[1].action = "reopened" => t.open),
         q[1].action = "closed" /\ q[1].merged /\ s # NoSync /\ s.open => UpTo(t, r, n),
         NEW q2 \in {q, Tail(q)}
  PROVE  Due(t, q2, g, r, n)
<1>1. /\ Len(q) \in Nat /\ Len(q) >= 1 /\ Len(Tail(q)) = Len(q) - 1
      /\ \A i \in 1..Len(Tail(q)) : Tail(q)[i] = q[i + 1]
  BY TailFacts
<1>2. ASSUME NEW i \in 1..Len(q), i # 1, q[i].action = "reopened"
      PROVE  \E j \in 1..Len(q2) : q2[j].action = "reopened"
  <2>1. i - 1 \in 1..Len(Tail(q)) /\ Tail(q)[i - 1] = q[i]
    BY <1>1, <1>2
  <2>2. QED
    BY <1>2, <2>1
<1>3. ASSUME g \in {"open", "merged"}, ~t.open
      PROVE  \E j \in 1..Len(q2) : q2[j].action = "reopened"
  <2>1. CASE q[1].action = "closed" /\ ~q[1].merged
    <3>1. 1 \in 1..Len(q)
      BY <1>1
    <3>2. PICK j \in 1..Len(q) : 1 < j /\ q[j].action = "reopened"
      BY <1>3, <2>1, <3>1 DEF Told
    <3>3. j # 1
      BY <3>2
    <3>4. QED
      BY <1>2, <3>2, <3>3
  <2>2. CASE ~(q[1].action = "closed" /\ ~q[1].merged)
    <3>1. s # NoSync /\ ~s.open /\ q[1].action # "reopened"
      BY <1>3, <2>2
    <3>2. PICK i \in 1..Len(q) : q[i].action = "reopened"
      BY <1>3, <3>1 DEF Due
    <3>3. QED
      BY <1>2, <3>1, <3>2
  <2>3. QED
    BY <2>1, <2>2
<1>4. ASSUME g = "merged", q2 = <<>> PROVE UpTo(t, r, n)
  <2>1. Len(q) = 1
    <3>1. q2 = Tail(q)
      BY <1>4
    <3>2. Len(q2) = 0
      BY <1>4
    <3>3. QED
      BY <1>1, <3>1, <3>2
  <2>2. q[1].action = "closed" /\ q[1].merged
    BY <1>4, <2>1 DEF Told
  <2>3. s # NoSync
    BY <1>4, <2>2 DEF First
  <2>4. s.open
    <3>1. ~\E i \in 1..Len(q) : q[i].action = "reopened"
      BY <2>1, <2>2
    <3>2. QED
      BY <1>4, <2>3, <3>1 DEF Due
  <2>5. QED
    BY <2>2, <2>3, <2>4
<1>5. QED
  BY <1>3, <1>4 DEF Due

LEMMA PrEventStep ==
  ASSUME DownstreamInv, NEW n \in PR, PrEvent(n)
  PROVE  DownstreamInv' /\ Kept(sync, tries, sync', tries')
<1>1. /\ TypeOK /\ World(n) /\ gh[n] # "none" /\ events[n] \in Seq(Event) /\ events[n] # <<>>
  BY DEF DownstreamInv, PrEvent, World, TypeOK
<1>2. PICK q \in Seq(Event) : q = events[n] /\ q # <<>>
  BY <1>1
<1>3. PICK e \in Event : e = q[1] /\ e = Head(events[n])
  BY <1>2, TailFacts
<1>4. PICK R \in {ref, head} : R = IF sync[n] = NoSync THEN head ELSE ref
  OBVIOUS
<1>5. /\ "stale" \in Faults \/ e.action # "closed" \/ R[n] = head[n]
      /\ UNCHANGED <<gh, head, central, landed>>
  BY <1>3, <1>4 DEF PrEvent
<1>6. PICK o \in HandlePr(sync, tries, R, n, e.action, e.merged) :
        /\ sync' = o.sync /\ tries' = o.tries /\ ref' = R
        /\ events' = IF o.raised = "retry" THEN events ELSE [events EXCEPT ![n] = Tail(@)]
  BY <1>3, <1>4 DEF PrEvent
<1>7. Good(sync, tries, R) /\ central \in 0..MaxBase
  BY RefFacts
<1>8. 1 <= R[n]
  <2>1. CASE sync[n] = NoSync
    BY <1>1, <1>4, <2>1 DEF World
  <2>2. CASE sync[n] # NoSync
    <3>1. Fit(sync[n], R[n]) /\ R[n] \in 0..MaxHeads
      BY <1>7, <2>2, GoodFacts
    <3>2. sync[n].head \in 0..MaxHeads
      BY <3>1, SyncFields DEF Fit
    <3>3. QED
      BY <3>1, <3>2, VersionAssumption DEF Fit
  <2>3. QED
    BY <2>1, <2>2
<1>9. /\ Sound(sync, tries, R, n, e.merged, o)
      /\ e.action # "closed" \/ e.merged =>
           (sync[n] = NoSync \/ sync[n].open \/ e.action = "reopened" => o.sync[n].open)
      /\ e.action = "closed" /\ e.merged /\ sync[n] # NoSync /\ sync[n].open =>
           UpTo(o.sync[n], R[n], n)
  BY <1>6, <1>7, <1>8, HandlePrFacts
<1>10. /\ events' \in [PR -> Seq(Event)] /\ events'[n] \in {q, Tail(q)}
       /\ \A m \in PR \ {n} : events'[m] = events[m]
  <2>1. Tail(q) \in Seq(Event) /\ events \in [PR -> Seq(Event)]
    BY <1>1, <1>2, TailFacts DEF TypeOK
  <2>2. QED
    BY <1>2, <1>6, <2>1
<1>11. ASSUME Reliable
       PROVE  /\ Allowed(R, n, e.merged) /\ Told(events'[n], gh[n])
              /\ n \notin landed' => Due(o.sync[n], events'[n], gh[n], head[n], n)
  <2>1. /\ Told(q, gh[n]) /\ First(sync[n], q, gh[n])
        /\ n \notin landed => Due(sync[n], q, gh[n], head[n], n)
        /\ gh[n] = "closed" => \A m \in PR : <<n, m>> \notin Reverts
    BY <1>2, <1>11 DEF DownstreamInv, Quiet
  <2>2. e.merged => gh[n] = "merged" /\ e.action = "closed" /\ R[n] = head[n]
    <3>1. 1 \in 1..Len(q)
      BY <1>2, TailFacts
    <3>2. "stale" \notin Faults
      BY <1>11 DEF Reliable
    <3>3. QED
      BY <1>3, <1>5, <2>1, <3>1, <3>2 DEF Told
  <2>3. Allowed(R, n, e.merged)
    BY <1>1, <2>1, <2>2 DEF Allowed, TypeOK
  <2>4. Told(events'[n], gh[n])
    BY <1>2, <1>10, <2>1, TailTold
  <2>5. ASSUME n \notin landed' PROVE Due(o.sync[n], events'[n], gh[n], head[n], n)
    <3>1. o.sync[n] # NoSync /\ n \notin landed
      BY <1>5, <1>9, <2>5 DEF Sound, Does
    <3>2. e.action = "closed" /\ e.merged /\ sync[n] # NoSync /\ sync[n].open =>
            UpTo(o.sync[n], head[n], n)
      BY <1>9, <2>2
    <3>3. /\ Told(q, gh[n]) /\ First(sync[n], q, gh[n]) /\ Due(sync[n], q, gh[n], head[n], n)
          /\ gh[n] # "none" /\ q # <<>> /\ events'[n] \in {q, Tail(q)}
      BY <1>1, <1>2, <1>10, <2>1, <3>1
    <3>4. /\ q[1].action # "closed" \/ q[1].merged =>
               (sync[n] = NoSync \/ sync[n].open \/ q[1].action = "reopened" => o.sync[n].open)
          /\ q[1].action = "closed" /\ q[1].merged /\ sync[n] # NoSync /\ sync[n].open =>
               UpTo(o.sync[n], head[n], n)
      BY <1>3, <1>9, <3>2
    <3>5. QED
      BY <3>1, <3>3, <3>4, DueAfter
  <2>6. QED
    BY <2>3, <2>4, <2>5
<1>12. QED
  BY <1>1, <1>5, <1>6, <1>9, <1>10, <1>11, WorkerStep

LEMMA DueStill ==
  ASSUME NEW q, NEW g, g # "none", NEW s, NEW r, NEW n, NEW t,
         First(s, q, g), Due(s, q, g, r, n), s = NoSync \/ s.open => t.open,
         s # NoSync /\ UpTo(s, r, n) => UpTo(t, r, n)
  PROVE  Due(t, q, g, r, n)
BY DEF First, Due

\* What is known of a PR when a step of the worker on it leaves its events alone.
LEMMA QuietFacts ==
  ASSUME DownstreamInv, Reliable, NEW n \in PR, gh[n] # "none"
  PROVE  /\ Told(events[n], gh[n]) /\ First(sync[n], events[n], gh[n])
         /\ n \notin landed => Due(sync[n], events[n], gh[n], head[n], n)
         /\ gh[n] \in {"open", "merged"} \/ \A m \in PR : <<n, m>> \notin Reverts
BY DEF DownstreamInv, Quiet, TypeOK

LEMMA RetriggerStep ==
  ASSUME DownstreamInv, NEW n \in PR, Retrigger(n)
  PROVE  DownstreamInv' /\ Kept(sync, tries, sync', tries')
<1>1. /\ TypeOK /\ World(n) /\ gh[n] = "merged" /\ UNCHANGED <<gh, head, central, landed, events>>
      /\ ref' = head /\ events \in [PR -> Seq(Event)]
  BY DEF DownstreamInv, Retrigger, world, TypeOK
<1>2. PICK o \in RetriggerPr(sync, tries, head, n) : sync' = o.sync /\ tries' = o.tries
  BY DEF Retrigger
<1>3. Good(sync, tries, head) /\ central \in 0..MaxBase /\ (Reliable => Calm(sync, tries, head))
  BY RefFacts
<1>4. 1 <= head[n]
  BY <1>1 DEF World
<1>5. /\ Sound(sync, tries, head, n, TRUE, o)
      /\ sync[n] = NoSync \/ sync[n].open => o.sync[n].open
      /\ sync[n] # NoSync => Updated(sync, tries, head, n, o)
  BY <1>1, <1>2, <1>3, <1>4, RetriggerFacts
<1>6. ASSUME Reliable
      PROVE  /\ Allowed(head, n, TRUE) /\ Told(events[n], gh[n])
             /\ n \notin landed => Due(o.sync[n], events[n], gh[n], head[n], n)
  <2>1. /\ Told(events[n], gh[n]) /\ First(sync[n], events[n], gh[n])
        /\ n \notin landed => Due(sync[n], events[n], gh[n], head[n], n)
        /\ gh[n] # "none"
    BY <1>1, <1>6, QuietFacts
  <2>2. Allowed(head, n, TRUE)
    BY <1>1 DEF Allowed
  <2>3. sync[n] # NoSync /\ UpTo(sync[n], head[n], n) => UpTo(o.sync[n], head[n], n)
    BY <1>3, <1>5, <1>6, <2>2 DEF Updated
  <2>4. n \notin landed => Due(o.sync[n], events[n], gh[n], head[n], n)
    BY <1>5, <2>1, <2>3, DueStill
  <2>5. QED
    BY <2>1, <2>2, <2>4
<1>7. gh[n] # "none"
  BY <1>1
<1>8. QED
  BY <1>1, <1>2, <1>5, <1>6, <1>7, WorkerStep

LEMMA TaskGroupStep ==
  ASSUME DownstreamInv, NEW n \in PR, NEW k \in DOMAIN tries[n], TaskGroupHandler(n, k)
  PROVE  DownstreamInv' /\ Kept(sync, tries, sync', tries')
<1> DEFINE Saved(o) == [o.tries[n][k] EXCEPT !.news = o.raised = "retry"]
<1>1. /\ World(n) /\ UNCHANGED <<gh, head, central, landed, events>>
      /\ ref' = ref /\ events \in [PR -> Seq(Event)] /\ Ended(tries[n][k])
  BY DEF DownstreamInv, TaskGroupHandler, world, TypeOK
<1>2. PICK o \in TryPushComplete(sync, tries, ref, n, k) :
        sync' = o.sync /\ tries' = SetTry(o.tries, n, k, Saved(o))
  BY DEF TaskGroupHandler, SetTry
<1>3. Good(sync, tries, ref) /\ central \in 0..MaxBase /\ (Reliable => Calm(sync, tries, ref))
  BY RefFacts
<1>4. Sound(sync, tries, ref, n, gh[n] = "merged", o) /\ o.sync[n].open = sync[n].open
  BY <1>1, <1>2, <1>3, TryPushCompleteFacts
<1> DEFINE u == Saved(o)
           p == Out(o.sync, SetTry(o.tries, n, k, u), "none")
<1>5. sync[n] # NoSync /\ k \in 1..Len(tries[n]) /\ Len(tries[n]) \in Nat
  BY <1>3, TryFound, GoodFacts
<1>6. /\ Good(o.sync, o.tries, ref) /\ o.sync[n] # NoSync /\ Len(tries[n]) <= Len(o.tries[n])
      /\ k \in DOMAIN o.tries[n] /\ o.tries[n][k] \in Try
  <2>1. Good(o.sync, o.tries, ref) /\ o.sync[n] # NoSync /\ Len(tries[n]) <= Len(o.tries[n])
    BY <1>4, <1>5 DEF Sound, Does, Kept
  <2>2. k \in DOMAIN o.tries[n]
    BY <1>5, <2>1, GoodFacts
  <2>3. QED
    BY <2>1, <2>2, TryFound
<1>7. Same(u, o.tries[n][k]) /\ (Calm(o.sync, o.tries, ref) => TryDone(u))
  <2>1. (o.raised = "retry") \in BOOLEAN
    OBVIOUS
  <2>2. Same(u, o.tries[n][k]) /\ (TryDone(o.tries[n][k]) => TryDone(u))
    BY <1>6, <2>1 DEF Same, Try, TryDone, Completed
  <2>3. Calm(o.sync, o.tries, ref) => TryDone(o.tries[n][k])
    BY <1>6, TryFound DEF Calm, CalmPr
  <2>4. QED
    BY <2>2, <2>3
<1>8. p.sync = o.sync /\ p.tries = SetTry(o.tries, n, k, u)
  BY OutFields
<1> HIDE DEF p, u
<1>9. Sound(o.sync, o.tries, ref, n, gh[n] = "merged", p)
  BY <1>6, <1>7, <1>8, TrySound
<1>10. Sound(sync, tries, ref, n, gh[n] = "merged", p)
  BY <1>3, <1>4, <1>9, SoundTransitive
<1>11. sync' = p.sync /\ tries' = p.tries
  BY <1>2, <1>8 DEF u
<1>12. ASSUME Reliable
       PROVE  /\ Allowed(ref, n, gh[n] = "merged") /\ Told(events[n], gh[n])
              /\ n \notin landed => Due(p.sync[n], events[n], gh[n], head[n], n)
  <2>1. Frozen(sync[n], ref[n], n) /\ tries[n] # <<>>
    BY <1>3, <1>12, TryFound DEF Calm, CalmPr
  <2>2. Allowed(ref, n, gh[n] = "merged")
    BY <2>1 DEF Allowed, Frozen
  <2>3. /\ Told(events[n], gh[n]) /\ First(sync[n], events[n], gh[n])
        /\ n \notin landed => Due(sync[n], events[n], gh[n], head[n], n)
        /\ gh[n] # "none"
    BY <1>12, <2>1, QuietFacts DEF Frozen
  <2>4. UpTo(p.sync[n], head[n], n)
    <3>1. /\ Calm(p.sync, p.tries, ref) /\ Good(p.sync, p.tries, ref) /\ p.sync[n] # NoSync
          /\ Len(tries[n]) <= Len(p.tries[n])
      BY <1>3, <1>5, <1>10, <1>12, <2>2 DEF Sound, Does, Kept
    <3>2. p.tries[n] # <<>>
      BY <1>5, <3>1, GoodFacts
    <3>3. UpTo(p.sync[n], ref[n], n)
      BY <3>1, <3>2, FrozenUpTo
    <3>4. QED
      BY <2>1, <3>3 DEF Frozen
  <2>5. n \notin landed => Due(p.sync[n], events[n], gh[n], head[n], n)
    BY <1>4, <1>5, <1>8, <2>3, <2>4 DEF Due
  <2>6. QED
    BY <2>2, <2>3, <2>5
<1>13. gh[n] # "none"
  BY <1>1, <1>5 DEF World
<1>14. QED
  BY <1>1, <1>10, <1>11, <1>12, <1>13, WorkerStep

LEMMA LandStep ==
  ASSUME DownstreamInv, NEW n \in PR, Land(n)
  PROVE  DownstreamInv' /\ Kept(sync, tries, sync', tries')
<1>1. /\ TypeOK /\ gh[n] = "merged" /\ UNCHANGED <<gh, head, central, tries, events>>
      /\ ref' = head /\ events \in [PR -> Seq(Event)] /\ landed' = landed \cup {n}
      /\ sync[n] # NoSync
      /\ sync' = [sync EXCEPT ![n] = IF sync[n].bug THEN Finish(sync[n]) ELSE sync[n]]
  BY DEF DownstreamInv, Land, TypeOK, Landable
<1>2. Good(sync, tries, head)
  BY RefFacts
<1>3. Fit(sync[n], head[n]) /\ head[n] \in 0..MaxHeads
  BY <1>1, <1>2, GoodFacts
<1>4. PICK t \in {Finish(sync[n]), sync[n]} : t = IF sync[n].bug THEN Finish(sync[n]) ELSE sync[n]
  OBVIOUS
<1>5. Fit(t, head[n]) /\ Later(sync[n], t) /\ Marked(sync[n], t)
  <2>1. CASE t = sync[n]
    BY <1>3, <2>1, LaterReflexive DEF Marked
  <2>2. CASE t = Finish(sync[n])
    BY <1>3, <2>2, MarksFacts
  <2>3. QED
    BY <2>1, <2>2
<1>6. sync' = Put(sync, n, t)
  BY <1>1, <1>4 DEF Put, TypeOK
<1>7. PICK o : o.sync = Put(sync, n, t) /\ o.tries = tries
  <2>1. Out(Put(sync, n, t), tries, "none").sync = Put(sync, n, t)
        /\ Out(Put(sync, n, t), tries, "none").tries = tries
    BY OutFields
  <2>2. QED
    BY <2>1
<1>8. Sound(sync, tries, head, n, gh[n] = "merged", o)
  BY <1>1, <1>2, <1>5, <1>7, MarkedSound
<1>9. ASSUME Reliable
      PROVE  Allowed(head, n, gh[n] = "merged") /\ Told(events[n], gh[n])
  BY <1>1, <1>9, QuietFacts DEF Allowed
<1>10. n \in landed' /\ sync' = o.sync /\ tries' = o.tries /\ gh[n] # "none"
  BY <1>1, <1>6, <1>7
<1>11. QED
  BY <1>1, <1>8, <1>9, <1>10, WorkerStep

-----------------------------------------------------------------------------
(* The steps of Taskcluster and GitHub. *)

\* The state of a try push changes, and nothing else.
LEMMA TryStep ==
  ASSUME DownstreamInv, NEW n \in PR, NEW k \in DOMAIN tries[n], NEW u, Same(u, tries[n][k]),
         TryDone(tries[n][k]) => TryDone(u), tries' = SetTry(tries, n, k, u),
         UNCHANGED <<gh, head, ref, events, central, sync, landed>>
  PROVE  DownstreamInv' /\ Kept(sync, tries, sync', tries')
<1>1. Good(sync, tries, ref) /\ TypeOK /\ World(n)
  BY DEF DownstreamInv
<1>2. sync[n] # NoSync /\ k \in 1..Len(tries[n])
  BY <1>1, TryFound
<1>3. Calm(sync, tries, ref) => TryDone(u)
  BY <1>2 DEF Calm, CalmPr
<1>4. PICK o : o.sync = sync /\ o.tries = SetTry(tries, n, k, u)
  <2>1. /\ Out(sync, SetTry(tries, n, k, u), "none").sync = sync
        /\ Out(sync, SetTry(tries, n, k, u), "none").tries = SetTry(tries, n, k, u)
    BY OutFields
  <2>2. QED
    BY <2>1
<1>5. Sound(sync, tries, ref, n, FALSE, o)
  BY <1>1, <1>3, <1>4, TrySound
<1>6. gh[n] # "none" /\ events \in [PR -> Seq(Event)]
  BY <1>1, <1>2 DEF World, TypeOK
<1>7. ASSUME Reliable
      PROVE  /\ Allowed(ref, n, FALSE) /\ Told(events[n], gh[n])
             /\ n \notin landed => Due(o.sync[n], events[n], gh[n], head[n], n)
  BY <1>4, <1>6, <1>7, QuietFacts DEF Allowed
<1>8. QED
  BY <1>4, <1>5, <1>6, <1>7, WorkerStep

LEMMA TryScheduledStep ==
  ASSUME DownstreamInv, NEW n \in PR, NEW k \in DOMAIN tries[n], TryScheduled(n, k)
  PROVE  DownstreamInv' /\ Kept(sync, tries, sync', tries')
<1> DEFINE t == tries[n][k]
           busted == [t EXCEPT !.status = "complete", !.infra = TRUE, !.result = "notests"]
<1>1. PICK u \in {[t EXCEPT !.group = TRUE, !.result = "running"], busted,
                  [busted EXCEPT !.group = TRUE]} : tries' = SetTry(tries, n, k, u)
  BY DEF TryScheduled, SetTry, When
<1>2. t \in Try /\ t.result = "none" /\ UNCHANGED <<gh, head, ref, events, central, sync, landed>>
  BY TryFound DEF DownstreamInv, TryScheduled, world
<1>3. Same(u, t) /\ (TryDone(t) => TryDone(u))
  <2> HIDE DEF t
  <2>1. CASE u = [t EXCEPT !.group = TRUE, !.result = "running"]
    <3>1. Same(u, t) /\ u.status = t.status /\ u.infra = t.infra
      BY <1>2, <2>1 DEF Same, Try
    <3>2. ~Completed(t)
      BY <1>2 DEF Completed
    <3>3. QED
      BY <3>1, <3>2 DEF TryDone
  <2>2. CASE u \in {busted, [busted EXCEPT !.group = TRUE]}
    BY <1>2, <2>2 DEF Same, Try, TryDone, ResultKinds
  <2>3. QED
    BY <1>1, <2>1, <2>2
<1>4. QED
  BY <1>1, <1>2, <1>3, TryStep

LEMMA TryEndsStep ==
  ASSUME DownstreamInv, NEW n \in PR, NEW k \in DOMAIN tries[n], TryEnds(n, k)
  PROVE  DownstreamInv' /\ Kept(sync, tries, sync', tries')
<1> DEFINE t == tries[n][k]
<1>1. PICK r \in Results : tries' = SetTry(tries, n, k, [t EXCEPT !.result = r, !.news = TRUE])
  BY DEF TryEnds, SetTry
<1>2. /\ t \in Try /\ t.result = "running" /\ r \in ResultKinds
      /\ UNCHANGED <<gh, head, ref, events, central, sync, landed>>
  BY TryFound, FaultAssumption DEF DownstreamInv, TryEnds, world
<1>3. PICK u : u = [t EXCEPT !.result = r, !.news = TRUE]
  OBVIOUS
<1>4. Same(u, t) /\ u.status = t.status /\ u.infra = t.infra
  BY <1>2, <1>3 DEF Same, Try
<1>5. ~Completed(t)
  BY <1>2 DEF Completed
<1>6. TryDone(t) => TryDone(u)
  BY <1>4, <1>5 DEF TryDone
<1>7. QED
  BY <1>1, <1>2, <1>3, <1>4, <1>6, TryStep

\* The state of a PR on GitHub changes, with an event for it.
LEMMA GitHubStep ==
  ASSUME DownstreamInv, NEW n \in PR, gh[n] # "merged",
         NEW g \in {"open", "closed", "merged"}, NEW r \in 0..MaxHeads, NEW e \in Event,
         gh' = [gh EXCEPT ![n] = g], head' = [head EXCEPT ![n] = r], head[n] <= r, 1 <= r,
         events' \in {[events EXCEPT ![n] = Append(@, e)]} \cup When("lost" \in Faults, {events}),
         UNCHANGED <<ref, central, sync, tries, landed>>,
         e.merged => g = "merged" /\ e.action = "closed", g = "merged" => e.merged,
         e.action = "closed" /\ ~e.merged => g = "closed",
         g = "closed" \/ gh[n] = "open" \/ e.action = "reopened" \/ gh[n] = "none",
         gh[n] = "none" => e.action = "opened",
         Reliable /\ g = "closed" => \A m \in PR : <<n, m>> \notin Reverts
  PROVE  DownstreamInv' /\ Kept(sync, tries, sync', tries')
<1> DEFINE q == events[n]
<1>1. /\ TypeOK /\ Good(sync, tries, ref) /\ (\A m \in PR : World(m)) /\ q \in Seq(Event)
      /\ ref[n] \in 0..MaxHeads /\ head[n] \in 0..MaxHeads
  BY DEF DownstreamInv, TypeOK
<1>2. Append(q, e) \in Seq(Event) /\ Append(q, e) # <<>> /\ Len(Append(q, e)) = Len(q) + 1
      /\ Len(q) \in Nat /\ Append(q, e)[Len(q) + 1] = e
      /\ \A i \in 1..Len(q) : Append(q, e)[i] = q[i]
  BY <1>1, AppendProperties, LenProperties
<1>3. /\ events' \in [PR -> Seq(Event)] /\ \A m \in PR \ {n} : events'[m] = events[m]
      /\ Reliable => events'[n] = Append(q, e)
  BY <1>1, <1>2 DEF TypeOK, When, Reliable
<1>4. /\ gh'[n] = g /\ head'[n] = r
      /\ \A m \in PR \ {n} : gh'[m] = gh[m] /\ head'[m] = head[m]
  BY <1>1 DEF TypeOK
<1>5. TypeOK'
  BY <1>1, <1>3 DEF TypeOK
<1>6. Good(sync, tries, ref)'
  BY <1>1 DEF Good, Fit
<1>7. ASSUME NEW m \in PR PROVE World(m)'
  <2>1. CASE m = n
    <3>1. ref[n] <= r
      BY <1>1, VersionAssumption DEF World
    <3>2. QED
      BY <1>4, <2>1, <3>1 DEF World
  <2>2. CASE m # n
    BY <1>1, <1>3, <1>4, <2>2 DEF World
  <2>3. QED
    BY <2>1, <2>2
<1>8. ASSUME Reliable PROVE Calm(sync, tries, ref)'
  <2>1. SUFFICES ASSUME NEW m \in PR, sync[m] # NoSync PROVE CalmPr(sync, tries, ref, m)'
    BY DEF Calm
  <2>2. CalmPr(sync, tries, ref, m)
    BY <1>8, <2>1 DEF DownstreamInv, Calm
  <2>3. ASSUME sync[m].skip PROVE ExcusedIn(sync, m)'
    <3>1. PICK p \in Reverts : /\ m \in {p[1], p[2]} /\ gh[p[1]] \in {"open", "merged"}
                               /\ sync[p[2]] # NoSync /\ sync[p[2]].skip
      BY <2>2, <2>3 DEF CalmPr, ExcusedIn
    <3>2. p[1] \in PR /\ p[2] \in PR /\ p = <<p[1], p[2]>>
      BY VersionAssumption
    <3>3. gh'[p[1]] \in {"open", "merged"}
      <4>1. CASE p[1] = n
        BY <1>4, <1>8, <3>2, <4>1
      <4>2. CASE p[1] # n
        BY <1>4, <3>1, <3>2, <4>2
      <4>3. QED
        BY <4>1, <4>2
    <3>4. QED
      BY <3>1, <3>3 DEF ExcusedIn
  <2>4. CASE m = n
    <3>1. tries[n] = <<>>
      BY <2>2, <2>4 DEF CalmPr, Frozen
    <3>2. Len(tries[n]) = 0
      BY <3>1
    <3>3. QED
      BY <2>2, <2>3, <2>4, <3>1, <3>2 DEF CalmPr
  <2>5. CASE m # n
    BY <1>4, <2>2, <2>3, <2>5 DEF CalmPr, Frozen
  <2>6. QED
    BY <2>4, <2>5
<1>9. ASSUME Reliable, NEW m \in PR PROVE Quiet(m)'
  <2>1. Quiet(m)
    BY <1>9 DEF DownstreamInv
  <2>2. CASE m = n
    <3>1. Told(q, gh[n]) /\ First(sync[n], q, gh[n])
          /\ (n \notin landed => Due(sync[n], q, gh[n], head[n], n))
      BY <2>1, <2>2 DEF Quiet
    <3>2. gh[n] = "none" => q = <<>> /\ sync[n] = NoSync
      BY <1>1 DEF World
    <3> HIDE DEF q
    <3>3. Told(Append(q, e), g)
      BY <1>1, <3>1, <3>2, AppendTold DEF q
    <3>4. First(sync[n], Append(q, e), g)
      <4>1. CASE q = <<>>
        <5>1. sync[n] = NoSync => gh[n] = "none"
          BY <3>1, <4>1 DEF First
        <5>2. Len(q) = 0
          BY <4>1
        <5>3. QED
          BY <1>2, <5>1, <5>2 DEF First, q
      <4>2. CASE q # <<>>
        <5>1. 1 \in 1..Len(q)
          BY <1>1, <4>2, TailFacts DEF q
        <5>2. QED
          BY <1>2, <3>1, <3>2, <4>2, <5>1 DEF First, q
      <4>3. QED
        BY <4>1, <4>2
    <3>5. ASSUME n \notin landed PROVE Due(sync[n], Append(q, e), g, r, n)
      <4>1. ASSUME sync[n] # NoSync, g \in {"open", "merged"}, ~sync[n].open
            PROVE  \E i \in 1..(Len(q) + 1) : Append(q, e)[i].action = "reopened"
        <5>1. CASE e.action = "reopened"
          BY <1>2, <5>1 DEF q
        <5>2. CASE gh[n] = "open"
          <6>1. PICK i \in 1..Len(q) : q[i].action = "reopened"
            BY <3>1, <3>5, <4>1, <5>2 DEF Due
          <6>2. QED
            BY <1>2, <6>1 DEF q
        <5>3. QED
          BY <3>2, <4>1, <5>1, <5>2
      <4>2. QED
        BY <1>2, <4>1 DEF Due, q
    <3>6. gh'[n] = "closed" => \A p \in PR : <<n, p>> \notin Reverts
      BY <1>4, <1>9
    <3>7. QED
      BY <1>3, <1>4, <1>9, <2>2, <3>3, <3>4, <3>5, <3>6 DEF Quiet, q
  <2>3. CASE m # n
    BY <1>3, <1>4, <2>1, <2>3 DEF Quiet
  <2>4. QED
    BY <2>2, <2>3
<1>10. Kept(sync, tries, sync', tries')
  BY <1>1, KeptReflexive
<1>11. QED
  BY <1>5, <1>6, <1>7, <1>8, <1>9, <1>10 DEF DownstreamInv

LEMMA PrStep ==
  ASSUME DownstreamInv, NEW n \in PR, OpenPr(n) \/ PushPr(n) \/ ClosePr(n) \/ ReopenPr(n)
  PROVE  DownstreamInv' /\ Kept(sync, tries, sync', tries')
<1>1. /\ TypeOK /\ World(n) /\ head[n] \in 0..MaxHeads /\ MaxHeads \in Nat \ {0}
      /\ head = [head EXCEPT ![n] = head[n]] /\ head[n] <= head[n]
      /\ (gh[n] = "closed" /\ Reliable) => \A m \in PR : <<n, m>> \notin Reverts
  BY VersionAssumption DEF DownstreamInv, TypeOK, Quiet
<1> DEFINE Sent(e) ==
             events' \in {[events EXCEPT ![n] = Append(@, e)]} \cup When("lost" \in Faults, {events})
<1>2. CASE OpenPr(n)
  <2>1. /\ gh[n] = "none" /\ gh' = [gh EXCEPT ![n] = "open"] /\ head' = [head EXCEPT ![n] = 1]
        /\ head[n] <= 1 /\ 1 \in 0..MaxHeads /\ 1 <= 1
    BY <1>1, <1>2 DEF OpenPr, World
  <2>2. PICK e \in Event : e.action = "opened" /\ e.merged = FALSE /\ e = [action |-> "opened", merged |-> FALSE]
    BY DEF Event
  <2>3. gh'[n] = "open"
    BY <1>1, <2>1 DEF TypeOK
  <2>4. Sent(e) /\ UNCHANGED <<ref, central, sync, tries, landed>>
    BY <1>2, <2>2, <2>3 DEF OpenPr, Send
  <2>5. QED
    BY <2>1, <2>2, <2>4, GitHubStep
<1>3. CASE PushPr(n)
  <2>1. /\ gh[n] = "open" /\ gh' = [gh EXCEPT ![n] = "open"] /\ gh'[n] = "open"
    BY <1>1, <1>3 DEF PushPr, TypeOK
  <2>2. PICK r \in 0..MaxHeads : r = head[n] + 1 /\ head[n] <= r /\ 1 <= r
    BY <1>1, <1>3 DEF PushPr
  <2>3. head' = [head EXCEPT ![n] = r]
    BY <1>3, <2>2 DEF PushPr
  <2>4. PICK e \in Event : e.action = "synchronize" /\ e.merged = FALSE
                           /\ e = [action |-> "synchronize", merged |-> FALSE]
    BY DEF Event
  <2>5. Sent(e) /\ UNCHANGED <<ref, central, sync, tries, landed>>
    BY <1>3, <2>1, <2>4 DEF PushPr, Send
  <2>6. QED
    BY <2>1, <2>2, <2>3, <2>4, <2>5, GitHubStep
<1>4. CASE ClosePr(n)
  <2>1. PICK g \in {"open", "closed", "merged"} :
          /\ g # "open" /\ gh' = [gh EXCEPT ![n] = g] /\ gh'[n] = g /\ gh[n] = "open"
          /\ Reliable /\ g = "closed" => \A m \in PR : <<n, m>> \notin Reverts
    BY <1>1, <1>4 DEF ClosePr, TypeOK, Reliable
  <2>2. head' = [head EXCEPT ![n] = head[n]] /\ 1 <= head[n]
    BY <1>1, <1>4, <2>1 DEF ClosePr, World
  <2>0. (g = "merged") \in BOOLEAN
    OBVIOUS
  <2>3. PICK e \in Event : e.action = "closed" /\ e.merged = (g = "merged")
                           /\ e = [action |-> "closed", merged |-> g = "merged"]
    BY <2>0 DEF Event
  <2>4. Sent(e) /\ UNCHANGED <<ref, central, sync, tries, landed>>
    BY <1>4, <2>1, <2>3 DEF ClosePr, Send
  <2>5. /\ e.merged => g = "merged" /\ e.action = "closed"
        /\ g = "merged" => e.merged
        /\ e.action = "closed" /\ ~e.merged => g = "closed"
        /\ gh[n] # "merged" /\ gh[n] # "none" /\ head[n] \in 0..MaxHeads /\ head[n] <= head[n]
    BY <1>1, <2>1, <2>3
  <2>6. QED
    BY <2>1, <2>2, <2>4, <2>5, GitHubStep
<1>5. CASE ReopenPr(n)
  <2>1. gh[n] = "closed" /\ gh' = [gh EXCEPT ![n] = "open"] /\ gh'[n] = "open"
    BY <1>1, <1>5 DEF ReopenPr, TypeOK
  <2>2. head' = [head EXCEPT ![n] = head[n]] /\ 1 <= head[n]
    BY <1>1, <1>5, <2>1 DEF ReopenPr, World
  <2>3. PICK e \in Event : e.action = "reopened" /\ e.merged = FALSE
                           /\ e = [action |-> "reopened", merged |-> FALSE]
    BY DEF Event
  <2>4. Sent(e) /\ UNCHANGED <<ref, central, sync, tries, landed>>
    BY <1>5, <2>1, <2>3 DEF ReopenPr, Send
  <2>5. QED
    BY <1>1, <2>1, <2>2, <2>3, <2>4, GitHubStep
<1>6. QED
  BY <1>2, <1>3, <1>4, <1>5

LEMMA FetchStep ==
  ASSUME DownstreamInv, Fetch \/ CentralMoves \/ UNCHANGED vars
  PROVE  DownstreamInv' /\ Kept(sync, tries, sync', tries')
<1>1. /\ TypeOK /\ Good(sync, tries, ref) /\ (\A n \in PR : World(n)) /\ MaxBase \in Nat
      /\ central \in 0..MaxBase /\ head \in [PR -> 0..MaxHeads]
  BY BoundAssumption DEF DownstreamInv, TypeOK
<1>2. UNCHANGED <<gh, head, events, sync, tries, landed>> /\ ref' \in {ref, head}
  BY DEF Fetch, CentralMoves, vars, world
<1>3. PICK R \in {ref, head} : ref' = R
  BY <1>2
<1>4. Good(sync, tries, R) /\ (Reliable => Calm(sync, tries, R)) /\ \A n \in PR : R[n] <= head[n]
  BY RefFacts
<1>5. central' \in 0..MaxBase /\ central <= central'
  BY <1>1 DEF Fetch, CentralMoves, vars, world
<1>6. TypeOK' /\ \A n \in PR : World(n)'
  BY <1>1, <1>2, <1>3, <1>4, <1>5 DEF TypeOK, World, Good
<1>7. Good(sync, tries, ref)'
  <2>1. ASSUME NEW n \in PR, sync[n] # NoSync PROVE Fit(sync[n], ref[n])'
    <3>1. Fit(sync[n], R[n]) /\ sync[n].base \in 0..MaxBase
      BY <1>4, <2>1, GoodFacts, SyncFields DEF Fit
    <3>2. sync[n].base <= central'
      BY <1>1, <1>5, <3>1 DEF Fit
    <3>3. QED
      BY <1>2, <1>3, <3>1, <3>2 DEF Fit
  <2>2. QED
    BY <1>2, <1>3, <1>4, <2>1 DEF Good
<1>8. Reliable => Calm(sync, tries, ref)' /\ \A n \in PR : Quiet(n)'
  BY <1>2, <1>3, <1>4 DEF DownstreamInv, Calm, CalmPr, Frozen, ExcusedIn, Quiet
<1>9. QED
  BY <1>1, <1>2, <1>6, <1>7, <1>8, KeptReflexive DEF DownstreamInv

-----------------------------------------------------------------------------
(* The theorems. *)

LEMMA NextStep ==
  ASSUME DownstreamInv, [Next]_vars
  PROVE  DownstreamInv' /\ Kept(sync, tries, sync', tries')
<1>1. ASSUME NEW n \in PR, PrEvent(n) \/ Retrigger(n) \/ Land(n)
      PROVE  DownstreamInv' /\ Kept(sync, tries, sync', tries')
  BY <1>1, PrEventStep, RetriggerStep, LandStep
<1>2. ASSUME NEW n \in PR, NEW k \in DOMAIN tries[n],
             TaskGroupHandler(n, k) \/ TryScheduled(n, k) \/ TryEnds(n, k)
      PROVE  DownstreamInv' /\ Kept(sync, tries, sync', tries')
  BY <1>2, TaskGroupStep, TryScheduledStep, TryEndsStep
<1>3. ASSUME NEW n \in PR, OpenPr(n) \/ PushPr(n) \/ ClosePr(n) \/ ReopenPr(n)
      PROVE  DownstreamInv' /\ Kept(sync, tries, sync', tries')
  BY <1>3, PrStep
<1>4. QED
  BY <1>1, <1>2, <1>3, FetchStep DEF Next

LEMMA InitInv == Init => DownstreamInv
<1> SUFFICES ASSUME Init PROVE DownstreamInv
  OBVIOUS
<1>1. /\ 0 \in 0..MaxHeads /\ 0 \in 0..MaxBase /\ 0 <= 0 /\ <<>> \in Seq(Try) /\ <<>> \in Seq(Event)
      /\ Len(<<>>) = 0
  BY VersionAssumption, BoundAssumption
<1>2. TypeOK
  BY <1>1 DEF Init, TypeOK
<1>3. Good(sync, tries, ref)
  BY <1>1 DEF Init, Good
<1>4. \A n \in PR : World(n)
  BY <1>1 DEF Init, World
<1>5. Calm(sync, tries, ref)
  BY DEF Init, Calm
<1>6. \A n \in PR : Quiet(n)
  BY <1>1 DEF Init, Quiet, Told, First, Due
<1>7. QED
  BY <1>2, <1>3, <1>4, <1>5, <1>6 DEF DownstreamInv

\* The inductive invariant.
THEOREM DownstreamInvHolds == Spec => []DownstreamInv
<1>1. DownstreamInv /\ [Next]_vars => DownstreamInv'
  BY NextStep
<1>2. QED
  BY InitInv, <1>1, PTL DEF Spec

(* Every sync, try push and event that a handler leaves is of its type. *)
THEOREM TypesCorrect == Spec => []TypeOK
<1>1. DownstreamInv => TypeOK
  BY DEF DownstreamInv
<1>2. QED
  BY <1>1, DownstreamInvHolds, PTL

(***************************************************************************)
(* No failure, order of events or number of retries makes a second         *)
(* stability try push of the same commits, on the same base, once one of   *)
(* them without metadata has given results (next_action).                  *)
(***************************************************************************)
THEOREM TestedOnce == Spec => []NotRetested
<1>1. DownstreamInv => NotRetested
  <2>1. SUFFICES ASSUME DownstreamInv, NEW n \in PR, NEW j \in DOMAIN tries[n], NEW k \in DOMAIN tries[n],
                        tries[n][j].gecko[3] = 0, j < k, tries[n][j].stability
                 PROVE  <<tries[n][j].gecko[1], tries[n][j].gecko[2]>>
                          # <<tries[n][k].gecko[1], tries[n][k].gecko[2]>>
    BY DEF NotRetested
  <2>2. Good(sync, tries, ref)
    BY <2>1 DEF DownstreamInv
  <2>3. sync[n] # NoSync
    BY <2>2, TryFound
  <2>4. TriesFit(tries[n], sync[n]) /\ DOMAIN tries[n] = 1..Len(tries[n])
    BY <2>2, <2>3, GoodFacts
  <2>5. Ordered(tries[n][j], tries[n][k])
    BY <2>1, <2>4 DEF TriesFit
  <2>6. QED
    BY <2>1, <2>5 DEF Ordered
<1>2. QED
  BY <1>1, DownstreamInvHolds, PTL

(***************************************************************************)
(* The metadata commit of a sync, or a later one, stays on its branch or   *)
(* in its stash whatever is pushed, raised or retried, as long as the      *)
(* stashed commit can be put back (ensure_metadata_commit).                *)
(***************************************************************************)
THEOREM MetadataStays == "conflict" \notin Faults => (Spec => MetadataKept)
<1> SUFFICES ASSUME "conflict" \notin Faults PROVE Spec => MetadataKept
  OBVIOUS
<1> DEFINE Step == \A n \in PR : sync[n] # NoSync =>
                     LET kept(s) == {s.meta, s.stash}
                     IN  \A i \in kept(sync[n]) : \E j \in kept(sync'[n]) : j >= i
<1>1. ASSUME DownstreamInv, [Next]_vars, NEW n \in PR, sync[n] # NoSync,
             NEW i \in {sync[n].meta, sync[n].stash}
      PROVE  \E j \in {sync'[n].meta, sync'[n].stash} : j >= i
  <2>1. /\ Good(sync, tries, ref) /\ sync'[n] \in Sync \cup {NoSync}
        /\ sync'[n] # NoSync /\ Later(sync[n], sync'[n])
    <3>1. DownstreamInv' /\ Kept(sync, tries, sync', tries')
      BY <1>1, NextStep
    <3>2. TypeOK' /\ Good(sync, tries, ref)
      BY <1>1, <3>1 DEF DownstreamInv
    <3>3. QED
      BY <1>1, <3>1, <3>2 DEF TypeOK, Kept
  <2>2. sync[n] \in Sync /\ sync'[n] \in Sync /\ (sync[n].meta = 0 \/ sync[n].stash = 0)
    BY <1>1, <2>1, GoodFacts DEF Fit
  <2>3. /\ sync[n].meta \in Nat /\ sync[n].stash \in Nat
        /\ sync'[n].meta \in Nat /\ sync'[n].stash \in Nat
    BY <2>2, SyncFields, BoundAssumption
  <2>4. Top(sync[n]) <= Top(sync'[n])
    BY <2>1 DEF Later
  <2>5. i <= Top(sync[n]) /\ Top(sync'[n]) \in {sync'[n].meta, sync'[n].stash}
    BY <1>1, <2>2, <2>3 DEF Top
  <2>6. Top(sync[n]) \in Nat /\ Top(sync'[n]) \in Nat /\ i \in Nat
    BY <1>1, <2>3 DEF Top
  <2>7. Top(sync'[n]) >= i
    BY <2>4, <2>5, <2>6
  <2>8. QED
    BY <2>5, <2>7
<1>2. DownstreamInv /\ [Next]_vars => [Step]_vars
  BY <1>1
<1>3. QED
  BY <1>2, DownstreamInvHolds, PTL DEF Spec, MetadataKept

\* A landable sync that is not skipped: its latest try push is complete and was needed.
LEMMA LandableFacts ==
  ASSUME DownstreamInv, NEW n \in PR, gh[n] = "merged", Landable(sync, tries, head, n),
         ~sync[n].skip, sync[n].of # 0
  PROVE  /\ ~sync[n].error
         /\ \E t \in ToSet(tries[n]) :
              /\ t.status = "complete" /\ (t.infra => Completed(t))
              /\ sync[n].tests # "none" => t.stability
<1> DEFINE s      == sync[n]
           valid  == LatestValid(sync, tries, head, n)
           waits  == \E t \in valid : ~t.group /\ t.status = "open"
           busted == \E t \in valid : ~t.group /\ t.status = "complete" /\ t.infra
           rebase == IF s.rebased THEN "manual_fix" ELSE "try_rebase"
           stable == s.of # 0 /\ s.tests # "none"
           merged == gh[n] = "merged"
           action ==
             IF s.skip THEN "ready"
             ELSE IF s.error \/ (busted /\ ~waits) THEN rebase
             ELSE IF waits THEN "wait_try"
             ELSE IF ~merged THEN "wait_upstream"
             ELSE IF valid = {} THEN IF stable THEN "try_push_stability"
                                     ELSE IF s.of # 0 THEN "try_push" ELSE "ready"
             ELSE IF \E t \in valid : t.status # "complete" THEN "wait_try"
             ELSE IF stable /\ \E t \in valid : ~t.stability THEN "try_push_stability"
             ELSE IF \E t \in valid : t.infra /\ ~Completed(t) THEN "manual_fix"
             ELSE "ready"
<1>1. sync[n] # NoSync /\ action = "ready"
  BY DEF Landable, NextAction
<1>2. merged /\ rebase # "ready"
  OBVIOUS
<1>3. valid \subseteq ToSet(tries[n])
  BY DEF LatestValid
<1> HIDE DEF valid, waits, busted, rebase, merged
<1>4. /\ ~s.error /\ valid # {} /\ (\A t \in valid : t.status = "complete")
      /\ stable => \A t \in valid : t.stability
      /\ \A t \in valid : t.infra => Completed(t)
  BY <1>1, <1>2
<1>5. PICK t \in valid : TRUE
  BY <1>4
<1>6. QED
  BY <1>3, <1>4, <1>5

(***************************************************************************)
(* A PR whose commits change gecko is not landed without a complete try    *)
(* push, with results, of the commits that were merged: whatever fails to  *)
(* apply, to rebase, to be pushed to try or to run, and however the PR     *)
(* changed before it was merged.                                           *)
(***************************************************************************)
THEOREM LandsOnlyTested == Reliable => (Spec => LandedWasTested)
<1> SUFFICES ASSUME Reliable PROVE Spec => LandedWasTested
  OBVIOUS
<1> DEFINE Step == \A n \in landed' \ landed :
                     <<n, head[n]>> \notin NoChange => Excused(n) \/ Tested(n)
<1>1. ASSUME DownstreamInv, Next, NEW n \in landed' \ landed, <<n, head[n]>> \notin NoChange
      PROVE  Excused(n) \/ Tested(n)
  <2>1. n \in PR /\ Land(n)
    BY <1>1 DEF Next, PrEvent, Retrigger, Land, OpenPr, PushPr, ClosePr, ReopenPr, Send,
                TaskGroupHandler, TryScheduled, TryEnds, Fetch, CentralMoves, world
  <2>2. /\ gh[n] = "merged" /\ Landable(sync, tries, head, n) /\ events[n] = <<>>
        /\ sync[n] # NoSync
    BY <2>1 DEF Land, Landable, Reliable
  <2>3. /\ Good(sync, tries, ref) /\ Calm(sync, tries, ref) /\ World(n) /\ Quiet(n)
        /\ head[n] \in 0..MaxHeads
    BY <1>1, <2>1 DEF DownstreamInv, TypeOK
  <2>4. CASE sync[n].skip
    <3>1. ExcusedIn(sync, n)
      BY <2>1, <2>2, <2>3, <2>4 DEF Calm, CalmPr
    <3>2. QED
      BY <3>1 DEF ExcusedIn, Excused
  <2>5. CASE ~sync[n].skip
    <3>1. UpTo(sync[n], head[n], n)
      BY <1>1, <2>2, <2>3 DEF Quiet, Due
    <3>2. CASE sync[n].error
      <4>1. FALSE
        BY <2>1, <2>2, <2>5, <3>2 DEF Landable, NextAction
      <4>2. QED
        BY <4>1
    <3>3. CASE ~sync[n].error
      <4>1. sync[n].head = head[n] /\ sync[n].of = head[n] /\ head[n] # 0
        BY <1>1, <2>2, <2>3, <2>5, <3>1, <3>3, VersionAssumption DEF UpTo, Current, World
      <4>2. PICK t \in ToSet(tries[n]) :
              /\ t.status = "complete" /\ (t.infra => Completed(t))
              /\ sync[n].tests # "none" => t.stability
        BY <1>1, <2>1, <2>2, <2>5, <4>1, LandableFacts
      <4>3. PICK k \in 1..Len(tries[n]) : t = tries[n][k]
        BY <2>2, <2>3, <4>2, GoodFacts DEF ToSet
      <4>4. t.gecko[1] = head[n] /\ TryDone(t)
        BY <2>1, <2>2, <2>3, <4>3 DEF Calm, CalmPr
      <4>5. Completed(t)
        BY <4>2, <4>4 DEF TryDone
      <4>6. <<n, head[n]>> \in HasTests => t.stability
        BY <2>1, <2>2, <2>3, <2>5, <4>1, <4>2 DEF Calm, CalmPr
      <4>7. QED
        BY <4>2, <4>4, <4>5, <4>6 DEF Tested
    <3>4. QED
      BY <3>2, <3>3
  <2>6. QED
    BY <2>4, <2>5
<1>2. DownstreamInv /\ [Next]_vars => [Step]_vars
  BY <1>1
<1>3. QED
  BY <1>2, DownstreamInvHolds, PTL DEF Spec, LandedWasTested

=============================================================================
