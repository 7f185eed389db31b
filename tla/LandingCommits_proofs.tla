------------------------ MODULE LandingCommits_proofs -------------------------
(***************************************************************************)
(* Proofs about LandingCommits, for any pull requests, kinds of syncs and  *)
(* number of commits; and about it and TaskGroup together.                 *)
(***************************************************************************)
EXTENDS MCLandingParts, TaskGroup_proofs, SequenceTheorems, WellFoundedInduction

-----------------------------------------------------------------------------
(* Numbers and sequences. *)

LEMMA LeastOf ==
  ASSUME NEW m \in Nat, NEW S, S \subseteq 0..m, S # {}
  PROVE  \E n \in S : \A k \in S : n <= k
<1>1. S \subseteq Nat
  OBVIOUS
<1>2. PICK n \in S : \A k \in S : <<k, n>> \notin OpToRel(<, Nat)
  BY <1>1, NatLessThanWellFounded, WFMin
<1>3. \A k \in S : ~(k < n)
  BY <1>1, <1>2 DEF OpToRel
<1>4. QED
  BY <1>1, <1>3

\* Induction up to m, for a set.
LEMMA UpTo ==
  ASSUME NEW m \in Nat, NEW S, 0 \in S, \A k \in 0..(m - 1) : k \in S => k + 1 \in S
  PROVE  0..m \subseteq S
<1> DEFINE T == {k \in 0..m : k \notin S}
<1>1. ASSUME T # {} PROVE FALSE
  <2>1. PICK k \in T : \A j \in T : k <= j
    <3>1. T \subseteq 0..m
      OBVIOUS
    <3> HIDE DEF T
    <3>2. QED
      BY <1>1, <3>1, LeastOf
  <2>2. k \in 0..m /\ k # 0 /\ k \notin S
    OBVIOUS
  <2>3. k - 1 \in 0..(m - 1) /\ (k - 1) + 1 = k /\ ~(k <= k - 1)
    BY <2>2
  <2>4. k - 1 \in S
    BY <2>1, <2>3
  <2>5. QED
    BY <2>2, <2>3, <2>4
<1>2. QED
  BY <1>1

LEMMA GreatestOf ==
  ASSUME NEW m \in Nat, NEW S, S \subseteq 0..m, S # {}
  PROVE  Max(S) \in S /\ \A k \in S : k <= Max(S)
<1> DEFINE T == {m - k : k \in S}
<1>1. T \subseteq 0..m /\ T # {}
  <2>1. \A k \in S : m - k \in 0..m
    OBVIOUS
  <2>2. QED
    BY <2>1
<1>2. PICK t \in T : \A u \in T : t <= u
  BY <1>1, LeastOf
<1>3. PICK n \in S : t = m - n
  OBVIOUS
<1>4. ASSUME NEW k \in S PROVE n >= k
  <2>1. m - n <= m - k
    BY <1>2, <1>3
  <2>2. QED
    BY <2>1
<1>5. \E x \in S : \A y \in S : x >= y
  BY <1>4
<1>6. Max(S) \in S /\ \A y \in S : Max(S) >= y
  BY <1>5 DEF Max
<1>7. S \subseteq Int
  OBVIOUS
<1>8. QED
  BY <1>6, <1>7

LEMMA LeastIs ==
  ASSUME NEW m \in Nat, NEW S, S \subseteq 0..m, S # {}
  PROVE  Min(S) \in S /\ \A k \in S : Min(S) <= k
<1>1. \E x \in S : \A y \in S : x <= y
  BY LeastOf
<1>2. QED
  BY <1>1 DEF Min

LEMMA SeqOfFunction ==
  ASSUME NEW S, NEW n \in Nat, NEW f \in [1..n -> S]
  PROVE  f \in Seq(S) /\ Len(f) = n
OBVIOUS

-----------------------------------------------------------------------------
(***************************************************************************)
(* The two folds of LandingCommits, of which `Fold(kind, seq)' stands for  *)
(* either.  A fold is a function that is defined by recursion on the sets  *)
(* of positions; it exists, and is what its steps make of it: FoldNext.    *)
(***************************************************************************)
Step(kind, made, x) == IF kind = "commits" THEN AddCommit(made, x) ELSE PassZero(made, x)

Folds(kind, seq, f) ==
  f = [s \in SUBSET (DOMAIN seq) |->
        IF s = {} THEN <<>> ELSE Step(kind, f[s \ {Max(s)}], seq[Max(s)])]
Fold(kind, seq) == (CHOOSE f : Folds(kind, seq, f))[DOMAIN seq]

LEMMA GroupsFold ==
  ASSUME NEW from, NEW to
  PROVE  /\ Groups(from, to) = Fold("commits", [n \in 1 .. to - from |-> from + n])
         /\ Numbered(from, to) = Fold("groups", Groups(from, to))
<1>1. ASSUME NEW seq
      PROVE  FoldLeft(AddCommit, <<>>, seq) = Fold("commits", seq)
  BY DEF FoldLeft, MapThenFoldSet, Folds, Fold, Step
<1>2. ASSUME NEW seq
      PROVE  FoldLeft(PassZero, <<>>, seq) = Fold("groups", seq)
  BY DEF FoldLeft, MapThenFoldSet, Folds, Fold, Step
<1>3. QED
  BY <1>1, <1>2 DEF Groups, Numbered

\* The part of a fold for the sets of the first k positions.
FoldsTo(kind, seq, k, f) ==
  f = [s \in SUBSET (1..k) |->
        IF s = {} THEN <<>> ELSE Step(kind, f[s \ {Max(s)}], seq[Max(s)])]

LEMMA FoldsOn ==
  ASSUME NEW kind, NEW seq, NEW k \in Nat, NEW f, FoldsTo(kind, seq, k, f)
  PROVE  \E g : FoldsTo(kind, seq, k + 1, g)
<1> DEFINE g == [s \in SUBSET (1..(k + 1)) |->
                  IF k + 1 \in s THEN Step(kind, f[s \ {k + 1}], seq[k + 1]) ELSE f[s]]
           h == [s \in SUBSET (1..(k + 1)) |->
                  IF s = {} THEN <<>> ELSE Step(kind, g[s \ {Max(s)}], seq[Max(s)])]
<1>1. ASSUME NEW s \in SUBSET (1..(k + 1)) PROVE g[s] = h[s]
  <2>1. CASE k + 1 \in s
    <3>1. s \subseteq 0..(k + 1) /\ k + 1 \in Nat /\ s \subseteq Nat
      OBVIOUS
    <3>2. Max(s) \in s /\ \A j \in s : j <= Max(s)
      BY <2>1, <3>1, GreatestOf
    <3>3. Max(s) = k + 1
      <4>1. Max(s) \in 1..(k + 1) /\ k + 1 <= Max(s)
        BY <2>1, <3>2
      <4>2. QED
        BY <4>1
    <3>4. s \ {k + 1} \in SUBSET (1..(k + 1)) /\ k + 1 \notin s \ {k + 1}
      OBVIOUS
    <3>5. g[s \ {k + 1}] = f[s \ {k + 1}]
      BY <3>4
    <3>6. QED
      BY <2>1, <3>3, <3>5
  <2>2. CASE k + 1 \notin s
    <3>1. s \in SUBSET (1..k)
      BY <2>2
    <3>2. f[s] = IF s = {} THEN <<>> ELSE Step(kind, f[s \ {Max(s)}], seq[Max(s)])
      BY <3>1 DEF FoldsTo
    <3>3. s \ {Max(s)} \in SUBSET (1..(k + 1)) /\ k + 1 \notin s \ {Max(s)}
      BY <2>2
    <3>4. g[s \ {Max(s)}] = f[s \ {Max(s)}] /\ g[s] = f[s]
      BY <2>2, <3>3
    <3>5. QED
      BY <3>2, <3>4
  <2>3. QED
    BY <2>1, <2>2
<1>2. g = h
  BY <1>1
<1>3. FoldsTo(kind, seq, k + 1, g)
  BY <1>2 DEF FoldsTo
<1>4. QED
  BY <1>3

LEMMA FoldExists ==
  ASSUME NEW kind, NEW n \in Nat, NEW seq, DOMAIN seq = 1..n
  PROVE  \E f : Folds(kind, seq, f)
<1> DEFINE S == {k \in Nat : \E f : FoldsTo(kind, seq, k, f)}
<1>1. 0 \in S
  <2> DEFINE f == [s \in SUBSET (1..0) |-> <<>>]
             g == [s \in SUBSET (1..0) |->
                    IF s = {} THEN <<>> ELSE Step(kind, f[s \ {Max(s)}], seq[Max(s)])]
  <2>1. \A s \in SUBSET (1..0) : s = {}
    OBVIOUS
  <2>2. f = g
    BY <2>1
  <2>3. FoldsTo(kind, seq, 0, f)
    BY <2>2 DEF FoldsTo
  <2>4. QED
    BY <2>3
<1>2. ASSUME NEW k \in 0..(n - 1), k \in S PROVE k + 1 \in S
  BY <1>2, FoldsOn
<1>3. n \in S
  <2> HIDE DEF S
  <2>1. 0..n \subseteq S
    BY <1>1, <1>2, UpTo
  <2>2. QED
    BY <2>1
<1>4. QED
  BY <1>3 DEF FoldsTo, Folds

LEMMA FoldNone ==
  ASSUME NEW kind, NEW seq, DOMAIN seq = {}
  PROVE  Fold(kind, seq) = <<>>
<1>1. \E f : Folds(kind, seq, f)
  <2>1. DOMAIN seq = 1..0
    OBVIOUS
  <2>2. QED
    BY <2>1, FoldExists
<1> DEFINE f == CHOOSE g : Folds(kind, seq, g)
<1>2. Folds(kind, seq, f)
  BY <1>1
<1>3. f[{}] = <<>>
  <2> HIDE DEF f
  <2>1. {} \in SUBSET (DOMAIN seq)
    OBVIOUS
  <2>2. QED
    BY <1>2, <2>1 DEF Folds
<1>4. QED
  BY <1>3 DEF Fold

LEMMA FoldNext ==
  ASSUME NEW kind, NEW n \in Nat, NEW seq, DOMAIN seq = 1..(n + 1),
         NEW pre, DOMAIN pre = 1..n, \A k \in 1..n : pre[k] = seq[k]
  PROVE  Fold(kind, seq) = Step(kind, Fold(kind, pre), seq[n + 1])
<1> DEFINE f == CHOOSE h : Folds(kind, seq, h)
           g == CHOOSE h : Folds(kind, pre, h)
<1>1. Folds(kind, seq, f) /\ Folds(kind, pre, g)
  <2>1. n + 1 \in Nat
    OBVIOUS
  <2>2. (\E h : Folds(kind, seq, h)) /\ (\E h : Folds(kind, pre, h))
    BY <2>1, FoldExists
  <2>3. QED
    BY <2>2
<1>2. Fold(kind, seq) = f[1..(n + 1)] /\ Fold(kind, pre) = g[1..n]
  BY DEF Fold
<1> HIDE DEF f, g
<1>3. ASSUME NEW k \in Nat
      PROVE  Max(1..(k + 1)) = k + 1 /\ (1..(k + 1)) \ {k + 1} = 1..k
  <2>1. 1..(k + 1) \subseteq 0..(k + 1) /\ k + 1 \in 1..(k + 1) /\ k + 1 \in Nat
    OBVIOUS
  <2>2. Max(1..(k + 1)) \in 1..(k + 1) /\ k + 1 <= Max(1..(k + 1))
    BY <2>1, GreatestOf
  <2>3. QED
    BY <2>2
<1>4. ASSUME NEW k \in Nat, k + 1 <= n + 1
      PROVE  f[1..(k + 1)] = Step(kind, f[1..k], seq[k + 1])
  <2>1. 1..(k + 1) \in SUBSET (DOMAIN seq) /\ 1..(k + 1) # {}
    <3>1. 1..(k + 1) \subseteq 1..(n + 1) /\ k + 1 \in 1..(k + 1)
      BY <1>4
    <3>2. QED
      BY <3>1
  <2>2. f[1..(k + 1)] = Step(kind, f[(1..(k + 1)) \ {Max(1..(k + 1))}], seq[Max(1..(k + 1))])
    BY <1>1, <2>1 DEF Folds
  <2>3. QED
    BY <1>3, <2>2
<1>5. ASSUME NEW k \in Nat, k + 1 <= n
      PROVE  g[1..(k + 1)] = Step(kind, g[1..k], pre[k + 1])
  <2>1. 1..(k + 1) \in SUBSET (DOMAIN pre) /\ 1..(k + 1) # {}
    BY <1>5
  <2>2. g[1..(k + 1)] = Step(kind, g[(1..(k + 1)) \ {Max(1..(k + 1))}], pre[Max(1..(k + 1))])
    BY <1>1, <2>1 DEF Folds
  <2>3. QED
    BY <1>3, <2>2
<1> DEFINE S == {k \in 0..n : f[1..k] = g[1..k]}
<1>6. 0 \in S
  <2>1. 1..0 = {} /\ {} \in SUBSET (DOMAIN seq) /\ {} \in SUBSET (DOMAIN pre)
    OBVIOUS
  <2>2. f[{}] = <<>> /\ g[{}] = <<>>
    BY <1>1, <2>1 DEF Folds
  <2>3. QED
    BY <2>1, <2>2
<1>7. ASSUME NEW k \in 0..(n - 1), k \in S PROVE k + 1 \in S
  <2>1. k \in Nat /\ k + 1 <= n /\ k + 1 <= n + 1 /\ pre[k + 1] = seq[k + 1]
    OBVIOUS
  <2>2. f[1..(k + 1)] = g[1..(k + 1)]
    BY <1>4, <1>5, <1>7, <2>1
  <2>3. QED
    BY <2>1, <2>2
<1>8. n \in S
  <2> HIDE DEF S
  <2>1. 0..n \subseteq S
    BY <1>6, <1>7, UpTo
  <2>2. QED
    BY <2>1
<1>9. f[1..(n + 1)] = Step(kind, f[1..n], seq[n + 1])
  BY <1>4
<1>10. QED
  BY <1>2, <1>8, <1>9

-----------------------------------------------------------------------------
(***************************************************************************)
(* What unlanded_wpt_commits_by_pr gives for the commits of m from the one *)
(* after `from' to `to', without those of the PRs in skip: each commit is  *)
(* in one group, in order, a PR has one group, and groups are ordered by   *)
(* their last commits.                                                     *)
(***************************************************************************)
Prs == PR \cup {NoPr, Zero}
Group == [pr : Prs, commits : Seq(Nat)]

Within(g)  == {g.commits[a] : a \in 1..Len(g.commits)}
LastOf(g)  == Last(g.commits)
FirstOf(g) == Head(g.commits)

IsGroup(g, m, from, to, skip) ==
  /\ Len(g.commits) > 0 /\ Within(g) \subseteq (from + 1)..to
  /\ \A a, b \in 1..Len(g.commits) : a < b => g.commits[a] < g.commits[b]
  /\ \A i \in Within(g) : m[i] = g.pr
  /\ g.pr \notin skip /\ (g.pr \notin PR => Len(g.commits) = 1)

GroupsOf(G, m, from, to, skip) ==
  /\ G \in Seq(Group)
  /\ \A k \in 1..Len(G) : IsGroup(G[k], m, from, to, skip)
  /\ \A i \in (from + 1)..to : m[i] \notin skip => \E k \in 1..Len(G) : i \in Within(G[k])
  /\ \A k, l \in 1..Len(G) : G[k].pr = G[l].pr /\ G[k].pr \in PR => k = l
  /\ \A k, l \in 1..Len(G) : k < l => LastOf(G[k]) < LastOf(G[l])

LEMMA GroupFacts ==
  ASSUME NEW g \in Group, NEW m, NEW from \in Nat, NEW to \in Nat, NEW skip,
         IsGroup(g, m, from, to, skip)
  PROVE  /\ LastOf(g) \in Within(g) /\ FirstOf(g) \in Within(g)
         /\ \A i \in Within(g) : FirstOf(g) <= i /\ i <= LastOf(g)
         /\ Within(g) \subseteq Nat /\ Within(g) \subseteq (from + 1)..to
         /\ LastOf(g) \in Nat /\ FirstOf(g) \in Nat
         /\ g.pr \notin PR => Within(g) = {LastOf(g)}
<1> DEFINE c == g.commits
           n == Len(c)
<1>1. c \in Seq(Nat) /\ n \in Nat /\ n > 0
  BY DEF Group, IsGroup
<1>2. LastOf(g) = c[n] /\ FirstOf(g) = c[1] /\ n \in 1..n /\ 1 \in 1..n
  BY <1>1 DEF LastOf, FirstOf, Last
<1>3. \A a \in 1..n : c[a] \in Nat /\ (a < n => c[a] < c[n]) /\ (1 < a => c[1] < c[a])
  BY <1>1, <1>2 DEF IsGroup
<1>4. \A a \in 1..n : c[a] <= c[n] /\ c[1] <= c[a]
  <2>1. \A a \in 1..n : a = n \/ a < n
    BY <1>1
  <2>2. \A a \in 1..n : a = 1 \/ 1 < a
    BY <1>1
  <2>3. QED
    BY <1>2, <1>3, <2>1, <2>2
<1>5. Within(g) = {c[a] : a \in 1..n}
  BY DEF Within
<1>6. Within(g) \subseteq (from + 1)..to
  BY DEF IsGroup
<1>7. g.pr \notin PR => n = 1
  BY DEF IsGroup
<1> HIDE DEF c, n
<1>8. g.pr \notin PR => Within(g) = {LastOf(g)}
  BY <1>2, <1>5, <1>7
<1>9. QED
  BY <1>2, <1>3, <1>4, <1>5, <1>6, <1>8

\* A group of other commits.
LEMMA WiderGroup ==
  ASSUME NEW g, NEW m, NEW from \in Nat, NEW to \in Nat, NEW skip, IsGroup(g, m, from, to, skip)
  PROVE  IsGroup(g, m, from, to + 1, skip)
<1>1. (from + 1)..to \subseteq (from + 1)..(to + 1)
  OBVIOUS
<1>2. QED
  BY <1>1 DEF IsGroup

\* The commit i after those of a group.
Longer(g, i) == [g EXCEPT !.commits = Append(@, i)]

LEMMA LongerGroup ==
  ASSUME NEW g \in Group, NEW m, NEW from \in Nat, NEW to \in Nat, NEW skip, from <= to,
         IsGroup(g, m, from, to, skip), m[to + 1] = g.pr, g.pr \in PR
  PROVE  LET h == Longer(g, to + 1)
         IN  /\ h \in Group /\ h.pr = g.pr /\ IsGroup(h, m, from, to + 1, skip)
             /\ LastOf(h) = to + 1 /\ Within(h) = Within(g) \cup {to + 1}
<1> DEFINE c == g.commits
           d == Append(c, to + 1)
           h == Longer(g, to + 1)
           n == Len(c)
<1>1. c \in Seq(Nat) /\ n \in Nat /\ to + 1 \in Nat
  BY DEF Group
<1>2. d \in Seq(Nat) /\ Len(d) = n + 1 /\ d[n + 1] = to + 1 /\ \A a \in 1..n : d[a] = c[a]
  BY <1>1
<1>3. h.commits = d /\ h.pr = g.pr /\ h \in Group
  BY <1>2 DEF Group, Longer
<1>4. Within(h) = {d[a] : a \in 1..(n + 1)} /\ Within(g) = {c[a] : a \in 1..n}
  BY <1>2, <1>3 DEF Within
<1>5. Within(g) \subseteq (from + 1)..to /\ \A a, b \in 1..n : a < b => c[a] < c[b]
  BY DEF IsGroup
<1>6. LastOf(h) = to + 1
  BY <1>2, <1>3 DEF LastOf, Last
<1>7. \A i \in Within(g) : m[i] = g.pr
  BY DEF IsGroup
<1>8. g.pr \notin skip
  BY DEF IsGroup
<1> HIDE DEF c, d, h, n
<1>9. Within(h) = Within(g) \cup {to + 1}
  <2>1. \A a \in 1..(n + 1) : a \in 1..n \/ a = n + 1
    BY <1>1
  <2>2. \A a \in 1..n : a \in 1..(n + 1)
    BY <1>1
  <2>3. n + 1 \in 1..(n + 1)
    BY <1>1
  <2>4. QED
    BY <1>2, <1>4, <2>1, <2>2, <2>3
<1>10. Within(h) \subseteq (from + 1)..(to + 1)
  BY <1>5, <1>9
<1>11. ASSUME NEW a \in 1..(n + 1), NEW b \in 1..(n + 1), a < b PROVE d[a] < d[b]
  <2>1. a \in 1..n
    BY <1>1, <1>11
  <2>2. d[a] = c[a] /\ c[a] \in (from + 1)..to
    BY <1>2, <1>4, <1>5, <2>1
  <2>3. CASE b = n + 1
    BY <1>2, <2>2, <2>3
  <2>4. CASE b # n + 1
    <3>1. b \in 1..n
      BY <1>1, <2>4
    <3>2. QED
      BY <1>2, <1>5, <1>11, <2>1, <3>1
  <2>5. QED
    BY <2>3, <2>4
<1>12. IsGroup(h, m, from, to + 1, skip)
  BY <1>1, <1>2, <1>3, <1>7, <1>8, <1>9, <1>10, <1>11 DEF IsGroup
<1>13. QED
  BY <1>3, <1>6, <1>9, <1>12 DEF h

LEMMA OneCommitGroup ==
  ASSUME NEW m, NEW from \in Nat, NEW to \in Nat, NEW skip, from <= to, m[to + 1] \in Prs, m[to + 1] \notin skip
  PROVE  LET h == [pr |-> m[to + 1], commits |-> <<to + 1>>]
         IN  /\ h \in Group /\ h.pr = m[to + 1] /\ IsGroup(h, m, from, to + 1, skip)
             /\ LastOf(h) = to + 1 /\ Within(h) = {to + 1}
<1> DEFINE h == [pr |-> m[to + 1], commits |-> <<to + 1>>]
<1>1. h.commits = <<to + 1>> /\ Len(<<to + 1>>) = 1 /\ <<to + 1>>[1] = to + 1 /\ <<to + 1>> \in Seq(Nat)
  OBVIOUS
<1>2. Within(h) = {to + 1}
  BY <1>1 DEF Within
<1>3. LastOf(h) = to + 1
  BY <1>1 DEF LastOf, Last
<1>4. h.pr = m[to + 1] /\ h \in Group
  BY <1>1 DEF Group
<1> HIDE DEF h
<1>5. IsGroup(h, m, from, to + 1, skip)
  BY <1>1, <1>2, <1>4 DEF IsGroup
<1>6. QED
  BY <1>2, <1>3, <1>4, <1>5 DEF h

LEMMA CatIs ==
  ASSUME NEW S, NEW A \in Seq(S), NEW B \in Seq(S)
  PROVE  /\ A \o B \in Seq(S) /\ Len(A \o B) = Len(A) + Len(B)
         /\ \A k \in 1..(Len(A) + Len(B)) : (A \o B)[k] = IF k <= Len(A) THEN A[k] ELSE B[k - Len(A)]
         /\ \A k \in 1..Len(A) : (A \o B)[k] = A[k]
         /\ \A k \in 1..Len(B) : (A \o B)[Len(A) + k] = B[k]
OBVIOUS

\* A sequence without its g-th element.
LEMMA RemoveAtIs ==
  ASSUME NEW S, NEW G \in Seq(S), NEW g \in 1..Len(G)
  PROVE  LET H == RemoveAt(G, g)
         IN  /\ H \in Seq(S) /\ Len(H) = Len(G) - 1
             /\ \A k \in 1..Len(H) : H[k] = IF k < g THEN G[k] ELSE G[k + 1]
<1> DEFINE A == SubSeq(G, 1, g - 1)
           B == SubSeq(G, g + 1, Len(G))
           H == A \o B
<1>1. A \in Seq(S) /\ Len(A) = g - 1 /\ \A k \in 1..Len(A) : A[k] = G[k]
  OBVIOUS
<1>2. B \in Seq(S) /\ Len(B) = Len(G) - g /\ \A k \in 1..Len(B) : B[k] = G[g + k]
  OBVIOUS
<1>3. RemoveAt(G, g) = H
  BY DEF RemoveAt
<1>4. Len(G) \in Nat
  OBVIOUS
<1> HIDE DEF A, B
<1>5. /\ H \in Seq(S) /\ Len(H) = Len(A) + Len(B)
      /\ \A k \in 1..(Len(A) + Len(B)) : H[k] = IF k <= Len(A) THEN A[k] ELSE B[k - Len(A)]
  <2>1. A \in Seq(S) /\ B \in Seq(S)
    BY <1>1, <1>2
  <2>2. QED
    BY <2>1, CatIs
<1> HIDE DEF H
<1>6. Len(H) = Len(G) - 1
  BY <1>1, <1>2, <1>4, <1>5
<1>7. ASSUME NEW k \in 1..Len(H) PROVE H[k] = IF k < g THEN G[k] ELSE G[k + 1]
  <2>1. H[k] = IF k <= Len(A) THEN A[k] ELSE B[k - Len(A)]
    BY <1>1, <1>2, <1>4, <1>5
  <2>2. CASE k < g
    <3>1. k \in 1..Len(A) /\ k <= Len(A)
      BY <1>1, <2>2
    <3>2. QED
      BY <1>1, <2>1, <2>2, <3>1
  <2>3. CASE ~(k < g)
    <3>1. ~(k <= Len(A)) /\ k - Len(A) \in 1..Len(B) /\ g + (k - Len(A)) = k + 1
      BY <1>1, <1>2, <1>4, <1>6, <2>3
    <3>2. B[k - Len(A)] = G[g + (k - Len(A))]
      BY <1>2, <3>1
    <3>3. QED
      BY <2>1, <2>3, <3>1, <3>2
  <2>4. QED
    BY <2>2, <2>3
<1>8. QED
  BY <1>3, <1>5, <1>6, <1>7

\* A group h that ends with the commit after `to', behind the groups H of the commits before.
LEMMA GroupAppended ==
  ASSUME NEW m, NEW from \in Nat, NEW to \in Nat, NEW skip, from <= to,
         NEW H \in Seq(Group), NEW h \in Group,
         \A k \in 1..Len(H) : IsGroup(H[k], m, from, to, skip),
         IsGroup(h, m, from, to + 1, skip), LastOf(h) = to + 1,
         \A i \in (from + 1)..to : m[i] \notin skip =>
            i \in Within(h) \/ \E k \in 1..Len(H) : i \in Within(H[k]),
         \A k, l \in 1..Len(H) : H[k].pr = H[l].pr /\ H[k].pr \in PR => k = l,
         \A k \in 1..Len(H) : H[k].pr = h.pr => h.pr \notin PR,
         \A k, l \in 1..Len(H) : k < l => LastOf(H[k]) < LastOf(H[l])
  PROVE  GroupsOf(Append(H, h), m, from, to + 1, skip)
<1> DEFINE G == Append(H, h)
           n == Len(H)
<1>1. /\ G \in Seq(Group) /\ Len(G) = n + 1 /\ n \in Nat
      /\ G[n + 1] = h /\ \A k \in 1..n : G[k] = H[k]
  OBVIOUS
<1> HIDE DEF G
<1>2. \A k \in 1..(n + 1) : k = n + 1 \/ k \in 1..n
  BY <1>1
<1>3. \A k \in 1..n : k \in 1..(n + 1) /\ k # n + 1 /\ k < n + 1
  BY <1>1
<1>4. n + 1 \in 1..(n + 1)
  BY <1>1
<1>5. \A k \in 1..n : IsGroup(H[k], m, from, to + 1, skip)
  BY WiderGroup
<1>6. \A k \in 1..(n + 1) : IsGroup(G[k], m, from, to + 1, skip)
  BY <1>1, <1>2, <1>5
<1>7. ASSUME NEW i \in (from + 1)..(to + 1), m[i] \notin skip
      PROVE  \E k \in 1..(n + 1) : i \in Within(G[k])
  <2>1. CASE i = to + 1
    <3>1. to + 1 \in Nat
      OBVIOUS
    <3>2. to + 1 \in Within(h)
      BY <3>1, GroupFacts
    <3>3. QED
      BY <1>1, <1>4, <2>1, <3>2
  <2>2. CASE i # to + 1
    <3>1. i \in (from + 1)..to
      BY <2>2
    <3>2. i \in Within(h) \/ \E k \in 1..n : i \in Within(H[k])
      BY <1>7, <3>1
    <3>3. QED
      BY <1>1, <1>3, <1>4, <3>2
  <2>3. QED
    BY <2>1, <2>2
<1>8. ASSUME NEW k \in 1..(n + 1), NEW l \in 1..(n + 1), G[k].pr = G[l].pr, G[k].pr \in PR
      PROVE  k = l
  <2>1. CASE k \in 1..n /\ l \in 1..n
    BY <1>1, <1>8, <2>1
  <2>2. CASE k \in 1..n /\ l = n + 1
    BY <1>1, <1>8, <2>2
  <2>3. CASE k = n + 1 /\ l \in 1..n
    BY <1>1, <1>8, <2>3
  <2>4. QED
    BY <1>2, <2>1, <2>2, <2>3
<1>9. \A k \in 1..n : LastOf(H[k]) < to + 1
  <2>1. ASSUME NEW k \in 1..n PROVE LastOf(H[k]) < to + 1
    <3>1. H[k] \in Group
      OBVIOUS
    <3>2. LastOf(H[k]) \in Within(H[k]) /\ Within(H[k]) \subseteq (from + 1)..to
      BY <3>1, GroupFacts
    <3>3. LastOf(H[k]) \in (from + 1)..to
      BY <3>2
    <3>4. QED
      BY <3>3
  <2>2. QED
    BY <2>1
<1>10. ASSUME NEW k \in 1..(n + 1), NEW l \in 1..(n + 1), k < l
       PROVE  LastOf(G[k]) < LastOf(G[l])
  <2>1. k \in 1..n
    BY <1>1, <1>10
  <2>2. CASE l = n + 1
    BY <1>1, <1>9, <2>1, <2>2
  <2>3. CASE l # n + 1
    BY <1>1, <1>2, <1>10, <2>1, <2>3
  <2>4. QED
    BY <2>2, <2>3
<1>11. GroupsOf(G, m, from, to + 1, skip)
  BY <1>1, <1>6, <1>7, <1>8, <1>10 DEF GroupsOf
<1>12. QED
  BY <1>11 DEF G

LEMMA AddCommitGroups ==
  ASSUME NEW from \in Nat, NEW to \in Nat, from <= to, master[to + 1] \in Prs,
         NEW G, GroupsOf(G, master, from, to, {})
  PROVE  GroupsOf(AddCommit(G, to + 1), master, from, to + 1, {})
<1> DEFINE p   == master[to + 1]
           old == {g \in DOMAIN G : G[g].pr = p /\ p \in PR}
           g   == CHOOSE g \in old : TRUE
           one == [pr |-> p, commits |-> <<to + 1>>]
<1>1. /\ G \in Seq(Group) /\ Len(G) \in Nat /\ DOMAIN G = 1..Len(G)
      /\ \A k \in 1..Len(G) : G[k] \in Group /\ IsGroup(G[k], master, from, to, {})
  BY DEF GroupsOf
<1>2. CASE old = {}
  <2>1. AddCommit(G, to + 1) = Append(G, one)
    BY <1>2 DEF AddCommit
  <2>2. one \in Group /\ one.pr = p /\ IsGroup(one, master, from, to + 1, {}) /\ LastOf(one) = to + 1
    BY OneCommitGroup
  <2>3. \A k \in 1..Len(G) : G[k].pr = one.pr => one.pr \notin PR
    BY <1>1, <1>2, <2>2
  <2>4. \A i \in (from + 1)..to : master[i] \notin {} => \E k \in 1..Len(G) : i \in Within(G[k])
    BY DEF GroupsOf
  <2>5. /\ \A k, l \in 1..Len(G) : G[k].pr = G[l].pr /\ G[k].pr \in PR => k = l
        /\ \A k, l \in 1..Len(G) : k < l => LastOf(G[k]) < LastOf(G[l])
    BY DEF GroupsOf
  <2> HIDE DEF one, old, p
  <2>6. GroupsOf(Append(G, one), master, from, to + 1, {})
    BY <1>1, <2>2, <2>3, <2>4, <2>5, GroupAppended
  <2>7. QED
    BY <2>1, <2>6
<1>3. CASE old # {}
  <2> DEFINE H == RemoveAt(G, g)
             h == Longer(G[g], to + 1)
  <2>1. g \in 1..Len(G) /\ G[g].pr = p /\ p \in PR
    BY <1>1, <1>3
  <2>2. AddCommit(G, to + 1) = Append(H, h)
    BY <1>3 DEF AddCommit, Longer
  <2> HIDE DEF g, old
  <2>3. /\ H \in Seq(Group) /\ Len(H) = Len(G) - 1
        /\ \A k \in 1..Len(H) : H[k] = IF k < g THEN G[k] ELSE G[k + 1]
    BY <1>1, <2>1, RemoveAtIs
  <2>4. /\ h \in Group /\ h.pr = p /\ IsGroup(h, master, from, to + 1, {})
        /\ LastOf(h) = to + 1 /\ Within(h) = Within(G[g]) \cup {to + 1}
    <3>1. /\ G[g] \in Group /\ IsGroup(G[g], master, from, to, {})
          /\ master[to + 1] = G[g].pr /\ G[g].pr \in PR
      BY <1>1, <2>1
    <3>2. QED
      BY <2>1, <3>1, LongerGroup
  <2> DEFINE at(k) == IF k < g THEN k ELSE k + 1
  <2>5. ASSUME NEW k \in 1..Len(H)
        PROVE  at(k) \in 1..Len(G) /\ at(k) # g /\ H[k] = G[at(k)]
    BY <1>1, <2>1, <2>3
  <2>6. \A k, l \in 1..Len(H) : (at(k) = at(l) => k = l) /\ (k < l => at(k) < at(l))
    BY <1>1, <2>1, <2>3
  <2>7. ASSUME NEW j \in 1..Len(G), j # g
        PROVE  \E k \in 1..Len(H) : H[k] = G[j]
    <3>1. CASE j < g
      BY <1>1, <2>1, <2>3, <3>1
    <3>2. CASE ~(j < g)
      <4>1. j - 1 \in 1..Len(H) /\ ~(j - 1 < g) /\ (j - 1) + 1 = j
        BY <1>1, <2>1, <2>3, <2>7, <3>2
      <4>2. H[j - 1] = G[j]
        BY <2>3, <4>1
      <4>3. QED
        BY <4>1, <4>2
    <3>3. QED
      BY <3>1, <3>2
  <2> HIDE DEF H, h, at, p
  <2>8. \A k \in 1..Len(H) : IsGroup(H[k], master, from, to, {})
    BY <1>1, <2>5
  <2>9. \A k, l \in 1..Len(H) : H[k].pr = H[l].pr /\ H[k].pr \in PR => k = l
    BY <2>5, <2>6 DEF GroupsOf
  <2>10. \A k, l \in 1..Len(H) : k < l => LastOf(H[k]) < LastOf(H[l])
    BY <2>5, <2>6 DEF GroupsOf
  <2>11. \A k \in 1..Len(H) : H[k].pr = h.pr => h.pr \notin PR
    BY <2>1, <2>4, <2>5 DEF GroupsOf
  <2>12. \A i \in (from + 1)..to : master[i] \notin {} =>
           i \in Within(h) \/ \E k \in 1..Len(H) : i \in Within(H[k])
    <3>1. ASSUME NEW i \in (from + 1)..to
          PROVE  i \in Within(h) \/ \E k \in 1..Len(H) : i \in Within(H[k])
      <4>1. PICK j \in 1..Len(G) : i \in Within(G[j])
        BY DEF GroupsOf
      <4>2. CASE j = g
        BY <2>4, <4>1, <4>2
      <4>3. CASE j # g
        BY <2>7, <4>1, <4>3
      <4>4. QED
        BY <4>2, <4>3
    <3>2. QED
      BY <3>1
  <2>13. GroupsOf(Append(H, h), master, from, to + 1, {})
    BY <2>3, <2>4, <2>8, <2>9, <2>10, <2>11, <2>12, GroupAppended
  <2>14. QED
    BY <2>2, <2>13
<1>4. QED
  BY <1>2, <1>3

LEMMA GroupsAre ==
  ASSUME NEW from \in Nat, NEW to \in Nat, from <= to, \A i \in (from + 1)..to : master[i] \in Prs
  PROVE  GroupsOf(Groups(from, to), master, from, to, {})
<1> DEFINE n == to - from
           F(k) == Fold("commits", [j \in 1..k |-> from + j])
           S == {k \in 0..n : GroupsOf(F(k), master, from, from + k, {})}
<1>1. n \in Nat /\ from + n = to
  OBVIOUS
<1>2. 0 \in S
  <2>1. F(0) = <<>>
    <3>1. DOMAIN [j \in 1..0 |-> from + j] = {}
      OBVIOUS
    <3>2. QED
      BY <3>1, FoldNone
  <2>2. GroupsOf(<<>>, master, from, from, {})
    <3>1. (from + 1)..from = {} /\ 1..0 = {}
      OBVIOUS
    <3>2. QED
      BY <3>1 DEF GroupsOf
  <2> HIDE DEF F
  <2>3. QED
    BY <1>1, <2>1, <2>2
<1>3. ASSUME NEW k \in 0..(n - 1), k \in S PROVE k + 1 \in S
  <2>1. F(k + 1) = AddCommit(F(k), from + (k + 1))
    <3> DEFINE seq == [j \in 1..(k + 1) |-> from + j]
               pre == [j \in 1..k |-> from + j]
    <3>1. DOMAIN seq = 1..(k + 1) /\ DOMAIN pre = 1..k /\ \A j \in 1..k : pre[j] = seq[j]
      OBVIOUS
    <3>2. seq[k + 1] = from + (k + 1) /\ k \in Nat
      OBVIOUS
    <3> HIDE DEF seq, pre
    <3>3. Fold("commits", seq) = Step("commits", Fold("commits", pre), seq[k + 1])
      BY <3>1, <3>2, FoldNext
    <3>4. QED
      BY <3>2, <3>3 DEF Step, seq, pre
  <2> HIDE DEF F
  <2>2. GroupsOf(F(k), master, from, from + k, {})
    BY <1>3
  <2>3. /\ from + k \in Nat /\ from <= from + k /\ from + (k + 1) = (from + k) + 1
        /\ (from + k) + 1 \in (from + 1)..to
    OBVIOUS
  <2>4. master[(from + k) + 1] \in Prs
    BY <2>3
  <2>5. GroupsOf(AddCommit(F(k), (from + k) + 1), master, from, (from + k) + 1, {})
    BY <2>2, <2>3, <2>4, AddCommitGroups
  <2>6. k + 1 \in 0..n
    BY <1>1
  <2>7. QED
    BY <2>1, <2>3, <2>5, <2>6
<1>4. n \in S
  <2> HIDE DEF S, n
  <2>1. 0..n \subseteq S
    BY <1>1, <1>2, <1>3, UpTo
  <2>2. QED
    BY <1>1, <2>1
<1>5. Groups(from, to) = F(n)
  BY GroupsFold
<1> HIDE DEF F
<1>6. QED
  BY <1>1, <1>4, <1>5

\* F are the first n groups of G without those of commits that have no PR.
Passed(F, G, n) ==
  /\ F \in Seq(Group)
  /\ \A j \in 1..Len(F) : \E k \in 1..n : F[j] = G[k] /\ G[k].pr # Zero
  /\ \A k \in 1..n : G[k].pr # Zero => \E j \in 1..Len(F) : F[j] = G[k]
  /\ \A j, l \in 1..Len(F) : j < l => LastOf(F[j]) < LastOf(F[l])

LEMMA PassZeroPassed ==
  ASSUME NEW from \in Nat, NEW to \in Nat, NEW G, GroupsOf(G, master, from, to, {}),
         NEW n \in Nat, n < Len(G), NEW F, Passed(F, G, n)
  PROVE  Passed(PassZero(F, G[n + 1]), G, n + 1)
<1> DEFINE g == G[n + 1]
<1>1. G \in Seq(Group) /\ g \in Group /\ n + 1 \in 1..Len(G) /\ \A k \in 1..n : k \in 1..Len(G) /\ k < n + 1
  BY DEF GroupsOf
<1>2. \A k \in 1..(n + 1) : k \in 1..n \/ k = n + 1
  OBVIOUS
<1>3. \A k \in 1..n : k \in 1..(n + 1)
  OBVIOUS
<1>4. n + 1 \in 1..(n + 1)
  OBVIOUS
<1>5. CASE g.pr = Zero
  <2> HIDE DEF g
  <2>1. PassZero(F, g) = F
    BY <1>5 DEF PassZero
  <2>2. Passed(F, G, n + 1)
    BY <1>2, <1>3, <1>5 DEF Passed, g
  <2>3. QED
    BY <2>1, <2>2 DEF g
<1>6. CASE g.pr # Zero
  <2> DEFINE H == Append(F, g)
             m == Len(F)
  <2>1. PassZero(F, g) = H
    BY <1>6 DEF PassZero
  <2>2. F \in Seq(Group)
    BY DEF Passed
  <2>3. /\ H \in Seq(Group) /\ Len(H) = m + 1 /\ m \in Nat
        /\ H[m + 1] = g /\ \A j \in 1..m : H[j] = F[j]
    BY <1>1, <2>2
  <2>4. \A j \in 1..(m + 1) : j \in 1..m \/ j = m + 1
    BY <2>3
  <2>5. m + 1 \in 1..(m + 1) /\ \A j \in 1..m : j \in 1..(m + 1) /\ j < m + 1
    BY <2>3
  <2>6. \A j \in 1..m : LastOf(F[j]) < LastOf(g)
    BY <1>1 DEF Passed, GroupsOf
  <2>7. g = G[n + 1]
    OBVIOUS
  <2> HIDE DEF g, H
  <2>8. ASSUME NEW j \in 1..(m + 1) PROVE \E k \in 1..(n + 1) : H[j] = G[k] /\ G[k].pr # Zero
    <3>1. CASE j = m + 1
      BY <1>4, <1>6, <2>3, <2>7, <3>1
    <3>2. CASE j \in 1..m
      <4>1. PICK k \in 1..n : F[j] = G[k] /\ G[k].pr # Zero
        BY <3>2 DEF Passed
      <4>2. QED
        BY <1>3, <2>3, <3>2, <4>1
    <3>3. QED
      BY <2>4, <3>1, <3>2
  <2>9. \A k \in 1..(n + 1) : G[k].pr # Zero => \E j \in 1..(m + 1) : H[j] = G[k]
    BY <1>2, <2>3, <2>5, <2>7 DEF Passed
  <2>10. ASSUME NEW j \in 1..(m + 1), NEW l \in 1..(m + 1), j < l
         PROVE  LastOf(H[j]) < LastOf(H[l])
    <3>1. j \in 1..m
      BY <2>3, <2>10
    <3>2. CASE l = m + 1
      BY <2>3, <2>6, <3>1, <3>2
    <3>3. CASE l \in 1..m
      BY <2>3, <2>10, <3>1, <3>3 DEF Passed
    <3>4. QED
      BY <2>4, <3>2, <3>3
  <2>11. Passed(H, G, n + 1)
    BY <2>3, <2>8, <2>9, <2>10 DEF Passed
  <2>12. QED
    BY <2>1, <2>7, <2>11
<1>7. QED
  BY <1>5, <1>6

LEMMA NumberedAre ==
  ASSUME NEW from \in Nat, NEW to \in Nat, from <= to, \A i \in (from + 1)..to : master[i] \in Prs
  PROVE  GroupsOf(Numbered(from, to), master, from, to, {Zero})
<1> DEFINE G == Groups(from, to)
           n == Len(G)
           F(k) == Fold("groups", [j \in 1..k |-> G[j]])
           S == {k \in 0..n : Passed(F(k), G, k)}
<1>1. GroupsOf(G, master, from, to, {})
  BY GroupsAre
<1> HIDE DEF G
<1>2. G \in Seq(Group) /\ n \in Nat /\ G = [j \in 1..n |-> G[j]]
  BY <1>1 DEF GroupsOf
<1>3. 0 \in S
  <2>1. F(0) = <<>>
    <3>1. DOMAIN [j \in 1..0 |-> G[j]] = {}
      OBVIOUS
    <3>2. QED
      BY <3>1, FoldNone
  <2>2. Passed(<<>>, G, 0)
    <3>1. 1..0 = {}
      OBVIOUS
    <3>2. QED
      BY <3>1 DEF Passed
  <2> HIDE DEF F
  <2>3. QED
    BY <1>2, <2>1, <2>2
<1>4. ASSUME NEW k \in 0..(n - 1), k \in S PROVE k + 1 \in S
  <2>1. F(k + 1) = PassZero(F(k), G[k + 1])
    <3> DEFINE seq == [j \in 1..(k + 1) |-> G[j]]
               pre == [j \in 1..k |-> G[j]]
    <3>1. DOMAIN seq = 1..(k + 1) /\ DOMAIN pre = 1..k /\ \A j \in 1..k : pre[j] = seq[j]
      OBVIOUS
    <3>2. seq[k + 1] = G[k + 1] /\ k \in Nat
      OBVIOUS
    <3> HIDE DEF seq, pre
    <3>3. Fold("groups", seq) = Step("groups", Fold("groups", pre), seq[k + 1])
      BY <3>1, <3>2, FoldNext
    <3>4. QED
      BY <3>2, <3>3 DEF Step, seq, pre
  <2> HIDE DEF F
  <2>2. Passed(F(k), G, k) /\ k \in Nat /\ k < n /\ k + 1 \in 0..n
    BY <1>2, <1>4
  <2>3. Passed(PassZero(F(k), G[k + 1]), G, k + 1)
    BY <1>1, <2>2, PassZeroPassed
  <2>4. QED
    BY <2>1, <2>2, <2>3
<1>5. n \in S
  <2> HIDE DEF S, n
  <2>1. 0..n \subseteq S
    BY <1>2, <1>3, <1>4, UpTo
  <2>2. QED
    BY <1>2, <2>1
<1>6. Numbered(from, to) = F(n)
  BY <1>2, GroupsFold DEF G
<1> DEFINE N == F(n)
<1>7. Passed(N, G, n)
  BY <1>5
<1> HIDE DEF N, F
<1>8. GroupsOf(N, master, from, to, {Zero})
  <2>1. N \in Seq(Group) /\ Len(N) \in Nat
    BY <1>7 DEF Passed
  <2>2. ASSUME NEW j \in 1..Len(N) PROVE IsGroup(N[j], master, from, to, {Zero})
    <3>1. PICK k \in 1..n : N[j] = G[k] /\ G[k].pr # Zero
      BY <1>7 DEF Passed
    <3>2. IsGroup(G[k], master, from, to, {})
      BY <1>1, <1>2 DEF GroupsOf
    <3>3. QED
      BY <3>1, <3>2 DEF IsGroup
  <2>3. ASSUME NEW i \in (from + 1)..to, master[i] \notin {Zero}
        PROVE  \E j \in 1..Len(N) : i \in Within(N[j])
    <3>1. PICK k \in 1..n : i \in Within(G[k])
      BY <1>1 DEF GroupsOf
    <3>2. G[k].pr # Zero
      BY <1>1, <2>3, <3>1 DEF GroupsOf, IsGroup
    <3>3. QED
      BY <1>7, <3>1, <3>2 DEF Passed
  <2>4. ASSUME NEW j \in 1..Len(N), NEW l \in 1..Len(N), N[j].pr = N[l].pr, N[j].pr \in PR
        PROVE  j = l
    <3>1. PICK a \in 1..n : N[j] = G[a]
      BY <1>7 DEF Passed
    <3>2. PICK b \in 1..n : N[l] = G[b]
      BY <1>7 DEF Passed
    <3>3. N[j] = N[l]
      BY <1>1, <2>4, <3>1, <3>2 DEF GroupsOf
    <3>4. /\ N[j] \in Group
          /\ IsGroup(N[j], master, from, to, {Zero})
      <4>1. N[j] \in Group
        BY <2>1
      <4>2. QED
        BY <2>2, <4>1
    <3>5. LastOf(N[j]) \in Nat /\ LastOf(N[j]) = LastOf(N[l])
      BY <3>3, <3>4, GroupFacts
    <3>6. ~(LastOf(N[j]) < LastOf(N[l])) /\ ~(LastOf(N[l]) < LastOf(N[j]))
      BY <3>5
    <3>7. ~(j < l) /\ ~(l < j)
      BY <1>7, <3>6 DEF Passed
    <3>8. QED
      BY <2>1, <3>7
  <2>5. \A j, l \in 1..Len(N) : j < l => LastOf(N[j]) < LastOf(N[l])
    BY <1>7 DEF Passed
  <2>6. QED
    BY <2>1, <2>2, <2>3, <2>4, <2>5 DEF GroupsOf
<1>9. QED
  BY <1>6, <1>8 DEF N

-----------------------------------------------------------------------------
(* landable_commits. *)

\* The loop ends at group g.
StopsAt(g, all) == g.pr = NoPr \/ (IF all THEN status[g.pr] = "no_sync" ELSE ~Landable(g.pr))

\* The groups a landing takes are the first x of N, and it ends with the commit head.
Taken(c, N, x, from, all) ==
  /\ x \in 0..Len(N) /\ c.taken \in Seq(Group) /\ Len(c.taken) = x
  /\ \A k \in 1..x : c.taken[k] = N[k] /\ ~StopsAt(N[k], all)
  /\ x = 0 => c.head = from
  /\ x > 0 => c.outcome = "landing" /\ c.head = LastOf(N[x])
  /\ c.outcome = "landing" => x > 0
  /\ c.outcome # "raised" /\ x < Len(N) => StopsAt(N[x + 1], all)
  /\ ~all /\ c.outcome # "raised" /\ x < Len(N) => N[x + 1].pr # NoPr
  /\ c.outcome = "raised" => \E k \in 1..Len(N) : StopsAt(N[k], all)

LEMMA PrefixIs ==
  ASSUME NEW S, NEW G \in Seq(S), NEW x \in 0..Len(G)
  PROVE  /\ SubSeq(G, 1, x) \in Seq(S) /\ Len(SubSeq(G, 1, x)) = x
         /\ \A k \in 1..x : SubSeq(G, 1, x)[k] = G[k]
OBVIOUS

LEMMA LandableTaken ==
  ASSUME NEW from \in Nat, NEW to \in Nat, NEW all \in BOOLEAN,
         GroupsOf(Numbered(from, to), master, from, to, {Zero})
  PROVE  \E x : Taken(LandableCommits(from, to, all), Numbered(from, to), x, from, all)
<1> DEFINE N    == Numbered(from, to)
           n    == Len(N)
           ends == {k \in DOMAIN N : StopsAt(N[k], all)}
           P    == IF ends = {} THEN N ELSE SubSeq(N, 1, Min(ends) - 1)
           raises == ends # {} /\ (all \/ N[Min(ends)].pr = NoPr)
           c    == LandableCommits(from, to, all)
<1>1. N \in Seq(Group) /\ n \in Nat /\ DOMAIN N = 1..n
  BY DEF GroupsOf
<1>2. c = IF raises THEN [outcome |-> "raised", taken |-> <<>>, head |-> from]
          ELSE IF P = <<>> THEN [outcome |-> "nothing", taken |-> <<>>, head |-> from]
          ELSE [outcome |-> "landing", taken |-> P, head |-> Last(Last(P).commits)]
  BY DEF LandableCommits, StopsAt
<1> HIDE DEF N, c
<1>3. ends # {} => /\ Min(ends) \in 1..n /\ StopsAt(N[Min(ends)], all)
                   /\ \A k \in 1..n : k < Min(ends) => ~StopsAt(N[k], all)
  <2>1. ASSUME ends # {} PROVE Min(ends) \in ends /\ \A k \in ends : Min(ends) <= k
    <3>1. ends \subseteq 0..n
      BY <1>1
    <3> HIDE DEF ends
    <3>2. QED
      BY <1>1, <2>1, <3>1, LeastIs
  <2>2. ASSUME ends # {} PROVE Min(ends) \in 1..n /\ StopsAt(N[Min(ends)], all)
    BY <1>1, <2>1, <2>2
  <2>3. ASSUME ends # {}, NEW k \in 1..n, k < Min(ends) PROVE ~StopsAt(N[k], all)
    <3>1. Min(ends) \in 1..n /\ \A j \in ends : Min(ends) <= j
      BY <2>1, <2>2, <2>3
    <3>2. ~(Min(ends) <= k)
      BY <2>3, <3>1
    <3>3. k \notin ends
      BY <3>1, <3>2
    <3>4. QED
      BY <1>1, <3>3
  <2>4. QED
    BY <2>2, <2>3
<1> DEFINE x == IF ends = {} THEN n ELSE Min(ends) - 1
<1>4. x \in 0..n /\ P \in Seq(Group) /\ Len(P) = x /\ \A k \in 1..x : P[k] = N[k] /\ ~StopsAt(N[k], all)
  <2>1. CASE ends = {}
    <3>1. \A k \in 1..n : ~StopsAt(N[k], all)
      BY <1>1, <2>1
    <3>2. QED
      BY <1>1, <2>1, <3>1
  <2>2. CASE ends # {}
    <3>1. x \in 0..n /\ \A k \in 1..x : k \in 1..n /\ k < Min(ends)
      <4>1. Min(ends) \in 1..n /\ x = Min(ends) - 1
        BY <1>3, <2>2
      <4> HIDE DEF ends, x
      <4>2. QED
        BY <1>1, <4>1
    <3>2. P = SubSeq(N, 1, x)
      BY <2>2
    <3> HIDE DEF ends, x, P
    <3>3. P \in Seq(Group) /\ Len(P) = x /\ \A k \in 1..x : P[k] = N[k]
      BY <1>1, <3>1, <3>2, PrefixIs
    <3>4. QED
      BY <1>3, <2>2, <3>1, <3>3
  <2>3. QED
    BY <2>1, <2>2
<1>5. x < n => StopsAt(N[x + 1], all) /\ (~raises /\ ~all => N[x + 1].pr # NoPr)
  <2>1. ASSUME x < n PROVE ends # {} /\ x + 1 = Min(ends)
    BY <1>1, <1>3, <2>1
  <2>2. QED
    BY <1>3, <2>1
<1>6. raises => \E k \in 1..n : StopsAt(N[k], all)
  BY <1>3
<1> HIDE DEF ends, x, P, raises
<1>7. CASE raises
  <2>1. c.outcome = "raised" /\ c.taken = <<>> /\ c.head = from
    BY <1>2, <1>7
  <2>2. 0 \in 0..n /\ c.taken \in Seq(Group) /\ Len(c.taken) = 0 /\ 1..0 = {}
    BY <1>1, <2>1
  <2>3. Taken(c, N, 0, from, all)
    BY <1>7, <1>6, <2>1, <2>2 DEF Taken
  <2>4. QED
    BY <2>3 DEF N, c
<1>8. CASE ~raises /\ P = <<>>
  <2>1. c.outcome = "nothing" /\ c.taken = <<>> /\ c.head = from
    BY <1>2, <1>8
  <2>2. x = 0 /\ 0 \in 0..n /\ c.taken \in Seq(Group) /\ Len(c.taken) = 0 /\ 1..0 = {}
    BY <1>1, <1>4, <1>8, <2>1
  <2>3. Taken(c, N, 0, from, all)
    BY <1>5, <1>8, <2>1, <2>2 DEF Taken
  <2>4. QED
    BY <2>3 DEF N, c
<1>9. CASE ~raises /\ P # <<>>
  <2>1. c.outcome = "landing" /\ c.taken = P /\ c.head = Last(Last(P).commits)
    BY <1>2, <1>9
  <2>2. x > 0
    BY <1>4, <1>9
  <2>3. x \in 1..x /\ Last(P) = N[x]
    BY <1>1, <1>4, <2>2 DEF Last
  <2>4. c.head = LastOf(N[x])
    BY <2>1, <2>3 DEF LastOf
  <2>5. Taken(c, N, x, from, all)
    BY <1>1, <1>4, <1>5, <1>9, <2>1, <2>2, <2>4 DEF Taken
  <2>6. QED
    BY <2>5 DEF N, c
<1>10. QED
  BY <1>7, <1>8, <1>9

-----------------------------------------------------------------------------
\* The types of the commits of upstream and of PRs.
MasterTypes ==
  /\ master \in Seq(Prs) /\ Len(master) <= MaxCommits
  /\ base \in 0..Len(master)
  /\ status \in [PR -> SyncKinds \cup {"no_sync"}]

LEMMA MasterGroups ==
  ASSUME MasterTypes, NEW to \in Nat, to <= Len(master)
  PROVE  /\ base \in Nat /\ Len(master) \in Nat
         /\ base <= to => /\ GroupsOf(Numbered(base, to), master, base, to, {Zero})
                          /\ GroupsOf(Groups(base, to), master, base, to, {})
<1>1. base \in Nat /\ Len(master) \in Nat /\ \A i \in (base + 1)..to : master[i] \in Prs
  BY DEF MasterTypes
<1>2. QED
  BY <1>1, NumberedAre, GroupsAre

\* Whole PRs land.
LEMMA TakesWholePrs ==
  ASSUME MasterTypes
  PROVE  WholePrs
<1> DEFINE to == Len(master)
           N  == Numbered(base, to)
<1>1. base \in Nat /\ to \in Nat /\ base <= to /\ GroupsOf(N, master, base, to, {Zero})
  <2>1. Len(master) \in Nat /\ Len(master) <= Len(master) /\ base <= Len(master)
    BY DEF MasterTypes
  <2>2. QED
    BY <2>1, MasterGroups
<1> SUFFICES ASSUME NEW all \in BOOLEAN,
                    NEW g \in DOMAIN LandableCommits(base, to, all).taken,
                    NEW i \in base + 1 .. Len(master),
                    master[i] = LandableCommits(base, to, all).taken[g].pr
             PROVE  i <= LandableCommits(base, to, all).head
  BY DEF WholePrs
<1> DEFINE l == LandableCommits(base, to, all)
<1>2. PICK x : Taken(l, N, x, base, all)
  BY <1>1, LandableTaken
<1> HIDE DEF l, N, to
<1>3. x \in Nat /\ g \in 1..x /\ x > 0 /\ g \in 1..Len(N) /\ x \in 1..Len(N) /\ N \in Seq(Group)
  BY <1>1, <1>2 DEF Taken, GroupsOf, l
<1>4. master[i] = N[g].pr /\ ~StopsAt(N[g], all) /\ l.head = LastOf(N[x])
  BY <1>2, <1>3 DEF Taken, l
<1>5. N[g] \in Group /\ N[x] \in Group
  BY <1>3
<1>6. IsGroup(N[g], master, base, to, {Zero}) /\ IsGroup(N[x], master, base, to, {Zero})
  BY <1>1, <1>3 DEF GroupsOf
<1>7. N[g].pr \in PR
  BY <1>4, <1>5, <1>6 DEF StopsAt, IsGroup, Group, Prs
<1>8. master[i] \notin {Zero}
  BY <1>4, <1>6 DEF IsGroup
<1>9. PICK k \in 1..Len(N) : i \in Within(N[k])
  BY <1>1, <1>8 DEF GroupsOf, to
<1>10. k = g
  <2>1. IsGroup(N[k], master, base, to, {Zero})
    BY <1>1 DEF GroupsOf
  <2>2. N[k].pr = N[g].pr
    BY <1>4, <1>9, <2>1 DEF IsGroup
  <2>3. QED
    BY <1>1, <1>3, <1>7, <2>2 DEF GroupsOf
<1>11. i <= LastOf(N[g])
  BY <1>1, <1>5, <1>6, <1>9, <1>10, GroupFacts
<1>12. LastOf(N[g]) \in Nat /\ LastOf(N[x]) \in Nat
  BY <1>1, <1>5, <1>6, GroupFacts
<1>13. g < x => LastOf(N[g]) < LastOf(N[x])
  BY <1>1, <1>3 DEF GroupsOf
<1>14. g = x \/ g < x
  BY <1>3
<1>15. QED
  BY <1>4, <1>11, <1>12, <1>13, <1>14 DEF l

\* No PR has commits on both sides of a commit of another in the range.
Alone(m, from, to) ==
  \A i, j, k \in DOMAIN m :
    /\ i < j /\ j < k /\ from < j /\ j <= to
    /\ m[i] = m[k] /\ m[i] \in PR
    => m[j] = m[i]

\* Of two groups of which one begins before the other ends, it is the one that ends first.
LEMMA Apart ==
  ASSUME NEW from \in Nat, NEW to \in Nat, NEW h \in Nat, Alone(master, from, h), NEW G, NEW skip,
         GroupsOf(G, master, from, to, skip), 1..to \subseteq DOMAIN master,
         NEW k \in 1..Len(G), NEW j \in 1..Len(G), j # k, LastOf(G[j]) <= h,
         NEW i \in Within(G[k]), i <= LastOf(G[j])
  PROVE  LastOf(G[k]) < LastOf(G[j])
<1>1. G[k] \in Group /\ G[j] \in Group /\ Len(G) \in Nat
  BY DEF GroupsOf
<1>2. IsGroup(G[k], master, from, to, skip) /\ IsGroup(G[j], master, from, to, skip)
  BY DEF GroupsOf
<1> DEFINE a == LastOf(G[k])
           b == LastOf(G[j])
<1>3. /\ a \in Within(G[k]) /\ b \in Within(G[j]) /\ a \in Nat /\ b \in Nat /\ i \in Nat
      /\ i <= a
      /\ Within(G[k]) \subseteq (from + 1)..to /\ Within(G[j]) \subseteq (from + 1)..to
      /\ G[k].pr \notin PR => i = a
  BY <1>1, <1>2, GroupFacts
<1>4. a # b
  <2>1. k < j \/ j < k
    BY <1>1
  <2>2. a < b \/ b < a
    BY <2>1 DEF GroupsOf
  <2>3. QED
    BY <1>3, <2>2
<1>5. master[i] = G[k].pr /\ master[a] = G[k].pr /\ master[b] = G[j].pr
  BY <1>2, <1>3 DEF IsGroup
<1>6. from < b /\ b <= h
  BY <1>3
<1> HIDE DEF a, b
<1>7. ASSUME b < a PROVE FALSE
  <2>1. i # b
    <3>1. ASSUME i = b PROVE FALSE
      <4>1. G[k].pr = G[j].pr
        BY <1>5, <3>1
      <4>2. G[k].pr \notin PR
        BY <4>1 DEF GroupsOf
      <4>3. QED
        BY <1>3, <1>7, <3>1, <4>2
    <3>2. QED
      BY <3>1
  <2>2. i < b
    BY <1>3, <2>1 DEF b
  <2>3. i # a /\ G[k].pr \in PR
    BY <1>3, <1>7, <2>2
  <2>4. i \in DOMAIN master /\ a \in DOMAIN master /\ b \in DOMAIN master
    <3>1. i \in 1..to /\ a \in 1..to /\ b \in 1..to
      BY <1>3
    <3>2. QED
      BY <3>1
  <2>5. master[b] = master[i]
    BY <1>5, <1>7, <1>6, <2>2, <2>3, <2>4 DEF Alone
  <2>6. G[k].pr = G[j].pr
    BY <1>5, <2>5
  <2>7. QED
    BY <2>3, <2>6 DEF GroupsOf
<1>8. QED
  BY <1>3, <1>4, <1>7 DEF a, b

\* All that can land lands, and nothing else.
LEMMA TakesWhatCanLand ==
  ASSUME MasterTypes
  PROVE  LandsAll
<1> DEFINE to    == Len(master)
           N     == Numbered(base, to)
           l     == LandableCommits(base, to, FALSE)
           after == {i \in l.head + 1 .. Len(master) : master[i] # Zero}
<1>1. /\ base \in Nat /\ to \in Nat /\ base <= to
      /\ GroupsOf(N, master, base, to, {Zero}) /\ GroupsOf(Groups(base, to), master, base, to, {})
  <2>1. Len(master) \in Nat /\ Len(master) <= Len(master) /\ base <= Len(master)
    BY DEF MasterTypes
  <2>2. QED
    BY <2>1, MasterGroups
<1> SUFFICES ASSUME Contiguous, l.outcome # "raised"
             PROVE  /\ \A i \in base + 1 .. l.head : master[i] = Zero \/ Landable(master[i])
                    /\ after # {} => ~Landable(master[Min(after)]) /\ master[Min(after)] \in Retriggerable
  BY DEF LandsAll
<1>2. PICK x : Taken(l, N, x, base, FALSE)
  BY <1>1, LandableTaken
<1>3. 1..to \subseteq DOMAIN master
  BY DEF MasterTypes
<1>4. to = Len(master)
  OBVIOUS
<1>5. l.outcome # "raised" /\ Alone(master, base, to)
  BY DEF Contiguous, Alone
<1> HIDE DEF l, N, to
<1>6. /\ N \in Seq(Group) /\ Len(N) \in Nat /\ x \in 0..Len(N)
      /\ \A k \in 1..Len(N) : /\ N[k] \in Group
                              /\ IsGroup(N[k], master, base, to, {Zero})
  <2>1. N \in Seq(Group) /\ Len(N) \in Nat /\ x \in 0..Len(N)
    BY <1>1, <1>2 DEF GroupsOf, Taken
  <2>2. \A k \in 1..Len(N) : IsGroup(N[k], master, base, to, {Zero})
    BY <1>1 DEF GroupsOf
  <2>3. \A k \in 1..Len(N) : N[k] \in Group
    BY <2>1
  <2>4. QED
    BY <2>1, <2>2, <2>3
<1>7. \A k \in 1..Len(N) :
        /\ LastOf(N[k]) \in (base + 1)..to /\ LastOf(N[k]) \in Within(N[k])
        /\ \A i \in Within(N[k]) : i \in (base + 1)..to /\ i <= LastOf(N[k]) /\ master[i] = N[k].pr
  <2>1. ASSUME NEW k \in 1..Len(N)
        PROVE  /\ LastOf(N[k]) \in (base + 1)..to /\ LastOf(N[k]) \in Within(N[k])
               /\ \A i \in Within(N[k]) : i \in (base + 1)..to /\ i <= LastOf(N[k]) /\ master[i] = N[k].pr
    <3>1. N[k] \in Group /\ IsGroup(N[k], master, base, to, {Zero})
      BY <1>6
    <3>2. /\ LastOf(N[k]) \in Within(N[k]) /\ Within(N[k]) \subseteq (base + 1)..to
          /\ \A i \in Within(N[k]) : i <= LastOf(N[k])
      BY <1>1, <3>1, GroupFacts
    <3>3. \A i \in Within(N[k]) : master[i] = N[k].pr
      BY <3>1 DEF IsGroup
    <3>4. QED
      BY <3>2, <3>3
  <2>2. QED
    BY <2>1
<1>8. l.head \in Nat /\ l.head \in base..to
  <2>1. CASE x = 0
    BY <1>1, <1>2, <2>1 DEF Taken
  <2>2. CASE x # 0
    <3>1. x \in 1..Len(N) /\ x > 0
      BY <1>6, <2>2
    <3>2. l.head = LastOf(N[x]) /\ LastOf(N[x]) \in (base + 1)..to
      BY <1>2, <1>7, <3>1 DEF Taken
    <3>3. QED
      BY <1>1, <3>2
  <2>3. QED
    BY <2>1, <2>2
\* The groups behind those that are taken end behind the head.
<1>9. ASSUME NEW k \in 1..Len(N), ~(k <= x) PROVE l.head < LastOf(N[k])
  <2>1. CASE x = 0
    BY <1>1, <1>2, <1>7, <2>1 DEF Taken
  <2>2. CASE x # 0
    <3>1. x \in 1..Len(N) /\ x > 0 /\ x < k
      BY <1>6, <1>9, <2>2
    <3>2. l.head = LastOf(N[x])
      BY <1>2, <3>1 DEF Taken
    <3>3. LastOf(N[x]) < LastOf(N[k])
      BY <1>1, <3>1 DEF GroupsOf
    <3>4. QED
      BY <3>2, <3>3
  <2>3. QED
    BY <2>1, <2>2
<1>10. ASSUME NEW i \in base + 1 .. l.head, master[i] # Zero PROVE Landable(master[i])
  <2>1. i \in (base + 1)..to
    BY <1>1, <1>8
  <2>2. PICK k \in 1..Len(N) : i \in Within(N[k])
    BY <1>1, <1>10, <2>1 DEF GroupsOf
  <2>3. ASSUME ~(k <= x) PROVE FALSE
    <3>1. x # 0
      BY <1>1, <1>2 DEF Taken
    <3>2. x \in 1..Len(N) /\ x > 0 /\ k # x
      BY <1>6, <2>3, <3>1
    <3>3. l.head = LastOf(N[x]) /\ i <= LastOf(N[x])
      BY <1>2, <1>8, <3>2 DEF Taken
    <3>4. LastOf(N[x]) <= to /\ to \in Nat
      BY <1>1, <1>7, <3>2
    <3>5. LastOf(N[k]) < LastOf(N[x])
      BY <1>1, <1>3, <1>5, <2>2, <3>2, <3>3, <3>4, Apart
    <3>6. l.head < LastOf(N[k])
      BY <1>9, <2>3
    <3>7. LastOf(N[k]) \in Nat /\ LastOf(N[x]) \in Nat
      BY <1>1, <1>7, <3>2
    <3>8. QED
      BY <1>8, <3>3, <3>5, <3>6, <3>7
  <2>4. k \in 1..x
    BY <1>6, <2>3
  <2>5. ~StopsAt(N[k], FALSE)
    BY <1>2, <2>4 DEF Taken
  <2>6. master[i] = N[k].pr
    BY <1>7, <2>2
  <2>7. QED
    BY <2>5, <2>6 DEF StopsAt
<1>11. ASSUME after # {}
       PROVE  ~Landable(master[Min(after)]) /\ master[Min(after)] \in Retriggerable
  <2>1. after \subseteq 0..to
    BY <1>4, <1>8
  <2>2. Min(after) \in after /\ \A i \in after : Min(after) <= i
    <3> HIDE DEF after
    <3>1. QED
      BY <1>1, <1>11, <2>1, LeastIs
  <2> DEFINE m == Min(after)
  <2>3. m \in (l.head + 1)..to /\ m \in (base + 1)..to /\ master[m] # Zero
    <3>1. \A i \in after : i \in (l.head + 1)..to /\ i \in (base + 1)..to /\ master[i] # Zero
      BY <1>1, <1>4, <1>8
    <3> HIDE DEF after
    <3>2. QED
      BY <2>2, <3>1
  <2> HIDE DEF m
  <2>4. PICK k \in 1..Len(N) : m \in Within(N[k])
    BY <1>1, <2>3 DEF GroupsOf
  <2>5. master[m] = N[k].pr /\ m <= LastOf(N[k])
    BY <1>7, <2>4
  <2>6. ~(k <= x)
    <3>1. ASSUME k <= x PROVE FALSE
      <4>1. x \in 1..Len(N) /\ x > 0 /\ (k = x \/ k < x)
        BY <1>6, <3>1
      <4>2. l.head = LastOf(N[x])
        BY <1>2, <4>1 DEF Taken
      <4>3. k < x => LastOf(N[k]) < LastOf(N[x])
        BY <1>1, <4>1 DEF GroupsOf
      <4>4. LastOf(N[k]) \in Nat /\ LastOf(N[x]) \in Nat
        BY <1>1, <1>7, <4>1
      <4>5. LastOf(N[k]) <= l.head
        BY <4>1, <4>2, <4>3, <4>4
      <4>6. QED
        BY <1>8, <2>3, <2>5, <4>4, <4>5
    <3>2. QED
      BY <3>1
  <2>7. x + 1 \in 1..Len(N) /\ x < Len(N) /\ x + 1 <= k /\ ~(x + 1 <= x)
    BY <1>6, <2>6
  <2>8. k = x + 1
    <3>1. ASSUME k # x + 1 PROVE FALSE
      <4> DEFINE e == LastOf(N[x + 1])
      <4>1. l.head < e /\ e \in (base + 1)..to /\ e \in Within(N[x + 1])
        BY <1>7, <1>9, <2>7
      <4>2. master[e] # Zero
        BY <1>6, <1>7, <2>7 DEF IsGroup
      <4>3. e \in after
        BY <1>1, <1>4, <1>8, <4>1, <4>2
      <4>4. m <= e
        BY <2>2, <4>3 DEF m
      <4>5. LastOf(N[k]) < e
        <5>1. e <= to /\ to \in Nat /\ k # x + 1
          BY <1>1, <3>1, <4>1
        <5>2. QED
          BY <1>1, <1>3, <1>5, <2>4, <2>7, <4>4, <5>1, Apart
      <4>6. x + 1 < k
        BY <2>7, <3>1
      <4>7. e < LastOf(N[k])
        BY <1>1, <2>7, <4>6 DEF GroupsOf
      <4>8. LastOf(N[k]) \in Nat /\ e \in Nat
        BY <1>1, <1>7, <2>7
      <4>9. QED
        BY <4>5, <4>7, <4>8
    <3>2. QED
      BY <3>1
  <2>9. StopsAt(N[k], FALSE) /\ N[k].pr # NoPr
    BY <1>2, <1>5, <2>7, <2>8 DEF Taken
  <2>10. ~Landable(N[k].pr)
    BY <2>9 DEF StopsAt
  <2>11. N[k].pr \in PR
    BY <1>6, <2>5, <2>3, <2>9 DEF Group, Prs
  <2>12. PICK g \in 1..Len(Groups(base, to)) : m \in Within(Groups(base, to)[g])
    BY <1>1, <2>3 DEF GroupsOf
  <2>13. master[m] = Groups(base, to)[g].pr
    BY <1>1, <2>12 DEF GroupsOf, IsGroup
  <2>14. Groups(base, to)[g] \in ToSet(Groups(base, to))
    BY <1>1 DEF GroupsOf, ToSet
  <2>15. master[m] \in Retriggerable
    BY <1>4, <2>5, <2>9, <2>10, <2>13, <2>14 DEF Retriggerable
  <2>16. QED
    BY <2>5, <2>10, <2>15 DEF m
<1>12. QED
  BY <1>10, <1>11

-----------------------------------------------------------------------------
(* Two increasing enumerations of a set are one. *)

Rising(f, m) == /\ m \in Nat /\ DOMAIN f = 1..m
                /\ \A a \in 1..m : f[a] \in Nat
                /\ \A a, b \in 1..m : a < b => f[a] < f[b]

LEMMA RisesAsFar ==
  ASSUME NEW f, NEW g, NEW m, NEW n, Rising(f, m), Rising(g, n),
         \A a \in 1..m : \E b \in 1..n : f[a] = g[b],
         \A b \in 1..n : \E a \in 1..m : g[b] = f[a]
  PROVE  m <= n /\ \A a \in 1..m : f[a] = g[a]
<1> DEFINE S == {k \in 0..m : k <= n /\ \A a \in 1..k : f[a] = g[a]}
<1>1. m \in Nat /\ n \in Nat
  BY DEF Rising
<1>2. 0 \in S
  BY <1>1
<1>3. ASSUME NEW k \in 0..(m - 1), k \in S PROVE k + 1 \in S
  <2>1. k \in Nat /\ k <= n /\ k + 1 \in 1..m /\ \A a \in 1..k : f[a] = g[a] /\ a \in 1..m /\ a \in 1..n
    BY <1>1, <1>3
  <2>2. PICK b \in 1..n : f[k + 1] = g[b]
    BY <2>1
  <2>3. ~(b <= k)
    <3>1. ASSUME b <= k PROVE FALSE
      <4>1. b \in 1..k /\ b \in 1..m /\ b < k + 1
        BY <1>1, <2>1, <3>1
      <4>2. f[b] < f[k + 1] /\ f[b] = f[k + 1] /\ f[b] \in Nat
        BY <2>1, <2>2, <4>1 DEF Rising
      <4>3. QED
        BY <4>2
    <3>2. QED
      BY <3>1
  <2>4. k + 1 \in 1..n /\ (b = k + 1 \/ k + 1 < b)
    BY <1>1, <2>1, <2>3
  <2>5. PICK a \in 1..m : g[k + 1] = f[a]
    BY <2>4
  <2>6. ~(a <= k)
    <3>1. ASSUME a <= k PROVE FALSE
      <4>1. a \in 1..k /\ a \in 1..n /\ a < k + 1
        BY <1>1, <2>1, <3>1
      <4>2. g[a] < g[k + 1] /\ g[a] = g[k + 1] /\ g[a] \in Nat
        BY <2>1, <2>4, <2>5, <4>1 DEF Rising
      <4>3. QED
        BY <4>2
    <3>2. QED
      BY <3>1
  <2>7. a = k + 1 \/ k + 1 < a
    BY <1>1, <2>1, <2>6
  <2>8. f[k + 1] = g[k + 1]
    <3>1. /\ f[k + 1] \in Nat /\ g[k + 1] \in Nat
          /\ k + 1 < b => g[k + 1] < g[b]
          /\ k + 1 < a => f[k + 1] < f[a]
      BY <2>1, <2>4 DEF Rising
    <3>2. QED
      BY <2>2, <2>4, <2>5, <2>7, <3>1
  <2>9. \A c \in 1..(k + 1) : c \in 1..k \/ c = k + 1
    BY <2>1
  <2>10. k + 1 \in 0..m /\ k + 1 <= n
    BY <1>1, <2>1, <2>4
  <2>11. QED
    BY <2>1, <2>8, <2>9, <2>10
<1>4. m \in S
  <2> HIDE DEF S
  <2>1. 0..m \subseteq S
    BY <1>1, <1>2, <1>3, UpTo
  <2>2. QED
    BY <1>1, <2>1
<1>5. QED
  BY <1>4

Among(f, m, g, n) == \A a \in 1..m : \E b \in 1..n : f[a] = g[b]

LEMMA RisesOneWay ==
  ASSUME NEW f, NEW g, NEW m, NEW n, Rising(f, m), Rising(g, n), Among(f, m, g, n), Among(g, n, f, m)
  PROVE  m = n /\ \A a \in 1..m : f[a] = g[a]
<1>1. m <= n /\ \A a \in 1..m : f[a] = g[a]
  BY RisesAsFar DEF Among
<1>2. n <= m
  BY RisesAsFar DEF Among
<1>3. m \in Nat /\ n \in Nat
  BY DEF Rising
<1>4. QED
  BY <1>1, <1>2, <1>3

LEMMA SameRise ==
  ASSUME NEW c \in Seq(Nat), NEW d \in Seq(Nat), Rising(c, Len(c)), Rising(d, Len(d)),
         {c[x] : x \in 1..Len(c)} = {d[x] : x \in 1..Len(d)}
  PROVE  c = d
<1> DEFINE m == Len(c)
           n == Len(d)
<1>1. Among(c, m, d, n)
  BY DEF Among
<1>2. Among(d, n, c, m)
  BY DEF Among
<1>3. Rising(c, m) /\ Rising(d, n)
  OBVIOUS
<1> HIDE DEF m, n
<1>4. m = n /\ \A x \in 1..m : c[x] = d[x]
  BY <1>1, <1>2, <1>3, RisesOneWay
<1>5. QED
  BY <1>4 DEF m, n

\* There is one way to group commits.
LEMMA OneGrouping ==
  ASSUME NEW from \in Nat, NEW to \in Nat, NEW skip, NEW m, NEW k,
         NEW A, GroupsOf(A, m, from, to, skip),
         NEW B, GroupsOf(B, k, from, to, skip),
         \A i \in (from + 1)..to : m[i] = k[i]
  PROVE  A = B
<1> DEFINE na == Len(A)
           nb == Len(B)
           fa == [a \in 1..na |-> LastOf(A[a])]
           fb == [b \in 1..nb |-> LastOf(B[b])]
<1>1. /\ A \in Seq(Group) /\ B \in Seq(Group) /\ na \in Nat /\ nb \in Nat
      /\ DOMAIN A = 1..na /\ DOMAIN B = 1..nb
      /\ \A a \in 1..na : A[a] \in Group
      /\ \A b \in 1..nb : B[b] \in Group
  BY DEF GroupsOf
<1>2. \A a \in 1..na : IsGroup(A[a], m, from, to, skip)
  BY DEF GroupsOf
<1>3. \A b \in 1..nb : IsGroup(B[b], m, from, to, skip)
  <2>1. ASSUME NEW b \in 1..nb PROVE IsGroup(B[b], m, from, to, skip)
    <3>1. IsGroup(B[b], k, from, to, skip)
      BY DEF GroupsOf
    <3>2. Within(B[b]) \subseteq (from + 1)..to
      BY <3>1 DEF IsGroup
    <3>3. \A i \in Within(B[b]) : m[i] = B[b].pr
      BY <3>1, <3>2 DEF IsGroup
    <3>4. QED
      BY <3>1, <3>3 DEF IsGroup
  <2>2. QED
    BY <2>1
<1> HIDE DEF na, nb
\* Two groups that share a commit have the same commits.
<1>4. ASSUME NEW a \in 1..na, NEW b \in 1..nb, NEW i \in Within(A[a]), i \in Within(B[b])
      PROVE  A[a].pr = B[b].pr /\ Within(A[a]) = Within(B[b])
  <2>1. /\ A[a] \in Group /\ B[b] \in Group
        /\ IsGroup(A[a], m, from, to, skip) /\ IsGroup(B[b], m, from, to, skip)
    BY <1>1, <1>2, <1>3
  <2>2. A[a].pr = B[b].pr
    BY <1>4, <2>1 DEF IsGroup
  <2>3. CASE A[a].pr \notin PR
    BY <1>4, <2>1, <2>2, <2>3, GroupFacts
  <2>4. CASE A[a].pr \in PR
    <3>1. A[a].pr \notin skip
      BY <2>1 DEF IsGroup
    <3>2. ASSUME NEW j \in Within(A[a]) PROVE j \in Within(B[b])
      <4>1. j \in (from + 1)..to /\ m[j] = A[a].pr
        BY <2>1 DEF IsGroup
      <4>2. k[j] \notin skip
        BY <3>1, <4>1
      <4>3. PICK c \in 1..nb : j \in Within(B[c])
        BY <4>1, <4>2 DEF GroupsOf, nb
      <4>4. B[c].pr = m[j]
        BY <1>3, <4>3 DEF IsGroup
      <4>5. c = b
        BY <2>2, <2>4, <4>1, <4>4 DEF GroupsOf, nb
      <4>6. QED
        BY <4>3, <4>5
    <3>3. ASSUME NEW j \in Within(B[b]) PROVE j \in Within(A[a])
      <4>1. j \in (from + 1)..to /\ m[j] = A[a].pr
        BY <2>1, <2>2 DEF IsGroup
      <4>2. m[j] \notin skip
        BY <3>1, <4>1
      <4>3. PICK c \in 1..na : j \in Within(A[c])
        BY <4>1, <4>2 DEF GroupsOf, na
      <4>4. A[c].pr = m[j]
        BY <1>2, <4>3 DEF IsGroup
      <4>5. c = a
        BY <2>4, <4>1, <4>4 DEF GroupsOf, na
      <4>6. QED
        BY <4>3, <4>5
    <3>4. QED
      BY <2>2, <3>2, <3>3
  <2>5. QED
    BY <2>3, <2>4
<1>5. ASSUME NEW a \in 1..na PROVE \E b \in 1..nb : LastOf(A[a]) \in Within(B[b])
  <2>1. A[a] \in Group /\ IsGroup(A[a], m, from, to, skip)
    BY <1>1, <1>2
  <2>2. LastOf(A[a]) \in Within(A[a]) /\ Within(A[a]) \subseteq (from + 1)..to
    BY <2>1, GroupFacts
  <2>3. LastOf(A[a]) \in (from + 1)..to /\ m[LastOf(A[a])] \notin skip
    BY <2>1, <2>2 DEF IsGroup
  <2>4. k[LastOf(A[a])] \notin skip
    BY <2>3
  <2>5. QED
    BY <2>3, <2>4 DEF GroupsOf, nb
<1>6. ASSUME NEW b \in 1..nb PROVE \E a \in 1..na : LastOf(B[b]) \in Within(A[a])
  <2>1. B[b] \in Group /\ IsGroup(B[b], m, from, to, skip)
    BY <1>1, <1>3
  <2>2. LastOf(B[b]) \in Within(B[b]) /\ Within(B[b]) \subseteq (from + 1)..to
    BY <2>1, GroupFacts
  <2>3. LastOf(B[b]) \in (from + 1)..to /\ m[LastOf(B[b])] \notin skip
    BY <2>1, <2>2 DEF IsGroup
  <2>4. QED
    BY <2>3 DEF GroupsOf, na
<1>7. ASSUME NEW a \in 1..na, NEW b \in 1..nb, Within(A[a]) = Within(B[b])
      PROVE  LastOf(A[a]) = LastOf(B[b])
  <2>1. /\ A[a] \in Group /\ B[b] \in Group
        /\ IsGroup(A[a], m, from, to, skip) /\ IsGroup(B[b], m, from, to, skip)
    BY <1>1, <1>2, <1>3
  <2>2. /\ LastOf(A[a]) \in Within(A[a]) /\ \A i \in Within(A[a]) : i <= LastOf(A[a])
        /\ LastOf(A[a]) \in Nat
    BY <2>1, GroupFacts
  <2>3. /\ LastOf(B[b]) \in Within(B[b]) /\ \A i \in Within(B[b]) : i <= LastOf(B[b])
        /\ LastOf(B[b]) \in Nat
    BY <2>1, GroupFacts
  <2>4. QED
    BY <1>7, <2>2, <2>3
<1>8. Rising(fa, na)
  <2>1. ASSUME NEW a \in 1..na PROVE LastOf(A[a]) \in Nat
    <3>1. A[a] \in Group /\ IsGroup(A[a], m, from, to, skip)
      BY <1>1, <1>2
    <3>2. QED
      BY <3>1, GroupFacts
  <2>2. \A a, b \in 1..na : a < b => LastOf(A[a]) < LastOf(A[b])
    BY DEF GroupsOf, na
  <2>3. QED
    BY <1>1, <2>1, <2>2 DEF Rising
<1>9. Rising(fb, nb)
  <2>1. ASSUME NEW b \in 1..nb PROVE LastOf(B[b]) \in Nat
    <3>1. B[b] \in Group /\ IsGroup(B[b], m, from, to, skip)
      BY <1>1, <1>3
    <3>2. QED
      BY <3>1, GroupFacts
  <2>2. \A a, b \in 1..nb : a < b => LastOf(B[a]) < LastOf(B[b])
    BY DEF GroupsOf, nb
  <2>3. QED
    BY <1>1, <2>1, <2>2 DEF Rising
<1>10. ASSUME NEW a \in 1..na PROVE \E b \in 1..nb : fa[a] = fb[b]
  <2>1. PICK b \in 1..nb : LastOf(A[a]) \in Within(B[b])
    BY <1>5
  <2>2. LastOf(A[a]) \in Within(A[a])
    <3>1. A[a] \in Group /\ IsGroup(A[a], m, from, to, skip)
      BY <1>1, <1>2
    <3>2. QED
      BY <3>1, GroupFacts
  <2>3. LastOf(A[a]) = LastOf(B[b])
    BY <1>4, <1>7, <2>1, <2>2
  <2>4. QED
    BY <2>3
<1>11. ASSUME NEW b \in 1..nb PROVE \E a \in 1..na : fb[b] = fa[a]
  <2>1. PICK a \in 1..na : LastOf(B[b]) \in Within(A[a])
    BY <1>6
  <2>2. LastOf(B[b]) \in Within(B[b])
    <3>1. B[b] \in Group /\ IsGroup(B[b], m, from, to, skip)
      BY <1>1, <1>3
    <3>2. QED
      BY <3>1, GroupFacts
  <2>3. LastOf(A[a]) = LastOf(B[b])
    BY <1>4, <1>7, <2>1, <2>2
  <2>4. QED
    BY <2>3
<1>12. na = nb /\ \A a \in 1..na : fa[a] = fb[a]
  <2> HIDE DEF fa, fb
  <2>1. Among(fa, na, fb, nb) /\ Among(fb, nb, fa, na)
    BY <1>10, <1>11 DEF Among
  <2>2. QED
    BY <1>8, <1>9, <2>1, RisesOneWay
<1>13. ASSUME NEW a \in 1..na PROVE A[a] = B[a]
  <2>1. a \in 1..nb /\ LastOf(A[a]) = LastOf(B[a])
    BY <1>12
  <2>2. /\ A[a] \in Group /\ B[a] \in Group
        /\ IsGroup(A[a], m, from, to, skip) /\ IsGroup(B[a], m, from, to, skip)
    BY <1>1, <1>2, <1>3, <2>1
  <2>3. LastOf(A[a]) \in Within(A[a])
    BY <2>2, GroupFacts
  <2>4. LastOf(A[a]) \in Within(B[a])
    BY <2>1, <2>2, GroupFacts
  <2>5. A[a].pr = B[a].pr /\ Within(A[a]) = Within(B[a])
    BY <1>4, <2>1, <2>3, <2>4
  <2> DEFINE c == A[a].commits
             d == B[a].commits
  <2>6. c \in Seq(Nat) /\ d \in Seq(Nat)
    BY <2>2 DEF Group
  <2>7. Rising(c, Len(c))
    <3> HIDE DEF c, d
    <3>1. \A x, y \in 1..Len(c) : x < y => c[x] < c[y]
      BY <2>2 DEF IsGroup, c
    <3>2. Len(c) \in Nat /\ DOMAIN c = 1..Len(c) /\ \A x \in 1..Len(c) : c[x] \in Nat
      BY <2>6
    <3>3. QED
      BY <3>1, <3>2 DEF Rising
  <2>8. Rising(d, Len(d))
    <3> HIDE DEF c, d
    <3>1. \A x, y \in 1..Len(d) : x < y => d[x] < d[y]
      BY <2>2 DEF IsGroup, d
    <3>2. Len(d) \in Nat /\ DOMAIN d = 1..Len(d) /\ \A x \in 1..Len(d) : d[x] \in Nat
      BY <2>6
    <3>3. QED
      BY <3>1, <3>2 DEF Rising
  <2>9. {c[x] : x \in 1..Len(c)} = {d[x] : x \in 1..Len(d)}
    BY <2>5 DEF Within
  <2>10. A[a].commits = B[a].commits
    <3> HIDE DEF c, d
    <3>1. c = d
      BY <2>6, <2>7, <2>8, <2>9, SameRise
    <3>2. QED
      BY <3>1 DEF c, d
  <2>11. QED
    BY <2>2, <2>5, <2>10 DEF Group
<1>14. QED
  BY <1>1, <1>12, <1>13

-----------------------------------------------------------------------------
(* Flattening. *)

\* FlattenSeq is a function that is defined by recursion on the index.
Flattens(seqs, n, f) == f = [i \in 1..n |-> IF i = 1 THEN seqs[i] ELSE f[i - 1] \o seqs[i]]

LEMMA FlatIs ==
  ASSUME NEW seqs, NEW n \in Nat, Len(seqs) = n
  PROVE  FlattenSeq(seqs) = IF n = 0 THEN seqs ELSE (CHOOSE f : Flattens(seqs, n, f))[n]
BY DEF FlattenSeq, Flattens

LEMMA FlatExists ==
  ASSUME NEW seqs, NEW n \in Nat
  PROVE  \E f : Flattens(seqs, n, f)
<1> DEFINE S == {k \in Nat : \E f : Flattens(seqs, k, f)}
<1>1. 0 \in S
  <2> DEFINE f == [i \in 1..0 |-> <<>>]
             g == [i \in 1..0 |-> IF i = 1 THEN seqs[i] ELSE f[i - 1] \o seqs[i]]
  <2>1. f = g
    OBVIOUS
  <2>2. Flattens(seqs, 0, f)
    BY <2>1 DEF Flattens
  <2>3. QED
    BY <2>2
<1>2. ASSUME NEW k \in 0..(n - 1), k \in S PROVE k + 1 \in S
  <2>1. k \in Nat
    OBVIOUS
  <2>2. PICK f : Flattens(seqs, k, f)
    BY <1>2
  <2> DEFINE new == IF k + 1 = 1 THEN seqs[k + 1] ELSE f[k] \o seqs[k + 1]
             g == [i \in 1..(k + 1) |-> IF i = k + 1 THEN new ELSE f[i]]
             h == [i \in 1..(k + 1) |-> IF i = 1 THEN seqs[i] ELSE g[i - 1] \o seqs[i]]
  <2>3. ASSUME NEW i \in 1..(k + 1) PROVE g[i] = h[i]
    <3>1. CASE i = k + 1
      <4>1. CASE i = 1
        BY <3>1, <4>1
      <4>2. CASE i # 1
        <5>1. k \in 1..(k + 1) /\ k # k + 1 /\ i - 1 = k
          BY <2>1, <3>1, <4>2
        <5>2. g[i - 1] = f[k]
          BY <5>1
        <5>3. QED
          BY <3>1, <4>2, <5>2
      <4>3. QED
        BY <4>1, <4>2
    <3>2. CASE i # k + 1
      <4>1. i \in 1..k
        BY <2>1, <3>2
      <4>2. f[i] = IF i = 1 THEN seqs[i] ELSE f[i - 1] \o seqs[i]
        BY <2>2, <4>1 DEF Flattens
      <4>3. i # 1 => i - 1 \in 1..(k + 1) /\ i - 1 # k + 1
        BY <4>1
      <4>4. i # 1 => g[i - 1] = f[i - 1]
        BY <4>3
      <4>5. QED
        BY <3>2, <4>2, <4>4
    <3>3. QED
      BY <3>1, <3>2
  <2>4. g = h
    BY <2>3
  <2>5. Flattens(seqs, k + 1, g)
    BY <2>4 DEF Flattens
  <2>6. QED
    BY <2>1, <2>5
<1>3. n \in S
  <2> HIDE DEF S
  <2>1. 0..n \subseteq S
    BY <1>1, <1>2, UpTo
  <2>2. QED
    BY <2>1
<1>4. QED
  BY <1>3

LEMMA FlatNone ==
  ASSUME NEW seqs, Len(seqs) = 0
  PROVE  FlattenSeq(seqs) = seqs
BY DEF FlattenSeq

LEMMA FlatOne ==
  ASSUME NEW seqs, Len(seqs) = 1
  PROVE  FlattenSeq(seqs) = seqs[1]
<1> DEFINE f == CHOOSE g : Flattens(seqs, 1, g)
<1>1. \E g : Flattens(seqs, 1, g)
  BY FlatExists
<1>2. Flattens(seqs, 1, f)
  BY <1>1
<1> HIDE DEF f
<1>3. f[1] = seqs[1]
  BY <1>2 DEF Flattens
<1>4. FlattenSeq(seqs) = f[1]
  <2>1. 1 \in Nat /\ 1 # 0
    OBVIOUS
  <2>2. FlattenSeq(seqs) = (CHOOSE g : Flattens(seqs, 1, g))[1]
    BY <2>1, FlatIs
  <2>3. QED
    BY <2>2 DEF f
<1>5. QED
  BY <1>3, <1>4

LEMMA FlatNext ==
  ASSUME NEW S, NEW n \in Nat, NEW seqs, Len(seqs) = n + 1, \A k \in 1..(n + 1) : seqs[k] \in Seq(S),
         NEW pre, Len(pre) = n, \A k \in 1..n : pre[k] = seqs[k], n = 0 => pre = <<>>
  PROVE  FlattenSeq(seqs) = FlattenSeq(pre) \o seqs[n + 1]
<1>1. CASE n = 0
  <2>1. FlattenSeq(pre) = <<>>
    BY <1>1, FlatNone
  <2>2. FlattenSeq(seqs) = seqs[1]
    BY <1>1, FlatOne
  <2>3. n + 1 = 1 /\ 1 \in 1..(n + 1)
    BY <1>1
  <2>4. seqs[1] \in Seq(S)
    BY <2>3
  <2>5. <<>> \o seqs[1] = seqs[1]
    BY <2>4
  <2>6. QED
    BY <2>1, <2>2, <2>3, <2>5
<1>2. CASE n # 0
  <2> DEFINE f == CHOOSE h : Flattens(seqs, n + 1, h)
             g == CHOOSE h : Flattens(pre, n, h)
  <2>1. Flattens(seqs, n + 1, f) /\ Flattens(pre, n, g)
    <3>1. n + 1 \in Nat
      OBVIOUS
    <3>2. (\E h : Flattens(seqs, n + 1, h)) /\ (\E h : Flattens(pre, n, h))
      BY <3>1, FlatExists
    <3>3. QED
      BY <3>2
  <2>2. FlattenSeq(seqs) = f[n + 1] /\ FlattenSeq(pre) = g[n]
    <3>1. n + 1 \in Nat /\ n + 1 # 0
      OBVIOUS
    <3>2. QED
      BY <1>2, <3>1, FlatIs
  <2> HIDE DEF f, g
  <2> DEFINE T == {k \in 0..n : k # 0 => f[k] = g[k]}
  <2>3. 0 \in T
    OBVIOUS
  <2>4. ASSUME NEW k \in 0..(n - 1), k \in T PROVE k + 1 \in T
    <3>1. k + 1 \in 1..(n + 1) /\ k + 1 \in 1..n /\ (k + 1) - 1 = k /\ (k + 1 = 1 <=> k = 0) /\ pre[k + 1] = seqs[k + 1]
      OBVIOUS
    <3>2. f[k + 1] = IF k + 1 = 1 THEN seqs[k + 1] ELSE f[(k + 1) - 1] \o seqs[k + 1]
      BY <2>1, <3>1 DEF Flattens
    <3>3. g[k + 1] = IF k + 1 = 1 THEN pre[k + 1] ELSE g[(k + 1) - 1] \o pre[k + 1]
      BY <2>1, <3>1 DEF Flattens
    <3>4. QED
      BY <2>4, <3>1, <3>2, <3>3
  <2>5. n \in T
    <3> HIDE DEF T
    <3>1. 0..n \subseteq T
      BY <2>3, <2>4, UpTo
    <3>2. QED
      BY <3>1
  <2>6. f[n + 1] = f[n] \o seqs[n + 1]
    <3>1. n + 1 \in 1..(n + 1) /\ (n + 1) - 1 = n /\ n + 1 # 1
      BY <1>2
    <3>2. f[n + 1] = IF n + 1 = 1 THEN seqs[n + 1] ELSE f[(n + 1) - 1] \o seqs[n + 1]
      BY <2>1, <3>1 DEF Flattens
    <3>3. QED
      BY <3>1, <3>2
  <2>7. QED
    BY <1>2, <2>2, <2>5, <2>6
<1>3. QED
  BY <1>1, <1>2

\* Of a sequence of sequences.
LEMMA FlatType ==
  ASSUME NEW S, NEW n \in Nat, NEW f \in [1..n -> Seq(S)]
  PROVE  FlattenSeq(f) \in Seq(S)
<1> DEFINE F(k) == FlattenSeq([a \in 1..k |-> f[a]])
           T == {k \in 0..n : F(k) \in Seq(S)}
<1>1. 0 \in T
  <2>1. F(0) = <<>>
    <3>1. [a \in 1..0 |-> f[a]] = <<>> /\ Len(<<>>) = 0
      OBVIOUS
    <3>2. QED
      BY <3>1, FlatNone
  <2>2. <<>> \in Seq(S) /\ 0 \in 0..n
    OBVIOUS
  <2> HIDE DEF F
  <2>3. F(0) \in Seq(S)
    BY <2>1, <2>2
  <2>4. QED
    BY <2>2, <2>3
<1>2. ASSUME NEW k \in 0..(n - 1), k \in T PROVE k + 1 \in T
  <2> DEFINE seqs == [a \in 1..(k + 1) |-> f[a]]
             pre  == [a \in 1..k |-> f[a]]
  <2>1. /\ k \in Nat /\ k + 1 \in 0..n
        /\ Len(seqs) = k + 1 /\ \A a \in 1..(k + 1) : seqs[a] \in Seq(S)
        /\ Len(pre) = k /\ \A a \in 1..k : pre[a] = seqs[a]
        /\ k = 0 => pre = <<>>
    OBVIOUS
  <2>2. k + 1 \in 1..(k + 1)
    BY <2>1
  <2>3. FlattenSeq(pre) \in Seq(S)
    BY <1>2
  <2>4. F(k + 1) = FlattenSeq(seqs)
    OBVIOUS
  <2> HIDE DEF seqs, pre, F
  <2>5. FlattenSeq(seqs) = FlattenSeq(pre) \o seqs[k + 1]
    BY <2>1, FlatNext
  <2>6. seqs[k + 1] \in Seq(S)
    BY <2>1, <2>2
  <2>7. FlattenSeq(pre) \o seqs[k + 1] \in Seq(S)
    BY <2>3, <2>6
  <2>8. QED
    BY <2>1, <2>4, <2>5, <2>7
<1>3. n \in T
  <2> HIDE DEF T
  <2>1. 0..n \subseteq T
    BY <1>1, <1>2, UpTo
  <2>2. QED
    BY <2>1
<1>4. f = [a \in 1..n |-> f[a]]
  OBVIOUS
<1>5. QED
  BY <1>3, <1>4

-----------------------------------------------------------------------------
(* The types. *)

Landings == [from : Nat, to : Nat, all : BOOLEAN, done : BOOLEAN,
             commits : Seq(GeckoCommit), prs : Seq(PR)]

LandingTypes ==
  landing # NoLanding =>
    landing \in Landings /\ landing.from = base /\ landing.to \in base + 1 .. Len(master)

TypesInv == MasterTypes /\ LandingTypes

\* What a landing takes: groups of PRs.
TakenGroup(g) == /\ g \in Group /\ g.pr \in PR /\ LastOf(g) \in 1..MaxCommits /\ FirstOf(g) \in 1..LastOf(g)
AllTaken(taken) == taken \in Seq(Group) /\ \A g \in 1..Len(taken) : TakenGroup(taken[g])

\* A call of apply_prs for the landing l.
Job(l, taken, prev) ==
  /\ l \in Landings /\ l.from = base /\ l.to \in base + 1 .. Len(master) /\ l.done = FALSE
  /\ AllTaken(taken) /\ Len(taken) > 0
  /\ prev \in {base, FirstOf(taken[1]) - 1}
  /\ l.commits # <<>> => Fits(l.commits, taken)

LEMMA TakenGroups ==
  ASSUME NEW from \in Nat, NEW to \in 0..MaxCommits, NEW all \in BOOLEAN, NEW c, NEW x,
         NEW N, GroupsOf(N, master, from, to, {Zero}), Taken(c, N, x, from, all)
  PROVE  /\ AllTaken(c.taken) /\ x \in Nat /\ Len(c.taken) = x
         /\ x > 0 => c.head \in (from + 1)..to
<1>1. to \in Nat
  BY LandingCommitsAssumption
<1>2. x \in Nat /\ c.taken \in Seq(Group) /\ Len(c.taken) = x /\ x \in 0..Len(N) /\ N \in Seq(Group)
  BY DEF Taken, GroupsOf
<1>3. ASSUME NEW g \in 1..x
      PROVE  TakenGroup(c.taken[g]) /\ LastOf(c.taken[g]) \in (from + 1)..to /\ c.taken[g] = N[g]
  <2>1. g \in 1..Len(N) /\ c.taken[g] = N[g] /\ ~StopsAt(N[g], all)
    BY <1>2 DEF Taken
  <2>2. N[g] \in Group
    BY <1>2, <2>1
  <2>3. IsGroup(N[g], master, from, to, {Zero})
    BY <2>1 DEF GroupsOf
  <2>4. N[g].pr \in PR
    BY <2>1, <2>2, <2>3 DEF StopsAt, IsGroup, Group, Prs
  <2>5. /\ LastOf(N[g]) \in Within(N[g]) /\ FirstOf(N[g]) \in Within(N[g])
        /\ Within(N[g]) \subseteq (from + 1)..to /\ FirstOf(N[g]) <= LastOf(N[g])
    BY <1>1, <2>2, <2>3, GroupFacts
  <2>6. /\ LastOf(N[g]) \in (from + 1)..to /\ FirstOf(N[g]) \in (from + 1)..to
        /\ FirstOf(N[g]) <= LastOf(N[g])
    BY <2>5
  <2>7. LastOf(N[g]) \in 1..MaxCommits /\ FirstOf(N[g]) \in 1..LastOf(N[g])
    BY <2>6, LandingCommitsAssumption
  <2>8. QED
    BY <2>1, <2>2, <2>4, <2>6, <2>7 DEF TakenGroup
<1>4. x > 0 => c.head \in (from + 1)..to
  <2>1. ASSUME x > 0 PROVE c.head \in (from + 1)..to
    <3>1. x \in 1..x
      BY <1>2, <2>1
    <3>2. c.head = LastOf(c.taken[x])
      BY <1>3, <2>1, <3>1 DEF Taken
    <3>3. QED
      BY <1>3, <3>1, <3>2
  <2>2. QED
    BY <2>1
<1>5. AllTaken(c.taken)
  BY <1>2, <1>3 DEF AllTaken
<1>6. QED
  BY <1>2, <1>4, <1>5

LEMMA LastAppliedIs ==
  ASSUME NEW taken \in Seq(Group), NEW cs \in Seq(GeckoCommit), cs # <<>> => Fits(cs, taken)
  PROVE  /\ LastApplied(cs, taken) \in 0..Len(taken)
         /\ cs = <<>> => LastApplied(cs, taken) = 0
         /\ cs # <<>> => /\ LastApplied(cs, taken) > 0
                         /\ taken[LastApplied(cs, taken)].pr = Last(cs).pr
<1>1. CASE cs = <<>>
  BY <1>1 DEF LastApplied
<1>2. CASE cs # <<>>
  <2> DEFINE at   == LastApplied(cs, taken)
             here == {g \in DOMAIN taken : taken[g].pr = Last(cs).pr}
             n    == Len(taken)
  <2>1. n \in Nat /\ DOMAIN taken = 1..n /\ at = Min(here \cup {n + 1})
    BY <1>2 DEF LastApplied
  <2>2. at \in here \cup {n + 1} /\ \A g \in here \cup {n + 1} : at <= g
    <3>1. here \cup {n + 1} \subseteq 0..(n + 1) /\ n + 1 \in Nat /\ here \cup {n + 1} # {}
      BY <2>1
    <3> HIDE DEF here, at, n
    <3>2. QED
      BY <2>1, <3>1, LeastIs
  <2>3. Len(cs) \in 1..Len(cs) /\ Last(cs) = cs[Len(cs)]
    BY <1>2 DEF Last
  <2>4. Last(cs).pr \in {c.pr : c \in ToSet(cs)}
    BY <2>3 DEF ToSet
  <2>5. Last(cs).pr \in {taken[g].pr : g \in 1 .. Min({at, n})}
    BY <1>2, <2>4 DEF Fits
  <2>6. PICK g \in 1 .. Min({at, n}) : taken[g].pr = Last(cs).pr
    BY <2>5
  <2>7. Min({at, n}) \in {at, n} /\ Min({at, n}) <= n
    <3>1. at \in 1..(n + 1)
      BY <2>1, <2>2
    <3> HIDE DEF at, n
    <3>2. {at, n} \subseteq 0..(n + 1) /\ n + 1 \in Nat /\ {at, n} # {}
      BY <2>1, <3>1
    <3>3. Min({at, n}) \in {at, n} /\ \A k \in {at, n} : Min({at, n}) <= k
      BY <3>2, LeastIs
    <3>4. QED
      BY <3>3
  <2>8. g \in here
    <3>1. Min({at, n}) \in Nat /\ g \in 1..n
      BY <2>1, <2>2, <2>7
    <3>2. QED
      BY <2>1, <2>6, <3>1
  <2>9. at <= g /\ g \in 1..n
    BY <2>1, <2>2, <2>8
  <2>10. at \in here
    BY <2>1, <2>2, <2>9
  <2>11. QED
    BY <1>2, <2>1, <2>10
<1>3. QED
  BY <1>1, <1>2

LEMMA StepsType ==
  ASSUME NEW taken \in Seq(Group), NEW cs \in Seq(GeckoCommit),
         LastApplied(cs, taken) \in 0..Len(taken)
  PROVE  /\ Steps(cs, taken) \in Seq([group : 1..Len(taken), type : {"pr", "metadata"}])
         /\ Len(Steps(cs, taken)) \in Nat
<1> DEFINE at   == LastApplied(cs, taken)
           S    == [group : 1..Len(taken), type : {"pr", "metadata"}]
           meta == IF at > 0 /\ ~HasMetadata(cs) THEN <<[group |-> at, type |-> "metadata"]>> ELSE <<>>
           rest == [n \in 1 .. Len(taken) - at |->
                     <<[group |-> at + n, type |-> "pr"], [group |-> at + n, type |-> "metadata"]>>]
<1>1. Len(taken) \in Nat /\ at \in Nat /\ Len(taken) - at \in Nat
  OBVIOUS
<1>2. Steps(cs, taken) = meta \o FlattenSeq(rest)
  BY DEF Steps
<1>3. meta \in Seq(S)
  <2>1. CASE at > 0 /\ ~HasMetadata(cs)
    <3>1. [group |-> at, type |-> "metadata"] \in S
      BY <1>1, <2>1
    <3>2. QED
      BY <2>1, <3>1
  <2>2. CASE ~(at > 0 /\ ~HasMetadata(cs))
    BY <2>2
  <2>3. QED
    BY <2>1, <2>2
<1>4. rest \in [1 .. Len(taken) - at -> Seq(S)]
  <2>1. ASSUME NEW n \in 1 .. Len(taken) - at
        PROVE  <<[group |-> at + n, type |-> "pr"], [group |-> at + n, type |-> "metadata"]>> \in Seq(S)
    <3>1. at + n \in 1..Len(taken)
      BY <1>1
    <3>2. [group |-> at + n, type |-> "pr"] \in S /\ [group |-> at + n, type |-> "metadata"] \in S
      BY <3>1
    <3>3. QED
      BY <3>2
  <2>2. QED
    BY <2>1
<1> HIDE DEF meta, rest, S, at
<1>5. FlattenSeq(rest) \in Seq(S)
  BY <1>1, <1>4, FlatType
<1>6. meta \o FlattenSeq(rest) \in Seq(S)
  BY <1>3, <1>5
<1>7. Steps(cs, taken) \in Seq(S) /\ Len(Steps(cs, taken)) \in Nat
  BY <1>2, <1>6
<1>8. QED
  BY <1>7 DEF S

LEMMA NewCommitsType ==
  ASSUME NEW taken, AllTaken(taken),
         NEW step \in [group : 1..Len(taken), type : {"pr", "metadata"}], NEW prev \in Nat
  PROVE  NewCommits(taken, step, prev) \in Seq(GeckoCommit)
<1> DEFINE g == step.group
           p == taken[g].pr
<1>1. g \in 1..Len(taken) /\ p \in PR /\ LastOf(taken[g]) \in 1..MaxCommits /\ MaxCommits \in Nat
  BY LandingCommitsAssumption DEF TakenGroup, AllTaken
<1>2. From(taken, g, prev) \in Nat
  <2>1. CASE g = 1
    BY <2>1 DEF From
  <2>2. CASE g # 1
    <3>1. g - 1 \in 1..Len(taken)
      BY <1>1, <2>2
    <3>2. LastOf(taken[g - 1]) \in 1..MaxCommits
      BY <3>1 DEF TakenGroup, AllTaken
    <3>3. QED
      BY <2>2, <3>2 DEF From, LastOf
  <2>3. QED
    BY <2>1, <2>2
<1>3. Patch(taken, g, prev) \in SUBSET (1..MaxCommits)
  <2>1. Patch(taken, g, prev) = From(taken, g, prev) + 1 .. LastOf(taken[g])
    BY DEF Patch, LastOf
  <2>2. QED
    BY <1>1, <1>2, <2>1
<1> HIDE DEF g
<1>4. [pr |-> p, type |-> "pr", content |-> Patch(taken, g, prev)] \in GeckoCommit
  BY <1>1, <1>3 DEF GeckoCommit
<1>5. [pr |-> p, type |-> "metadata", content |-> {}] \in GeckoCommit
  BY <1>1 DEF GeckoCommit
<1>6. AddPr(taken, g, prev) \in Seq(GeckoCommit)
  BY <1>4 DEF AddPr
<1>7. AddMetadata(p) \in Seq(GeckoCommit)
  BY <1>5 DEF AddMetadata
<1>8. QED
  BY <1>6, <1>7 DEF NewCommits, g

LEMMA AppliedType ==
  ASSUME NEW l \in Landings, NEW taken, AllTaken(taken),
         NEW prev \in Nat, l.commits # <<>> => Fits(l.commits, taken),
         NEW new \in ApplyPrs(l, taken, prev)
  PROVE  /\ new \in Landings
         /\ new.from = l.from /\ new.to = l.to /\ new.all = l.all /\ new.prs = l.prs
<1>1. l.commits \in Seq(GeckoCommit) /\ taken \in Seq(Group)
  BY DEF Landings, AllTaken
<1>2. LastApplied(l.commits, taken) \in 0..Len(taken)
  BY <1>1, LastAppliedIs
<1> DEFINE steps == Steps(l.commits, taken)
           S     == [group : 1..Len(taken), type : {"pr", "metadata"}]
<1>3. steps \in Seq(S) /\ Len(steps) \in Nat
  BY <1>1, <1>2, StepsType
<1>4. PICK n \in 0 .. Len(steps) : new = Applied(l, taken, n, prev)
  BY DEF ApplyPrs
<1> DEFINE more == FlattenSeq([k \in 1..n |-> NewCommits(taken, steps[k], prev)])
<1>5. new = [l EXCEPT !.commits = @ \o more, !.done = n = Len(steps)]
  BY <1>4 DEF Applied
<1>6. more \in Seq(GeckoCommit)
  <2>1. ASSUME NEW k \in 1..n PROVE NewCommits(taken, steps[k], prev) \in Seq(GeckoCommit)
    <3>1. k \in 1..Len(steps)
      BY <1>3, <1>4
    <3>2. steps[k] \in S
      <4> HIDE DEF steps, S
      <4>1. QED
        BY <1>3, <3>1
    <3>3. QED
      BY <3>2, NewCommitsType
  <2> DEFINE f == [k \in 1..n |-> NewCommits(taken, steps[k], prev)]
  <2>2. n \in Nat /\ f \in [1..n -> Seq(GeckoCommit)]
    BY <1>3, <1>4, <2>1
  <2> HIDE DEF f, steps, S
  <2>3. FlattenSeq(f) \in Seq(GeckoCommit)
    BY <2>2, FlatType
  <2>4. QED
    BY <2>3 DEF f
<1> HIDE DEF more, steps
<1>7. l.commits \o more \in Seq(GeckoCommit)
  BY <1>1, <1>6
<1>8. QED
  BY <1>5, <1>7 DEF Landings

\* What update_landing takes for a landing that it creates, and that landing.
Chosen(all) == LandableCommits(base, Len(master), all)
Fresh(all) ==
  [from |-> base, to |-> Chosen(all).head, all |-> all, done |-> FALSE, commits |-> <<>>,
   prs |-> [g \in DOMAIN Chosen(all).taken |-> Chosen(all).taken[g].pr]]

\* And the one that it goes on with.
Resumed(all) == [landing EXCEPT !.all = @ \/ all]

LEMMA FreshJob ==
  ASSUME TypesInv, NEW all \in BOOLEAN, NewLanding(all)
  PROVE  /\ Job(Fresh(all), Chosen(all).taken, base)
         /\ landing' \in ApplyPrs(Fresh(all), Chosen(all).taken, base)
         /\ UNCHANGED <<master, base, status>>
<1>1. MasterTypes /\ base \in Nat /\ Len(master) \in Nat /\ Len(master) \in 0..MaxCommits
  BY LandingCommitsAssumption DEF TypesInv, MasterTypes
<1>2. GroupsOf(Numbered(base, Len(master)), master, base, Len(master), {Zero})
  <2>1. base <= Len(master) /\ Len(master) <= Len(master)
    BY <1>1 DEF MasterTypes
  <2>2. QED
    BY <1>1, <2>1, MasterGroups
<1> DEFINE c == Chosen(all)
<1>3. PICK x : Taken(c, Numbered(base, Len(master)), x, base, all)
  BY <1>1, <1>2, LandableTaken DEF Chosen
<1>4. /\ c.outcome = "landing"
      /\ landing' \in ApplyPrs(Fresh(all), c.taken, base)
      /\ UNCHANGED <<master, base, status>>
  BY DEF NewLanding, Chosen, Fresh
<1> HIDE DEF c
<1>5. x > 0
  BY <1>3, <1>4 DEF Taken
<1>6. /\ AllTaken(c.taken) /\ x \in Nat /\ Len(c.taken) = x
      /\ [g \in DOMAIN c.taken |-> c.taken[g].pr] \in Seq(PR)
      /\ c.head \in (base + 1)..Len(master)
  <2> DEFINE N == Numbered(base, Len(master))
             to == Len(master)
  <2>1. /\ to \in 0..MaxCommits /\ GroupsOf(N, master, base, to, {Zero}) /\ Taken(c, N, x, base, all)
        /\ to = Len(master)
    BY <1>1, <1>2, <1>3
  <2> HIDE DEF N, to
  <2>2. /\ AllTaken(c.taken) /\ x \in Nat /\ Len(c.taken) = x
        /\ x > 0 => c.head \in (base + 1)..to
    <3>1. base \in Nat /\ to \in 0..MaxCommits
      BY <1>1, <2>1
    <3>2. GroupsOf(N, master, base, to, {Zero}) /\ Taken(c, N, x, base, all)
      BY <2>1
    <3>3. QED
      BY <3>1, <3>2, TakenGroups
  <2>3. [g \in DOMAIN c.taken |-> c.taken[g].pr] \in Seq(PR)
    <3>1. DOMAIN c.taken = 1..x /\ \A g \in 1..x : c.taken[g].pr \in PR
      BY <2>2 DEF TakenGroup, AllTaken
    <3>2. [g \in DOMAIN c.taken |-> c.taken[g].pr] \in [1..x -> PR]
      BY <3>1
    <3>3. QED
      BY <2>2, <3>2, SeqOfFunction
  <2>4. QED
    BY <1>5, <2>1, <2>2, <2>3
<1>7. /\ Fresh(all).from = base /\ Fresh(all).to = c.head /\ Fresh(all).all = all
      /\ Fresh(all).done = FALSE /\ Fresh(all).commits = <<>>
      /\ Fresh(all) \in Landings
  <2>1. c.head \in Nat
    BY <1>1, <1>6
  <2>2. QED
    BY <1>1, <1>6, <2>1 DEF Fresh, Landings, c
<1>8. Job(Fresh(all), c.taken, base)
  BY <1>5, <1>6, <1>7 DEF Job
<1>9. QED
  BY <1>4, <1>8 DEF c

LEMMA AgainIs ==
  ASSUME TypesInv, NEW all \in BOOLEAN, landing # NoLanding
  PROVE  /\ landing.from = base /\ landing.to \in Nat /\ base \in Nat
         /\ GroupsOf(Numbered(base, landing.to), master, base, landing.to, {Zero})
         /\ \E x : Taken(Again(all), Numbered(base, landing.to), x, base, all)
<1>1. /\ MasterTypes /\ landing.from = base /\ base \in Nat /\ landing.to \in Nat
      /\ base <= landing.to /\ landing.to <= Len(master)
  BY DEF TypesInv, MasterTypes, LandingTypes
<1>2. GroupsOf(Numbered(base, landing.to), master, base, landing.to, {Zero})
  BY <1>1, MasterGroups
<1>3. \E x : Taken(Again(all), Numbered(base, landing.to), x, base, all)
  BY <1>1, <1>2, LandableTaken DEF Again
<1>4. QED
  BY <1>1, <1>2, <1>3

LEMMA ResumedJob ==
  ASSUME TypesInv, NEW all \in BOOLEAN, UpdateLanding(all)
  PROVE  LET prev == FirstOf(Again(all).taken[1]) - 1
         IN  /\ Job(Resumed(all), Again(all).taken, prev)
             /\ landing' \in ApplyPrs(Resumed(all), Again(all).taken, prev)
             /\ UNCHANGED <<master, base, status>>
<1> DEFINE c    == Again(all)
           prev == FirstOf(Again(all).taken[1]) - 1
<1>1. /\ landing # NoLanding /\ landing.done = FALSE /\ c.outcome = "landing" /\ c.head = landing.to
      /\ Fits(landing.commits, c.taken)
      /\ landing' \in ApplyPrs(Resumed(all), c.taken, prev)
      /\ UNCHANGED <<master, base, status>>
  BY DEF UpdateLanding, Goes, Resumed, TypesInv, LandingTypes, Landings, FirstOf
<1>2. PICK x : Taken(c, Numbered(base, landing.to), x, base, all)
  BY <1>1, AgainIs
<1>3. /\ base \in Nat /\ landing.to \in 0..MaxCommits
      /\ GroupsOf(Numbered(base, landing.to), master, base, landing.to, {Zero})
  <2>1. landing.to \in base + 1 .. Len(master) /\ Len(master) <= MaxCommits /\ Len(master) \in Nat /\ MaxCommits \in Nat
    BY <1>1, LandingCommitsAssumption DEF TypesInv, MasterTypes, LandingTypes
  <2>2. base \in Nat
    BY <1>1, AgainIs
  <2>3. landing.to \in 0..MaxCommits
    BY <2>1, <2>2
  <2>4. GroupsOf(Numbered(base, landing.to), master, base, landing.to, {Zero})
    BY <1>1, AgainIs
  <2>5. QED
    BY <2>2, <2>3, <2>4
<1>4. x > 0
  BY <1>1, <1>2 DEF Taken
<1> HIDE DEF c, prev
<1> DEFINE N == Numbered(base, landing.to)
           to == landing.to
<1>5. AllTaken(c.taken) /\ x \in Nat /\ Len(c.taken) = x
  <2>1. to \in 0..MaxCommits /\ GroupsOf(N, master, base, to, {Zero}) /\ Taken(c, N, x, base, all)
    BY <1>2, <1>3
  <2>2. base \in Nat
    BY <1>3
  <2> HIDE DEF N, to
  <2>3. to \in 0..MaxCommits
    BY <2>1
  <2>4. GroupsOf(N, master, base, to, {Zero}) /\ Taken(c, N, x, base, all)
    BY <2>1
  <2>5. QED
    BY <2>2, <2>3, <2>4, TakenGroups
<1>6. /\ landing \in Landings /\ landing.from = base /\ landing.to \in base + 1 .. Len(master)
  BY <1>1 DEF TypesInv, LandingTypes
<1>7. /\ Resumed(all) \in Landings /\ Resumed(all).from = base /\ Resumed(all).to = landing.to
      /\ Resumed(all).done = FALSE /\ Resumed(all).commits = landing.commits
  BY <1>1, <1>6 DEF Resumed, Landings
<1>8. Job(Resumed(all), c.taken, prev)
  BY <1>1, <1>4, <1>5, <1>6, <1>7 DEF Job, prev, c
<1>9. QED
  BY <1>1, <1>8 DEF c, prev

LEMMA JobTypes ==
  ASSUME TypesInv, NEW l, NEW taken, NEW prev, Job(l, taken, prev), landing' \in ApplyPrs(l, taken, prev),
         UNCHANGED <<master, base, status>>
  PROVE  TypesInv'
<1>1. l \in Landings /\ AllTaken(taken) /\ taken \in Seq(Group) /\ Len(taken) > 0
  BY DEF Job, AllTaken
<1>2. prev \in Nat
  <2>1. 1 \in 1..Len(taken)
    BY <1>1
  <2>2. FirstOf(taken[1]) \in 1..LastOf(taken[1])
    BY <1>1, <2>1 DEF TakenGroup, AllTaken
  <2>3. FirstOf(taken[1]) - 1 \in Nat /\ base \in Nat
    BY <2>2 DEF TypesInv, MasterTypes
  <2>4. QED
    BY <2>3 DEF Job
<1>3. l.commits # <<>> => Fits(l.commits, taken)
  BY DEF Job
<1>4. landing' \in Landings /\ landing'.from = l.from /\ landing'.to = l.to
  BY <1>1, <1>2, <1>3, AppliedType
<1>5. l.from = base /\ l.to \in base + 1 .. Len(master)
  BY DEF Job
<1>6. QED
  BY <1>4, <1>5 DEF TypesInv, MasterTypes, LandingTypes

LEMMA TypesInit == LandingInit => TypesInv
<1> SUFFICES ASSUME LandingInit PROVE TypesInv
  OBVIOUS
<1>1. master = <<>> /\ base = 0 /\ status = [p \in PR |-> "no_sync"] /\ landing = NoLanding
  BY DEF LandingInit
<1>2. QED
  BY <1>1, LandingCommitsAssumption DEF TypesInv, MasterTypes, LandingTypes

LEMMA TypesStep ==
  ASSUME TypesInv, LandingNext \/ UNCHANGED lvars
  PROVE  TypesInv'
<1>1. MasterTypes /\ LandingTypes
  BY DEF TypesInv
<1>2. ASSUME NEW p \in PR \cup {NoPr, Zero}, Push(p) PROVE TypesInv'
  <2>1. master \in Seq(Prs) /\ Len(master) < MaxCommits /\ master' = Append(master, p) /\ p \in Prs
    BY <1>1, <1>2 DEF MasterTypes, Push, Prs
  <2>2. master' \in Seq(Prs) /\ Len(master') = Len(master) + 1 /\ Len(master) \in Nat
    BY <2>1
  <2>3. Len(master') <= MaxCommits
    BY <2>1, <2>2, LandingCommitsAssumption
  <2>4. UNCHANGED <<base, status, landing>>
    BY <1>2 DEF Push
  <2>5. MasterTypes'
    BY <1>1, <2>2, <2>3, <2>4 DEF MasterTypes
  <2>6. LandingTypes'
    BY <1>1, <2>2, <2>4 DEF LandingTypes, MasterTypes
  <2>7. QED
    BY <2>5, <2>6 DEF TypesInv
<1>3. ASSUME NEW i \in DOMAIN master, NEW p \in PR \cup {Zero}, SetPr(i, p) PROVE TypesInv'
  <2>1. master \in Seq(Prs) /\ p \in Prs /\ master' = [master EXCEPT ![i] = p] /\ UNCHANGED <<base, status, landing>>
    BY <1>1, <1>3 DEF MasterTypes, SetPr, Prs
  <2>2. master' \in Seq(Prs) /\ Len(master') = Len(master)
    BY <2>1
  <2>3. QED
    BY <1>1, <2>1, <2>2 DEF TypesInv, MasterTypes, LandingTypes
<1>4. ASSUME NEW p \in PR, NEW s \in SyncKinds, SyncGoesOn(p, s) PROVE TypesInv'
  BY <1>1, <1>4 DEF SyncGoesOn, TypesInv, MasterTypes, LandingTypes
<1>5. ASSUME NEW all \in BOOLEAN, NewLanding(all) PROVE TypesInv'
  BY <1>5, FreshJob, JobTypes
<1>6. ASSUME NEW all \in BOOLEAN, UpdateLanding(all) PROVE TypesInv'
  BY <1>6, ResumedJob, JobTypes
<1>7. ASSUME NEW all \in BOOLEAN, Land(all) PROVE TypesInv'
  <2>1. landing # NoLanding /\ base' = landing.to /\ landing' = NoLanding /\ UNCHANGED <<master, status>>
    BY <1>7 DEF Land
  <2>2. landing.to \in 0..Len(master)
    BY <1>1, <2>1 DEF MasterTypes, LandingTypes
  <2>3. QED
    BY <1>1, <2>1, <2>2 DEF TypesInv, MasterTypes, LandingTypes
<1>8. CASE UNCHANGED lvars
  BY <1>1, <1>8 DEF lvars, TypesInv, MasterTypes, LandingTypes
<1>9. QED
  BY <1>2, <1>3, <1>4, <1>5, <1>6, <1>7, <1>8 DEF LandingNext

LEMMA TypesImply == TypesInv => LandingsTypeOK /\ LandsPrefix
<1> SUFFICES ASSUME TypesInv PROVE LandingsTypeOK /\ LandsPrefix
  OBVIOUS
<1>1. MasterTypes /\ LandingTypes
  BY DEF TypesInv
<1>2. LandsPrefix
  BY <1>1, TakesWholePrs, TakesWhatCanLand DEF LandsPrefix
<1>3. LandingsTypeOK
  <2>1. ASSUME landing # NoLanding
        PROVE  \A c \in ToSet(landing.commits) : c \in GeckoCommit
    <3>1. landing.commits \in Seq(GeckoCommit)
      BY <1>1, <2>1 DEF LandingTypes, Landings
    <3>2. QED
      BY <3>1 DEF ToSet
  <2>2. QED
    BY <1>1, <2>1 DEF LandingsTypeOK, MasterTypes, LandingTypes, Landings, Prs
<1>4. QED
  BY <1>2, <1>3

-----------------------------------------------------------------------------
(***************************************************************************)
(* How far a landing is.  The work of apply_prs on the groups N is counted *)
(* from 2: 2 * g is the commits of the PR of group g, and 2 * g + 1 its    *)
(* metadata.  Wanted work leaves a commit.                                 *)
(***************************************************************************)
Wanted(st, N, k) ==
  \E g \in 1..Len(N) : \/ k = 2 * g /\ st[N[g].pr] \notin {"upstream", "empty"}
                       \/ k = 2 * g + 1 /\ st[N[g].pr] = "metadata"
OfPr(N, k) == \E g \in 1..Len(N) : k = 2 * g

\* The commit d (its PR and type) is what work k leaves.
At(d, N, k) ==
  \E g \in 1..Len(N) : \/ k = 2 * g /\ d = <<N[g].pr, "pr">>
                       \/ k = 2 * g + 1 /\ d = <<N[g].pr, "metadata">>

(***************************************************************************)
(* The commits D are what is left by all work up to `key', f counts it.    *)
(* If `strict' does not hold metadata may be missing: the try pushes that  *)
(* wrote it ended after the landing had passed the PR.                     *)
(***************************************************************************)
CountedBy(st, f, D, N, key, strict) ==
  /\ Rising(f, Len(D))
  /\ \A n \in 1..Len(D) : At(D[n], N, f[n]) /\ Wanted(st, N, f[n]) /\ f[n] <= key
  /\ \A k \in 2..key : Wanted(st, N, k) /\ (strict \/ OfPr(N, k)) => \E n \in 1..Len(D) : f[n] = k
Progress(st, D, N, key, strict) == \E f : CountedBy(st, f, D, N, key, strict)

Pairs(cs) == [n \in 1..Len(cs) |-> <<cs[n].pr, cs[n].type>>]

\* The patches of the commits are those of their groups.
Contents(cs, N, from) ==
  \A n \in 1..Len(cs) :
    /\ cs[n].type = "metadata" => cs[n].content = {}
    /\ cs[n].type = "pr" =>
         \E g \in 1..Len(N), prev \in {from, FirstOf(N[1]) - 1} :
           cs[n].pr = N[g].pr /\ cs[n].content = Patch(N, g, prev)

\* The work that the commits are left by, as apply_prs finds it.
Found(cs, N) ==
  IF cs = <<>> THEN 1
  ELSE IF HasMetadata(cs) THEN 2 * LastApplied(cs, N) + 1 ELSE 2 * LastApplied(cs, N)

\* The groups of an open landing.
Its(l) == Numbered(base, l.to)

\* The commits of a range have a PR, or are known to have none.
AllNamed(m, from, to) == \A i \in (from + 1)..to : m[i] # NoPr

\* The landing l takes the groups N.
Whole(st, l, N) ==
  /\ Len(N) > 0 /\ LastOf(N[Len(N)]) = l.to
  /\ l.prs = [g \in DOMAIN N |-> N[g].pr]
  /\ \A g \in 1..Len(N) : st[N[g].pr] # "no_sync" /\ (l.all \/ st[N[g].pr] # "missing")

\* And has applied them as far as its commits tell, or all.
Applying(st, l, N, from) ==
  /\ Progress(st, Pairs(l.commits), N, Found(l.commits, N), ~l.all)
  /\ l.done => Progress(st, Pairs(l.commits), N, 2 * Len(N) + 1, ~l.all)
  /\ Contents(l.commits, N, from)

\* While the commits of each PR in it are not mixed with others.
OpenInv(m, st, b, l, N) ==
  /\ AllNamed(m, b, l.to)
  /\ Alone(m, b, l.to) => Whole(st, l, N) /\ Applying(st, l, N, b)

CommitsInv == landing # NoLanding => OpenInv(master, status, base, landing, Its(landing))

\* Groups of PRs, one of each.
PrGroups(N) == /\ N \in Seq(Group) /\ Len(N) \in Nat
               /\ \A g \in 1..Len(N) : N[g].pr \in PR
               /\ \A g, h \in 1..Len(N) : N[g].pr = N[h].pr => g = h

LEMMA Halves ==
  ASSUME NEW m \in Nat, NEW k \in 1..(2 * m)
  PROVE  \E n \in 1..m : k = 2 * n - 1 \/ k = 2 * n
<1> DEFINE S == {j \in 0..m : \A i \in 1..(2 * j) : \E n \in 1..j : i = 2 * n - 1 \/ i = 2 * n}
<1>1. 0 \in S
  OBVIOUS
<1>2. ASSUME NEW j \in 0..(m - 1), j \in S PROVE j + 1 \in S
  <2>1. ASSUME NEW i \in 1..(2 * (j + 1)) PROVE \E n \in 1..(j + 1) : i = 2 * n - 1 \/ i = 2 * n
    <3>1. CASE i <= 2 * j
      <4>1. i \in 1..(2 * j)
        BY <3>1
      <4>2. PICK n \in 1..j : i = 2 * n - 1 \/ i = 2 * n
        BY <1>2, <4>1
      <4>3. n \in 1..(j + 1)
        OBVIOUS
      <4>4. QED
        BY <4>2, <4>3
    <3>2. CASE ~(i <= 2 * j)
      <4>1. i = 2 * (j + 1) - 1 \/ i = 2 * (j + 1)
        BY <3>2
      <4>2. j + 1 \in 1..(j + 1)
        OBVIOUS
      <4>3. QED
        BY <4>1, <4>2
    <3>3. QED
      BY <3>1, <3>2
  <2>2. j + 1 \in 0..m
    OBVIOUS
  <2>3. QED
    BY <2>1, <2>2
<1>3. m \in S
  <2> HIDE DEF S
  <2>1. 0..m \subseteq S
    BY <1>1, <1>2, UpTo
  <2>2. QED
    BY <2>1
<1>4. QED
  BY <1>3

LEMMA WorkIs ==
  ASSUME NEW m \in Nat, NEW k \in 2..(2 * m + 1)
  PROVE  \E g \in 1..m : k = 2 * g \/ k = 2 * g + 1
<1>1. k - 1 \in 1..(2 * m)
  OBVIOUS
<1>2. PICK g \in 1..m : k - 1 = 2 * g - 1 \/ k - 1 = 2 * g
  BY <1>1, Halves
<1>3. k = 2 * g \/ k = 2 * g + 1
  BY <1>2
<1>4. QED
  BY <1>3

LEMMA AtWork ==
  ASSUME NEW N, PrGroups(N)
  PROVE  /\ \A k, l \in Nat : \A d : At(d, N, k) /\ At(d, N, l) => k = l
         /\ \A k \in Nat : \A d, e : At(d, N, k) /\ At(e, N, k) => d = e
<1>1. ASSUME NEW k \in Nat, NEW l \in Nat, NEW d, At(d, N, k), At(d, N, l) PROVE k = l
  <2>1. PICK g \in 1..Len(N) : \/ k = 2 * g /\ d = <<N[g].pr, "pr">>
                               \/ k = 2 * g + 1 /\ d = <<N[g].pr, "metadata">>
    BY <1>1 DEF At
  <2>2. PICK h \in 1..Len(N) : \/ l = 2 * h /\ d = <<N[h].pr, "pr">>
                               \/ l = 2 * h + 1 /\ d = <<N[h].pr, "metadata">>
    BY <1>1 DEF At
  <2>3. N[g].pr = N[h].pr
    BY <2>1, <2>2
  <2>4. g = h
    BY <2>3 DEF PrGroups
  <2>5. QED
    BY <2>1, <2>2, <2>4
<1>2. ASSUME NEW k \in Nat, NEW d, NEW e, At(d, N, k), At(e, N, k) PROVE d = e
  <2>1. PICK g \in 1..Len(N) : \/ k = 2 * g /\ d = <<N[g].pr, "pr">>
                               \/ k = 2 * g + 1 /\ d = <<N[g].pr, "metadata">>
    BY <1>2 DEF At
  <2>2. PICK h \in 1..Len(N) : \/ k = 2 * h /\ e = <<N[h].pr, "pr">>
                               \/ k = 2 * h + 1 /\ e = <<N[h].pr, "metadata">>
    BY <1>2 DEF At
  <2>3. g = h
    BY <2>1, <2>2
  <2>4. QED
    BY <2>1, <2>2, <2>3
<1>3. QED
  BY <1>1, <1>2

LEMMA ProgressStart == ASSUME NEW N, NEW strict PROVE Progress(status, <<>>, N, 1, strict)
<1> DEFINE f == [n \in 1..0 |-> 0]
<1>1. CountedBy(status, f, <<>>, N, 1, strict)
  BY DEF CountedBy, Rising
<1>2. QED
  BY <1>1 DEF Progress

LEMMA ProgressNone ==
  ASSUME NEW D, NEW N, NEW key \in Nat, NEW strict \in BOOLEAN, Progress(status, D, N, key, strict),
         ~Wanted(status, N, key + 1)
  PROVE  Progress(status, D, N, key + 1, strict)
<1>1. PICK f : CountedBy(status, f, D, N, key, strict)
  BY DEF Progress
<1>2. \A n \in 1..Len(D) : f[n] <= key + 1
  <2>1. \A n \in 1..Len(D) : f[n] \in Nat /\ f[n] <= key
    BY <1>1 DEF CountedBy, Rising
  <2>2. QED
    BY <2>1
<1>3. \A k \in 2..(key + 1) : k \in 2..key \/ k = key + 1
  OBVIOUS
<1>4. CountedBy(status, f, D, N, key + 1, strict)
  BY <1>1, <1>2, <1>3 DEF CountedBy
<1>5. QED
  BY <1>4 DEF Progress

LEMMA ProgressMore ==
  ASSUME NEW S, NEW D \in Seq(S), NEW N, NEW key \in Nat, NEW strict \in BOOLEAN,
         Progress(status, D, N, key, strict), NEW d \in S, At(d, N, key + 1), Wanted(status, N, key + 1)
  PROVE  Progress(status, Append(D, d), N, key + 1, strict)
<1>1. PICK f : CountedBy(status, f, D, N, key, strict)
  BY DEF Progress
<1> DEFINE m == Len(D)
           E == Append(D, d)
           h == [n \in 1..(m + 1) |-> IF n = m + 1 THEN key + 1 ELSE f[n]]
<1>2. m \in Nat /\ Len(E) = m + 1 /\ E[m + 1] = d /\ \A n \in 1..m : E[n] = D[n]
  OBVIOUS
<1>3. \A n \in 1..m : f[n] \in Nat /\ f[n] <= key /\ At(D[n], N, f[n]) /\ Wanted(status, N, f[n])
  BY <1>1 DEF CountedBy, Rising
<1>4. \A n \in 1..(m + 1) : n \in 1..m \/ n = m + 1
  BY <1>2
<1>5. \A n \in 1..m : n \in 1..(m + 1) /\ n # m + 1 /\ h[n] = f[n]
  BY <1>2
<1>6. m + 1 \in 1..(m + 1) /\ h[m + 1] = key + 1 /\ DOMAIN h = 1..(m + 1)
  BY <1>2
<1> HIDE DEF E, h, m
<1>7. Rising(h, m + 1)
  <2>1. \A n \in 1..(m + 1) : h[n] \in Nat
    BY <1>3, <1>4, <1>5, <1>6
  <2>2. ASSUME NEW a \in 1..(m + 1), NEW b \in 1..(m + 1), a < b PROVE h[a] < h[b]
    <3>1. a \in 1..m
      BY <1>2, <2>2
    <3>2. CASE b = m + 1
      <4>1. f[a] \in Nat /\ f[a] <= key /\ h[a] = f[a] /\ h[b] = key + 1
        BY <1>3, <1>5, <1>6, <3>1, <3>2
      <4>2. QED
        BY <4>1
    <3>3. CASE b \in 1..m
      <4>1. f[a] < f[b]
        BY <1>1, <2>2, <3>1, <3>3 DEF CountedBy, Rising, m
      <4>2. QED
        BY <1>5, <3>1, <3>3, <4>1
    <3>4. QED
      BY <1>4, <3>2, <3>3
  <2>3. QED
    BY <1>2, <1>6, <2>1, <2>2 DEF Rising
<1>8. ASSUME NEW n \in 1..(m + 1)
      PROVE  At(E[n], N, h[n]) /\ Wanted(status, N, h[n]) /\ h[n] <= key + 1
  <2>1. CASE n = m + 1
    BY <1>2, <1>6, <2>1
  <2>2. CASE n \in 1..m
    <3>1. h[n] = f[n] /\ E[n] = D[n] /\ f[n] \in Nat /\ f[n] <= key /\ At(D[n], N, f[n]) /\ Wanted(status, N, f[n])
      BY <1>2, <1>3, <1>5, <2>2
    <3>2. QED
      BY <3>1
  <2>3. QED
    BY <1>4, <2>1, <2>2
<1>9. ASSUME NEW k \in 2..(key + 1), Wanted(status, N, k), strict \/ OfPr(N, k)
      PROVE  \E n \in 1..(m + 1) : h[n] = k
  <2>1. CASE k = key + 1
    BY <1>6, <2>1
  <2>2. CASE k # key + 1
    <3>1. k \in 2..key
      BY <2>2
    <3>2. PICK n \in 1..m : f[n] = k
      BY <1>1, <1>9, <3>1 DEF CountedBy, m
    <3>3. QED
      BY <1>5, <3>2
  <2>3. QED
    BY <2>1, <2>2
<1>10. CountedBy(status, h, E, N, key + 1, strict)
  BY <1>2, <1>7, <1>8, <1>9 DEF CountedBy
<1>11. QED
  BY <1>10 DEF Progress, E

\* The last commit tells how far the work is.
LEMMA ProgressBack ==
  ASSUME NEW S, NEW D \in Seq(S), D # <<>>, NEW N, PrGroups(N), NEW key \in Nat, NEW back \in Nat,
         NEW strict \in BOOLEAN, Progress(status, D, N, key, strict), At(D[Len(D)], N, back)
  PROVE  Progress(status, D, N, back, strict) /\ back <= key
<1>1. PICK f : CountedBy(status, f, D, N, key, strict)
  BY DEF Progress
<1> DEFINE m == Len(D)
<1>2. m \in Nat /\ m \in 1..m
  OBVIOUS
<1>3. \A n \in 1..m : f[n] \in Nat /\ f[n] <= key /\ At(D[n], N, f[n]) /\ Wanted(status, N, f[n])
  BY <1>1 DEF CountedBy, Rising
<1>4. f[m] = back
  BY <1>2, <1>3, AtWork
<1>5. ASSUME NEW n \in 1..m PROVE f[n] <= back
  <2>1. n = m \/ n < m
    BY <1>2
  <2>2. n < m => f[n] < f[m]
    BY <1>1, <1>2 DEF CountedBy, Rising
  <2>3. f[n] \in Nat
    BY <1>3
  <2>4. QED
    BY <1>4, <2>1, <2>2, <2>3
<1>6. back <= key
  BY <1>2, <1>3, <1>4
<1>7. \A k \in 2..back : k \in 2..key
  BY <1>6
<1>8. CountedBy(status, f, D, N, back, strict)
  BY <1>1, <1>5, <1>7 DEF CountedBy
<1>9. QED
  BY <1>6, <1>8 DEF Progress

\* The same work leaves the same commits.
LEMMA ProgressSame ==
  ASSUME NEW S, NEW D \in Seq(S), NEW E \in Seq(S), NEW N, PrGroups(N), NEW key \in Nat,
         Progress(status, D, N, key, TRUE), Progress(status, E, N, key, TRUE)
  PROVE  D = E
<1>1. PICK f : CountedBy(status, f, D, N, key, TRUE)
  BY DEF Progress
<1>2. PICK e : CountedBy(status, e, E, N, key, TRUE)
  BY DEF Progress
<1> DEFINE m == Len(D)
           n == Len(E)
<1>3. Rising(f, m) /\ Rising(e, n)
  BY <1>1, <1>2 DEF CountedBy
<1>4. \A a \in 1..m : f[a] \in 2..key /\ Wanted(status, N, f[a]) /\ At(D[a], N, f[a])
  <2>1. ASSUME NEW a \in 1..m PROVE f[a] \in 2..key
    <3>1. f[a] \in Nat /\ f[a] <= key /\ Wanted(status, N, f[a])
      BY <1>1 DEF CountedBy, Rising
    <3>2. f[a] >= 2
      BY <3>1 DEF Wanted
    <3>3. QED
      BY <3>1, <3>2
  <2>2. QED
    BY <1>1, <2>1 DEF CountedBy
<1>5. \A a \in 1..n : e[a] \in 2..key /\ Wanted(status, N, e[a]) /\ At(E[a], N, e[a])
  <2>1. ASSUME NEW a \in 1..n PROVE e[a] \in 2..key
    <3>1. e[a] \in Nat /\ e[a] <= key /\ Wanted(status, N, e[a])
      BY <1>2 DEF CountedBy, Rising
    <3>2. e[a] >= 2
      BY <3>1 DEF Wanted
    <3>3. QED
      BY <3>1, <3>2
  <2>2. QED
    BY <1>2, <2>1 DEF CountedBy
<1>6. ASSUME NEW a \in 1..m PROVE \E b \in 1..n : f[a] = e[b]
  <2>1. f[a] \in 2..key /\ Wanted(status, N, f[a])
    BY <1>4
  <2>2. QED
    BY <1>2, <2>1 DEF CountedBy
<1>7. ASSUME NEW b \in 1..n PROVE \E a \in 1..m : e[b] = f[a]
  <2>1. e[b] \in 2..key /\ Wanted(status, N, e[b])
    BY <1>5
  <2>2. QED
    BY <1>1, <2>1 DEF CountedBy
<1> HIDE DEF m, n
<1>8. m = n /\ \A a \in 1..m : f[a] = e[a]
  <2>1. Among(f, m, e, n)
    BY <1>6 DEF Among
  <2>2. Among(e, n, f, m)
    BY <1>7 DEF Among
  <2>3. QED
    BY <1>3, <2>1, <2>2, RisesOneWay
<1>9. ASSUME NEW a \in 1..m PROVE D[a] = E[a]
  <2>1. a \in 1..n /\ f[a] = e[a] /\ f[a] \in Nat
    BY <1>4, <1>8
  <2>2. At(D[a], N, f[a]) /\ At(E[a], N, f[a])
    BY <1>4, <1>5, <2>1
  <2>3. QED
    BY <2>1, <2>2, AtWork
<1>10. QED
  BY <1>8, <1>9 DEF m, n

-----------------------------------------------------------------------------
(* What apply_prs has to do, and does. *)

LEMMA TwoEach ==
  ASSUME NEW S, NEW m \in Nat, NEW f \in [1..m -> Seq(S)], \A n \in 1..m : Len(f[n]) = 2
  PROVE  /\ FlattenSeq(f) \in Seq(S) /\ Len(FlattenSeq(f)) = 2 * m
         /\ \A n \in 1..m : /\ FlattenSeq(f)[2 * n - 1] = f[n][1]
                            /\ FlattenSeq(f)[2 * n] = f[n][2]
<1> DEFINE F(k) == FlattenSeq([a \in 1..k |-> f[a]])
           T == {k \in 0..m : /\ F(k) \in Seq(S) /\ Len(F(k)) = 2 * k
                              /\ \A n \in 1..k : F(k)[2 * n - 1] = f[n][1] /\ F(k)[2 * n] = f[n][2]}
<1>1. 0 \in T
  <2>1. F(0) = <<>>
    <3>1. [a \in 1..0 |-> f[a]] = <<>> /\ Len(<<>>) = 0
      OBVIOUS
    <3>2. QED
      BY <3>1, FlatNone
  <2>2. <<>> \in Seq(S) /\ Len(<<>>) = 2 * 0 /\ 0 \in 0..m /\ 1..0 = {}
    OBVIOUS
  <2> HIDE DEF F
  <2>3. F(0) \in Seq(S) /\ Len(F(0)) = 2 * 0
    BY <2>1, <2>2
  <2>4. QED
    BY <2>2, <2>3
<1>2. ASSUME NEW k \in 0..(m - 1), k \in T PROVE k + 1 \in T
  <2> DEFINE seqs == [a \in 1..(k + 1) |-> f[a]]
             pre  == [a \in 1..k |-> f[a]]
  <2>1. /\ k \in Nat /\ k + 1 \in 0..m /\ k + 1 \in 1..m
        /\ Len(seqs) = k + 1 /\ \A a \in 1..(k + 1) : seqs[a] \in Seq(S)
        /\ Len(pre) = k /\ \A a \in 1..k : pre[a] = seqs[a]
        /\ k = 0 => pre = <<>>
        /\ seqs[k + 1] = f[k + 1]
    OBVIOUS
  <2>2. F(k + 1) = FlattenSeq(seqs) /\ F(k) = FlattenSeq(pre)
    OBVIOUS
  <2> HIDE DEF seqs, pre, F
  <2>3. F(k + 1) = F(k) \o f[k + 1]
    <3>1. FlattenSeq(seqs) = FlattenSeq(pre) \o seqs[k + 1]
      BY <2>1, FlatNext
    <3>2. QED
      BY <2>1, <2>2, <3>1
  <2> DEFINE A == F(k)
             B == f[k + 1]
  <2>4. /\ A \in Seq(S) /\ Len(A) = 2 * k
        /\ \A n \in 1..k : A[2 * n - 1] = f[n][1] /\ A[2 * n] = f[n][2]
        /\ B \in Seq(S) /\ Len(B) = 2
    BY <1>2, <2>1
  <2> HIDE DEF A, B
  <2>5. /\ A \o B \in Seq(S) /\ Len(A \o B) = 2 * k + 2
        /\ \A j \in 1..(2 * k) : (A \o B)[j] = A[j]
        /\ (A \o B)[2 * k + 1] = B[1] /\ (A \o B)[2 * k + 2] = B[2]
    <3>1. /\ A \o B \in Seq(S) /\ Len(A \o B) = Len(A) + Len(B)
          /\ \A j \in 1..Len(A) : (A \o B)[j] = A[j]
          /\ \A j \in 1..Len(B) : (A \o B)[Len(A) + j] = B[j]
      <4>1. A \in Seq(S) /\ B \in Seq(S)
        BY <2>4
      <4>2. QED
        BY <4>1, CatIs
    <3>2. 1 \in 1..Len(B) /\ 2 \in 1..Len(B)
      BY <2>4
    <3>3. QED
      BY <2>1, <2>4, <3>1, <3>2
  <2> DEFINE C == A \o B
  <2>6. C = F(k + 1)
    BY <2>3 DEF A, B
  <2>7. ASSUME NEW n \in 1..(k + 1) PROVE C[2 * n - 1] = f[n][1] /\ C[2 * n] = f[n][2]
    <3>1. CASE n = k + 1
      <4>1. 2 * n - 1 = 2 * k + 1 /\ 2 * n = 2 * k + 2
        BY <3>1
      <4>2. QED
        BY <2>5, <3>1, <4>1 DEF B
    <3>2. CASE n # k + 1
      <4>1. n \in 1..k /\ 2 * n - 1 \in 1..(2 * k) /\ 2 * n \in 1..(2 * k)
        BY <2>1, <3>2
      <4>2. QED
        BY <2>4, <2>5, <4>1
    <3>3. QED
      BY <3>1, <3>2
  <2>8. C \in Seq(S) /\ Len(C) = 2 * (k + 1)
    BY <2>1, <2>5
  <2> HIDE DEF C
  <2>9. QED
    BY <2>1, <2>6, <2>7, <2>8
<1>3. m \in T
  <2> HIDE DEF T
  <2>1. 0..m \subseteq T
    BY <1>1, <1>2, UpTo
  <2>2. QED
    BY <2>1
<1>4. f = [a \in 1..m |-> f[a]]
  OBVIOUS
<1>5. F(m) = FlattenSeq(f)
  BY <1>4
<1> HIDE DEF F
<1>6. QED
  BY <1>3, <1>5

LEMMA LastAppliedAt ==
  ASSUME NEW N, PrGroups(N), NEW cs, cs # <<>>, NEW g \in 1..Len(N), N[g].pr = Last(cs).pr
  PROVE  LastApplied(cs, N) = g
<1> DEFINE here == {h \in DOMAIN N : N[h].pr = Last(cs).pr}
           n    == Len(N)
<1>1. n \in Nat /\ DOMAIN N = 1..n /\ LastApplied(cs, N) = Min(here \cup {n + 1})
  BY DEF LastApplied, PrGroups
<1>2. here = {g}
  BY <1>1 DEF PrGroups
<1>3. {g, n + 1} \subseteq 0..(n + 1) /\ n + 1 \in Nat /\ {g, n + 1} # {} /\ here \cup {n + 1} = {g, n + 1}
  BY <1>1, <1>2
<1>4. Min({g, n + 1}) \in {g, n + 1} /\ \A k \in {g, n + 1} : Min({g, n + 1}) <= k
  BY <1>3, LeastIs
<1>5. Min({g, n + 1}) = g
  BY <1>1, <1>4
<1>6. QED
  BY <1>1, <1>3, <1>5

LEMMA StepsAre ==
  ASSUME NEW N, PrGroups(N), NEW cs \in Seq(GeckoCommit), cs # <<>> => Fits(cs, N)
  PROVE  /\ Found(cs, N) \in 1 .. 2 * Len(N) + 1
         /\ Len(Steps(cs, N)) = 2 * Len(N) + 1 - Found(cs, N)
         /\ \A k \in 1 .. Len(Steps(cs, N)) :
              \E g \in 1..Len(N) :
                \/ Found(cs, N) + k = 2 * g /\ Steps(cs, N)[k] = [group |-> g, type |-> "pr"]
                \/ Found(cs, N) + k = 2 * g + 1 /\ Steps(cs, N)[k] = [group |-> g, type |-> "metadata"]
<1> DEFINE at   == LastApplied(cs, N)
           n    == Len(N)
           key  == Found(cs, N)
           S    == [group : Nat, type : {"pr", "metadata"}]
           m    == n - at
           some == at > 0 /\ ~HasMetadata(cs)
           meta == IF some THEN <<[group |-> at, type |-> "metadata"]>> ELSE <<>>
           rest == [a \in 1..m |->
                     <<[group |-> at + a, type |-> "pr"], [group |-> at + a, type |-> "metadata"]>>]
           F    == FlattenSeq(rest)
<1>1. N \in Seq(Group) /\ n \in Nat
  BY DEF PrGroups
<1>2. at \in 0..n /\ (cs = <<>> => at = 0) /\ (cs # <<>> => at > 0)
  BY <1>1, LastAppliedIs
<1>3. Steps(cs, N) = meta \o F
  BY DEF Steps
<1>4. key = IF some THEN 2 * at ELSE 2 * at + 1
  BY <1>2 DEF Found, HasMetadata
<1> HIDE DEF at, n, key
<1>5. m \in Nat /\ rest \in [1..m -> Seq(S)] /\ \A a \in 1..m : Len(rest[a]) = 2
  <2>1. m \in Nat
    BY <1>1, <1>2
  <2>2. ASSUME NEW a \in 1..m
        PROVE  <<[group |-> at + a, type |-> "pr"], [group |-> at + a, type |-> "metadata"]>> \in Seq(S)
    <3>1. at + a \in Nat
      BY <1>2, <2>1
    <3>2. [group |-> at + a, type |-> "pr"] \in S /\ [group |-> at + a, type |-> "metadata"] \in S
      BY <3>1
    <3>3. QED
      BY <3>2
  <2>3. QED
    BY <2>1, <2>2
<1>6. \A a \in 1..m : /\ rest[a][1] = [group |-> at + a, type |-> "pr"]
                      /\ rest[a][2] = [group |-> at + a, type |-> "metadata"]
  OBVIOUS
<1>7. meta \in Seq(S) /\ Len(meta) = (IF some THEN 1 ELSE 0)
      /\ (some => meta[1] = [group |-> at, type |-> "metadata"])
  <2>1. CASE some
    <3>1. [group |-> at, type |-> "metadata"] \in S
      BY <1>1, <1>2
    <3>2. QED
      BY <2>1, <3>1
  <2>2. CASE ~some
    BY <2>2
  <2>3. QED
    BY <2>1, <2>2
<1> HIDE DEF S, some, meta, rest
<1>8. /\ F \in Seq(S) /\ Len(F) = 2 * m
      /\ \A a \in 1..m : F[2 * a - 1] = rest[a][1] /\ F[2 * a] = rest[a][2]
  BY <1>5, TwoEach
<1> HIDE DEF F
<1> DEFINE e == Len(meta)
<1>9. /\ Len(meta \o F) = e + 2 * m
      /\ \A k \in 1..e : (meta \o F)[k] = meta[k]
      /\ \A k \in 1..(2 * m) : (meta \o F)[e + k] = F[k]
  <2>1. /\ Len(meta \o F) = Len(meta) + Len(F)
        /\ \A k \in 1..Len(meta) : (meta \o F)[k] = meta[k]
        /\ \A k \in 1..Len(F) : (meta \o F)[Len(meta) + k] = F[k]
    <3>1. meta \in Seq(S) /\ F \in Seq(S)
      BY <1>7, <1>8
    <3>2. QED
      BY <3>1, CatIs
  <2>2. QED
    BY <1>8, <2>1
<1>10. e \in {0, 1} /\ key + e = 2 * at + 1 /\ (e = 1 => some)
  BY <1>2, <1>4, <1>7
<1>11. key \in 1 .. 2 * n + 1
  <2>1. at \in Nat /\ at <= n
    BY <1>1, <1>2
  <2>2. some => at > 0
    BY DEF some
  <2>3. QED
    BY <1>1, <1>4, <2>1, <2>2
<1> DEFINE steps == meta \o F
<1>12. /\ key \in Nat /\ n \in Nat /\ at \in Nat /\ m = n - at /\ m \in Nat /\ e \in {0, 1}
       /\ key + e = 2 * at + 1 /\ Len(steps) = e + 2 * m
  BY <1>1, <1>2, <1>5, <1>9, <1>10, <1>11
<1> HIDE DEF steps, m, e
<1>13. Len(steps) = 2 * n + 1 - key
  BY <1>12
<1>14. ASSUME NEW k \in 1 .. Len(steps)
       PROVE  \E g \in 1..n :
                \/ key + k = 2 * g /\ steps[k] = [group |-> g, type |-> "pr"]
                \/ key + k = 2 * g + 1 /\ steps[k] = [group |-> g, type |-> "metadata"]
  <2>1. k \in Nat /\ k >= 1 /\ Len(steps) = e + 2 * m /\ k <= e + 2 * m
    BY <1>12, <1>14
  <2>2. CASE k <= e
    <3>1. k = 1 /\ e = 1
      BY <1>12, <2>1, <2>2
    <3>2. steps[k] = [group |-> at, type |-> "metadata"]
      <4>1. 1 \in 1..e /\ some
        BY <1>10, <3>1
      <4>2. steps[1] = meta[1]
        BY <1>9, <4>1 DEF steps
      <4>3. QED
        BY <1>7, <3>1, <4>1, <4>2
    <3>3. at \in 1..n
      BY <1>10, <1>12, <3>1 DEF some
    <3>4. key + k = 2 * at + 1
      BY <1>12, <3>1
    <3>5. QED
      BY <3>2, <3>3, <3>4
  <2>3. CASE ~(k <= e)
    <3> DEFINE j == k - e
    <3>1. j \in 1..(2 * m) /\ k = e + j
      BY <1>12, <2>1, <2>3
    <3>2. steps[k] = F[j]
      BY <1>9, <3>1 DEF steps
    <3> HIDE DEF j
    <3>3. PICK a \in 1..m : j = 2 * a - 1 \/ j = 2 * a
      BY <1>5, <3>1, Halves
    <3>4. at + a \in 1..n
      BY <1>12
    <3>5. CASE j = 2 * a - 1
      <4>1. steps[k] = [group |-> at + a, type |-> "pr"]
        BY <1>6, <1>8, <3>2, <3>5
      <4>2. key + k = 2 * (at + a)
        BY <1>12, <3>1, <3>5
      <4>3. QED
        BY <3>4, <4>1, <4>2
    <3>6. CASE j = 2 * a
      <4>1. steps[k] = [group |-> at + a, type |-> "metadata"]
        BY <1>6, <1>8, <3>2, <3>6
      <4>2. key + k = 2 * (at + a) + 1
        BY <1>12, <3>1, <3>6
      <4>3. QED
        BY <3>4, <4>1, <4>2
    <3>7. QED
      BY <3>3, <3>5, <3>6
  <2>4. QED
    BY <2>2, <2>3
<1>15. QED
  BY <1>3, <1>11, <1>13, <1>14 DEF steps, n, key

\* What a commit of Contents is.
Content(c, N, from) ==
  /\ c.type = "metadata" => c.content = {}
  /\ c.type = "pr" =>
       \E g \in 1..Len(N), prev \in {from, FirstOf(N[1]) - 1} :
         c.pr = N[g].pr /\ c.content = Patch(N, g, prev)

LEMMA WantedIs ==
  ASSUME NEW N, PrGroups(N), NEW g \in 1..Len(N)
  PROVE  /\ Wanted(status, N, 2 * g) <=> status[N[g].pr] \notin {"upstream", "empty"}
         /\ Wanted(status, N, 2 * g + 1) <=> status[N[g].pr] = "metadata"
         /\ \A d : At(d, N, 2 * g) <=> d = <<N[g].pr, "pr">>
         /\ \A d : At(d, N, 2 * g + 1) <=> d = <<N[g].pr, "metadata">>
         /\ OfPr(N, 2 * g) /\ ~OfPr(N, 2 * g + 1)
<1>1. \A h \in 1..Len(N) : /\ 2 * g = 2 * h => g = h
                           /\ 2 * g + 1 = 2 * h + 1 => g = h
                           /\ 2 * g # 2 * h + 1 /\ 2 * g + 1 # 2 * h
  BY DEF PrGroups
<1>2. Wanted(status, N, 2 * g) <=> status[N[g].pr] \notin {"upstream", "empty"}
  BY <1>1 DEF Wanted
<1>3. Wanted(status, N, 2 * g + 1) <=> status[N[g].pr] = "metadata"
  BY <1>1 DEF Wanted
<1>4. \A d : At(d, N, 2 * g) <=> d = <<N[g].pr, "pr">>
  BY <1>1 DEF At
<1>5. \A d : At(d, N, 2 * g + 1) <=> d = <<N[g].pr, "metadata">>
  BY <1>1 DEF At
<1>6. OfPr(N, 2 * g) /\ ~OfPr(N, 2 * g + 1)
  BY <1>1 DEF OfPr
<1>7. QED
  BY <1>2, <1>3, <1>4, <1>5, <1>6

\* What a step of apply_prs makes does work k.
Does(made, N, k, from) ==
  \/ ~Wanted(status, N, k) /\ made = <<>>
  \/ Wanted(status, N, k) /\ \E c \in GeckoCommit :
       made = <<c>> /\ At(<<c.pr, c.type>>, N, k) /\ Content(c, N, from)

LEMMA OneStep ==
  ASSUME NEW N, PrGroups(N), AllTaken(N), NEW from, NEW prev \in Nat, prev \in {from, FirstOf(N[1]) - 1},
         NEW k \in Nat, NEW g \in 1..Len(N), NEW step,
         \/ k = 2 * g /\ step = [group |-> g, type |-> "pr"]
         \/ k = 2 * g + 1 /\ step = [group |-> g, type |-> "metadata"]
  PROVE  Does(NewCommits(N, step, prev), N, k, from)
<1>1. CASE k = 2 * g /\ step = [group |-> g, type |-> "pr"]
  <2> DEFINE c == [pr |-> N[g].pr, type |-> "pr", content |-> Patch(N, g, prev)]
  <2>1. NewCommits(N, step, prev) = AddPr(N, g, prev)
    BY <1>1 DEF NewCommits
  <2>2. CASE status[N[g].pr] \in {"upstream", "empty"}
    <3>1. NewCommits(N, step, prev) = <<>>
      BY <2>1, <2>2 DEF AddPr
    <3>2. QED
      BY <1>1, <2>2, <3>1, WantedIs DEF Does
  <2>3. CASE status[N[g].pr] \notin {"upstream", "empty"}
    <3>1. NewCommits(N, step, prev) = <<c>>
      BY <2>1, <2>3 DEF AddPr
    <3>2. c \in GeckoCommit
      <4>1. step \in [group : 1..Len(N), type : {"pr", "metadata"}]
        BY <1>1
      <4>2. NewCommits(N, step, prev) \in Seq(GeckoCommit)
        BY <4>1, NewCommitsType
      <4>3. Len(<<c>>) = 1 /\ <<c>>[1] = c
        OBVIOUS
      <4> HIDE DEF c
      <4>4. QED
        BY <3>1, <4>2, <4>3
    <3>3. c.pr = N[g].pr /\ c.type = "pr" /\ c.content = Patch(N, g, prev)
      OBVIOUS
    <3> HIDE DEF c
    <3>4. At(<<c.pr, c.type>>, N, k) /\ Wanted(status, N, k)
      BY <1>1, <2>3, <3>3, WantedIs
    <3>5. Content(c, N, from)
      BY <3>3 DEF Content
    <3>6. QED
      BY <3>1, <3>2, <3>4, <3>5 DEF Does
  <2>4. QED
    BY <2>2, <2>3
<1>2. CASE k = 2 * g + 1 /\ step = [group |-> g, type |-> "metadata"]
  <2> DEFINE c == [pr |-> N[g].pr, type |-> "metadata", content |-> {}]
  <2>1. NewCommits(N, step, prev) = AddMetadata(N[g].pr)
    BY <1>2 DEF NewCommits
  <2>2. CASE status[N[g].pr] # "metadata"
    <3>1. NewCommits(N, step, prev) = <<>>
      BY <2>1, <2>2 DEF AddMetadata
    <3>2. QED
      BY <1>2, <2>2, <3>1, WantedIs DEF Does
  <2>3. CASE status[N[g].pr] = "metadata"
    <3>1. NewCommits(N, step, prev) = <<c>>
      BY <2>1, <2>3 DEF AddMetadata
    <3>2. c \in GeckoCommit
      <4>1. step \in [group : 1..Len(N), type : {"pr", "metadata"}]
        BY <1>2
      <4>2. NewCommits(N, step, prev) \in Seq(GeckoCommit)
        BY <4>1, NewCommitsType
      <4>3. Len(<<c>>) = 1 /\ <<c>>[1] = c
        OBVIOUS
      <4> HIDE DEF c
      <4>4. QED
        BY <3>1, <4>2, <4>3
    <3>3. c.pr = N[g].pr /\ c.type = "metadata" /\ c.content = {}
      OBVIOUS
    <3> HIDE DEF c
    <3>4. At(<<c.pr, c.type>>, N, k) /\ Wanted(status, N, k)
      BY <1>2, <2>3, <3>3, WantedIs
    <3>5. Content(c, N, from)
      BY <3>3 DEF Content
    <3>6. QED
      BY <3>1, <3>2, <3>4, <3>5 DEF Does
  <2>4. QED
    BY <2>2, <2>3
<1>3. QED
  BY <1>1, <1>2

Pair(c) == <<c.pr, c.type>>
PairSet == PR \X {"pr", "metadata"}

LEMMA PairsAre ==
  ASSUME NEW cs \in Seq(GeckoCommit)
  PROVE  /\ Pairs(cs) \in Seq(PairSet) /\ Len(Pairs(cs)) = Len(cs)
         /\ \A n \in 1..Len(cs) : Pairs(cs)[n] = Pair(cs[n])
<1> DEFINE m == Len(cs)
<1>1. m \in Nat /\ \A n \in 1..m : cs[n] \in GeckoCommit
  OBVIOUS
<1>2. \A n \in 1..m : <<cs[n].pr, cs[n].type>> \in PairSet
  BY <1>1 DEF PairSet, GeckoCommit
<1>3. Pairs(cs) = [n \in 1..m |-> <<cs[n].pr, cs[n].type>>]
  BY DEF Pairs
<1> HIDE DEF m
<1>4. Pairs(cs) \in [1..m -> PairSet]
  BY <1>2, <1>3
<1>5. Pairs(cs) \in Seq(PairSet) /\ Len(Pairs(cs)) = m
  BY <1>1, <1>4, SeqOfFunction
<1>6. QED
  BY <1>3, <1>5 DEF m, Pair

LEMMA PairsAppend ==
  ASSUME NEW cs \in Seq(GeckoCommit), NEW c \in GeckoCommit
  PROVE  Pairs(Append(cs, c)) = Append(Pairs(cs), Pair(c))
<1> DEFINE m == Len(cs)
           D == Append(cs, c)
           P == Pairs(cs)
           E == Append(P, Pair(c))
<1>1. m \in Nat /\ D \in Seq(GeckoCommit) /\ Len(D) = m + 1 /\ D[m + 1] = c
      /\ \A n \in 1..m : D[n] = cs[n]
  OBVIOUS
<1>2. P \in Seq(PairSet) /\ Len(P) = m /\ \A n \in 1..m : P[n] = Pair(cs[n])
  BY PairsAre
<1>3. Pair(c) \in PairSet
  BY DEF Pair, PairSet, GeckoCommit
<1> HIDE DEF P, m
<1>4. E \in Seq(PairSet) /\ Len(E) = m + 1 /\ E[m + 1] = Pair(c) /\ \A n \in 1..m : E[n] = P[n]
  BY <1>1, <1>2, <1>3
<1> HIDE DEF D, E
<1>5. Pairs(D) \in Seq(PairSet) /\ Len(Pairs(D)) = m + 1 /\ \A n \in 1..(m + 1) : Pairs(D)[n] = Pair(D[n])
  BY <1>1, PairsAre
<1>6. \A n \in 1..(m + 1) : Pairs(D)[n] = E[n]
  <2>1. \A n \in 1..(m + 1) : n \in 1..m \/ n = m + 1
    BY <1>1
  <2>2. QED
    BY <1>1, <1>2, <1>4, <1>5, <2>1
<1>7. Pairs(D) = E
  BY <1>1, <1>4, <1>5, <1>6
<1>8. QED
  BY <1>7 DEF D, E, P

LEMMA ContentsAre ==
  ASSUME NEW cs, NEW N, NEW from
  PROVE  Contents(cs, N, from) <=> \A n \in 1..Len(cs) : Content(cs[n], N, from)
BY DEF Contents, Content

LEMMA ContentsAppend ==
  ASSUME NEW cs \in Seq(GeckoCommit), NEW c \in GeckoCommit, NEW N, NEW from,
         Contents(cs, N, from), Content(c, N, from)
  PROVE  Contents(Append(cs, c), N, from)
<1> DEFINE m == Len(cs)
           D == Append(cs, c)
<1>1. m \in Nat /\ Len(D) = m + 1 /\ D[m + 1] = c /\ \A n \in 1..m : D[n] = cs[n]
  OBVIOUS
<1>2. \A n \in 1..m : Content(cs[n], N, from)
  BY ContentsAre
<1> HIDE DEF m, D
<1>3. \A n \in 1..(m + 1) : Content(D[n], N, from)
  <2>1. \A n \in 1..(m + 1) : n \in 1..m \/ n = m + 1
    BY <1>1
  <2>2. QED
    BY <1>1, <1>2, <2>1
<1>4. Contents(D, N, from)
  BY <1>1, <1>3, ContentsAre
<1>5. QED
  BY <1>4 DEF D

LEMMA CatMore ==
  ASSUME NEW S, NEW A \in Seq(S), NEW B \in Seq(S), NEW c \in S
  PROVE  A \o (B \o <<c>>) = Append(A \o B, c) /\ A \o (B \o <<>>) = A \o B /\ A \o <<>> = A
OBVIOUS

\* The last commit tells how far the work is.
LEMMA FoundLast ==
  ASSUME NEW cs \in Seq(GeckoCommit), NEW N, PrGroups(N), NEW key \in Nat, NEW strict \in BOOLEAN,
         Progress(status, Pairs(cs), N, key, strict)
  PROVE  Found(cs, N) \in Nat /\ Progress(status, Pairs(cs), N, Found(cs, N), strict)
<1> DEFINE D == Pairs(cs)
           m == Len(cs)
           d == cs[m]
<1>1. D \in Seq(PairSet) /\ Len(D) = m /\ \A n \in 1..m : D[n] = Pair(cs[n])
  BY PairsAre
<1>2. CASE cs = <<>>
  <2>1. m = 0
    BY <1>2
  <2>2. D = <<>>
    BY <1>1, <2>1
  <2>3. Found(cs, N) = 1
    BY <1>2 DEF Found
  <2>4. Progress(status, <<>>, N, 1, strict)
    BY ProgressStart
  <2>5. QED
    BY <2>2, <2>3, <2>4
<1>3. CASE cs # <<>>
  <2>1. m \in Nat /\ m \in 1..m /\ Last(cs) = d
    BY <1>3 DEF Last
  <2>2. PICK f : CountedBy(status, f, D, N, key, strict)
    BY DEF Progress
  <2> HIDE DEF D, m, d
  <2>3. At(D[m], N, f[m])
    BY <1>1, <2>1, <2>2 DEF CountedBy
  <2>4. D[m] = <<d.pr, d.type>>
    BY <1>1, <2>1 DEF Pair, d
  <2>5. PICK g \in 1..Len(N) : /\ d.pr = N[g].pr
                               /\ \/ f[m] = 2 * g /\ d.type = "pr"
                                  \/ f[m] = 2 * g + 1 /\ d.type = "metadata"
    BY <2>3, <2>4 DEF At
  <2>6. LastApplied(cs, N) = g
    BY <1>3, <2>1, <2>5, LastAppliedAt
  <2>7. Found(cs, N) = IF d.type = "metadata" THEN 2 * g + 1 ELSE 2 * g
    BY <1>3, <2>1, <2>6 DEF Found, HasMetadata
  <2>8. g \in Nat
    BY DEF PrGroups
  <2>9. Found(cs, N) \in Nat
    BY <2>7, <2>8
  <2>10. f[m] = Found(cs, N)
    BY <2>5, <2>7
  <2>11. At(D[Len(D)], N, Found(cs, N))
    BY <1>1, <2>3, <2>10
  <2>12. D # <<>>
    <3>1. Len(D) # 0
      BY <1>1, <2>1
    <3>2. QED
      BY <3>1
  <2>13. D \in Seq(PairSet)
    BY <1>1
  <2>14. Progress(status, D, N, key, strict)
    BY DEF D
  <2>15. Progress(status, D, N, Found(cs, N), strict)
    BY <2>9, <2>11, <2>12, <2>13, <2>14, ProgressBack
  <2>16. QED
    BY <2>9, <2>15 DEF D
<1>4. QED
  BY <1>2, <1>3

\* A call of apply_prs goes on where the landing is.
LEMMA JobProgress ==
  ASSUME NEW l \in Landings, NEW N, PrGroups(N), AllTaken(N), NEW from,
         NEW prev \in Nat, prev \in {from, FirstOf(N[1]) - 1}, NEW strict \in BOOLEAN,
         l.commits # <<>> => Fits(l.commits, N),
         Progress(status, Pairs(l.commits), N, Found(l.commits, N), strict), Contents(l.commits, N, from),
         NEW new \in ApplyPrs(l, N, prev)
  PROVE  /\ Progress(status, Pairs(new.commits), N, Found(new.commits, N), strict)
         /\ new.done => Progress(status, Pairs(new.commits), N, 2 * Len(N) + 1, strict)
         /\ Contents(new.commits, N, from)
<1> DEFINE cs    == l.commits
           start == Found(cs, N)
           steps == Steps(cs, N)
           last  == Len(steps)
<1>1. cs \in Seq(GeckoCommit) /\ new \in Landings
  BY AppliedType DEF Landings
<1>2. /\ start \in 1 .. 2 * Len(N) + 1 /\ last = 2 * Len(N) + 1 - start
      /\ \A k \in 1..last :
           \E g \in 1..Len(N) :
             \/ start + k = 2 * g /\ steps[k] = [group |-> g, type |-> "pr"]
             \/ start + k = 2 * g + 1 /\ steps[k] = [group |-> g, type |-> "metadata"]
  BY <1>1, StepsAre
<1>3. Len(N) \in Nat /\ start \in Nat /\ last \in Nat
  BY <1>2 DEF PrGroups
<1>4. PICK x \in 0..last : new = Applied(l, N, x, prev)
  BY DEF ApplyPrs
<1> DEFINE Made(k) == NewCommits(N, steps[k], prev)
           F(n) == FlattenSeq([k \in 1..n |-> Made(k)])
           C(n) == cs \o F(n)
<1>5. new.commits = C(x) /\ new.done = (x = last)
  <2> HIDE DEF F, Made
  <2>1. new = [l EXCEPT !.commits = @ \o F(x), !.done = x = last]
    BY <1>4 DEF Applied, F, Made
  <2>2. QED
    BY <2>1 DEF Landings
<1>6. ASSUME NEW k \in 1..last
      PROVE  \/ ~Wanted(status, N, start + k) /\ Made(k) = <<>>
             \/ Wanted(status, N, start + k) /\ \E c \in GeckoCommit :
                  Made(k) = <<c>> /\ At(Pair(c), N, start + k) /\ Content(c, N, from)
  <2>1. PICK g \in 1..Len(N) :
             \/ start + k = 2 * g /\ steps[k] = [group |-> g, type |-> "pr"]
             \/ start + k = 2 * g + 1 /\ steps[k] = [group |-> g, type |-> "metadata"]
    BY <1>2
  <2> DEFINE step == steps[k]
             j == start + k
  <2>2. j \in Nat
    BY <1>3
  <2>3. \/ j = 2 * g /\ step = [group |-> g, type |-> "pr"]
        \/ j = 2 * g + 1 /\ step = [group |-> g, type |-> "metadata"]
    BY <2>1
  <2> HIDE DEF step, j, steps, start
  <2>4. Does(NewCommits(N, step, prev), N, j, from)
    BY <2>2, <2>3, OneStep
  <2>5. QED
    BY <2>4 DEF step, j, Pair, Does
<1> HIDE DEF start, steps, last
<1>7. \A k \in 1..last : Made(k) \in Seq(GeckoCommit)
  <2> HIDE DEF Made
  <2>1. ASSUME NEW k \in 1..last PROVE Made(k) \in Seq(GeckoCommit)
    <3>1. CASE Made(k) = <<>>
      BY <3>1
    <3>2. ASSUME NEW c \in GeckoCommit, Made(k) = <<c>> PROVE Made(k) \in Seq(GeckoCommit)
      BY <3>2
    <3>3. QED
      BY <1>6, <3>1, <3>2
  <2>2. QED
    BY <2>1
<1> HIDE DEF Made
<1>8. F(0) = <<>>
  <2>1. Len([k \in 1..0 |-> Made(k)]) = 0 /\ [k \in 1..0 |-> Made(k)] = <<>>
    OBVIOUS
  <2>2. QED
    BY <2>1, FlatNone
<1>9. \A n \in 0..last : F(n) \in Seq(GeckoCommit)
  <2>1. ASSUME NEW n \in 0..last PROVE F(n) \in Seq(GeckoCommit)
    <3> DEFINE f == [k \in 1..n |-> Made(k)]
    <3>1. n \in Nat /\ f \in [1..n -> Seq(GeckoCommit)]
      BY <1>3, <1>7
    <3> HIDE DEF f
    <3>2. FlattenSeq(f) \in Seq(GeckoCommit)
      BY <3>1, FlatType
    <3>3. QED
      BY <3>2 DEF f
  <2>2. QED
    BY <2>1
<1>10. ASSUME NEW n \in 0..(last - 1) PROVE F(n + 1) = F(n) \o Made(n + 1)
  <2> DEFINE seqs == [k \in 1..(n + 1) |-> Made(k)]
             pre  == [k \in 1..n |-> Made(k)]
  <2>1. /\ n \in Nat /\ Len(seqs) = n + 1 /\ \A k \in 1..(n + 1) : seqs[k] \in Seq(GeckoCommit)
        /\ Len(pre) = n /\ \A k \in 1..n : pre[k] = seqs[k]
        /\ n = 0 => pre = <<>>
        /\ seqs[n + 1] = Made(n + 1)
    BY <1>3, <1>7
  <2>2. F(n + 1) = FlattenSeq(seqs) /\ F(n) = FlattenSeq(pre)
    OBVIOUS
  <2> HIDE DEF seqs, pre, F
  <2>3. FlattenSeq(seqs) = FlattenSeq(pre) \o seqs[n + 1]
    BY <2>1, FlatNext
  <2>4. QED
    BY <2>1, <2>2, <2>3
<1> HIDE DEF F
<1> DEFINE T == {n \in 0..last : /\ C(n) \in Seq(GeckoCommit)
                                 /\ Progress(status, Pairs(C(n)), N, start + n, strict)
                                 /\ Contents(C(n), N, from)}
<1>11. 0 \in T
  <2>1. C(0) = cs
    BY <1>1, <1>8
  <2>2. start + 0 = start /\ 0 \in 0..last
    BY <1>3
  <2>3. Progress(status, Pairs(cs), N, start, strict)
    BY DEF start
  <2> HIDE DEF C
  <2>4. QED
    BY <1>1, <2>1, <2>2, <2>3
<1>12. ASSUME NEW n \in 0..(last - 1), n \in T PROVE n + 1 \in T
  <2> DEFINE key == start + n
             A == C(n)
  <2>1. key \in Nat /\ start + (n + 1) = key + 1 /\ n + 1 \in 1..last /\ n + 1 \in 0..last /\ n \in 0..last
    BY <1>3
  <2>2. A \in Seq(GeckoCommit) /\ Progress(status, Pairs(A), N, key, strict) /\ Contents(A, N, from)
    BY <1>12
  <2>3. C(n + 1) = cs \o (F(n) \o Made(n + 1)) /\ A = cs \o F(n)
    BY <1>10
  <2>4. F(n) \in Seq(GeckoCommit)
    BY <1>9, <2>1
  <2>5. \/ ~Wanted(status, N, key + 1) /\ Made(n + 1) = <<>>
        \/ Wanted(status, N, key + 1) /\ \E c \in GeckoCommit :
             Made(n + 1) = <<c>> /\ At(Pair(c), N, key + 1) /\ Content(c, N, from)
    BY <1>6, <2>1
  <2> HIDE DEF key, A, T
  <2>6. CASE ~Wanted(status, N, key + 1) /\ Made(n + 1) = <<>>
    <3>1. C(n + 1) = A
      <4>1. cs \o (F(n) \o <<>>) = cs \o F(n)
        <5>1. F(n) \o <<>> = F(n)
          BY <2>4
        <5>2. QED
          BY <5>1
      <4> HIDE DEF C
      <4>2. QED
        BY <2>3, <2>6, <4>1
    <3>2. Progress(status, Pairs(A), N, key + 1, strict)
      BY <2>1, <2>2, <2>6, ProgressNone
    <3> HIDE DEF C
    <3>3. QED
      BY <2>1, <2>2, <3>1, <3>2 DEF T
  <2>7. ASSUME Wanted(status, N, key + 1), NEW c \in GeckoCommit, Made(n + 1) = <<c>>,
               At(Pair(c), N, key + 1), Content(c, N, from)
        PROVE  n + 1 \in T
    <3>1. C(n + 1) = Append(A, c)
      <4>1. cs \o (F(n) \o <<c>>) = Append(cs \o F(n), c)
        <5> DEFINE B == F(n)
        <5>1. B \in Seq(GeckoCommit)
          BY <2>4
        <5> HIDE DEF B, C, cs
        <5>2. cs \o (B \o <<c>>) = Append(cs \o B, c)
          BY <1>1, <5>1, CatMore
        <5>3. QED
          BY <5>2 DEF B
      <4> HIDE DEF C
      <4>2. QED
        BY <2>3, <2>7, <4>1
    <3>2. Append(A, c) \in Seq(GeckoCommit)
      BY <2>2
    <3>3. Pairs(Append(A, c)) = Append(Pairs(A), Pair(c))
      BY <2>2, PairsAppend
    <3>4. Pairs(A) \in Seq(PairSet) /\ Pair(c) \in PairSet
      <4>1. Pair(c) \in PairSet
        BY DEF Pair, PairSet, GeckoCommit
      <4>2. QED
        BY <2>2, <4>1, PairsAre
    <3>5. Progress(status, Append(Pairs(A), Pair(c)), N, key + 1, strict)
      BY <2>1, <2>2, <2>7, <3>4, ProgressMore
    <3>6. Contents(Append(A, c), N, from)
      BY <2>2, <2>7, ContentsAppend
    <3> HIDE DEF C
    <3>7. QED
      BY <2>1, <3>1, <3>2, <3>3, <3>5, <3>6 DEF T
  <2>8. QED
    BY <2>5, <2>6, <2>7
<1>13. x \in T
  <2> HIDE DEF T
  <2>1. 0..last \subseteq T
    BY <1>3, <1>11, <1>12, UpTo
  <2>2. QED
    BY <1>4, <2>1
<1> DEFINE D == C(x)
<1>14. D \in Seq(GeckoCommit) /\ Progress(status, Pairs(D), N, start + x, strict) /\ Contents(D, N, from)
  BY <1>13
<1>15. start + x \in Nat /\ (x = last => start + x = 2 * Len(N) + 1)
  BY <1>2, <1>3, <1>4 DEF start, last, steps
<1>16. new.commits = D /\ new.done = (x = last)
  BY <1>5
<1> HIDE DEF D
<1>17. Progress(status, Pairs(D), N, Found(D, N), strict)
  BY <1>14, <1>15, FoundLast
<1>18. QED
  BY <1>14, <1>15, <1>16, <1>17

LEMMA ProgressWeaker ==
  ASSUME NEW D, NEW N, NEW key, NEW strict \in BOOLEAN, Progress(status, D, N, key, TRUE)
  PROVE  Progress(status, D, N, key, strict)
<1>1. PICK f : CountedBy(status, f, D, N, key, TRUE)
  BY DEF Progress
<1>2. CountedBy(status, f, D, N, key, strict)
  BY <1>1 DEF CountedBy
<1>3. QED
  BY <1>2 DEF Progress

\* The groups of a range are groups of PRs when each is taken.
LEMMA PrGroupsAre ==
  ASSUME NEW N, AllTaken(N), NEW m, NEW from, NEW to, NEW skip, GroupsOf(N, m, from, to, skip)
  PROVE  PrGroups(N)
<1>1. N \in Seq(Group) /\ Len(N) \in Nat
  BY DEF AllTaken
<1>2. \A g \in 1..Len(N) : N[g].pr \in PR
  BY DEF AllTaken, TakenGroup
<1>3. QED
  BY <1>1, <1>2 DEF GroupsOf, PrGroups

\* A landing that is created takes the groups of its own commits.
LEMMA TakesItsOwn ==
  ASSUME MasterTypes, NEW all \in BOOLEAN, NEW c, NEW x, NEW N, NEW to \in Nat, to <= Len(master),
         GroupsOf(N, master, base, to, {Zero}), Taken(c, N, x, base, all), x > 0
  PROVE  /\ \A i \in (base + 1)..c.head : master[i] # NoPr
         /\ Alone(master, base, c.head) => GroupsOf(c.taken, master, base, c.head, {Zero})
<1> DEFINE head == LastOf(N[x])
           T    == c.taken
<1>1. /\ base \in Nat /\ N \in Seq(Group) /\ Len(N) \in Nat /\ x \in 1..Len(N)
      /\ c.head = head /\ T \in Seq(Group) /\ Len(T) = x
      /\ \A k \in 1..x : T[k] = N[k] /\ ~StopsAt(N[k], all)
  BY DEF Taken, GroupsOf, MasterTypes
<1>2. \A k \in 1..Len(N) : N[k] \in Group /\ IsGroup(N[k], master, base, to, {Zero})
  <2>1. \A k \in 1..Len(N) : IsGroup(N[k], master, base, to, {Zero})
    BY DEF GroupsOf
  <2>2. \A k \in 1..Len(N) : N[k] \in Group
    BY <1>1
  <2>3. QED
    BY <2>1, <2>2
<1>3. \A k \in 1..Len(N) :
        /\ LastOf(N[k]) \in Nat /\ LastOf(N[k]) \in (base + 1)..to /\ Within(N[k]) \subseteq Nat
        /\ \A i \in Within(N[k]) : i \in (base + 1)..to /\ i <= LastOf(N[k])
        /\ N[k].pr \notin PR => Within(N[k]) = {LastOf(N[k])}
  <2>1. ASSUME NEW k \in 1..Len(N)
        PROVE  /\ LastOf(N[k]) \in Nat /\ LastOf(N[k]) \in (base + 1)..to /\ Within(N[k]) \subseteq Nat
               /\ \A i \in Within(N[k]) : i \in (base + 1)..to /\ i <= LastOf(N[k])
               /\ N[k].pr \notin PR => Within(N[k]) = {LastOf(N[k])}
    <3> DEFINE g == N[k]
    <3>1. g \in Group /\ IsGroup(g, master, base, to, {Zero})
      BY <1>2
    <3> HIDE DEF g
    <3>2. /\ LastOf(g) \in Within(g)
          /\ \A i \in Within(g) : FirstOf(g) <= i /\ i <= LastOf(g)
          /\ Within(g) \subseteq Nat /\ Within(g) \subseteq (base + 1)..to
          /\ LastOf(g) \in Nat
          /\ g.pr \notin PR => Within(g) = {LastOf(g)}
      BY <1>1, <3>1, GroupFacts
    <3>3. QED
      BY <3>2 DEF g
  <2>2. QED
    BY <2>1
<1>4. \A k, j \in 1..Len(N) : k < j => LastOf(N[k]) < LastOf(N[j])
  BY DEF GroupsOf
<1>5. head \in Nat /\ head \in (base + 1)..to
  BY <1>1, <1>3
<1>6. \A i \in (base + 1)..to : master[i] \notin {Zero} => \E k \in 1..Len(N) : i \in Within(N[k])
  BY DEF GroupsOf
<1> HIDE DEF head
<1>7. ASSUME NEW i \in (base + 1)..head, master[i] = NoPr PROVE FALSE
  <2>1. i \in (base + 1)..to /\ master[i] \notin {Zero}
    BY <1>1, <1>5, <1>7, LandingCommitsAssumption
  <2>2. PICK k \in 1..Len(N) : i \in Within(N[k])
    BY <1>6, <2>1
  <2>3. N[k].pr = NoPr
    BY <1>2, <1>7, <2>2 DEF IsGroup
  <2>4. i = LastOf(N[k])
    BY <1>3, <2>2, <2>3, LandingCommitsAssumption
  <2>5. ~(x < k)
    <3>1. i <= head
      BY <1>1, <1>5
    <3>2. QED
      BY <1>1, <1>3, <1>4, <2>4, <3>1 DEF head
  <2>6. k \in 1..x
    BY <1>1, <2>5
  <2>7. ~StopsAt(N[k], all)
    BY <1>1, <2>6
  <2>8. QED
    BY <2>3, <2>7 DEF StopsAt
<1>8. ASSUME Alone(master, base, head) PROVE GroupsOf(T, master, base, head, {Zero})
  <2>1. \A k \in 1..x : k \in 1..Len(N) /\ LastOf(N[k]) <= head
    <3>1. ASSUME NEW k \in 1..x PROVE k \in 1..Len(N) /\ LastOf(N[k]) <= head
      <4>1. k \in 1..Len(N) /\ (k = x \/ k < x)
        BY <1>1
      <4>2. k < x => LastOf(N[k]) < LastOf(N[x])
        BY <1>1, <1>4, <4>1
      <4>3. LastOf(N[k]) \in Nat
        BY <1>3, <4>1
      <4>4. QED
        BY <1>5, <4>1, <4>2, <4>3 DEF head
    <3>2. QED
      BY <3>1
  <2>2. ASSUME NEW k \in 1..x PROVE IsGroup(T[k], master, base, head, {Zero})
    <3>1. T[k] = N[k] /\ k \in 1..Len(N)
      BY <1>1, <2>1
    <3>2. IsGroup(N[k], master, base, to, {Zero})
      BY <1>2, <3>1
    <3>3. \A i \in Within(N[k]) : i \in (base + 1)..head
      <4>1. ASSUME NEW i \in Within(N[k]) PROVE i \in (base + 1)..head
        <5>1. i \in (base + 1)..to /\ i <= LastOf(N[k]) /\ LastOf(N[k]) <= head /\ LastOf(N[k]) \in Nat
          BY <1>3, <2>1, <3>1
        <5>2. QED
          BY <1>1, <1>5, <5>1
      <4>2. QED
        BY <4>1
    <3>4. QED
      BY <3>1, <3>2, <3>3 DEF IsGroup
  <2>3. ASSUME NEW i \in (base + 1)..head, master[i] \notin {Zero}
        PROVE  \E k \in 1..x : i \in Within(T[k])
    <3>1. i \in (base + 1)..to /\ i <= head
      BY <1>1, <1>5
    <3>2. PICK k \in 1..Len(N) : i \in Within(N[k])
      BY <1>6, <2>3, <3>1
    <3>3. ~(x < k)
      <4>1. SUFFICES ASSUME x < k PROVE FALSE
        OBVIOUS
      <4>2. LastOf(N[x]) < LastOf(N[k])
        BY <1>1, <1>4, <4>1
      <4>3. x # k /\ LastOf(N[x]) <= head /\ i <= LastOf(N[x]) /\ x \in 1..Len(N)
        BY <1>1, <1>5, <3>1, <4>1 DEF head
      <4>4. 1..to \subseteq DOMAIN master
        BY DEF MasterTypes
      <4>5. LastOf(N[k]) < LastOf(N[x])
        BY <1>1, <1>5, <1>8, <3>2, <4>3, <4>4, Apart
      <4>6. LastOf(N[k]) \in Nat /\ LastOf(N[x]) \in Nat
        BY <1>1, <1>3
      <4>7. QED
        BY <4>2, <4>5, <4>6
    <3>4. k \in 1..x
      BY <1>1, <3>3
    <3>5. QED
      BY <1>1, <3>2, <3>4
  <2>4. \A k, j \in 1..x : k \in 1..Len(N) /\ j \in 1..Len(N) /\ T[k] = N[k] /\ T[j] = N[j]
    BY <1>1
  <2>5. \A k, j \in 1..x : T[k].pr = T[j].pr /\ T[k].pr \in PR => k = j
    BY <2>4 DEF GroupsOf
  <2>6. \A k, j \in 1..x : k < j => LastOf(T[k]) < LastOf(T[j])
    BY <1>4, <2>4
  <2> HIDE DEF T
  <2>7. QED
    BY <1>1, <2>2, <2>3, <2>5, <2>6 DEF GroupsOf
<1>9. QED
  BY <1>1, <1>7, <1>8

\* One that goes on takes all groups of its commits.
LEMMA TakesAll ==
  ASSUME NEW from \in Nat, NEW to \in Nat, NEW all \in BOOLEAN, NEW c, NEW x,
         NEW N, GroupsOf(N, master, from, to, {Zero}), Taken(c, N, x, from, all),
         x = Len(N) \/ (c.outcome = "landing" /\ c.head = to)
  PROVE  c.taken = N /\ x = Len(N)
<1>1. /\ N \in Seq(Group) /\ Len(N) \in Nat /\ x \in 0..Len(N) /\ c.taken \in Seq(Group) /\ Len(c.taken) = x
      /\ \A k \in 1..x : c.taken[k] = N[k]
  BY DEF Taken, GroupsOf
<1>2. x = Len(N)
  <2>1. SUFFICES ASSUME x < Len(N), c.outcome = "landing", c.head = to PROVE FALSE
    BY <1>1
  <2>2. x > 0 /\ LastOf(N[x]) = to
    BY <2>1 DEF Taken
  <2> DEFINE g == N[x + 1]
  <2>3. x \in 1..Len(N) /\ x + 1 \in 1..Len(N) /\ x < x + 1
    BY <1>1, <2>1, <2>2
  <2>4. LastOf(N[x]) < LastOf(g)
    BY <2>3 DEF GroupsOf
  <2>5. g \in Group /\ IsGroup(g, master, from, to, {Zero})
    <3>1. \A k \in 1..Len(N) : IsGroup(N[k], master, from, to, {Zero})
      BY DEF GroupsOf
    <3>2. \A k \in 1..Len(N) : N[k] \in Group
      BY <1>1
    <3>3. QED
      BY <2>3, <3>1, <3>2
  <2> HIDE DEF g
  <2>6. LastOf(g) \in Within(g) /\ Within(g) \subseteq (from + 1)..to
    BY <2>5, GroupFacts
  <2>7. LastOf(g) \in (from + 1)..to
    BY <2>6
  <2>8. QED
    BY <2>2, <2>4, <2>7
<1>3. QED
  BY <1>1, <1>2

-----------------------------------------------------------------------------
(* The steps that keep CommitsInv. *)

ItsGroups ==
  landing # NoLanding =>
    /\ GroupsOf(Its(landing), master, base, landing.to, {Zero})
    /\ base \in Nat /\ landing.to \in Nat /\ base < landing.to
    /\ landing.to <= Len(master) /\ DOMAIN master = 1..Len(master) /\ Len(master) \in Nat

LEMMA ItsAreGroups == TypesInv => ItsGroups
<1> SUFFICES ASSUME TypesInv, landing # NoLanding
             PROVE  /\ GroupsOf(Its(landing), master, base, landing.to, {Zero})
                    /\ base \in Nat /\ landing.to \in Nat /\ base < landing.to
                    /\ landing.to <= Len(master) /\ DOMAIN master = 1..Len(master) /\ Len(master) \in Nat
  BY DEF ItsGroups
<1>1. GroupsOf(Its(landing), master, base, landing.to, {Zero})
  BY AgainIs DEF Its
<1>2. base \in Nat /\ landing.to \in Nat /\ base < landing.to /\ landing.to <= Len(master)
      /\ DOMAIN master = 1..Len(master) /\ Len(master) \in Nat
  BY DEF TypesInv, MasterTypes, LandingTypes
<1>3. QED
  BY <1>1, <1>2

LEMMA ItsStayGroups == TypesInv' => ItsGroups'
BY ItsAreGroups, PTL

\* A commit that arrives, or one that a person gives a PR, is none of the landing's.
LEMMA MasterMoves ==
  ASSUME TypesInv, TypesInv', CommitsInv, UNCHANGED <<base, status, landing>>,
         \A j \in DOMAIN master :
           j \in DOMAIN master' /\ (master[j] # NoPr => master'[j] = master[j])
  PROVE  CommitsInv'
<1> SUFFICES ASSUME landing # NoLanding
             PROVE  OpenInv(master', status, base, landing, Its(landing)')
  BY DEF CommitsInv
<1>1. PICK l : l = landing
  OBVIOUS
<1>2. PICK b : b = base
  OBVIOUS
<1>3. PICK N : N = Its(landing)
  OBVIOUS
<1>4. PICK M : M = Its(landing)'
  OBVIOUS
<1>5. PICK m : m = master
  OBVIOUS
<1>6. PICK new : new = master'
  OBVIOUS
<1>7. /\ GroupsOf(N, m, b, l.to, {Zero}) /\ b \in Nat /\ l.to \in Nat /\ b < l.to
      /\ l.to <= Len(m) /\ DOMAIN m = 1..Len(m) /\ Len(m) \in Nat
  BY <1>1, <1>2, <1>3, <1>5, ItsAreGroups DEF ItsGroups
<1>8. GroupsOf(M, new, b, l.to, {Zero})
  <2>1. GroupsOf(Its(landing)', master', base', landing'.to, {Zero})
    BY ItsStayGroups DEF ItsGroups
  <2>2. QED
    BY <1>1, <1>2, <1>4, <1>6, <2>1
<1>9. OpenInv(m, status, b, l, N)
  BY <1>1, <1>2, <1>3, <1>5 DEF CommitsInv
<1>10. \A i \in (b + 1)..l.to : i \in DOMAIN m /\ m[i] # NoPr /\ new[i] = m[i]
  <2>1. \A i \in (b + 1)..l.to : i \in DOMAIN m
    BY <1>7
  <2>2. \A i \in (b + 1)..l.to : m[i] # NoPr
    BY <1>9 DEF OpenInv, AllNamed
  <2>3. QED
    BY <1>5, <1>6, <2>1, <2>2
<1>11. M = N
  BY <1>7, <1>8, <1>10, OneGrouping
<1>12. AllNamed(new, b, l.to)
  BY <1>10 DEF AllNamed
<1>13. ASSUME Alone(new, b, l.to) PROVE Alone(m, b, l.to)
  <2>1. SUFFICES ASSUME NEW i \in DOMAIN m, NEW j \in DOMAIN m, NEW k \in DOMAIN m,
                        i < j, j < k, b < j, j <= l.to, m[i] = m[k], m[i] \in PR
                 PROVE  m[j] = m[i]
    BY DEF Alone
  <2>2. i \in DOMAIN new /\ j \in DOMAIN new /\ k \in DOMAIN new
    BY <1>5, <1>6
  <2>3. new[i] = m[i] /\ new[k] = m[k]
    BY <1>5, <1>6, <2>1, LandingCommitsAssumption
  <2>4. j \in (b + 1)..l.to
    BY <1>7, <2>1
  <2>5. new[j] = m[j]
    BY <1>10, <2>4
  <2>6. new[j] = new[i]
    BY <1>13, <2>1, <2>2, <2>3 DEF Alone
  <2>7. QED
    BY <2>3, <2>5, <2>6
<1>14. OpenInv(new, status, b, l, M)
  BY <1>9, <1>11, <1>12, <1>13 DEF OpenInv
<1>15. QED
  BY <1>1, <1>2, <1>4, <1>6, <1>14

\* Other work is wanted only of the metadata, and none is wanted no more.
LEMMA ProgressMoves ==
  ASSUME NEW old, NEW st, NEW D, NEW N, NEW key, NEW strict, Progress(old, D, N, key, strict),
         \A k : Wanted(old, N, k) => Wanted(st, N, k),
         \A k : Wanted(st, N, k) /\ (strict \/ OfPr(N, k)) => Wanted(old, N, k)
  PROVE  Progress(st, D, N, key, strict)
<1>1. PICK f : CountedBy(old, f, D, N, key, strict)
  BY DEF Progress
<1>2. CountedBy(st, f, D, N, key, strict)
  BY <1>1 DEF CountedBy
<1>3. QED
  BY <1>2 DEF Progress

NoEmpty == "empty" \notin SyncKinds

LEMMA StatusMoves ==
  ASSUME NoEmpty, TypesInv, TypesInv', CommitsInv, NEW p \in PR, NEW s \in SyncKinds, SyncGoesOn(p, s)
  PROVE  CommitsInv'
<1> SUFFICES ASSUME landing # NoLanding
             PROVE  OpenInv(master, status', base, landing, Its(landing))
  <2>1. UNCHANGED <<master, base, landing>>
    BY DEF SyncGoesOn
  <2>2. ASSUME landing # NoLanding PROVE Its(landing)' = Its(landing)
    <3>1. PICK l : l = landing
      OBVIOUS
    <3>2. PICK b : b = base
      OBVIOUS
    <3>3. PICK N : N = Its(landing)
      OBVIOUS
    <3>4. PICK M : M = Its(landing)'
      OBVIOUS
    <3>5. PICK m : m = master
      OBVIOUS
    <3>6. GroupsOf(N, m, b, l.to, {Zero}) /\ b \in Nat /\ l.to \in Nat
      BY <2>2, <3>1, <3>2, <3>3, <3>5, ItsAreGroups DEF ItsGroups
    <3>7. GroupsOf(M, m, b, l.to, {Zero})
      <4>1. GroupsOf(Its(landing)', master', base', landing'.to, {Zero})
        BY <2>1, <2>2, ItsStayGroups DEF ItsGroups
      <4>2. QED
        BY <2>1, <3>1, <3>2, <3>4, <3>5, <4>1
    <3>8. M = N
      BY <3>6, <3>7, OneGrouping
    <3>9. QED
      BY <3>3, <3>4, <3>8
  <2>3. QED
    BY <2>1, <2>2 DEF CommitsInv
<1>1. PICK l : l = landing
  OBVIOUS
<1>2. PICK N : N = Its(landing)
  OBVIOUS
<1>3. PICK old : old = status
  OBVIOUS
<1>4. PICK st : st = status'
  OBVIOUS
<1>5. OpenInv(master, old, base, l, N)
  BY <1>1, <1>2, <1>3 DEF CommitsInv
<1>6. /\ st = [old EXCEPT ![p] = s] /\ s # "no_sync" /\ s # "empty"
      /\ old \in [PR -> SyncKinds \cup {"no_sync"}]
      /\ old[p] = "no_sync" \/ (old[p] = "missing" /\ s \in {"ready", "metadata", "empty"})
  BY <1>3, <1>4, LandingCommitsAssumption DEF SyncGoesOn, TypesInv, MasterTypes, NoEmpty
<1>7. SUFFICES ASSUME Alone(master, base, l.to)
               PROVE  Whole(st, l, N) /\ Applying(st, l, N, base)
  BY <1>1, <1>2, <1>4, <1>5 DEF OpenInv
<1>8. Whole(old, l, N) /\ Applying(old, l, N, base)
  BY <1>5, <1>7 DEF OpenInv
<1>9. l \in Landings
  BY <1>1 DEF TypesInv, LandingTypes
<1>10. \A g \in 1..Len(N) : N[g].pr \in PR
  <2>1. /\ N \in Seq(Group) /\ l.prs \in Seq(PR) /\ l.prs = [g \in DOMAIN N |-> N[g].pr]
    BY <1>1, <1>2, <1>8, <1>9, ItsAreGroups DEF Whole, Landings, GroupsOf, ItsGroups
  <2>2. DOMAIN N = 1..Len(N) /\ Len(N) \in Nat
    BY <2>1
  <2>3. \A g \in 1..Len(N) : l.prs[g] = N[g].pr /\ g \in DOMAIN l.prs
    BY <2>1, <2>2
  <2>4. \A g \in DOMAIN l.prs : l.prs[g] \in PR
    BY <2>1
  <2>5. QED
    BY <2>3, <2>4
<1>11. \A g \in 1..Len(N) :
         /\ old[N[g].pr] # "no_sync" /\ st[N[g].pr] # "no_sync"
         /\ l.all \/ (N[g].pr # p /\ st[N[g].pr] = old[N[g].pr])
         /\ N[g].pr = p => old[N[g].pr] = "missing" /\ st[N[g].pr] \in {"ready", "metadata"}
         /\ N[g].pr # p => st[N[g].pr] = old[N[g].pr]
  <2>1. ASSUME NEW g \in 1..Len(N)
        PROVE  /\ old[N[g].pr] # "no_sync" /\ st[N[g].pr] # "no_sync"
               /\ l.all \/ (N[g].pr # p /\ st[N[g].pr] = old[N[g].pr])
               /\ N[g].pr = p => old[N[g].pr] = "missing" /\ st[N[g].pr] \in {"ready", "metadata"}
               /\ N[g].pr # p => st[N[g].pr] = old[N[g].pr]
    <3>1. PICK q \in PR : q = N[g].pr
      BY <1>10
    <3>2. old[q] # "no_sync" /\ (l.all \/ old[q] # "missing")
      BY <1>8, <3>1 DEF Whole
    <3>3. st[q] = IF q = p THEN s ELSE old[q]
      BY <1>6
    <3>4. QED
      BY <1>6, <3>1, <3>2, <3>3
  <2>2. QED
    BY <2>1
<1>12. Whole(st, l, N)
  BY <1>8, <1>11 DEF Whole
<1>13. \A k : Wanted(old, N, k) => Wanted(st, N, k)
  <2>1. ASSUME NEW k, Wanted(old, N, k) PROVE Wanted(st, N, k)
    <3>1. PICK g \in 1..Len(N) : \/ k = 2 * g /\ old[N[g].pr] \notin {"upstream", "empty"}
                                 \/ k = 2 * g + 1 /\ old[N[g].pr] = "metadata"
      BY <2>1 DEF Wanted
    <3>2. \/ k = 2 * g /\ st[N[g].pr] \notin {"upstream", "empty"}
          \/ k = 2 * g + 1 /\ st[N[g].pr] = "metadata"
      BY <1>11, <3>1
    <3>3. QED
      BY <3>2 DEF Wanted
  <2>2. QED
    BY <2>1
<1>14. N \in Seq(Group) /\ Len(N) \in Nat
  BY <1>1, <1>2, ItsAreGroups DEF GroupsOf, ItsGroups
<1>15. \A k : Wanted(st, N, k) /\ (~l.all \/ OfPr(N, k)) => Wanted(old, N, k)
  <2>1. ASSUME NEW k, Wanted(st, N, k), ~l.all \/ OfPr(N, k) PROVE Wanted(old, N, k)
    <3>1. PICK g \in 1..Len(N) : \/ k = 2 * g /\ st[N[g].pr] \notin {"upstream", "empty"}
                                 \/ k = 2 * g + 1 /\ st[N[g].pr] = "metadata"
      BY <2>1 DEF Wanted
    <3>2. CASE ~l.all
      <4>1. st[N[g].pr] = old[N[g].pr]
        BY <1>11, <3>2
      <4>2. QED
        BY <3>1, <4>1 DEF Wanted
    <3>3. CASE OfPr(N, k)
      <4>1. PICK h \in 1..Len(N) : k = 2 * h
        BY <3>3 DEF OfPr
      <4>2. k = 2 * g
        BY <1>14, <3>1, <4>1
      <4>3. st[N[g].pr] \notin {"upstream", "empty"}
        BY <1>14, <3>1, <4>2
      <4>4. old[N[g].pr] \notin {"upstream", "empty"}
        BY <1>11, <4>3
      <4>5. QED
        BY <4>2, <4>4 DEF Wanted
    <3>4. QED
      BY <2>1, <3>2, <3>3
  <2>2. QED
    BY <2>1
<1> DEFINE strict == ~l.all
           D      == Pairs(l.commits)
<1>16. \A key : Progress(old, D, N, key, strict) => Progress(st, D, N, key, strict)
  BY <1>13, <1>15, ProgressMoves
<1>17. Applying(st, l, N, base)
  BY <1>8, <1>16 DEF Applying
<1>18. QED
  BY <1>12, <1>17

LEMMA JobApplies ==
  ASSUME NEW l \in Landings, NEW N, PrGroups(N), AllTaken(N), NEW from,
         NEW prev \in Nat, prev \in {from, FirstOf(N[1]) - 1},
         l.commits # <<>> => Fits(l.commits, N),
         Progress(status, Pairs(l.commits), N, Found(l.commits, N), ~l.all),
         Contents(l.commits, N, from), Whole(status, l, N),
         NEW new \in ApplyPrs(l, N, prev)
  PROVE  Whole(status, new, N) /\ Applying(status, new, N, from)
<1>1. new \in Landings /\ new.to = l.to /\ new.all = l.all /\ new.prs = l.prs
  BY AppliedType
<1>2. Whole(status, new, N)
  BY <1>1 DEF Whole
<1> DEFINE strict == ~l.all
<1>3. strict \in BOOLEAN /\ Progress(status, Pairs(l.commits), N, Found(l.commits, N), strict)
  BY DEF Landings
<1> HIDE DEF strict
<1>4. /\ Progress(status, Pairs(new.commits), N, Found(new.commits, N), strict)
      /\ new.done => Progress(status, Pairs(new.commits), N, 2 * Len(N) + 1, strict)
      /\ Contents(new.commits, N, from)
  BY <1>3, JobProgress
<1>5. strict = ~new.all
  BY <1>1 DEF strict
<1>6. Applying(status, new, N, from)
  BY <1>4, <1>5 DEF Applying
<1>7. QED
  BY <1>2, <1>6

LEMMA CreationKeeps ==
  ASSUME TypesInv, TypesInv', NEW all \in BOOLEAN, NewLanding(all)
  PROVE  CommitsInv'
<1> DEFINE c == Chosen(all)
           l == Fresh(all)
           head == c.head
<1>1. /\ Job(l, c.taken, base) /\ landing' \in ApplyPrs(l, c.taken, base)
      /\ UNCHANGED <<master, base, status>>
  BY FreshJob
<1>2. PICK new : new = landing'
  OBVIOUS
<1>3. /\ l \in Landings /\ l.to = head /\ l.all = all /\ l.done = FALSE /\ l.commits = <<>>
      /\ l.prs = [g \in DOMAIN c.taken |-> c.taken[g].pr]
      /\ AllTaken(c.taken) /\ Len(c.taken) > 0
  BY <1>1 DEF Job, Fresh
<1>4. new.to = head /\ new \in ApplyPrs(l, c.taken, base)
  <2>1. base \in Nat
    BY DEF TypesInv, MasterTypes
  <2> DEFINE T == c.taken
  <2>2. l \in Landings /\ AllTaken(T) /\ (l.commits # <<>> => Fits(l.commits, T)) /\ new \in ApplyPrs(l, T, base)
    BY <1>1, <1>2, <1>3
  <2> HIDE DEF T, l
  <2>3. new.to = l.to
    BY <2>1, <2>2, AppliedType
  <2>4. QED
    BY <1>1, <1>2, <1>3, <2>3
<1>5. MasterTypes /\ base \in Nat /\ Len(master) \in Nat /\ base <= Len(master)
  BY DEF TypesInv, MasterTypes
<1>6. GroupsOf(Numbered(base, Len(master)), master, base, Len(master), {Zero})
  <2>1. base <= Len(master) /\ Len(master) <= Len(master)
    BY <1>5
  <2>2. QED
    BY <1>5, <2>1, MasterGroups
<1>7. PICK x : Taken(c, Numbered(base, Len(master)), x, base, all)
  BY <1>5, <1>6, LandableTaken DEF Chosen
<1>8. x > 0 /\ c.taken \in Seq(Group) /\ Len(c.taken) = x
      /\ \A k \in 1..x : ~StopsAt(c.taken[k], all)
  BY <1>3, <1>7 DEF Taken
<1> HIDE DEF c, l, head
<1>9. /\ \A i \in (base + 1)..head : master[i] # NoPr
      /\ Alone(master, base, head) => GroupsOf(c.taken, master, base, head, {Zero})
  <2> DEFINE N  == Numbered(base, Len(master))
             to == Len(master)
  <2>1. GroupsOf(N, master, base, to, {Zero}) /\ to \in Nat /\ to <= Len(master) /\ Taken(c, N, x, base, all)
    BY <1>5, <1>6, <1>7
  <2> HIDE DEF N, to
  <2>2. /\ \A i \in (base + 1)..c.head : master[i] # NoPr
        /\ Alone(master, base, c.head) => GroupsOf(c.taken, master, base, c.head, {Zero})
    BY <1>5, <1>8, <2>1, TakesItsOwn
  <2>3. QED
    BY <2>2 DEF head
<1> SUFFICES ASSUME new # NoLanding
             PROVE  OpenInv(master, status, base, new, Its(landing)')
  BY <1>1, <1>2 DEF CommitsInv
<1>10. PICK M : M = Its(landing)'
  OBVIOUS
<1>11. GroupsOf(M, master, base, head, {Zero}) /\ head \in Nat
  BY <1>1, <1>2, <1>4, <1>10, ItsStayGroups DEF ItsGroups
<1>12. ASSUME Alone(master, base, head)
       PROVE  Whole(status, new, M) /\ Applying(status, new, M, base)
  <2> DEFINE T == c.taken
  <2>1. GroupsOf(T, master, base, head, {Zero})
    BY <1>9, <1>12
  <2> HIDE DEF T
  <2>2. M = T
    BY <1>5, <1>11, <2>1, OneGrouping
  <2>3. PrGroups(T)
    BY <1>3, <2>1, PrGroupsAre DEF T
  <2>4. Whole(status, l, T)
    <3>1. LastOf(T[Len(T)]) = head
      BY <1>7, <1>8 DEF Taken, head, T
    <3>2. \A g \in 1..Len(T) : status[T[g].pr] # "no_sync" /\ (all \/ status[T[g].pr] # "missing")
      <4>1. \A g \in 1..Len(T) : ~StopsAt(T[g], all)
        BY <1>8 DEF T
      <4>2. QED
        BY <4>1 DEF StopsAt, Landable
    <3>3. QED
      BY <1>3, <3>1, <3>2 DEF Whole, T
  <2>5. /\ Progress(status, Pairs(l.commits), T, Found(l.commits, T), ~l.all)
        /\ Contents(l.commits, T, base)
    <3>1. Pairs(<<>>) = <<>> /\ Len(<<>>) = 0
      BY DEF Pairs
    <3>2. Found(<<>>, T) = 1
      BY DEF Found
    <3>3. Progress(status, <<>>, T, 1, ~l.all)
      BY ProgressStart
    <3>4. Contents(<<>>, T, base)
      BY <3>1 DEF Contents
    <3>5. QED
      BY <1>3, <3>1, <3>2, <3>3, <3>4
  <2>6. base \in {base, FirstOf(T[1]) - 1} /\ AllTaken(T) /\ new \in ApplyPrs(l, T, base)
    BY <1>3, <1>4 DEF T
  <2>7. l.commits # <<>> => Fits(l.commits, T)
    BY <1>3
  <2>8. Whole(status, new, T) /\ Applying(status, new, T, base)
    BY <1>3, <1>5, <2>3, <2>4, <2>5, <2>6, <2>7, JobApplies
  <2>9. QED
    BY <2>2, <2>8
<1>13. AllNamed(master, base, head)
  BY <1>9 DEF AllNamed
<1>14. OpenInv(master, status, base, new, M)
  BY <1>4, <1>12, <1>13 DEF OpenInv
<1>15. QED
  BY <1>10, <1>14

LEMMA ResumeKeeps ==
  ASSUME TypesInv, TypesInv', CommitsInv, NEW all \in BOOLEAN, UpdateLanding(all)
  PROVE  CommitsInv'
<1> DEFINE l == Resumed(all)
           c == Again(all)
           prev == FirstOf(c.taken[1]) - 1
           N == Its(landing)
           to == landing.to
<1>1. /\ Job(l, c.taken, prev) /\ landing' \in ApplyPrs(l, c.taken, prev)
      /\ UNCHANGED <<master, base, status>>
  BY ResumedJob
<1>2. landing # NoLanding /\ c.outcome = "landing" /\ c.head = to /\ Fits(landing.commits, c.taken)
      /\ landing.done = FALSE
  BY DEF UpdateLanding, Goes, TypesInv, LandingTypes, Landings
<1>3. landing \in Landings
  BY <1>2 DEF TypesInv, LandingTypes
<1>4. /\ GroupsOf(N, master, base, to, {Zero}) /\ base \in Nat /\ to \in Nat /\ base < to
  BY <1>2, ItsAreGroups DEF ItsGroups
<1>5. PICK x : Taken(c, N, x, base, all)
  BY <1>2, AgainIs DEF Its
<1>6. /\ l \in Landings /\ l.to = to /\ l.all = (landing.all \/ all) /\ l.commits = landing.commits
      /\ l.prs = landing.prs
  BY <1>1, <1>3 DEF Job, Resumed, Landings
<1>7. AllTaken(c.taken) /\ prev \in {base, FirstOf(c.taken[1]) - 1} /\ prev \in Nat
  <2>1. AllTaken(c.taken) /\ Len(c.taken) > 0 /\ Len(c.taken) \in Nat
    BY <1>1 DEF Job, AllTaken
  <2>2. TakenGroup(c.taken[1])
    BY <2>1 DEF AllTaken
  <2>3. FirstOf(c.taken[1]) \in Nat /\ FirstOf(c.taken[1]) >= 1
    BY <2>2, LandingCommitsAssumption DEF TakenGroup
  <2>4. QED
    BY <2>1, <2>3
<1> HIDE DEF l, c, prev, N, to
<1>8. c.taken = N
  BY <1>2, <1>4, <1>5, TakesAll
<1>9. PICK new : new = landing'
  OBVIOUS
<1>10. new \in ApplyPrs(l, N, prev) /\ AllTaken(N) /\ (l.commits # <<>> => Fits(l.commits, N))
       /\ prev \in {base, FirstOf(N[1]) - 1}
  BY <1>1, <1>2, <1>6, <1>7, <1>8, <1>9
<1>11. new.to = to
  BY <1>6, <1>7, <1>10, AppliedType
<1> SUFFICES ASSUME new # NoLanding
             PROVE  OpenInv(master, status, base, new, Its(landing)')
  BY <1>1, <1>9 DEF CommitsInv
<1>12. PICK M : M = Its(landing)'
  OBVIOUS
<1>13. GroupsOf(M, master, base, to, {Zero})
  BY <1>1, <1>9, <1>11, <1>12, ItsStayGroups DEF ItsGroups
<1>14. M = N
  BY <1>4, <1>13, OneGrouping
<1>15. OpenInv(master, status, base, landing, N)
  BY <1>2 DEF CommitsInv, N
<1>16. ASSUME Alone(master, base, to)
       PROVE  Whole(status, new, N) /\ Applying(status, new, N, base)
  <2>1. Whole(status, landing, N) /\ Applying(status, landing, N, base)
    BY <1>15, <1>16 DEF OpenInv, to
  <2>2. PrGroups(N)
    BY <1>4, <1>10, PrGroupsAre
  <2>3. Whole(status, l, N)
    BY <1>6, <2>1 DEF Whole, to
  <2>4. Contents(l.commits, N, base)
    BY <1>6, <2>1 DEF Applying
  <2>5. Progress(status, Pairs(l.commits), N, Found(l.commits, N), ~l.all)
    <3> DEFINE D   == Pairs(l.commits)
               key == Found(l.commits, N)
    <3>1. Progress(status, D, N, key, ~landing.all)
      BY <1>6, <2>1 DEF Applying
    <3>2. landing.all \in BOOLEAN /\ l.all \in BOOLEAN
      BY <1>3, <1>6 DEF Landings
    <3> HIDE DEF D, key
    <3>3. CASE l.all = landing.all
      BY <3>1, <3>3 DEF D, key
    <3>4. CASE l.all # landing.all
      <4>1. (~landing.all) = TRUE
        BY <1>6, <3>2, <3>4
      <4>2. Progress(status, D, N, key, TRUE)
        BY <3>1, <4>1
      <4>3. (~l.all) \in BOOLEAN
        OBVIOUS
      <4>4. Progress(status, D, N, key, ~l.all)
        BY <4>2, <4>3, ProgressWeaker
      <4>5. QED
        BY <4>4 DEF D, key
    <3>5. QED
      BY <3>3, <3>4
  <2>6. QED
    BY <1>6, <1>7, <1>10, <2>2, <2>3, <2>4, <2>5, JobApplies
<1>17. OpenInv(master, status, base, new, M)
  BY <1>11, <1>14, <1>15, <1>16 DEF OpenInv, to
<1>18. QED
  BY <1>12, <1>17

LEMMA CommitsInit == LandingInit => CommitsInv
BY DEF LandingInit, CommitsInv

LEMMA CommitsStep ==
  ASSUME NoEmpty, TypesInv, TypesInv', CommitsInv, LandingNext \/ UNCHANGED lvars
  PROVE  CommitsInv'
<1>1. ASSUME NEW p \in PR \cup {NoPr, Zero}, Push(p) PROVE CommitsInv'
  <2>1. /\ master \in Seq(Prs) /\ p \in Prs /\ master' = Append(master, p)
        /\ UNCHANGED <<base, status, landing>>
    BY <1>1 DEF Push, TypesInv, MasterTypes, Prs
  <2>2. \A j \in DOMAIN master : j \in DOMAIN master' /\ master'[j] = master[j]
    BY <2>1
  <2>3. QED
    BY <2>1, <2>2, MasterMoves
<1>2. ASSUME NEW i \in DOMAIN master, NEW p \in PR \cup {Zero}, SetPr(i, p) PROVE CommitsInv'
  <2>1. /\ master[i] = NoPr /\ master' = [master EXCEPT ![i] = p]
        /\ UNCHANGED <<base, status, landing>>
    BY <1>2 DEF SetPr
  <2>2. \A j \in DOMAIN master : j \in DOMAIN master' /\ (master[j] # NoPr => master'[j] = master[j])
    BY <2>1
  <2>3. QED
    BY <2>1, <2>2, MasterMoves
<1>3. ASSUME NEW p \in PR, NEW s \in SyncKinds, SyncGoesOn(p, s) PROVE CommitsInv'
  BY <1>3, StatusMoves
<1>4. ASSUME NEW all \in BOOLEAN, NewLanding(all) PROVE CommitsInv'
  BY <1>4, CreationKeeps
<1>5. ASSUME NEW all \in BOOLEAN, UpdateLanding(all) PROVE CommitsInv'
  BY <1>5, ResumeKeeps
<1>6. ASSUME NEW all \in BOOLEAN, Land(all) PROVE CommitsInv'
  BY <1>6 DEF Land, CommitsInv
<1>7. CASE UNCHANGED lvars
  <2>1. UNCHANGED <<base, status, landing>> /\ master' = master
    BY <1>7 DEF lvars
  <2>2. QED
    BY <2>1, MasterMoves
<1>8. QED
  BY <1>1, <1>2, <1>3, <1>4, <1>5, <1>6, <1>7 DEF LandingNext

-----------------------------------------------------------------------------
(* What CommitsInv implies. *)

LEMMA ContiguousAlone == ASSUME Contiguous, NEW from, NEW to PROVE Alone(master, from, to)
BY DEF Contiguous, Alone

\* The commits that are there are those that apply_prs expects.
LEMMA ProgressFits ==
  ASSUME NEW cs \in Seq(GeckoCommit), NEW N, PrGroups(N), NEW strict \in BOOLEAN,
         \A g \in 1..Len(N) : status[N[g].pr] # "empty",
         Progress(status, Pairs(cs), N, Found(cs, N), strict)
  PROVE  Fits(cs, N)
<1> DEFINE at     == LastApplied(cs, N)
           have   == {c.pr : c \in ToSet(cs)}
           passed == {N[g].pr : g \in 1 .. Min({at, Len(N)})}
           key    == Found(cs, N)
<1>1. Len(N) \in Nat /\ N \in Seq(Group)
  BY DEF PrGroups
<1>2. Pairs(cs) \in Seq(PairSet) /\ Len(Pairs(cs)) = Len(cs) /\ \A n \in 1..Len(cs) : Pairs(cs)[n] = Pair(cs[n])
  BY PairsAre
<1>3. PICK f : CountedBy(status, f, Pairs(cs), N, key, strict)
  BY DEF Progress
<1>4. SUFFICES have \subseteq passed /\ \A p \in passed \ have : ~Downstream(p)
  BY DEF Fits
<1>5. have = {cs[n].pr : n \in 1..Len(cs)}
  <2>1. ToSet(cs) = {cs[n] : n \in 1..Len(cs)}
    BY DEF ToSet
  <2>2. QED
    BY <2>1
<1>6. CASE cs = <<>>
  <2>1. at = 0 /\ Len(cs) = 0
    BY <1>1, <1>6 DEF LastApplied
  <2>2. {0, Len(N)} \subseteq 0..Len(N) /\ {0, Len(N)} # {}
    BY <1>1
  <2>3. \A k \in {0, Len(N)} : Min({0, Len(N)}) <= k
    BY <1>1, <2>2, LeastIs
  <2>4. Min({0, Len(N)}) \in {0, Len(N)}
    BY <1>1, <2>2, LeastIs
  <2>5. Min({0, Len(N)}) = 0
    BY <1>1, <2>3, <2>4
  <2>6. passed = {} /\ have = {}
    BY <1>5, <2>1, <2>5
  <2>7. QED
    BY <2>6
<1>7. CASE cs # <<>>
  <2> DEFINE m == Len(cs)
  <2>1. m \in Nat /\ m \in 1..m /\ Last(cs) = cs[m]
    BY <1>7 DEF Last
  <2>2. PICK last \in 1..Len(N) : N[last].pr = cs[m].pr
    <3>1. At(Pairs(cs)[m], N, f[m])
      BY <1>2, <1>3, <2>1 DEF CountedBy
    <3>2. Pairs(cs)[m] = <<cs[m].pr, cs[m].type>>
      BY <1>2, <2>1 DEF Pair
    <3>3. QED
      BY <3>1, <3>2 DEF At
  <2>3. at = last
    BY <1>7, <2>1, <2>2, LastAppliedAt
  <2>4. last \in Nat /\ key \in {2 * last, 2 * last + 1}
    BY <1>1, <1>7, <2>3 DEF Found
  <2>5. Min({at, Len(N)}) = last
    <3>1. {last, Len(N)} \subseteq 0..Len(N) /\ {last, Len(N)} # {}
      BY <1>1
    <3>2. \A k \in {last, Len(N)} : Min({last, Len(N)}) <= k
      BY <1>1, <3>1, LeastIs
    <3>3. Min({last, Len(N)}) \in {last, Len(N)}
      BY <1>1, <3>1, LeastIs
    <3>4. Min({last, Len(N)}) = last
      BY <1>1, <3>2, <3>3
    <3>5. QED
      BY <2>3, <3>4
  <2> HIDE DEF m, at, key
  <2>6. passed = {N[g].pr : g \in 1..last}
    BY <2>5
  <2>7. \A n \in 1..m : f[n] \in Nat /\ f[n] <= key /\ At(Pair(cs[n]), N, f[n])
    BY <1>2, <1>3 DEF CountedBy, Rising, m
  <2>8. ASSUME NEW n \in 1..m PROVE \E g \in 1..last : cs[n].pr = N[g].pr
    <3>1. PICK g \in 1..Len(N) : \/ f[n] = 2 * g /\ Pair(cs[n]) = <<N[g].pr, "pr">>
                                 \/ f[n] = 2 * g + 1 /\ Pair(cs[n]) = <<N[g].pr, "metadata">>
      BY <2>7 DEF At
    <3>2. cs[n].pr = N[g].pr
      BY <3>1 DEF Pair
    <3>3. 2 * g <= key \/ 2 * g + 1 <= key
      BY <2>7, <3>1
    <3>4. g \in Nat /\ g >= 1
      BY <1>1
    <3>5. g \in 1..last
      BY <2>4, <3>3, <3>4
    <3>6. QED
      BY <3>2, <3>5
  <2>9. ASSUME NEW g \in 1..last, N[g].pr \notin have, Downstream(N[g].pr) PROVE FALSE
    <3>1. g \in 1..Len(N) /\ 2 * g \in 2..key
      BY <1>1, <2>4
    <3>2. status[N[g].pr] \notin {"upstream", "empty"}
      BY <2>9, <3>1 DEF Downstream
    <3>3. Wanted(status, N, 2 * g) /\ OfPr(N, 2 * g)
      BY <3>1, <3>2, WantedIs
    <3>4. PICK n \in 1..m : f[n] = 2 * g
      BY <1>2, <1>3, <3>1, <3>3 DEF CountedBy, m
    <3>5. Pair(cs[n]) = <<N[g].pr, "pr">>
      BY <2>7, <3>1, <3>4, WantedIs
    <3>6. cs[n].pr = N[g].pr
      BY <3>5 DEF Pair
    <3>7. QED
      BY <1>5, <2>9, <3>6 DEF m
  <2> HIDE DEF have, passed
  <2>10. have \subseteq passed
    <3>1. SUFFICES ASSUME NEW n \in 1..m PROVE cs[n].pr \in passed
      BY <1>5 DEF m
    <3>2. QED
      BY <2>6, <2>8
  <2>11. ASSUME NEW p \in passed \ have PROVE ~Downstream(p)
    <3>1. PICK g \in 1..last : p = N[g].pr
      BY <2>6
    <3>2. QED
      BY <2>9, <3>1
  <2>12. QED
    BY <2>10, <2>11
<1>8. QED
  BY <1>6, <1>7

\* The facts on an open landing whose PRs are not mixed with others.
OpenFacts(l, N) ==
  /\ l \in Landings /\ l.from = base /\ base \in Nat /\ l.to \in Nat /\ base < l.to
  /\ GroupsOf(N, master, base, l.to, {Zero}) /\ PrGroups(N)
  /\ \A i \in (base + 1)..l.to : master[i] # NoPr
  /\ Whole(status, l, N) /\ Applying(status, l, N, base)
  /\ \A g \in 1..Len(N) : status[N[g].pr] # "empty"

LEMMA OpenHas ==
  ASSUME NoEmpty, TypesInv, CommitsInv, landing # NoLanding, Alone(master, base, landing.to)
  PROVE  OpenFacts(landing, Its(landing))
<1> DEFINE N == Its(landing)
<1>1. landing \in Landings /\ landing.from = base
  BY DEF TypesInv, LandingTypes
<1>2. /\ base \in Nat /\ landing.to \in Nat /\ base < landing.to
      /\ GroupsOf(N, master, base, landing.to, {Zero})
  BY ItsAreGroups DEF ItsGroups
<1>3. OpenInv(master, status, base, landing, N)
  BY DEF CommitsInv
<1> HIDE DEF N
<1>4. /\ \A i \in (base + 1)..landing.to : master[i] # NoPr
      /\ Whole(status, landing, N) /\ Applying(status, landing, N, base)
  BY <1>3 DEF OpenInv, AllNamed
<1>5. N \in Seq(Group) /\ Len(N) \in Nat /\ DOMAIN N = 1..Len(N)
  BY <1>2 DEF GroupsOf
<1>6. \A g \in 1..Len(N) : N[g].pr \in PR
  <2>1. landing.prs \in Seq(PR) /\ landing.prs = [g \in DOMAIN N |-> N[g].pr]
    BY <1>1, <1>4 DEF Whole, Landings
  <2>2. \A g \in 1..Len(N) : landing.prs[g] = N[g].pr /\ g \in DOMAIN landing.prs
    BY <1>5, <2>1
  <2>3. \A g \in DOMAIN landing.prs : landing.prs[g] \in PR
    BY <2>1
  <2>4. QED
    BY <2>2, <2>3
<1>7. PrGroups(N)
  BY <1>2, <1>5, <1>6 DEF PrGroups, GroupsOf
<1>8. \A g \in 1..Len(N) : status[N[g].pr] # "empty"
  BY <1>6, LandingCommitsAssumption DEF TypesInv, MasterTypes, NoEmpty
<1>9. QED
  BY <1>1, <1>2, <1>4, <1>7, <1>8 DEF OpenFacts, N

LEMMA CanResume ==
  ASSUME NoEmpty, TypesInv, CommitsInv
  PROVE  Resumable
<1> SUFFICES ASSUME landing # NoLanding, ~landing.all, Contiguous
             PROVE  /\ Goes(FALSE)
                    /\ [g \in DOMAIN Again(FALSE).taken |-> Again(FALSE).taken[g].pr] = landing.prs
  BY DEF Resumable
<1> DEFINE N == Its(landing)
           c == Again(FALSE)
<1>1. OpenFacts(landing, N)
  BY ContiguousAlone, OpenHas
<1>2. PICK x : Taken(c, N, x, base, FALSE)
  BY AgainIs DEF Its
<1> HIDE DEF N, c
<1>3. /\ landing \in Landings /\ base \in Nat /\ landing.to \in Nat /\ PrGroups(N)
      /\ GroupsOf(N, master, base, landing.to, {Zero})
      /\ Whole(status, landing, N) /\ Applying(status, landing, N, base)
      /\ \A g \in 1..Len(N) : status[N[g].pr] # "empty"
  BY <1>1 DEF OpenFacts
<1>4. Len(N) \in Nat /\ Len(N) > 0 /\ LastOf(N[Len(N)]) = landing.to
      /\ landing.prs = [g \in DOMAIN N |-> N[g].pr]
  BY <1>3 DEF Whole, PrGroups
<1>5. \A g \in 1..Len(N) : ~StopsAt(N[g], FALSE)
  <2>1. \A g \in 1..Len(N) : N[g].pr # NoPr
    BY <1>3, LandingCommitsAssumption DEF PrGroups
  <2>2. \A g \in 1..Len(N) : status[N[g].pr] # "no_sync" /\ status[N[g].pr] # "missing"
    BY <1>3 DEF Whole
  <2>3. QED
    BY <2>1, <2>2 DEF StopsAt, Landable
<1>6. x = Len(N)
  <2>1. x \in 0..Len(N) /\ c.outcome # "raised"
    BY <1>2, <1>5 DEF Taken
  <2>2. SUFFICES ASSUME x < Len(N) PROVE FALSE
    BY <1>4, <2>1
  <2>3. x + 1 \in 1..Len(N)
    BY <1>4, <2>1, <2>2
  <2>4. QED
    BY <1>2, <1>5, <2>1, <2>2, <2>3 DEF Taken
<1>7. c.taken = N
  BY <1>2, <1>3, <1>6, TakesAll
<1>8. c.outcome = "landing" /\ c.head = landing.to
  BY <1>2, <1>4, <1>6 DEF Taken
<1>9. Fits(landing.commits, N)
  <2> DEFINE cs == landing.commits
             strict == ~landing.all
  <2>1. cs \in Seq(GeckoCommit) /\ strict \in BOOLEAN /\ Progress(status, Pairs(cs), N, Found(cs, N), strict)
    BY <1>3 DEF Applying, Landings
  <2> HIDE DEF cs, strict
  <2>2. Fits(cs, N)
    BY <1>3, <2>1, ProgressFits
  <2>3. QED
    BY <2>2 DEF cs
<1>10. Goes(FALSE)
  BY <1>7, <1>8, <1>9 DEF Goes, c
<1>11. QED
  BY <1>4, <1>7, <1>10 DEF c

-----------------------------------------------------------------------------
(* A landing that is done. *)

\* What the landing of a PR leaves.
Leaves(p) ==
  CASE status[p] \in {"upstream", "empty"} -> <<>>
    [] status[p] = "metadata"              -> <<<<p, "pr">>, <<p, "metadata">>>>
    [] OTHER                               -> <<<<p, "pr">>>>

LEMMA LeavesIs ==
  ASSUME NEW p \in PR
  PROVE  /\ Leaves(p) \in Seq(PairSet)
         /\ status[p] \in {"upstream", "empty"} => Leaves(p) = <<>>
         /\ status[p] = "metadata" => Leaves(p) = <<<<p, "pr">>, <<p, "metadata">>>>
         /\ status[p] \notin {"upstream", "empty", "metadata"} => Leaves(p) = <<<<p, "pr">>>>
<1>1. <<p, "pr">> \in PairSet /\ <<p, "metadata">> \in PairSet
  BY DEF PairSet
<1>2. CASE status[p] \in {"upstream", "empty"}
  <2>1. Leaves(p) = <<>>
    BY <1>2 DEF Leaves
  <2>2. QED
    BY <1>2, <2>1
<1>3. CASE status[p] = "metadata"
  <2>1. Leaves(p) = <<<<p, "pr">>, <<p, "metadata">>>>
    BY <1>3 DEF Leaves
  <2>2. <<<<p, "pr">>, <<p, "metadata">>>> \in Seq(PairSet)
    BY <1>1
  <2>3. QED
    BY <1>3, <2>1, <2>2
<1>4. CASE status[p] \notin {"upstream", "empty", "metadata"}
  <2>1. Leaves(p) = <<<<p, "pr">>>>
    BY <1>4 DEF Leaves
  <2>2. <<<<p, "pr">>>> \in Seq(PairSet)
    BY <1>1
  <2>3. QED
    BY <1>4, <2>1, <2>2
<1>5. QED
  BY <1>2, <1>3, <1>4

LEMMA OneMore ==
  ASSUME NEW S, NEW A \in Seq(S), NEW c \in S, NEW d \in S
  PROVE  /\ A \o <<c>> = Append(A, c) /\ A \o <<c, d>> = Append(Append(A, c), d)
         /\ Append(A, c) \in Seq(S) /\ Append(Append(A, c), d) \in Seq(S)
         /\ A \o <<>> = A
OBVIOUS

\* All PRs in order are all work done.
LEMMA AllLeft ==
  ASSUME NEW N, PrGroups(N), NEW f, f = [g \in 1..Len(N) |-> Leaves(N[g].pr)]
  PROVE  FlattenSeq(f) \in Seq(PairSet) /\ Progress(status, FlattenSeq(f), N, 2 * Len(N) + 1, TRUE)
<1> DEFINE m == Len(N)
           F(k) == FlattenSeq([g \in 1..k |-> f[g]])
           T == {k \in 0..m : F(k) \in Seq(PairSet) /\ Progress(status, F(k), N, 2 * k + 1, TRUE)}
<1>1. /\ m \in Nat /\ \A g \in 1..m : N[g].pr \in PR /\ f[g] = Leaves(N[g].pr)
      /\ f = [g \in 1..m |-> f[g]]
  BY DEF PrGroups
<1>2. \A g \in 1..m : f[g] \in Seq(PairSet)
  BY <1>1, LeavesIs
<1> HIDE DEF m
<1>3. 0 \in T
  <2>1. F(0) = <<>>
    <3>1. [g \in 1..0 |-> f[g]] = <<>> /\ Len(<<>>) = 0
      OBVIOUS
    <3>2. QED
      BY <3>1, FlatNone
  <2> HIDE DEF F
  <2>2. Progress(status, <<>>, N, 1, TRUE)
    BY ProgressStart
  <2>3. 2 * 0 + 1 = 1 /\ 0 \in 0..m /\ <<>> \in Seq(PairSet)
    BY <1>1
  <2>4. QED
    BY <2>1, <2>2, <2>3
<1>4. ASSUME NEW k \in 0..(m - 1), k \in T PROVE k + 1 \in T
  <2> DEFINE g    == k + 1
             p    == N[g].pr
             key  == 2 * k + 1
             seqs == [a \in 1..g |-> f[a]]
             pre  == [a \in 1..k |-> f[a]]
             A    == F(k)
  <2>1. /\ k \in Nat /\ g \in 0..m /\ g \in 1..m
        /\ Len(seqs) = k + 1 /\ \A a \in 1..(k + 1) : seqs[a] \in Seq(PairSet)
        /\ Len(pre) = k /\ \A a \in 1..k : pre[a] = seqs[a]
        /\ k = 0 => pre = <<>>
        /\ seqs[k + 1] = f[g]
    <3>1. k \in Nat /\ k + 1 \in 0..m /\ k + 1 \in 1..m
      BY <1>1
    <3>2. \A a \in 1..(k + 1) : f[a] \in Seq(PairSet)
      BY <1>1, <1>2
    <3>3. Len(seqs) = k + 1 /\ seqs[k + 1] = f[g] /\ \A a \in 1..(k + 1) : seqs[a] = f[a]
      BY <3>1
    <3>4. Len(pre) = k /\ (k = 0 => pre = <<>>) /\ \A a \in 1..k : pre[a] = f[a]
      BY <3>1
    <3>5. \A a \in 1..k : a \in 1..(k + 1)
      BY <3>1
    <3> HIDE DEF seqs, pre
    <3>6. \A a \in 1..(k + 1) : seqs[a] \in Seq(PairSet)
      BY <3>2, <3>3
    <3>7. \A a \in 1..k : pre[a] = seqs[a]
      BY <3>3, <3>4, <3>5
    <3>8. QED
      BY <3>1, <3>3, <3>4, <3>6, <3>7
  <2>2. F(g) = FlattenSeq(seqs) /\ A = FlattenSeq(pre)
    OBVIOUS
  <2>3. key \in Nat /\ key + 1 \in Nat /\ key + 1 = 2 * g /\ (key + 1) + 1 = 2 * g + 1
    BY <2>1
  <2>4. A \in Seq(PairSet) /\ Progress(status, A, N, key, TRUE)
    BY <1>4
  <2> HIDE DEF seqs, pre, F, A
  <2>5. F(g) = A \o f[g]
    <3>1. FlattenSeq(seqs) = FlattenSeq(pre) \o seqs[k + 1]
      BY <2>1, FlatNext
    <3>2. QED
      BY <2>1, <2>2, <3>1
  <2>6. f[g] = Leaves(p) /\ p \in PR /\ g \in 1..Len(N)
    BY <1>1, <2>1 DEF m
  <2> HIDE DEF g, key
  <2>7. /\ Wanted(status, N, key + 1) <=> status[p] \notin {"upstream", "empty"}
        /\ Wanted(status, N, (key + 1) + 1) <=> status[p] = "metadata"
        /\ At(<<p, "pr">>, N, key + 1) /\ At(<<p, "metadata">>, N, (key + 1) + 1)
    BY <2>3, <2>6, WantedIs
  <2> DEFINE c == <<p, "pr">>
             d == <<p, "metadata">>
  <2>8. c \in PairSet /\ d \in PairSet
    BY <2>6 DEF PairSet
  <2>9. F(g) \in Seq(PairSet) /\ Progress(status, F(g), N, (key + 1) + 1, TRUE)
    <3>1. CASE status[p] \in {"upstream", "empty"}
      <4>1. F(g) = A
        <5>1. f[g] = <<>>
          BY <2>6, <3>1, LeavesIs
        <5>2. A \o <<>> = A
          BY <2>4
        <5>3. QED
          BY <2>5, <5>1, <5>2
      <4>2. ~Wanted(status, N, key + 1) /\ ~Wanted(status, N, (key + 1) + 1)
        BY <2>7, <3>1
      <4>3. Progress(status, A, N, key + 1, TRUE)
        BY <2>3, <2>4, <4>2, ProgressNone
      <4>4. Progress(status, A, N, (key + 1) + 1, TRUE)
        BY <2>3, <4>2, <4>3, ProgressNone
      <4>5. QED
        BY <2>4, <4>1, <4>4
    <3>2. CASE status[p] \notin {"upstream", "empty"}
      <4> DEFINE B == Append(A, c)
      <4> HIDE DEF c, d
      <4>1. B \in Seq(PairSet) /\ A \o <<c>> = B /\ A \o <<c, d>> = Append(B, d)
            /\ Append(B, d) \in Seq(PairSet)
        BY <2>4, <2>8, OneMore
      <4>2. Progress(status, B, N, key + 1, TRUE)
        <5>1. At(c, N, key + 1) /\ Wanted(status, N, key + 1)
          BY <2>7, <3>2 DEF c
        <5>2. QED
          BY <2>3, <2>4, <2>8, <5>1, ProgressMore
      <4> HIDE DEF B
      <4>3. CASE status[p] = "metadata"
        <5>1. f[g] = <<c, d>>
          BY <2>6, <4>3, LeavesIs DEF c, d
        <5>2. At(d, N, (key + 1) + 1) /\ Wanted(status, N, (key + 1) + 1)
          BY <2>7, <4>3 DEF d
        <5>3. Progress(status, Append(B, d), N, (key + 1) + 1, TRUE)
          BY <2>3, <2>8, <4>1, <4>2, <5>2, ProgressMore
        <5>4. QED
          BY <2>5, <4>1, <5>1, <5>3
      <4>4. CASE status[p] # "metadata"
        <5>1. f[g] = <<c>>
          BY <2>6, <3>2, <4>4, LeavesIs DEF c
        <5>2. ~Wanted(status, N, (key + 1) + 1)
          BY <2>7, <4>4
        <5>3. Progress(status, B, N, (key + 1) + 1, TRUE)
          BY <2>3, <4>2, <5>2, ProgressNone
        <5>4. QED
          BY <2>5, <4>1, <5>1, <5>3
      <4>5. QED
        BY <4>3, <4>4
    <3>3. QED
      BY <3>1, <3>2
  <2>10. QED
    BY <2>1, <2>3, <2>9 DEF g
<1>5. m \in T
  <2> HIDE DEF T
  <2>1. 0..m \subseteq T
    BY <1>1, <1>3, <1>4, UpTo
  <2>2. QED
    BY <1>1, <2>1
<1>6. F(m) = FlattenSeq(f)
  BY <1>1
<1> HIDE DEF F
<1>7. QED
  BY <1>5, <1>6 DEF m

LEMMA DoneInOrder ==
  ASSUME NoEmpty, TypesInv, CommitsInv
  PROVE  AppliedInOrder
<1> DEFINE N   == Its(landing)
           cs  == landing.commits
           prs == landing.prs
           f   == [g \in 1..Len(N) |-> Leaves(N[g].pr)]
<1> SUFFICES ASSUME landing # NoLanding, landing.done, ~landing.all, Contiguous
             PROVE  [n \in DOMAIN cs |-> <<cs[n].pr, cs[n].type>>] =
                      FlattenSeq([n \in DOMAIN prs |-> Leaves(prs[n])])
  BY DEF AppliedInOrder, Leaves
<1>1. OpenFacts(landing, N)
  BY ContiguousAlone, OpenHas
<1> HIDE DEF N
<1>2. /\ cs \in Seq(GeckoCommit) /\ PrGroups(N) /\ Len(N) \in Nat
      /\ prs = [g \in DOMAIN N |-> N[g].pr] /\ DOMAIN N = 1..Len(N)
  BY <1>1 DEF OpenFacts, Landings, Whole, PrGroups
<1>3. Progress(status, Pairs(cs), N, 2 * Len(N) + 1, TRUE)
  <2>1. Progress(status, Pairs(cs), N, 2 * Len(N) + 1, ~landing.all)
    BY <1>1 DEF OpenFacts, Applying
  <2>2. (~landing.all) = TRUE
    OBVIOUS
  <2>3. QED
    BY <2>1, <2>2
<1>4. [n \in DOMAIN cs |-> <<cs[n].pr, cs[n].type>>] = Pairs(cs)
  <2>1. DOMAIN cs = 1..Len(cs)
    BY <1>2
  <2>2. QED
    BY <2>1 DEF Pairs
<1>5. [n \in DOMAIN prs |-> Leaves(prs[n])] = f
  <2>1. DOMAIN prs = 1..Len(N) /\ \A n \in 1..Len(N) : prs[n] = N[n].pr
    BY <1>2
  <2>2. QED
    BY <2>1
<1>6. FlattenSeq(f) \in Seq(PairSet) /\ Progress(status, FlattenSeq(f), N, 2 * Len(N) + 1, TRUE)
  BY <1>2, AllLeft
<1>7. Pairs(cs) \in Seq(PairSet) /\ 2 * Len(N) + 1 \in Nat
  BY <1>2, PairsAre
<1> HIDE DEF f, cs
<1>8. Pairs(cs) = FlattenSeq(f)
  BY <1>2, <1>3, <1>6, <1>7, ProgressSame
<1>9. QED
  BY <1>4, <1>5, <1>8

\* The patch of a group is what is after the group before it, up to its last commit.
LEMMA PatchIs ==
  ASSUME NEW from \in Nat, NEW to \in Nat, NEW N, GroupsOf(N, master, from, to, {Zero}),
         NEW g \in 1..Len(N), NEW prev \in {from, FirstOf(N[1]) - 1}
  PROVE  /\ \A i \in Patch(N, g, prev) :
              i \in Nat /\ i <= LastOf(N[g]) /\ \A h \in 1..Len(N) : h < g => LastOf(N[h]) < i
         /\ \A i \in Within(N[g]) :
              (\A h \in 1..Len(N) : h < g => LastOf(N[h]) < i) => i \in Patch(N, g, prev)
<1>1. N \in Seq(Group) /\ Len(N) \in Nat
  BY DEF GroupsOf
<1>2. \A h \in 1..Len(N) :
        /\ LastOf(N[h]) \in Nat /\ FirstOf(N[h]) \in Nat /\ FirstOf(N[h]) > from
        /\ \A i \in Within(N[h]) : i \in Nat /\ i > from /\ FirstOf(N[h]) <= i /\ i <= LastOf(N[h])
  <2>1. ASSUME NEW h \in 1..Len(N)
        PROVE  /\ LastOf(N[h]) \in Nat /\ FirstOf(N[h]) \in Nat /\ FirstOf(N[h]) > from
               /\ \A i \in Within(N[h]) : i \in Nat /\ i > from /\ FirstOf(N[h]) <= i /\ i <= LastOf(N[h])
    <3> DEFINE d == N[h]
    <3>1. d \in Group /\ IsGroup(d, master, from, to, {Zero})
      <4>1. \A k \in 1..Len(N) : IsGroup(N[k], master, from, to, {Zero})
        BY DEF GroupsOf
      <4>2. \A k \in 1..Len(N) : N[k] \in Group
        BY <1>1
      <4>3. QED
        BY <4>1, <4>2
    <3> HIDE DEF d
    <3>2. /\ FirstOf(d) \in Within(d) /\ LastOf(d) \in Nat /\ FirstOf(d) \in Nat
          /\ \A i \in Within(d) : FirstOf(d) <= i /\ i <= LastOf(d)
          /\ Within(d) \subseteq Nat /\ Within(d) \subseteq (from + 1)..to
      BY <3>1, GroupFacts
    <3>3. \A i \in Within(d) : i \in Nat /\ i > from
      BY <3>2
    <3>4. QED
      BY <3>2, <3>3 DEF d
  <2>2. QED
    BY <2>1
<1>3. \A k, j \in 1..Len(N) : k < j => LastOf(N[k]) < LastOf(N[j])
  BY DEF GroupsOf
<1>4. Patch(N, g, prev) = (IF g = 1 THEN prev ELSE LastOf(N[g - 1])) + 1 .. LastOf(N[g])
  BY DEF Patch, From, LastOf
<1>5. prev \in Nat /\ (g = 1 => prev < FirstOf(N[1])) /\ g \in Nat
  BY <1>1, <1>2
<1>6. LastOf(N[g]) \in Nat
  BY <1>2
<1> DEFINE start == IF g = 1 THEN prev ELSE LastOf(N[g - 1])
<1>7. start \in Nat
  <2>1. g # 1 => g - 1 \in 1..Len(N)
    BY <1>1
  <2>2. QED
    BY <1>2, <1>5, <2>1
<1>8. ASSUME NEW h \in 1..Len(N), h < g PROVE LastOf(N[h]) <= start /\ LastOf(N[h]) \in Nat
  <2>1. g - 1 \in 1..Len(N) /\ g # 1 /\ (h = g - 1 \/ h < g - 1)
    BY <1>1, <1>8
  <2>2. h < g - 1 => LastOf(N[h]) < LastOf(N[g - 1])
    BY <1>3, <2>1
  <2>3. LastOf(N[h]) \in Nat /\ LastOf(N[g - 1]) \in Nat
    BY <1>2, <2>1
  <2>4. QED
    BY <2>1, <2>2, <2>3
<1>9. ASSUME NEW i \in Patch(N, g, prev)
      PROVE  i \in Nat /\ i <= LastOf(N[g]) /\ \A h \in 1..Len(N) : h < g => LastOf(N[h]) < i
  <2>1. i \in (start + 1)..LastOf(N[g])
    BY <1>4, <1>9
  <2> HIDE DEF start
  <2>2. i \in Nat /\ start < i /\ i <= LastOf(N[g])
    BY <1>6, <1>7, <2>1
  <2>3. \A h \in 1..Len(N) : h < g => LastOf(N[h]) < i
    BY <1>7, <1>8, <2>2
  <2>4. QED
    BY <2>2, <2>3
<1>10. ASSUME NEW i \in Within(N[g]), \A h \in 1..Len(N) : h < g => LastOf(N[h]) < i
       PROVE  i \in Patch(N, g, prev)
  <2>1. i \in Nat /\ FirstOf(N[g]) <= i /\ i <= LastOf(N[g]) /\ FirstOf(N[g]) \in Nat
    BY <1>2, <1>10
  <2>2. start < i
    <3>1. CASE g = 1
      BY <1>5, <2>1, <3>1
    <3>2. CASE g # 1
      <4>1. g - 1 \in 1..Len(N) /\ g - 1 < g
        BY <1>1, <3>2
      <4>2. QED
        BY <1>10, <3>2, <4>1
    <3>3. QED
      BY <3>1, <3>2
  <2>3. i \in (start + 1)..LastOf(N[g])
    <3> HIDE DEF start
    <3>1. QED
      BY <1>6, <1>7, <2>1, <2>2
  <2>4. QED
    BY <1>4, <2>3
<1>11. QED
  BY <1>9, <1>10

LEMMA DoneOnce ==
  ASSUME NoEmpty, TypesInv, CommitsInv
  PROVE  NothingLost
<1> DEFINE N     == Its(landing)
           cs    == landing.commits
           m     == Len(cs)
           len   == Len(N)
           all   == landing.all
           Times(i) == {n \in DOMAIN cs : i \in cs[n].content}
<1> SUFFICES ASSUME landing # NoLanding, landing.done, Contiguous,
                    NEW i \in landing.from + 1 .. landing.to
             PROVE  CASE master[i] = Zero -> Cardinality(Times(i)) <= 1
                      [] master[i] # Zero /\ status[master[i]] \in {"upstream", "empty"}
                                          -> Cardinality(Times(i)) = 0
                      [] OTHER            -> Cardinality(Times(i)) = 1
  BY DEF NothingLost
<1>1. OpenFacts(landing, N) /\ Alone(master, base, landing.to)
  BY ContiguousAlone, OpenHas
<1> HIDE DEF N
<1>2. /\ cs \in Seq(GeckoCommit) /\ PrGroups(N) /\ len \in Nat
      /\ GroupsOf(N, master, base, landing.to, {Zero}) /\ base \in Nat /\ landing.to \in Nat
      /\ i \in (base + 1)..landing.to /\ master[i] # NoPr
  BY <1>1 DEF OpenFacts, Landings, PrGroups
<1>3. m \in Nat /\ DOMAIN cs = 1..m /\ \A n \in 1..m : cs[n] \in GeckoCommit
  BY <1>2
<1>4. PICK f : CountedBy(status, f, Pairs(cs), N, 2 * len + 1, ~all)
  BY <1>1 DEF OpenFacts, Applying, Progress
<1>5. Contents(cs, N, base)
  BY <1>1 DEF OpenFacts, Applying
<1>6. Len(Pairs(cs)) = m /\ \A n \in 1..m : Pairs(cs)[n] = Pair(cs[n])
  BY <1>2, PairsAre
<1> HIDE DEF m, len, all, cs
<1>7. /\ Rising(f, m)
      /\ \A n \in 1..m : At(Pair(cs[n]), N, f[n]) /\ Wanted(status, N, f[n])
      /\ \A k \in 2..(2 * len + 1) : Wanted(status, N, k) /\ OfPr(N, k) => \E n \in 1..m : f[n] = k
  BY <1>4, <1>6 DEF CountedBy
<1>8. \A n \in 1..m : Content(cs[n], N, base)
  BY <1>5, ContentsAre DEF m
<1>9. \A h \in 1..len : N[h] \in Group /\ IsGroup(N[h], master, base, landing.to, {Zero})
  <2>1. \A h \in 1..Len(N) : IsGroup(N[h], master, base, landing.to, {Zero})
    BY <1>2 DEF GroupsOf
  <2>2. N \in Seq(Group)
    BY <1>2 DEF GroupsOf
  <2>3. \A h \in 1..Len(N) : N[h] \in Group
    BY <2>2
  <2>4. QED
    BY <2>1, <2>3 DEF len
<1>10. \A h \in 1..len : LastOf(N[h]) \in Nat
  <2>1. ASSUME NEW h \in 1..len PROVE LastOf(N[h]) \in Nat
    <3>1. N[h] \in Group /\ IsGroup(N[h], master, base, landing.to, {Zero})
      BY <1>9
    <3>2. QED
      BY <1>2, <3>1, GroupFacts
  <2>2. QED
    BY <2>1
\* A commit with i in its patch is that of a group that i is in the patch of.
<1>11. ASSUME NEW n \in 1..m, i \in cs[n].content
      PROVE  \E g \in 1..len : /\ f[n] = 2 * g /\ cs[n].pr = N[g].pr
                               /\ i \in Nat /\ i <= LastOf(N[g])
                               /\ \A h \in 1..len : h < g => LastOf(N[h]) < i
  <2>1. cs[n].type = "pr"
    <3>1. cs[n].type \in {"pr", "metadata"}
      BY <1>3 DEF GeckoCommit
    <3>2. cs[n].type # "metadata"
      BY <1>8, <1>11 DEF Content
    <3>3. QED
      BY <3>1, <3>2
  <2>2. PICK g \in 1..len, prev \in {base, FirstOf(N[1]) - 1} :
          cs[n].pr = N[g].pr /\ cs[n].content = Patch(N, g, prev)
    BY <1>8, <2>1 DEF Content, len
  <2>3. f[n] = 2 * g
    <3>1. At(<<cs[n].pr, cs[n].type>>, N, f[n])
      BY <1>7 DEF Pair
    <3>2. PICK h \in 1..len : f[n] = 2 * h /\ cs[n].pr = N[h].pr
      BY <2>1, <3>1 DEF At, len
    <3>3. h = g
      BY <1>2, <2>2, <3>2 DEF PrGroups, len
    <3>4. QED
      BY <3>2, <3>3
  <2>4. i \in Nat /\ i <= LastOf(N[g]) /\ \A h \in 1..len : h < g => LastOf(N[h]) < i
    <3>1. i \in Patch(N, g, prev)
      BY <1>11, <2>2
    <3>2. QED
      BY <1>2, <3>1, PatchIs DEF len
  <2>5. QED
    BY <2>2, <2>3, <2>4
<1>12. ASSUME NEW n \in 1..m, i \in cs[n].content, NEW a \in 1..m, i \in cs[a].content
       PROVE  n = a
  <2>1. PICK g \in 1..len : f[n] = 2 * g /\ i \in Nat /\ i <= LastOf(N[g])
                            /\ \A h \in 1..len : h < g => LastOf(N[h]) < i
    BY <1>11, <1>12
  <2>2. PICK b \in 1..len : f[a] = 2 * b /\ i \in Nat /\ i <= LastOf(N[b])
                            /\ \A h \in 1..len : h < b => LastOf(N[h]) < i
    BY <1>11, <1>12
  <2>3. \A h \in 1..len : LastOf(N[h]) \in Nat
    BY <1>10
  <2>4. ~(g < b)
    <3>1. SUFFICES ASSUME g < b PROVE FALSE
      OBVIOUS
    <3>2. LastOf(N[g]) < i /\ i <= LastOf(N[g]) /\ i \in Nat /\ LastOf(N[g]) \in Nat
      BY <2>1, <2>2, <2>3, <3>1
    <3>3. QED
      BY <3>2
  <2>5. ~(b < g)
    <3>1. SUFFICES ASSUME b < g PROVE FALSE
      OBVIOUS
    <3>2. LastOf(N[b]) < i /\ i <= LastOf(N[b]) /\ i \in Nat /\ LastOf(N[b]) \in Nat
      BY <2>1, <2>2, <2>3, <3>1
    <3>3. QED
      BY <3>2
  <2>6. f[n] = f[a]
    BY <1>2, <2>1, <2>2, <2>4, <2>5
  <2>7. \A x, y \in 1..m : x < y => f[x] < f[y] /\ f[x] \in Nat /\ f[y] \in Nat
    BY <1>7 DEF Rising
  <2>8. ~(n < a) /\ ~(a < n)
    BY <2>6, <2>7
  <2>9. QED
    BY <1>3, <2>8
<1>13. Times(i) = {} \/ \E n : Times(i) = {n}
  <2>1. \A n, a \in Times(i) : n = a
    BY <1>3, <1>12
  <2>2. QED
    BY <2>1
<1>14. Cardinality({}) = 0 /\ \A n : Cardinality({n}) = 1
  BY FS_EmptySet, FS_Singleton
<1>15. Cardinality(Times(i)) \in {0, 1}
  BY <1>13, <1>14
\* The group that i is in.
<1>16. ASSUME master[i] # Zero
       PROVE  \E g \in 1..len :
                /\ N[g].pr = master[i] /\ N[g].pr \in PR /\ i \in Within(N[g])
                /\ i \in Nat /\ i <= LastOf(N[g]) /\ \A h \in 1..len : h < g => LastOf(N[h]) < i
  <2>1. PICK g \in 1..len : i \in Within(N[g])
    BY <1>2, <1>16 DEF GroupsOf, len
  <2>2. N[g] \in Group /\ IsGroup(N[g], master, base, landing.to, {Zero})
    BY <1>9
  <2>3. N[g].pr = master[i]
    BY <2>1, <2>2 DEF IsGroup
  <2>4. N[g].pr \in PR
    BY <1>2 DEF PrGroups, len
  <2>5. i \in Nat /\ i <= LastOf(N[g]) /\ LastOf(N[g]) \in Nat
    BY <1>2, <2>1, <2>2, GroupFacts
  <2>6. ASSUME NEW h \in 1..len, h < g PROVE LastOf(N[h]) < i
    <3>1. N[h] \in Group /\ IsGroup(N[h], master, base, landing.to, {Zero})
      BY <1>9
    <3>2. LastOf(N[h]) \in Within(N[h]) /\ Within(N[h]) \subseteq (base + 1)..landing.to /\ LastOf(N[h]) \in Nat
      BY <1>2, <3>1, GroupFacts
    <3>3. LastOf(N[h]) <= landing.to /\ h # g
      BY <1>2, <2>6, <3>2
    <3>4. 1..landing.to \subseteq DOMAIN master
      BY ItsAreGroups DEF ItsGroups
    <3>5. LastOf(N[h]) < LastOf(N[g])
      BY <1>2, <2>6 DEF GroupsOf, len
    <3>6. i <= LastOf(N[h]) => LastOf(N[g]) < LastOf(N[h])
      <4> DEFINE to == landing.to
      <4>1. /\ to \in Nat /\ Alone(master, base, to) /\ GroupsOf(N, master, base, to, {Zero})
            /\ 1..to \subseteq DOMAIN master /\ LastOf(N[h]) <= to
        BY <1>1, <1>2, <3>3, <3>4
      <4> HIDE DEF to
      <4>2. g \in 1..Len(N) /\ h \in 1..Len(N)
        BY DEF len
      <4>3. QED
        BY <1>2, <2>1, <3>3, <4>1, <4>2, Apart
    <3>7. QED
      BY <2>5, <3>2, <3>5, <3>6
  <2>7. QED
    BY <2>1, <2>3, <2>4, <2>5, <2>6
<1>17. CASE master[i] = Zero
  <2> DEFINE k == Cardinality(Times(i))
  <2>1. k \in {0, 1}
    BY <1>15
  <2> HIDE DEF k
  <2>2. k <= 1
    BY <2>1
  <2>3. QED
    BY <1>17, <2>2 DEF k
<1>18. CASE master[i] # Zero /\ status[master[i]] \in {"upstream", "empty"}
  <2>1. PICK g \in 1..len :
           /\ N[g].pr = master[i]
           /\ i \in Nat /\ i <= LastOf(N[g]) /\ \A h \in 1..len : h < g => LastOf(N[h]) < i
    BY <1>16, <1>18
  <2>2. ASSUME NEW n \in 1..m, i \in cs[n].content PROVE FALSE
    <3>1. PICK b \in 1..len : /\ f[n] = 2 * b /\ i <= LastOf(N[b])
                              /\ \A h \in 1..len : h < b => LastOf(N[h]) < i
      BY <1>11, <2>2
    <3>2. \A h \in 1..len : LastOf(N[h]) \in Nat
      BY <1>10
    <3>3. ~(b < g)
      <4>1. SUFFICES ASSUME b < g PROVE FALSE
        OBVIOUS
      <4>2. LastOf(N[b]) < i /\ i <= LastOf(N[b]) /\ i \in Nat /\ LastOf(N[b]) \in Nat
        BY <2>1, <3>1, <3>2, <4>1
      <4>3. QED
        BY <4>2
    <3>4. ~(g < b)
      <4>1. SUFFICES ASSUME g < b PROVE FALSE
        OBVIOUS
      <4>2. LastOf(N[g]) < i /\ i <= LastOf(N[g]) /\ i \in Nat /\ LastOf(N[g]) \in Nat
        BY <2>1, <3>1, <3>2, <4>1
      <4>3. QED
        BY <4>2
    <3>5. b = g
      BY <1>2, <3>3, <3>4
    <3>6. Wanted(status, N, 2 * g)
      BY <1>7, <3>1, <3>5
    <3>7. status[N[g].pr] \notin {"upstream", "empty"}
      BY <1>2, <3>6, WantedIs DEF len
    <3>8. QED
      BY <1>18, <2>1, <3>7
  <2>3. Times(i) = {}
    BY <1>3, <2>2
  <2>4. QED
    BY <1>14, <1>18, <2>3
<1>19. CASE master[i] # Zero /\ status[master[i]] \notin {"upstream", "empty"}
  <2>1. PICK g \in 1..len :
           /\ N[g].pr = master[i] /\ i \in Within(N[g])
           /\ \A h \in 1..len : h < g => LastOf(N[h]) < i
    BY <1>16, <1>19
  <2>2. Wanted(status, N, 2 * g) /\ OfPr(N, 2 * g) /\ \A d : At(d, N, 2 * g) => d = <<N[g].pr, "pr">>
    BY <1>2, <1>19, <2>1, WantedIs DEF len
  <2>3. 2 * g \in 2..(2 * len + 1)
    BY <1>2
  <2>4. PICK n \in 1..m : f[n] = 2 * g
    BY <1>7, <2>2, <2>3
  <2>5. Pair(cs[n]) = <<N[g].pr, "pr">>
    BY <1>7, <2>2, <2>4
  <2>6. cs[n].pr = N[g].pr /\ cs[n].type = "pr"
    BY <2>5 DEF Pair
  <2>7. PICK b \in 1..len, prev \in {base, FirstOf(N[1]) - 1} :
          cs[n].pr = N[b].pr /\ cs[n].content = Patch(N, b, prev)
    BY <1>8, <2>6 DEF Content, len
  <2>8. b = g
    BY <1>2, <2>6, <2>7 DEF PrGroups, len
  <2>9. i \in Patch(N, g, prev)
    BY <1>2, <2>1, PatchIs DEF len
  <2>10. n \in Times(i)
    BY <1>3, <2>7, <2>8, <2>9
  <2>11. Times(i) # {}
    BY <2>10
  <2> HIDE DEF Times
  <2>12. Cardinality(Times(i)) = 1
    BY <1>13, <1>14, <2>11
  <2>13. QED
    BY <1>19, <2>12
<1>20. QED
  BY <1>17, <1>18, <1>19

-----------------------------------------------------------------------------
(* The theorems. *)

(***************************************************************************)
(* The run of MCLandingParts is one of the tasks and one of the landings:  *)
(* what is proved about either holds in it.                                *)
(***************************************************************************)
THEOREM PartsAreBoth == PartsSpec => Spec /\ LandingSpec
<1>1. PartsInit => Init /\ LandingInit
  BY DEF PartsInit
<1>2. [PartsNext]_<<vars, lvars>> => [Next]_vars /\ [LandingNext]_lvars
  BY DEF PartsNext
<1>3. QED
  BY <1>1, <1>2, PTL DEF PartsSpec, Spec, LandingSpec

\* The types of master, the sync point, the syncs and the open landing.
THEOREM LandingTypesHold == LandingSpec => []TypesInv
<1>1. TypesInv /\ [LandingNext]_lvars => TypesInv'
  BY TypesStep
<1>2. QED
  BY <1>1, TypesInit, PTL DEF LandingSpec

\* The types of the tasks and of the landings, in the run of both.
THEOREM PartsTypesHold == PartsSpec => []PartsTypeOK
<1>1. TypeOK /\ TypesInv => PartsTypeOK
  BY TypesImply DEF PartsTypeOK
<1>2. QED
  BY <1>1, PartsAreBoth, TypeCorrect, LandingTypesHold, PTL

(***************************************************************************)
(* unlanded_wpt_commits_by_pr and landable_commits: a landing never takes  *)
(* some commits of a PR and leaves others, and without interleaved PRs it  *)
(* takes all that can land; what it stops at can be retriggered.           *)
(***************************************************************************)
THEOREM PrefixLands == LandingSpec => []LandsPrefix
<1>1. TypesInv => LandsPrefix
  BY TypesImply
<1>2. QED
  BY <1>1, LandingTypesHold, PTL

(***************************************************************************)
(* The inductive invariant of apply_prs: the gecko commits of the open     *)
(* landing are what the work up to its last commit leaves, if no           *)
(* downstream PR is without a change.                                      *)
(***************************************************************************)
THEOREM CommitsInvHolds == NoEmpty => (LandingSpec => []CommitsInv)
<1> SUFFICES ASSUME NoEmpty PROVE LandingSpec => []CommitsInv
  OBVIOUS
<1>1. TypesInv /\ TypesInv' /\ CommitsInv /\ [LandingNext]_lvars => CommitsInv'
  BY CommitsStep
<1>2. QED
  BY <1>1, CommitsInit, LandingTypesHold, PTL DEF LandingSpec

(***************************************************************************)
(* update_landing can always go on with an open landing, whatever was      *)
(* pushed since it was created and wherever applying its PRs stopped, if   *)
(* no downstream PR is without a change; but for interleaved PRs and       *)
(* --include-incomplete, as Resumable says.                                *)
(***************************************************************************)
THEOREM AlwaysResumable == NoEmpty => (LandingSpec => []Resumable)
<1> SUFFICES ASSUME NoEmpty PROVE LandingSpec => []Resumable
  OBVIOUS
<1>1. TypesInv /\ CommitsInv => Resumable
  BY CanResume
<1>2. QED
  BY <1>1, CommitsInvHolds, LandingTypesHold, PTL

(***************************************************************************)
(* A landing that is done has each PR that is new to gecko once, with its  *)
(* metadata, in order, and every upstream commit up to its head once,      *)
(* under the same condition and exceptions.                                *)
(***************************************************************************)
THEOREM PrsAppliedOnce == NoEmpty => (LandingSpec => []AppliedOnce)
<1> SUFFICES ASSUME NoEmpty PROVE LandingSpec => []AppliedOnce
  OBVIOUS
<1>1. TypesInv /\ CommitsInv => AppliedOnce
  BY DoneInOrder, DoneOnce DEF AppliedOnce
<1>2. QED
  BY <1>1, CommitsInvHolds, LandingTypesHold, PTL
=============================================================================
