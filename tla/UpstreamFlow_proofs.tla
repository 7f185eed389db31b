------------------------ MODULE UpstreamFlow_proofs ------------------------
(***************************************************************************)
(* What upstreaming promises, proved: Upstream implements ChangeFlow, when *)
(* nothing fails that loses part of a push and backouts take the last      *)
(* changes of a bug.                                                       *)
(***************************************************************************)
EXTENDS Upstream_proofs

-----------------------------------------------------------------------------
(***************************************************************************)
(* The operators of Upstream on commits, for any log L.                    *)
(***************************************************************************)

\* The commits of bug b after the m-th, up to the n-th.
Span(L, b, m, n) == {c \in (m + 1)..n : L[c].bug = b}

\* Of(b, Tree(n)): the changes of bug b that are in gecko's tree after n commits.
LiveIn(L, b, n) ==
  {x \in 1..n : L[x].bug = b /\ L[x].outs = {} /\ \A k \in 1..n : x \notin L[k].outs}

\* NoPairs(S).
Unpaired(L, S) ==
  {x \in S : /\ ~(L[x].outs # {} /\ L[x].outs \subseteq S)
             /\ \A k \in S : L[k].outs \subseteq S => x \notin L[k].outs}

\* Apply(M, S).
After(L, M, S) == {x \in M \cup {c \in S : L[c].outs = {}} : \A k \in S : x \notin L[k].outs}

(***************************************************************************)
(* What gecko does.  A backout takes out earlier changes of its bug that   *)
(* were still there, and none that is older than one that stays.           *)
(***************************************************************************)
Sane(L, n) ==
  \A c \in 1..n :
    /\ \A e \in L[c].outs : e \in 1..(c - 1) /\ L[e].bug = L[c].bug /\ L[e].outs = {}
    /\ \A k \in 1..n : k # c => L[c].outs \cap L[k].outs = {}
    /\ \A e \in L[c].outs : \A d \in (e + 1)..(c - 1) :
         L[d].bug = L[c].bug /\ L[d].outs = {} => \E k \in 1..c : d \in L[k].outs

\* After the p-th commit a bug is backed out once at most.
Single(L, p, n) ==
  \A c, k \in (p + 1)..n : L[c].outs # {} /\ L[k].outs # {} /\ L[c].bug = L[k].bug => c = k

LEMMA BackoutFacts ==
  ASSUME NEW n \in Nat, NEW L, Sane(L, n), NEW c \in 1..n, NEW e \in L[c].outs
  PROVE  /\ e \in 1..n /\ e < c /\ L[e].bug = L[c].bug /\ L[e].outs = {}
         /\ \A k \in 1..n : e \in L[k].outs => k = c
BY DEF Sane

LEMMA SaneBefore ==
  ASSUME NEW n \in Nat, NEW L, Sane(L, n), NEW m \in 0..n
  PROVE  Sane(L, m)
<1>1. \A c \in 1..m : c \in 1..n
  OBVIOUS
<1>2. QED
  BY <1>1 DEF Sane

LEMMA OnlyTheLast ==
  ASSUME NEW n \in Nat, NEW L, Sane(L, n), NEW c \in 1..n, NEW e \in L[c].outs,
         NEW d \in 1..n, e < d, d < c, L[d].bug = L[c].bug, L[d].outs = {}
  PROVE  \E k \in 1..n : k <= c /\ d < k /\ d \in L[k].outs /\ L[k].bug = L[c].bug
<1>1. e \in 1..n
  BY BackoutFacts
<1>2. d \in (e + 1)..(c - 1)
  BY <1>1
<1>3. PICK k \in 1..c : d \in L[k].outs
  BY <1>2 DEF Sane
<1>4. k \in 1..n /\ k <= c
  OBVIOUS
<1>5. d < k /\ L[d].bug = L[k].bug
  BY <1>3, <1>4, BackoutFacts
<1>6. QED
  BY <1>3, <1>4, <1>5

(***************************************************************************)
(* Commits that cancel out change nothing.                                 *)
(***************************************************************************)
LEMMA Cancelled ==
  ASSUME NEW n \in Nat, NEW L, Sane(L, n), NEW R \in SUBSET (1..n), NEW Q \in SUBSET (1..n),
         R \cap Q = {}, Unpaired(L, Q) = {}
  PROVE  Unpaired(L, R \cup Q) = Unpaired(L, R)
<1>1. ASSUME NEW x \in Q
      PROVE  \E k \in Q : L[k].outs # {} /\ L[k].outs \subseteq Q /\ (x = k \/ x \in L[k].outs)
  BY <1>1 DEF Unpaired
<1>2. ASSUME NEW k \in R, L[k].outs \subseteq R \cup Q PROVE L[k].outs \subseteq R
  <2>1. SUFFICES ASSUME NEW e \in L[k].outs, e \in Q PROVE FALSE
    BY <1>2
  <2>2. L[e].outs = {} /\ \A m \in 1..n : e \in L[m].outs => m = k
    BY BackoutFacts
  <2>3. PICK m \in Q : L[m].outs # {} /\ (e = m \/ e \in L[m].outs)
    BY <1>1, <2>1
  <2>4. QED
    BY <2>2, <2>3
<1>3. ASSUME NEW k \in Q, L[k].outs # {} PROVE L[k].outs \subseteq Q
  <2>1. PICK m \in Q : L[m].outs # {} /\ L[m].outs \subseteq Q /\ (k = m \/ k \in L[m].outs)
    BY <1>1
  <2>2. k \in L[m].outs => L[k].outs = {}
    BY BackoutFacts
  <2>3. QED
    BY <1>3, <2>1, <2>2
<1>4. ASSUME NEW x \in Unpaired(L, R \cup Q) PROVE x \in Unpaired(L, R)
  <2>1. x \in R
    <3>1. SUFFICES ASSUME x \in Q PROVE FALSE
      BY DEF Unpaired
    <3>2. PICK k \in Q : L[k].outs # {} /\ L[k].outs \subseteq Q /\ (x = k \/ x \in L[k].outs)
      BY <1>1, <3>1
    <3>3. QED
      BY <1>4, <3>2 DEF Unpaired
  <2>2. QED
    BY <1>4, <2>1 DEF Unpaired
<1>5. ASSUME NEW x \in Unpaired(L, R) PROVE x \in Unpaired(L, R \cup Q)
  <2>1. x \in R /\ ~(L[x].outs # {} /\ L[x].outs \subseteq R)
        /\ \A k \in R : L[k].outs \subseteq R => x \notin L[k].outs
    BY DEF Unpaired
  <2>2. ~(L[x].outs # {} /\ L[x].outs \subseteq R \cup Q)
    BY <1>2, <2>1
  <2>3. ASSUME NEW k \in R \cup Q, L[k].outs \subseteq R \cup Q PROVE x \notin L[k].outs
    <3>1. CASE k \in R
      BY <1>2, <2>1, <2>3, <3>1
    <3>2. CASE k \in Q
      BY <1>3, <2>1, <3>2
    <3>3. QED
      BY <3>1, <3>2
  <2>4. QED
    BY <2>1, <2>2, <2>3 DEF Unpaired
<1>6. QED
  BY <1>4, <1>5

LEMMA AfterUnpaired ==
  ASSUME NEW n \in Nat, NEW L, Sane(L, n), NEW R \in SUBSET (1..n), NEW M, M \cap R = {}
  PROVE  After(L, M, Unpaired(L, R)) = After(L, M, R)
<1> DEFINE U == Unpaired(L, R)
<1>1. U \subseteq R
  BY DEF Unpaired
<1>2. ASSUME NEW x \in R, L[x].outs = {} PROVE x \in U \/ \E k \in R : x \in L[k].outs
  BY <1>2 DEF Unpaired
<1>3. ASSUME NEW k \in R, k \notin U, L[k].outs # {} PROVE L[k].outs \subseteq R
  <2>1. CASE \E m \in R : k \in L[m].outs
    BY <1>3, <2>1, BackoutFacts
  <2>2. QED
    BY <1>3, <2>1 DEF Unpaired
<1>4. ASSUME NEW x \in After(L, M, U) PROVE x \in After(L, M, R)
  <2>1. ASSUME NEW k \in R, x \in L[k].outs PROVE FALSE
    <3>1. k \notin U
      BY <1>4, <2>1 DEF After
    <3>2. L[k].outs \subseteq R
      BY <1>3, <2>1, <3>1
    <3>3. x \notin U
      BY <2>1, <3>2 DEF Unpaired
    <3>4. x \in M
      BY <1>4, <3>3 DEF After
    <3>5. QED
      BY <2>1, <3>2, <3>4
  <2>2. QED
    BY <1>1, <1>4, <2>1 DEF After
<1>5. ASSUME NEW x \in After(L, M, R) PROVE x \in After(L, M, U)
  BY <1>1, <1>2, <1>5 DEF After
<1>6. QED
  BY <1>4, <1>5

LEMMA LiveGrows ==
  ASSUME NEW n \in Nat, NEW L, Sane(L, n), NEW b, NEW m \in 0..n, NEW k \in m..n
  PROVE  LiveIn(L, b, k) = After(L, LiveIn(L, b, m), Span(L, b, m, k))
<1>1. ASSUME NEW x \in LiveIn(L, b, k) PROVE x \in After(L, LiveIn(L, b, m), Span(L, b, m, k))
  <2>1. x \in 1..k /\ L[x].bug = b /\ L[x].outs = {} /\ \A j \in 1..k : x \notin L[j].outs
    BY DEF LiveIn
  <2>2. x \in LiveIn(L, b, m) \/ x \in Span(L, b, m, k)
    BY <2>1 DEF LiveIn, Span
  <2>3. \A j \in Span(L, b, m, k) : x \notin L[j].outs
    BY <2>1 DEF Span
  <2>4. QED
    BY <2>1, <2>2, <2>3 DEF After
<1>2. ASSUME NEW x \in After(L, LiveIn(L, b, m), Span(L, b, m, k)) PROVE x \in LiveIn(L, b, k)
  <2>1. /\ x \in LiveIn(L, b, m) \/ (x \in Span(L, b, m, k) /\ L[x].outs = {})
        /\ \A j \in Span(L, b, m, k) : x \notin L[j].outs
    BY DEF After
  <2>2. x \in 1..k /\ L[x].bug = b /\ L[x].outs = {}
    BY <2>1 DEF LiveIn, Span
  <2>3. ASSUME NEW j \in 1..k, x \in L[j].outs PROVE FALSE
    <3>1. j \in 1..n /\ L[j].bug = b /\ x < j
      BY <2>2, <2>3, BackoutFacts
    <3>2. j \notin Span(L, b, m, k)
      BY <2>1, <2>3
    <3>3. j \in 1..m
      BY <3>1, <3>2 DEF Span
    <3>4. x \in LiveIn(L, b, m)
      BY <2>1, <3>1, <3>3 DEF Span
    <3>5. QED
      BY <2>3, <3>3, <3>4 DEF LiveIn
  <2>4. QED
    BY <2>2, <2>3 DEF LiveIn
<1>3. QED
  BY <1>1, <1>2

-----------------------------------------------------------------------------
(***************************************************************************)
(* A push brings the commits from the p-th to the q-th.                    *)
(***************************************************************************)

LEMMA SpanSplits ==
  ASSUME NEW L, NEW b, NEW m \in Nat, NEW k \in Nat, NEW q \in Nat, m <= k, k <= q
  PROVE  /\ Span(L, b, m, q) = Span(L, b, m, k) \cup Span(L, b, k, q)
         /\ Span(L, b, m, k) \cap Span(L, b, k, q) = {}
         /\ Span(L, b, m, q) \subseteq 1..q /\ Span(L, b, k, q) \subseteq 1..q
         /\ Span(L, b, m, k) \subseteq 1..k /\ Span(L, b, m, k) \subseteq 1..q
BY DEF Span

\* What is left of a backout reaches back behind the push.
LEMMA Reaches ==
  ASSUME NEW n \in Nat, NEW L, Sane(L, n), NEW b, NEW m \in 0..n, NEW q \in m..n,
         NEW k \in Span(L, b, m, q), L[k].outs # {}, ~(L[k].outs \subseteq Span(L, b, m, q))
  PROVE  \E e \in L[k].outs : e \in 1..m
<1>1. PICK e \in L[k].outs : e \notin Span(L, b, m, q)
  OBVIOUS
<1>2. k \in 1..n /\ L[k].bug = b /\ k <= q
  BY DEF Span
<1>3. e \in 1..n /\ e < k /\ L[e].bug = b
  BY <1>2, BackoutFacts
<1>4. QED
  BY <1>1, <1>2, <1>3 DEF Span

LEMMA NothingAbove ==
  ASSUME NEW n \in Nat, NEW L, Sane(L, n), NEW b, NEW p \in 0..n, NEW q \in p..n, Single(L, p, n),
         NEW h \in Unpaired(L, Span(L, b, p, q)),
         \A x \in Unpaired(L, Span(L, b, p, q)) : x <= h
  PROVE  Unpaired(L, Span(L, b, h, q)) = {}
<1> DEFINE D == Span(L, b, p, q)
           Q == Span(L, b, h, q)
<1>1. h \in D /\ h \in (p + 1)..q /\ L[h].bug = b /\ \A k \in D : L[k].outs \subseteq D => h \notin L[k].outs
  BY DEF Unpaired, Span
<1>2. Q \subseteq D /\ D \subseteq 1..n
  BY <1>1 DEF Span
<1>3. ASSUME NEW k \in D, L[k].outs # {}, L[k].outs \subseteq D, h < k PROVE L[k].outs \subseteq Q
  <2>1. k \in (p + 1)..n /\ k \in 1..n /\ k <= q /\ L[k].bug = b
    BY DEF Span
  <2>2. SUFFICES ASSUME NEW e \in L[k].outs, e <= h PROVE FALSE
    <3>1. \A e \in L[k].outs : e \in 1..n /\ e < k /\ L[e].bug = b
      BY <2>1, BackoutFacts
    <3>2. QED
      BY <1>1, <2>1, <2>2, <3>1 DEF Span
  <2>3. e \in 1..n /\ e # h
    BY <1>1, <1>3, <2>1, BackoutFacts
  <2>4. L[h].outs = {}
    <3>1. SUFFICES ASSUME L[h].outs # {} PROVE FALSE
      OBVIOUS
    <3>2. h \in (p + 1)..n
      BY <1>1
    <3>3. QED
      BY <1>1, <1>3, <2>1, <3>1, <3>2 DEF Single
  <2>5. PICK j \in 1..n : j <= k /\ h < j /\ h \in L[j].outs /\ L[j].bug = b
    BY <1>1, <1>3, <2>1, <2>2, <2>3, <2>4, OnlyTheLast
  <2>6. j = k
    <3>1. j \in (p + 1)..n
      BY <1>1, <2>5
    <3>2. QED
      BY <1>3, <2>1, <2>5, <3>1 DEF Single
  <2>7. QED
    BY <1>1, <1>3, <2>5, <2>6
<1>4. SUFFICES ASSUME NEW x \in Unpaired(L, Q) PROVE FALSE
  OBVIOUS
<1>5. x \in Q /\ h < x /\ x \in D
  BY <1>1, <1>2, <1>4 DEF Unpaired, Span
<1>6. x \notin Unpaired(L, D)
  BY <1>1, <1>5 DEF Span
<1>7. PICK k \in D : L[k].outs # {} /\ L[k].outs \subseteq D /\ (k = x \/ x \in L[k].outs)
  BY <1>5, <1>6 DEF Unpaired
<1>8. h < k /\ k \in Q
  <2>1. k \in 1..n /\ x \in 1..n /\ (x \in L[k].outs => x < k)
    BY <1>2, <1>5, <1>7, BackoutFacts
  <2>2. QED
    BY <1>1, <1>5, <1>7, <2>1 DEF Span
<1>9. L[k].outs \subseteq Q
  BY <1>3, <1>7, <1>8
<1>10. QED
  BY <1>4, <1>7, <1>8, <1>9 DEF Unpaired

\* The head of a sync is moved as far as is needed.
LEMMA HeadSuffices ==
  ASSUME NEW n \in Nat, NEW L, Sane(L, n), NEW b, NEW p \in 0..n, NEW q \in p..n, Single(L, p, n),
         NEW h \in Unpaired(L, Span(L, b, p, q)),
         \A x \in Unpaired(L, Span(L, b, p, q)) : x <= h, NEW m \in Nat, m <= h
  PROVE  Unpaired(L, Span(L, b, m, h)) = Unpaired(L, Span(L, b, m, q))
<1>1. h \in 1..n /\ h <= q
  BY DEF Unpaired, Span
<1>2. Unpaired(L, Span(L, b, h, q)) = {}
  BY NothingAbove
<1>3. /\ Span(L, b, m, q) = Span(L, b, m, h) \cup Span(L, b, h, q)
      /\ Span(L, b, m, h) \cap Span(L, b, h, q) = {}
      /\ Span(L, b, m, h) \subseteq 1..n /\ Span(L, b, h, q) \subseteq 1..n
  BY <1>1 DEF Span
<1>4. QED
  BY <1>2, <1>3, Cancelled

\* If all that is new cancels out, nothing changes.
LEMMA NothingNew ==
  ASSUME NEW n \in Nat, NEW L, Sane(L, n), NEW b, NEW p \in 0..n, NEW q \in p..n,
         Unpaired(L, Span(L, b, p, q)) = {}
  PROVE  /\ LiveIn(L, b, q) = LiveIn(L, b, p)
         /\ \A m \in 0..p : Unpaired(L, Span(L, b, m, q)) = Unpaired(L, Span(L, b, m, p))
<1> DEFINE D == Span(L, b, p, q)
           M == LiveIn(L, b, p)
<1>1. M \cap D = {} /\ D \subseteq 1..n /\ D \in SUBSET (1..n)
  BY DEF LiveIn, Span
<1>2. LiveIn(L, b, q) = After(L, M, D)
  BY LiveGrows
<1>3. After(L, M, Unpaired(L, D)) = After(L, M, D)
  BY <1>1, AfterUnpaired
<1>4. After(L, M, {}) = M
  BY DEF After
<1>5. ASSUME NEW m \in 0..p PROVE Unpaired(L, Span(L, b, m, q)) = Unpaired(L, Span(L, b, m, p))
  <2>1. /\ Span(L, b, m, q) = Span(L, b, m, p) \cup D /\ Span(L, b, m, p) \cap D = {}
        /\ Span(L, b, m, p) \in SUBSET (1..n)
    BY DEF Span
  <2>2. QED
    BY <1>1, <2>1, Cancelled
<1>6. QED
  BY <1>2, <1>3, <1>4, <1>5

(***************************************************************************)
(* The wpt commits of a branch match gecko commits: up to a common one     *)
(* they are the same.                                                      *)
(***************************************************************************)
Agree(W, G) == \A w \in W \cap G : \A v \in W \cup G : v < w => v \in W \cap G

LEMMA PushAgrees ==
  ASSUME NEW n \in Nat, NEW L, Sane(L, n), NEW b, NEW m \in 0..n, NEW p \in m..n, NEW q \in p..n,
         NEW W \in SUBSET (1..p),
         \/ Unpaired(L, Span(L, b, m, p)) = {} \/ W = {}
         \/ W = Unpaired(L, Span(L, b, m, p))
  PROVE  Agree(W, Unpaired(L, Span(L, b, m, q)))
<1> DEFINE R  == Span(L, b, m, p)
           S  == Span(L, b, m, q)
           G0 == Unpaired(L, R)
           G1 == Unpaired(L, S)
<1>1. R \subseteq S /\ S \subseteq 1..n /\ \A x \in S : x <= p => x \in R
  BY DEF Span
<1>2. ASSUME NEW x \in G1, x <= p PROVE x \in R /\ x \in G0
  <2>1. x \in R
    BY <1>1, <1>2 DEF Unpaired
  <2>2. QED
    BY <1>1, <1>2, <2>1 DEF Unpaired
<1>3. SUFFICES ASSUME NEW w \in W \cap G1, NEW v \in W \cup G1, v < w PROVE v \in W \cap G1
  BY DEF Agree
<1>4. w \in G0 /\ W = G0 /\ w <= p /\ w \in 1..n /\ w \in R
  BY <1>2, <1>3
<1>5. CASE v \in G1
  <2>1. v <= p
    BY <1>1, <1>3, <1>4, <1>5 DEF Unpaired
  <2>2. QED
    BY <1>2, <1>4, <1>5, <2>1
<1>6. CASE v \in G0
  <2>1. v \in R /\ v \in S /\ v \in 1..p /\ v \in 1..n /\ L[v].bug = b /\ m < v
    BY <1>1, <1>6 DEF Unpaired, Span
  \* a backout that is left reaches behind the range
  <2>2. ASSUME NEW k \in S, k <= p, L[k].outs \subseteq S PROVE L[k].outs \subseteq R
    <3>1. k \in 1..n
      BY <1>1
    <3>2. \A e \in L[k].outs : e \in 1..n /\ e < k
      BY <3>1, BackoutFacts
    <3>3. QED
      BY <1>1, <2>2, <3>1, <3>2
  <2>3. SUFFICES ASSUME v \notin G1 PROVE FALSE
    BY <1>4, <1>6
  <2>4. PICK k \in S : L[k].outs # {} /\ L[k].outs \subseteq S /\ (k = v \/ v \in L[k].outs)
    BY <2>1, <2>3 DEF Unpaired
  <2>5. p < k /\ k \in 1..n /\ L[k].bug = b
    <3>1. k \in 1..n /\ L[k].bug = b
      BY <1>1 DEF Span
    <3>2. CASE k <= p
      <4>1. L[k].outs \subseteq R /\ k \in R
        BY <1>1, <2>2, <2>4, <3>2
      <4>2. QED
        BY <1>6, <2>4, <4>1 DEF Unpaired
    <3>3. QED
      BY <3>1, <3>2
  <2>6. v \in L[k].outs
    BY <2>1, <2>4, <2>5
  <2>7. L[v].outs = {} /\ \A j \in 1..n : v \in L[j].outs => j = k
    BY <2>5, <2>6, BackoutFacts
  <2>8. ASSUME NEW j \in S, j < k, v < j, L[j].outs # {}, ~(L[j].outs \subseteq S) PROVE FALSE
    <3>1. j \in 1..n /\ L[j].bug = b
      BY <1>1 DEF Span
    <3>2. PICK e \in L[j].outs : e \in 1..m
      <4>1. q \in m..n /\ j \in Span(L, b, m, q) /\ ~(L[j].outs \subseteq Span(L, b, m, q))
        BY <2>8
      <4>2. QED
        BY <2>8, <4>1, Reaches
    <3>3. e < v
      BY <2>1, <3>2
    <3>4. \E i \in 1..n : i <= j /\ v \in L[i].outs
      BY <2>1, <2>7, <2>8, <3>1, <3>3, OnlyTheLast
    <3>5. QED
      BY <2>5, <2>7, <2>8, <3>1, <3>4
  <2>9. w \in S /\ L[w].bug = b /\ w < k
    BY <1>1, <1>4, <2>5 DEF Span
  <2>10. CASE L[w].outs # {}
    BY <1>3, <2>8, <2>9, <2>10 DEF Unpaired
  <2>11. CASE L[w].outs = {}
    <3>1. PICK j \in 1..n : j <= k /\ w < j /\ w \in L[j].outs /\ L[j].bug = b
      BY <1>3, <1>4, <2>5, <2>6, <2>9, <2>11, OnlyTheLast
    <3>2. j \in S
      BY <1>4, <2>1, <2>4, <2>5, <3>1 DEF Span
    <3>3. ~(L[j].outs \subseteq S)
      BY <1>3, <3>1, <3>2 DEF Unpaired
    <3>4. j # k
      BY <2>4, <3>3
    <3>5. j < k /\ v < j
      BY <1>3, <1>4, <2>1, <2>5, <3>1, <3>4
    <3>6. QED
      BY <2>8, <3>1, <3>2, <3>3, <3>5
  <2>12. QED
    BY <2>10, <2>11
<1>7. QED
  BY <1>4, <1>5, <1>6

-----------------------------------------------------------------------------
(***************************************************************************)
(* A sync that is not finished, when n commits were processed and M is on  *)
(* wpt master.                                                             *)
(***************************************************************************)
Gecko(L, s)   == Unpaired(L, Span(L, s.bug, s.base, s.head))   \* GeckoCommits(s)
Mine(L, M, b) == {x \in M : L[x].bug = b}
Lost(L, M, s) == LiveIn(L, s.bug, s.base) \ M

(***************************************************************************)
(* Master has the changes of the bug that gecko had where the sync begins. *)
(* If it lacks some, because a backout started the range anew, the backout *)
(* takes them out; it cannot be applied then, and no PR is made.           *)
(***************************************************************************)
Rooted(L, M, s) ==
  /\ Mine(L, M, s.bug) \subseteq LiveIn(L, s.bug, s.base)
  /\ Lost(L, M, s) \subseteq L[s.base + 1].outs
  /\ Lost(L, M, s) # {} => s.wpt = {} /\ s.pr = "none"
  /\ s.wpt # {} => Mine(L, M, s.bug) \subseteq s.on

\* It has all commits of its bug from its base on, and its branch begins as they do.
Headed(L, n, s) ==
  /\ s.base < s.head /\ s.head <= n /\ s.wpt \subseteq 1..n
  /\ Gecko(L, s) = Unpaired(L, Span(L, s.bug, s.base, n))
  /\ Agree(s.wpt, Gecko(L, s))
  /\ s.pr # "merged"

\* And it is updated.
Settled(L, s) ==
  /\ Gecko(L, s) = {} \/ s.wpt = {} \/ s.wpt = Gecko(L, s)
  /\ s.status = "incomplete" => Gecko(L, s) = {}
  /\ s.status = "open" => Gecko(L, s) # {} /\ (s.pr # "none" => s.sent = Gecko(L, s))

LEMMA GeckoAfter ==
  ASSUME NEW n \in Nat, NEW L, Sane(L, n), NEW M, NEW s, s.base \in Nat, s.head \in Nat,
         Rooted(L, M, s), Headed(L, n, s)
  PROVE  After(L, Mine(L, M, s.bug), Gecko(L, s)) = LiveIn(L, s.bug, n)
<1> DEFINE b    == s.bug
           m    == s.base
           mine == Mine(L, M, b)
           live == LiveIn(L, b, m)
           S    == Span(L, b, m, n)
<1>1. m \in 0..n /\ n \in m..n /\ m + 1 \in 1..n
  BY DEF Headed
<1>2. S \in SUBSET (1..n) /\ mine \cap S = {}
  BY <1>1 DEF Span, Rooted, LiveIn
<1>3. After(L, mine, Unpaired(L, S)) = After(L, mine, S)
  BY <1>2, AfterUnpaired
<1>4. LiveIn(L, b, n) = After(L, live, S)
  BY <1>1, LiveGrows
<1>5. mine \subseteq live
  BY DEF Rooted
<1>6. ASSUME NEW x \in live, x \notin mine PROVE \E k \in S : x \in L[k].outs
  <2>1. x \in Lost(L, M, s) /\ L[x].bug = b
    BY <1>6 DEF Lost, Mine, LiveIn
  <2>2. x \in L[m + 1].outs
    BY <2>1 DEF Rooted
  <2>3. L[m + 1].bug = b
    BY <1>1, <2>1, <2>2, BackoutFacts
  <2>4. m + 1 \in S
    BY <1>1, <2>3 DEF Span
  <2>5. QED
    BY <2>2, <2>4
<1>7. After(L, mine, S) = After(L, live, S)
  BY <1>5, <1>6 DEF After
<1>8. Gecko(L, s) = Unpaired(L, S)
  BY DEF Headed
<1>9. QED
  BY <1>3, <1>4, <1>7, <1>8

(***************************************************************************)
(* The sync that a push creates for a bug that has none: from the backout  *)
(* in it, or from its first commit that counts.                            *)
(***************************************************************************)
LEMMA RootBackout ==
  ASSUME NEW n \in Nat, NEW L, Sane(L, n), NEW b, NEW p \in 0..n, NEW q \in p..n, Single(L, p, n),
         NEW k \in Unpaired(L, Span(L, b, p, q)), L[k].outs # {}
  PROVE  /\ LiveIn(L, b, p) \subseteq LiveIn(L, b, k - 1)
         /\ LiveIn(L, b, k - 1) \ LiveIn(L, b, p) \subseteq L[k].outs
<1>1. /\ k \in Span(L, b, p, q) /\ ~(L[k].outs \subseteq Span(L, b, p, q))
      /\ k \in (p + 1)..n /\ k \in 1..n /\ k <= q /\ L[k].bug = b
  BY DEF Unpaired, Span
<1>2. ASSUME NEW j \in (p + 1)..n, L[j].outs # {}, L[j].bug = b PROVE j = k
  BY <1>1, <1>2 DEF Single
<1>3. ASSUME NEW x \in LiveIn(L, b, p) PROVE x \in LiveIn(L, b, k - 1)
  <2>1. x \in 1..p /\ L[x].bug = b /\ L[x].outs = {} /\ \A j \in 1..p : x \notin L[j].outs
    BY DEF LiveIn
  <2>2. ASSUME NEW j \in 1..(k - 1), x \in L[j].outs PROVE FALSE
    <3>1. j \in 1..n /\ j < k
      BY <1>1
    <3>2. L[j].bug = b
      BY <2>1, <2>2, <3>1, BackoutFacts
    <3>3. j \in (p + 1)..n
      BY <2>1, <2>2, <3>1
    <3>4. QED
      BY <1>2, <2>2, <3>1, <3>2, <3>3
  <2>3. x \in 1..(k - 1)
    BY <1>1, <2>1
  <2>4. QED
    BY <2>1, <2>2, <2>3 DEF LiveIn
<1>4. ASSUME NEW x \in LiveIn(L, b, k - 1), x \notin LiveIn(L, b, p) PROVE x \in L[k].outs
  <2>1. /\ x \in 1..(k - 1) /\ L[x].bug = b /\ L[x].outs = {}
        /\ \A j \in 1..(k - 1) : x \notin L[j].outs
    BY DEF LiveIn
  <2>2. p < x /\ x \in 1..n /\ x < k
    BY <1>1, <1>4, <2>1 DEF LiveIn
  <2>3. PICK e \in L[k].outs : e \in 1..p
    BY <1>1, Reaches
  <2>4. PICK j \in 1..n : j <= k /\ x < j /\ x \in L[j].outs /\ L[j].bug = b
    <3>1. e < x
      BY <2>2, <2>3
    <3>2. QED
      BY <1>1, <2>1, <2>2, <3>1, OnlyTheLast
  <2>5. j \in (p + 1)..n
    BY <2>2, <2>4
  <2>6. QED
    BY <1>2, <2>4, <2>5
<1>5. QED
  BY <1>3, <1>4

LEMMA RootFirst ==
  ASSUME NEW n \in Nat, NEW L, Sane(L, n), NEW b, NEW p \in 0..n, NEW q \in p..n, Single(L, p, n),
         \A k \in Unpaired(L, Span(L, b, p, q)) : L[k].outs = {},
         NEW h \in Unpaired(L, Span(L, b, p, q)),
         \A k \in Unpaired(L, Span(L, b, p, q)) : h <= k
  PROVE  LiveIn(L, b, h - 1) = LiveIn(L, b, p)
<1> DEFINE D == Span(L, b, p, q)
           N == Unpaired(L, D)
<1>1. /\ h \in D /\ L[h].outs = {} /\ h \in (p + 1)..n /\ h \in 1..n /\ h <= q /\ L[h].bug = b
      /\ \A k \in D : L[k].outs \subseteq D => h \notin L[k].outs
  BY DEF Unpaired, Span
\* a backout of the push is of changes of the push
<1>2. ASSUME NEW k \in D, L[k].outs # {} PROVE L[k].outs \subseteq D
  <2>1. k \notin N
    BY <1>2
  <2>2. CASE \E j \in D : k \in L[j].outs
    <3>1. L[k].outs = {}
      BY <2>2, BackoutFacts DEF Span
    <3>2. QED
      BY <1>2, <3>1
  <2>3. QED
    BY <1>2, <2>1, <2>2 DEF Unpaired
<1>3. ASSUME NEW x \in LiveIn(L, b, p) PROVE x \in LiveIn(L, b, h - 1)
  <2>1. x \in 1..p /\ L[x].bug = b /\ L[x].outs = {} /\ \A j \in 1..p : x \notin L[j].outs
    BY DEF LiveIn
  <2>2. ASSUME NEW j \in 1..(h - 1), x \in L[j].outs PROVE FALSE
    <3>1. j \in 1..n
      BY <1>1
    <3>2. L[j].bug = b
      BY <2>1, <2>2, <3>1, BackoutFacts
    <3>3. j \in D
      BY <1>1, <2>1, <2>2, <3>1, <3>2 DEF Span
    <3>4. x \in D
      BY <1>2, <2>2, <3>3
    <3>5. QED
      BY <2>1, <3>4 DEF Span
  <2>3. x \in 1..(h - 1)
    BY <1>1, <2>1
  <2>4. QED
    BY <2>1, <2>2, <2>3 DEF LiveIn
<1>4. ASSUME NEW x \in LiveIn(L, b, h - 1), x \notin LiveIn(L, b, p) PROVE FALSE
  <2>1. /\ x \in 1..(h - 1) /\ L[x].bug = b /\ L[x].outs = {}
        /\ \A j \in 1..(h - 1) : x \notin L[j].outs
    BY DEF LiveIn
  <2>2. p < x /\ x \in 1..n /\ x < h
    BY <1>1, <1>4, <2>1 DEF LiveIn
  <2>3. x \in D /\ x \notin N
    BY <1>1, <2>1, <2>2 DEF Span
  <2>4. PICK k \in D : L[k].outs \subseteq D /\ x \in L[k].outs
    BY <2>1, <2>3 DEF Unpaired
  <2>5. k \in (p + 1)..n /\ k \in 1..n /\ L[k].bug = b /\ k # h /\ L[k].outs # {}
    BY <1>1, <2>4 DEF Span
  <2>6. h < k
    BY <1>1, <2>1, <2>4, <2>5
  <2>7. PICK j \in 1..n : j <= k /\ h < j /\ h \in L[j].outs /\ L[j].bug = b
    BY <1>1, <2>2, <2>4, <2>5, <2>6, OnlyTheLast
  <2>8. j = k
    <3>1. j \in (p + 1)..n
      BY <1>1, <2>7
    <3>2. QED
      BY <2>5, <2>7, <3>1 DEF Single
  <2>9. QED
    BY <1>1, <2>4, <2>7, <2>8
<1>5. QED
  BY <1>3, <1>4

-----------------------------------------------------------------------------
(***************************************************************************)
(* The operators of Upstream are these, for its log.                       *)
(***************************************************************************)

LEMMA NoPairsIs ==
  ASSUME NEW S
  PROVE  NoPairs(S) = Unpaired(log, S)
BY DEF NoPairs, Unpaired, IsBackout, BackedOut

LEMMA TreeIs ==
  ASSUME NEW b, NEW n
  PROVE  Of(b, Tree(n)) = LiveIn(log, b, n)
BY DEF Of, Tree, Changes, IsBackout, BackedOut, LiveIn

LEMMA ApplyIs ==
  ASSUME NEW M, NEW S
  PROVE  Apply(M, S) = After(log, M, S)
BY DEF Apply, Changes, IsBackout, BackedOut, After

\* A backout is of changes of its bug: nothing else is seen of a bug.
LEMMA GeckoIs ==
  ASSUME Sane(log, Len(log)), Len(log) \in Nat, NEW s, s.base \in Nat, s.head \in Nat,
         s.head <= Len(log)
  PROVE  GeckoCommits(s) = Gecko(log, s)
<1> DEFINE range == CommitRange(s)
           seen  == Of(s.bug, range)
           S     == {c \in range : c \in seen \/ log[c].outs \cap seen # {}}
<1>1. seen = Span(log, s.bug, s.base, s.head)
  BY DEF CommitRange, Of, Span
<1>2. range \subseteq 1..Len(log)
  BY DEF CommitRange
<1>3. ASSUME NEW c \in range, log[c].outs \cap seen # {} PROVE c \in seen
  <2>1. PICK e \in log[c].outs : log[e].bug = s.bug
    BY <1>3 DEF Of
  <2>2. c \in 1..Len(log)
    BY <1>2
  <2>3. log[e].bug = log[c].bug
    BY <2>2, BackoutFacts
  <2>4. QED
    BY <2>1, <2>3 DEF Of
<1>4. S = seen
  BY <1>3 DEF Of
<1>5. GeckoCommits(s) = NoPairs(S)
  BY DEF GeckoCommits
<1>6. QED
  BY <1>1, <1>4, <1>5, NoPairsIs DEF Gecko

\* The commits of a bug among those that count of a push.
LEMMA UnpairedOf ==
  ASSUME NEW n \in Nat, NEW L, Sane(L, n), NEW b, NEW p \in 0..n, NEW q \in p..n
  PROVE  {c \in Unpaired(L, (p + 1)..q) : L[c].bug = b} = Unpaired(L, Span(L, b, p, q))
<1> DEFINE D == (p + 1)..q
           S == Span(L, b, p, q)
<1>1. D \subseteq 1..n /\ S \subseteq D /\ \A c \in D : c \in S <=> L[c].bug = b
  BY DEF Span
<1> HIDE DEF D, S
<1>2. ASSUME NEW k \in S PROVE L[k].outs \subseteq D <=> L[k].outs \subseteq S
  <2>1. k \in 1..n /\ L[k].bug = b
    BY <1>1
  <2>2. \A e \in L[k].outs : L[e].bug = b
    BY <2>1, BackoutFacts
  <2>3. QED
    BY <1>1, <2>2
<1>3. ASSUME NEW k \in D, NEW x \in S, x \in L[k].outs PROVE k \in S
  <2>1. k \in 1..n /\ L[x].bug = b
    BY <1>1
  <2>2. L[x].bug = L[k].bug
    BY <1>3, <2>1, BackoutFacts
  <2>3. QED
    BY <1>1, <2>1, <2>2
<1>4. ASSUME NEW x \in Unpaired(L, D), L[x].bug = b PROVE x \in Unpaired(L, S)
  <2>1. /\ x \in D /\ ~(L[x].outs # {} /\ L[x].outs \subseteq D)
        /\ \A k \in D : L[k].outs \subseteq D => x \notin L[k].outs
    BY DEF Unpaired
  <2>2. x \in S
    BY <1>1, <1>4, <2>1
  <2>3. QED
    BY <1>1, <1>2, <2>1, <2>2 DEF Unpaired
<1>5. ASSUME NEW x \in Unpaired(L, S) PROVE x \in Unpaired(L, D) /\ L[x].bug = b
  <2>1. /\ x \in S /\ ~(L[x].outs # {} /\ L[x].outs \subseteq S)
        /\ \A k \in S : L[k].outs \subseteq S => x \notin L[k].outs
    BY DEF Unpaired
  <2>2. x \in D /\ L[x].bug = b
    BY <1>1, <2>1
  <2>3. \A k \in D : L[k].outs \subseteq D => x \notin L[k].outs
    BY <1>2, <1>3, <2>1
  <2>4. QED
    BY <1>2, <2>1, <2>2, <2>3 DEF Unpaired
<1>6. QED
  BY <1>4, <1>5 DEF D, S

-----------------------------------------------------------------------------
(***************************************************************************)
(* Gecko goes on: what is behind stays as it is.                           *)
(***************************************************************************)

Extends(L, K, n) == \A c \in 1..n : K[c] = L[c]

LEMMA LogStays ==
  ASSUME NEW n \in Nat, NEW L, NEW K, Extends(L, K, n)
  PROVE  /\ \A b : \A k \in 0..n : LiveIn(K, b, k) = LiveIn(L, b, k)
         /\ \A S : S \subseteq 1..n => Unpaired(K, S) = Unpaired(L, S)
         /\ \A b : \A m \in Nat : \A k \in 0..n : Span(K, b, m, k) = Span(L, b, m, k)
<1>1. ASSUME NEW b, NEW k \in 0..n PROVE LiveIn(K, b, k) = LiveIn(L, b, k)
  <2>1. \A x \in 1..k : x \in 1..n /\ K[x] = L[x]
    BY DEF Extends
  <2>2. QED
    BY <2>1 DEF LiveIn
<1>2. \A S : S \subseteq 1..n => Unpaired(K, S) = Unpaired(L, S)
  BY DEF Extends, Unpaired
<1>3. ASSUME NEW b, NEW m \in Nat, NEW k \in 0..n PROVE Span(K, b, m, k) = Span(L, b, m, k)
  <2>1. \A x \in (m + 1)..k : x \in 1..n /\ K[x] = L[x]
    BY DEF Extends
  <2>2. QED
    BY <2>1 DEF Span
<1>4. QED
  BY <1>1, <1>2, <1>3

LEMMA SyncStays ==
  ASSUME NEW n \in Nat, NEW L, NEW K, Extends(L, K, n), NEW M \in SUBSET (1..n), NEW k \in 0..n,
         NEW s, s.base \in Nat, s.head \in Nat, Headed(L, k, s)
  PROVE  /\ Headed(K, k, s)
         /\ Rooted(L, M, s) => Rooted(K, M, s)
         /\ Settled(L, s) => Settled(K, s)
<1>1. s.base < s.head /\ s.head <= k /\ k \in Nat /\ k <= n
  BY DEF Headed
<1>2. /\ Span(K, s.bug, s.base, s.head) = Span(L, s.bug, s.base, s.head)
      /\ Span(K, s.bug, s.base, k) = Span(L, s.bug, s.base, k)
      /\ LiveIn(K, s.bug, s.base) = LiveIn(L, s.bug, s.base)
      /\ Mine(K, M, s.bug) = Mine(L, M, s.bug)
  <2>1. s.head \in 0..n /\ s.base \in 0..n
    BY <1>1
  <2>2. Mine(K, M, s.bug) = Mine(L, M, s.bug)
    BY DEF Extends, Mine
  <2>3. LiveIn(K, s.bug, s.base) = LiveIn(L, s.bug, s.base)
    BY <2>1, LogStays
  <2>4. /\ Span(K, s.bug, s.base, s.head) = Span(L, s.bug, s.base, s.head)
        /\ Span(K, s.bug, s.base, k) = Span(L, s.bug, s.base, k)
    BY <2>1, LogStays
  <2>5. QED
    BY <2>2, <2>3, <2>4
<1>3. Gecko(K, s) = Gecko(L, s) /\ Unpaired(K, Span(K, s.bug, s.base, k)) = Unpaired(L, Span(L, s.bug, s.base, k))
  <2>1. Span(L, s.bug, s.base, s.head) \subseteq 1..n /\ Span(L, s.bug, s.base, k) \subseteq 1..n
    BY <1>1 DEF Span
  <2>2. QED
    BY <1>2, <2>1, LogStays DEF Gecko
<1>4. K[s.base + 1] = L[s.base + 1]
  <2>1. s.base + 1 \in 1..n
    BY <1>1
  <2>2. QED
    BY <2>1 DEF Extends
<1>5. Headed(K, k, s)
  BY <1>3 DEF Headed
<1>6. Rooted(L, M, s) => Rooted(K, M, s)
  BY <1>2, <1>4 DEF Rooted, Lost
<1>7. Settled(L, s) => Settled(K, s)
  BY <1>3 DEF Settled
<1>8. QED
  BY <1>5, <1>6, <1>7

\* A commit that is a change, or a backout of what there is, or of the last of it.
LEMMA SaneGrows ==
  ASSUME NEW n \in Nat, NEW L, NEW K, Extends(L, K, n), Sane(L, n),
         NEW b, K[n + 1].bug = b,
         \/ K[n + 1].outs = {} \/ K[n + 1].outs = LiveIn(L, b, n)
         \/ K[n + 1].outs = Ends(LiveIn(L, b, n))
  PROVE  Sane(K, n + 1)
<1> DEFINE outs == K[n + 1].outs
           live == LiveIn(L, b, n)
<1>1. outs \subseteq live
  BY DEF Ends
<1>2. \A e \in outs : /\ e \in 1..n /\ L[e].bug = b /\ L[e].outs = {}
                      /\ \A k \in 1..n : e \notin L[k].outs
  BY <1>1 DEF LiveIn
<1>3. \A c \in 1..(n + 1) : c \in 1..n \/ c = n + 1
  OBVIOUS
<1>4. \A c \in 1..n : K[c] = L[c] /\ c # n + 1 /\ c \in 1..(n + 1)
  BY DEF Extends
<1>5. ASSUME NEW c \in 1..n, NEW e \in K[c].outs, NEW d \in (e + 1)..(c - 1),
             K[d].bug = K[c].bug, K[d].outs = {}
      PROVE  \E k \in 1..c : d \in K[k].outs
  <2>1. e \in L[c].outs /\ e \in 1..(c - 1)
    BY <1>4 DEF Sane
  <2>2. d \in 1..n
    BY <2>1
  <2>3. \E k \in 1..c : d \in L[k].outs
    BY <1>4, <1>5, <2>1, <2>2 DEF Sane
  <2>4. \A k \in 1..c : K[k] = L[k]
    BY <1>4
  <2>5. QED
    BY <2>3, <2>4
<1>6. ASSUME NEW e \in outs, NEW d \in (e + 1)..n, K[d].bug = b, K[d].outs = {}
      PROVE  \E k \in 1..(n + 1) : d \in K[k].outs
  <2>1. d \in 1..n /\ e < d /\ e \in Nat /\ L[d].bug = b /\ L[d].outs = {}
    BY <1>2, <1>4, <1>6
  <2>2. CASE d \in live
    <3>1. outs # Ends(live)
      BY <1>2, <2>1, <2>2 DEF Ends
    <3>2. outs = live
      BY <3>1
    <3>3. QED
      BY <2>2, <3>2
  <2>3. CASE d \notin live
    <3>1. PICK k \in 1..n : d \in L[k].outs
      BY <2>1, <2>3 DEF LiveIn
    <3>2. QED
      BY <1>4, <3>1
  <2>4. QED
    BY <2>2, <2>3
<1>7. ASSUME NEW c \in 1..n
      PROVE  /\ \A e \in K[c].outs : e \in 1..(c - 1) /\ K[e].bug = K[c].bug /\ K[e].outs = {}
             /\ \A k \in 1..(n + 1) : k # c => K[c].outs \cap K[k].outs = {}
  <2>1. \A e \in L[c].outs : e \in 1..(c - 1) /\ e \in 1..n /\ L[e].bug = L[c].bug /\ L[e].outs = {}
    BY DEF Sane
  <2>2. \A k \in 1..n : k # c => L[c].outs \cap L[k].outs = {}
    BY DEF Sane
  <2>3. L[c].outs \cap outs = {}
    BY <1>2
  <2>4. QED
    BY <1>3, <1>4, <2>1, <2>2, <2>3
<1>8. /\ \A e \in outs : e \in 1..((n + 1) - 1) /\ K[e].bug = b /\ K[e].outs = {}
      /\ \A k \in 1..(n + 1) : k # n + 1 => outs \cap K[k].outs = {}
  <2>1. (n + 1) - 1 = n
    OBVIOUS
  <2>2. QED
    BY <1>2, <1>3, <1>4, <2>1
<1>9. (n + 1) - 1 = n
  OBVIOUS
<1> HIDE DEF outs, live
<1>10. ASSUME NEW c \in 1..(n + 1)
       PROVE  /\ \A e \in K[c].outs : e \in 1..(c - 1) /\ K[e].bug = K[c].bug /\ K[e].outs = {}
              /\ \A k \in 1..(n + 1) : k # c => K[c].outs \cap K[k].outs = {}
              /\ \A e \in K[c].outs : \A d \in (e + 1)..(c - 1) :
                   K[d].bug = K[c].bug /\ K[d].outs = {} => \E k \in 1..c : d \in K[k].outs
  <2>1. CASE c \in 1..n
    BY <1>5, <1>7, <2>1
  <2>2. CASE c = n + 1
    BY <1>6, <1>8, <1>9, <2>2 DEF outs
  <2>3. QED
    BY <1>3, <2>1, <2>2
<1>11. QED
  BY <1>10 DEF Sane

-----------------------------------------------------------------------------
(***************************************************************************)
(* update_wpt_commits.                                                     *)
(***************************************************************************)

\* The gecko commits that are taken to match do.
LEMMA Common ==
  ASSUME NEW W, NEW G, W \subseteq Nat, G \subseteq Nat, Agree(W, G)
  PROVE  {g \in G : \E w \in G \cap W : g <= w} = G \cap W
<1>1. ASSUME NEW g \in G, NEW w \in G \cap W, g <= w PROVE g \in W
  <2>1. g = w \/ g < w
    BY <1>1
  <2>2. QED
    BY <1>1, <2>1 DEF Agree
<1>2. \A g \in G : g <= g
  OBVIOUS
<1>3. QED
  BY <1>1, <1>2

LEMMA UptoPrefix ==
  ASSUME NEW S, IsFiniteSet(S), S \subseteq Nat, NEW A \in SUBSET S,
         \A w \in A : \A v \in S : v < w => v \in A
  PROVE  Upto(Cardinality(A), S) = A
<1>1. IsFiniteSet(A) /\ Cardinality(A) \in Nat
  BY FS_Subset, FS_CardinalityType
<1>2. ASSUME NEW w \in A PROVE Cardinality({v \in S : v <= w}) <= Cardinality(A)
  <2>1. ASSUME NEW v \in S, v <= w PROVE v \in A
    <3>1. v = w \/ v < w
      BY <2>1
    <3>2. QED
      BY <3>1
  <2>2. {v \in S : v <= w} \subseteq A
    BY <2>1
  <2>3. QED
    BY <1>1, <2>2, FS_Subset
<1>3. ASSUME NEW w \in S, w \notin A PROVE ~(Cardinality({v \in S : v <= w}) <= Cardinality(A))
  <2> DEFINE Q == {v \in S : v <= w}
  <2>1. A \cup {w} \subseteq Q /\ Q \subseteq S
    BY <1>3
  <2>2. IsFiniteSet(Q) /\ Cardinality(Q) \in Nat
    BY <2>1, FS_Subset, FS_CardinalityType
  <2>3. Cardinality(A \cup {w}) = Cardinality(A) + 1 /\ IsFiniteSet(A \cup {w})
    BY <1>1, <1>3, FS_AddElement
  <2>4. Cardinality(A \cup {w}) <= Cardinality(Q)
    BY <2>1, <2>2, FS_Subset
  <2>5. QED
    BY <1>1, <2>2, <2>3, <2>4
<1>4. QED
  BY <1>2, <1>3 DEF Upto

\* Every change that a commit of the sync backs out is on the branch.
LEMMA Applies ==
  ASSUME NEW n \in Nat, NEW L, Sane(L, n), NEW M, NEW s, s.base \in Nat, s.head \in Nat,
         s.head <= n, Lost(L, M, s) = {}, NEW c \in Gecko(L, s), NEW e \in L[c].outs
  PROVE  e \in Mine(L, M, s.bug) \/ (e \in Gecko(L, s) /\ e < c)
<1> DEFINE S == Span(L, s.bug, s.base, s.head)
<1>1. /\ c \in S /\ c \in 1..n /\ s.base < c /\ L[c].bug = s.bug
      /\ ~(L[c].outs # {} /\ L[c].outs \subseteq S)
  BY DEF Gecko, Unpaired, Span
<1>2. e \in 1..n /\ e < c /\ L[e].bug = s.bug /\ L[e].outs = {} /\ \A k \in 1..n : e \in L[k].outs => k = c
  BY <1>1, BackoutFacts
<1>3. CASE e <= s.base
  <2>1. e \in 1..s.base /\ \A k \in 1..s.base : e \notin L[k].outs
    <3>1. \A k \in 1..s.base : k \in 1..n /\ k # c
      BY <1>1
    <3>2. QED
      BY <1>2, <1>3, <3>1
  <2>2. e \in LiveIn(L, s.bug, s.base)
    BY <1>2, <2>1 DEF LiveIn
  <2>3. QED
    BY <1>2, <2>2 DEF Lost, Mine
<1>4. CASE s.base < e
  <2>1. e \in S
    BY <1>1, <1>2, <1>4 DEF Span
  <2>2. \A k \in S : k \in 1..n
    BY DEF Span
  <2>3. \A k \in S : L[k].outs \subseteq S => e \notin L[k].outs
    BY <1>1, <1>2, <2>2
  <2>4. e \in Gecko(L, s)
    BY <1>2, <2>1, <2>3 DEF Gecko, Unpaired
  <2>5. QED
    BY <1>2, <2>4
<1>5. QED
  BY <1>2, <1>3, <1>4

\* A backout of what master lacks comes first, and cannot be applied.
LEMMA Blocked ==
  ASSUME NEW n \in Nat, NEW L, Sane(L, n), NEW M, NEW s, s.base \in Nat, s.head \in Nat,
         Rooted(L, M, s), Headed(L, n, s), Lost(L, M, s) # {}
  PROVE  /\ s.base + 1 \in Gecko(L, s)
         /\ \A c \in Gecko(L, s) : c \in Nat /\ s.base + 1 <= c
         /\ \E e \in L[s.base + 1].outs : e \notin M
<1> DEFINE S == Span(L, s.bug, s.base, s.head)
           k == s.base + 1
<1>1. s.base < s.head /\ s.head <= n /\ k \in 1..n /\ k <= s.head
  BY DEF Headed
<1>2. PICK e \in L[k].outs : e \in LiveIn(L, s.bug, s.base) /\ e \notin M
  BY DEF Rooted, Lost
<1>3. e \in 1..s.base /\ L[e].bug = s.bug
  BY <1>2 DEF LiveIn
<1>4. L[k].bug = s.bug
  BY <1>1, <1>2, <1>3, BackoutFacts
<1>5. k \in S
  BY <1>1, <1>4 DEF Span
<1>6. ~(L[k].outs \subseteq S)
  BY <1>2, <1>3 DEF Span
<1>7. ASSUME NEW j \in S PROVE k \notin L[j].outs
  <2>1. j \in 1..n
    BY <1>1 DEF Span
  <2>2. QED
    BY <1>2, <2>1, BackoutFacts
<1>8. k \in Gecko(L, s)
  BY <1>5, <1>6, <1>7 DEF Gecko, Unpaired
<1>9. \A c \in S : c \in Nat /\ k <= c
  BY <1>1 DEF Span
<1>10. QED
  BY <1>2, <1>8, <1>9 DEF Gecko, Unpaired

\* A sync with other wpt commits, whose branch forks from a commit with the changes `on'.
LEMMA WptMoved ==
  ASSUME NEW L, NEW M, NEW n, NEW s, Rooted(L, M, s), Headed(L, n, s), NEW t,
         t.bug = s.bug, t.base = s.base, t.head = s.head, t.pr = s.pr, t.wpt \subseteq 1..n,
         \/ t.wpt = {}
         \/ t.wpt = Gecko(L, s) /\ Lost(L, M, s) = {} /\ Mine(L, M, s.bug) \subseteq t.on
  PROVE  Rooted(L, M, t) /\ Headed(L, n, t)
<1>1. Gecko(L, t) = Gecko(L, s) /\ Lost(L, M, t) = Lost(L, M, s)
  BY DEF Gecko, Lost
<1>2. Agree(t.wpt, Gecko(L, s))
  BY DEF Agree
<1>3. Rooted(L, M, t)
  BY <1>1 DEF Rooted
<1>4. Headed(L, n, t)
  BY <1>1, <1>2 DEF Headed
<1>5. QED
  BY <1>3, <1>4

LEMMA WptOutcome ==
  ASSUME TypeOK, Sane(log, Len(log)), "apply" \notin Faults, NEW n \in 0..Len(log),
         NEW s, Fits(s), Rooted(log, master, s), Headed(log, n, s), Gecko(log, s) # {},
         NEW o \in UpdateWptCommits(s)
  PROVE  /\ Rooted(log, master, o.s) /\ Headed(log, n, o.s) /\ o.s.status = s.status
         /\ o.s.pr = s.pr /\ o.s.sent = s.sent /\ o.s.bug = s.bug /\ o.s.base = s.base
         /\ o.s.head = s.head
         /\ o.ok => o.s.wpt = Gecko(log, s)
         /\ ~o.ok => o.s.wpt = {} /\ s.pr = "none"
<1> DEFINE G        == GeckoCommits(s)
           W        == s.wpt
           A        == G \cap W
           matching == {g \in G : \E w \in G \cap s.wpt : g <= w}
           k        == Cardinality(matching)
           start    == IF k < Cardinality(s.wpt) THEN Upto(k, s.wpt) ELSE s.wpt
           on       == IF k = 0 THEN master ELSE s.on
           rest     == G \ matching
           before(c) == start \cup {d \in rest : d < c}
           bad      == {c \in rest : ~(log[c].outs \subseteq on \cup before(c))}
           fails    == Starts(bad)
           moved(X) == [s EXCEPT !.wpt = X, !.on = on]
           mine     == Mine(log, master, s.bug)
<1>1. /\ Len(log) \in Nat /\ n \in Nat /\ n <= Len(log) /\ s \in Sync
      /\ s.base \in Nat /\ s.head \in Nat /\ s.base < s.head /\ s.head <= n /\ s.head <= Len(log)
  BY LenProperties, BoundAssumption, SyncFields DEF TypeOK, Fits, Commit, Headed
<1>2. G = Gecko(log, s)
  BY <1>1, GeckoIs
<1>3. G \subseteq 1..n /\ W \subseteq 1..n
  BY <1>1, <1>2 DEF Gecko, Unpaired, Span, Headed
<1>4. IsFiniteSet(G) /\ IsFiniteSet(W) /\ IsFiniteSet(A)
  <2>1. IsFiniteSet(1..n)
    BY <1>1, FS_Interval
  <2>2. QED
    BY <1>3, <2>1, FS_Subset
<1>5. Agree(W, G)
  BY <1>2 DEF Headed
<1>6. matching = A
  <2>1. W \subseteq Nat /\ G \subseteq Nat
    BY <1>3
  <2>2. QED
    BY <1>5, <2>1, Common
<1>7. Cardinality(A) \in Nat /\ Cardinality(G) \in Nat /\ Cardinality(W) \in Nat
  BY <1>4, FS_CardinalityType
<1>8. Cardinality(A) = Cardinality(G) => A = G
  BY <1>4, FS_Subset
<1>9. ~(Cardinality(A) < Cardinality(W)) => A = W
  <2>1. A \subseteq W
    OBVIOUS
  <2>2. Cardinality(A) <= Cardinality(W) /\ (Cardinality(A) = Cardinality(W) => A = W)
    BY <1>4, <2>1, FS_Subset
  <2>3. QED
    BY <1>7, <2>2
<1>10. start = A
  <2>1. \A w \in A : \A v \in W : v < w => v \in A
    BY <1>5 DEF Agree
  <2>2. Upto(Cardinality(A), W) = A
    <3>1. W \subseteq Nat /\ A \in SUBSET W
      BY <1>3
    <3>2. QED
      BY <1>4, <2>1, <3>1, UptoPrefix
  <2>3. QED
    BY <1>6, <1>9, <2>2
<1>11. k = 0 => A = {}
  BY <1>4, <1>6, FS_EmptySet
<1>12. \/ o = Ok(s) /\ k = Cardinality(G) /\ k = Cardinality(W)
       \/ fails = {} /\ o = Ok(moved(start \cup rest))
       \/ \E c \in fails : o = Raised(moved(before(c)))
  BY DEF UpdateWptCommits
<1> HIDE DEF G, W, matching, k, start, on, rest, bad, fails
<1>13. CASE o = Ok(s) /\ k = Cardinality(G) /\ k = Cardinality(W)
  <2>1. A = G /\ A = W
    BY <1>6, <1>7, <1>8, <1>9, <1>13 DEF k
  <2>2. o.s = s /\ o.ok = TRUE
    BY <1>13, OutcomeFields
  <2>3. QED
    BY <1>2, <2>1, <2>2 DEF W
<1>14. ASSUME Lost(log, master, s) = {} PROVE bad = {} /\ mine \subseteq on
  <2>1. mine \subseteq on
    <3>1. CASE k = 0
      BY <3>1 DEF on, Mine
    <3>2. CASE k # 0
      <4>1. s.wpt # {}
        BY <1>6, <3>2, FS_EmptySet DEF W, k
      <4>2. QED
        BY <3>2, <4>1 DEF on, Rooted
    <3>3. QED
      BY <3>1, <3>2
  <2>2. ASSUME NEW c \in rest, NEW e \in log[c].outs PROVE e \in on \cup before(c)
    <3>1. c \in Gecko(log, s)
      BY <1>2 DEF rest
    <3>2. e \in mine \/ (e \in Gecko(log, s) /\ e < c)
      BY <1>1, <1>14, <3>1, Applies
    <3>3. CASE e \in G /\ e < c
      BY <1>6, <1>10, <3>3 DEF rest
    <3>4. QED
      BY <1>2, <2>1, <3>2, <3>3
  <2>3. QED
    BY <2>1, <2>2 DEF bad
<1>15. ASSUME Lost(log, master, s) # {}
       PROVE  fails # {} /\ \A c \in fails : before(c) = {}
  <2>1. s.wpt = {}
    BY <1>15 DEF Rooted
  <2>2. A = {} /\ start = {} /\ rest = G
    BY <1>6, <1>10, <2>1 DEF W, rest
  <2>3. on = master
    <3>1. k = 0
      BY <1>6, <2>2, FS_EmptySet DEF k
    <3>2. QED
      BY <3>1 DEF on
  <2>4. /\ s.base + 1 \in G
        /\ \A c \in G : c \in Nat /\ s.base + 1 <= c
        /\ \E e \in log[s.base + 1].outs : e \notin master
    <3>1. Sane(log, n)
      BY <1>1, SaneBefore
    <3>2. QED
      BY <1>1, <1>2, <1>15, <3>1, Blocked
  <2>5. before(s.base + 1) = {}
    BY <1>1, <2>2, <2>4
  <2>6. s.base + 1 \in bad
    BY <2>2, <2>3, <2>4, <2>5 DEF bad
  <2>7. fails = {s.base + 1}
    <3>1. \A c \in bad : c \in Nat /\ s.base + 1 <= c
      BY <2>2, <2>4 DEF bad
    <3>2. QED
      BY <1>1, <2>6, <3>1 DEF fails, Starts
  <2>8. QED
    BY <2>5, <2>7
<1>16. CASE fails = {} /\ o = Ok(moved(start \cup rest))
  <2>1. Lost(log, master, s) = {}
    BY <1>15, <1>16
  <2>2. start \cup rest = G
    BY <1>6, <1>10 DEF rest
  <2>3. /\ o.ok = TRUE /\ o.s = [s EXCEPT !.wpt = G, !.on = on]
    BY <1>16, <2>2, OutcomeFields
  <2>4. /\ G \in SUBSET (1..n) /\ s \in Sync /\ n \in Nat
        /\ G = Gecko(log, s) /\ Lost(log, master, s) = {} /\ Mine(log, master, s.bug) \subseteq on
    BY <1>1, <1>2, <1>3, <1>14, <2>1
  <2>5. /\ o.s.wpt = G /\ o.s.on = on /\ o.s.status = s.status
        /\ o.s.pr = s.pr /\ o.s.sent = s.sent /\ o.s.bug = s.bug /\ o.s.base = s.base
        /\ o.s.head = s.head
    BY <2>3, <2>4 DEF Sync
  <2>6. Rooted(log, master, o.s) /\ Headed(log, n, o.s)
    BY <2>4, <2>5, WptMoved
  <2>7. QED
    BY <2>3, <2>4, <2>5, <2>6
<1>17. ASSUME NEW c \in fails, o = Raised(moved(before(c)))
       PROVE  /\ Rooted(log, master, o.s) /\ Headed(log, n, o.s) /\ o.s.status = s.status
              /\ o.s.pr = s.pr /\ o.s.sent = s.sent /\ o.s.bug = s.bug /\ o.s.base = s.base
              /\ o.s.head = s.head /\ o.s.wpt = {} /\ s.pr = "none" /\ o.ok = FALSE
  <2>1. Lost(log, master, s) # {}
    BY <1>14, <1>17 DEF fails, Starts
  <2>2. s.pr = "none" /\ before(c) = {}
    BY <1>15, <1>17, <2>1 DEF Rooted
  <2>3. o.ok = FALSE /\ o.s = [s EXCEPT !.wpt = {}, !.on = on]
    BY <1>17, <2>2, OutcomeFields
  <2>4. {} \in SUBSET (1..n) /\ s \in Sync /\ n \in Nat
    BY <1>1
  <2>5. /\ o.s.wpt = {} /\ o.s.on = on /\ o.s.status = s.status
        /\ o.s.pr = s.pr /\ o.s.sent = s.sent /\ o.s.bug = s.bug /\ o.s.base = s.base
        /\ o.s.head = s.head
    BY <2>3, <2>4 DEF Sync
  <2>6. Rooted(log, master, o.s) /\ Headed(log, n, o.s)
    BY <2>4, <2>5, WptMoved
  <2>7. QED
    BY <2>2, <2>3, <2>5, <2>6
<1>18. QED
  BY <1>12, <1>13, <1>16, <1>17

-----------------------------------------------------------------------------
(***************************************************************************)
(* update_modified_sync.                                                   *)
(***************************************************************************)

\* A sync with another status, PR or pushed branch.  None gets a PR whose branch has nothing.
LEMMA PrMoved ==
  ASSUME NEW L, NEW M, NEW n, NEW s, Rooted(L, M, s), Headed(L, n, s), NEW t,
         t.bug = s.bug, t.base = s.base, t.head = s.head, t.wpt = s.wpt, t.on = s.on,
         t.pr # "merged", t.pr = s.pr \/ s.pr # "none" \/ s.wpt # {}
  PROVE  Rooted(L, M, t) /\ Headed(L, n, t) /\ Gecko(L, t) = Gecko(L, s)
<1>1. Gecko(L, t) = Gecko(L, s) /\ Lost(L, M, t) = Lost(L, M, s)
  BY DEF Gecko, Lost
<1>2. Rooted(L, M, t)
  BY <1>1 DEF Rooted
<1>3. Headed(L, n, t)
  BY <1>1 DEF Headed
<1>4. QED
  BY <1>1, <1>2, <1>3

\* The fields that a change of status, error, PR or pushed branch leaves alone.
LEMMA StatusFields ==
  ASSUME NEW s \in Sync, NEW x
  PROVE  /\ LET t == [s EXCEPT !.status = x]
            IN  /\ t.bug = s.bug /\ t.base = s.base /\ t.head = s.head /\ t.wpt = s.wpt
                /\ t.on = s.on /\ t.pr = s.pr /\ t.sent = s.sent /\ t.status = x
         /\ LET t == [s EXCEPT !.error = x]
            IN  /\ t.bug = s.bug /\ t.base = s.base /\ t.head = s.head /\ t.wpt = s.wpt
                /\ t.on = s.on /\ t.pr = s.pr /\ t.sent = s.sent /\ t.status = s.status
                /\ t.error = x
         /\ LET t == [s EXCEPT !.pr = x]
            IN  /\ t.bug = s.bug /\ t.base = s.base /\ t.head = s.head /\ t.wpt = s.wpt
                /\ t.on = s.on /\ t.pr = x /\ t.sent = s.sent /\ t.status = s.status
         /\ LET t == [s EXCEPT !.sent = x]
            IN  /\ t.bug = s.bug /\ t.base = s.base /\ t.head = s.head /\ t.wpt = s.wpt
                /\ t.on = s.on /\ t.pr = s.pr /\ t.sent = x /\ t.status = s.status
BY DEF Sync

\* update_github, of a sync with all its wpt commits.
LEMMA GithubSettles ==
  ASSUME Sane(log, Len(log)), Len(log) \in Nat, "push" \notin Faults, "github" \notin Faults,
         NEW n \in 0..Len(log), NEW s \in Sync, s.base \in Nat, s.head \in Nat,
         s.status = "open", Gecko(log, s) # {}, s.wpt = Gecko(log, s),
         Rooted(log, master, s), Headed(log, n, s), NEW o \in UpdateGithub(s)
  PROVE  /\ Rooted(log, master, o.s) /\ Headed(log, n, o.s) /\ Settled(log, o.s)
         /\ o.s.status = "open" /\ o.s.bug = s.bug
<1> DEFINE reopened == [s EXCEPT !.pr = IF @ = "closed" THEN "open" ELSE @]
           pushed   == [reopened EXCEPT !.sent = reopened.wpt]
           opened   == [pushed EXCEPT !.pr = IF @ = "none" THEN "open" ELSE @]
<1>1. GeckoCommits(s) = Gecko(log, s) /\ s.pr # "merged"
  <2>1. s.head <= Len(log)
    BY DEF Headed
  <2>2. QED
    BY <2>1, GeckoIs DEF Headed
<1>2. \A t : May("github", t) = {} /\ May("push", t) = {}
  BY DEF May
<1>3. o = Ok(opened)
  <2>1. o \in PushCommits(reopened)
    BY <1>1, <1>2 DEF UpdateGithub
  <2> HIDE DEF reopened
  <2>2. QED
    BY <1>2, <2>1 DEF PushCommits
<1>4. /\ reopened \in Sync /\ reopened.bug = s.bug /\ reopened.base = s.base
      /\ reopened.head = s.head /\ reopened.wpt = s.wpt /\ reopened.on = s.on
      /\ reopened.status = s.status /\ reopened.pr \in {"none", "open"}
  BY <1>1 DEF Sync
<1> HIDE DEF reopened
<1>5. /\ pushed \in Sync /\ pushed.bug = s.bug /\ pushed.base = s.base
      /\ pushed.head = s.head /\ pushed.wpt = s.wpt /\ pushed.on = s.on /\ pushed.sent = s.wpt
      /\ pushed.status = s.status /\ pushed.pr \in {"none", "open"}
  BY <1>4 DEF Sync
<1> HIDE DEF pushed
<1>6. /\ opened.bug = s.bug /\ opened.base = s.base
      /\ opened.head = s.head /\ opened.wpt = s.wpt /\ opened.on = s.on /\ opened.sent = s.wpt
      /\ opened.status = s.status /\ opened.pr = "open"
  BY <1>5 DEF Sync
<1> HIDE DEF opened
<1>7. o.s = opened
  BY <1>3, OutcomeFields
<1>8. Rooted(log, master, o.s) /\ Headed(log, n, o.s) /\ Gecko(log, o.s) = Gecko(log, s)
  BY <1>6, <1>7, PrMoved
<1>9. Settled(log, o.s)
  BY <1>6, <1>7, <1>8 DEF Settled
<1>10. QED
  BY <1>6, <1>7, <1>8, <1>9

LEMMA UpdateSettles ==
  ASSUME TypeOK, Sane(log, Len(log)), {"apply", "push", "github"} \cap Faults = {},
         NEW n \in 0..Len(log), NEW s, Fits(s), s.status \in Unfinished,
         Rooted(log, master, s), Headed(log, n, s), NEW t \in UpdateModifiedSync(s)
  PROVE  /\ Rooted(log, master, t) /\ Headed(log, n, t) /\ Settled(log, t)
         /\ t.status \in Unfinished /\ t.bug = s.bug
<1> DEFINE empty   == [s EXCEPT !.status = "incomplete"]
           started == [s EXCEPT !.status = "open"]
<1>1. /\ Len(log) \in Nat /\ s \in Sync /\ s.base \in Nat /\ s.head \in Nat /\ s.head <= Len(log)
      /\ s.pr # "merged" /\ s.pr \in {"none", "open", "closed", "merged"}
  BY LenProperties, BoundAssumption, SyncFields DEF TypeOK, Fits, Commit, Headed
<1>2. GeckoCommits(s) = Gecko(log, s)
  BY <1>1, GeckoIs
<1>3. \A x : May("github", x) = {}
  BY DEF May
<1>4. ASSUME NEW u, u.bug = s.bug, u.base = s.base, u.head = s.head
      PROVE  GeckoCommits(u) = Gecko(log, s)
  BY <1>2, <1>4 DEF GeckoCommits, CommitRange
<1>5. PICK o : /\ t = [o.s EXCEPT !.error = ~o.ok]
               /\ o \in IF GeckoCommits(s) = {} THEN
                          IF s.pr = "none" THEN {Ok(empty)} ELSE UpdateGithub(empty)
                        ELSE UNION {IF w.ok \/ s.pr # "none" THEN UpdateGithub(w.s) ELSE {w} :
                                      w \in UpdateWptCommits(started)}
  BY DEF UpdateModifiedSync
<1>6. /\ Fits(started) /\ started.bug = s.bug /\ started.base = s.base /\ started.head = s.head
      /\ started.wpt = s.wpt /\ started.on = s.on /\ started.pr = s.pr /\ started.status = "open"
      /\ empty \in Sync /\ empty.bug = s.bug /\ empty.base = s.base /\ empty.head = s.head
      /\ empty.wpt = s.wpt /\ empty.on = s.on /\ empty.pr = s.pr /\ empty.status = "incomplete"
  BY <1>1 DEF Fits, Sync, Statuses
<1> HIDE DEF empty, started
<1>7. /\ o.s \in Sync /\ Rooted(log, master, o.s) /\ Headed(log, n, o.s) /\ Settled(log, o.s)
      /\ o.s.status \in Unfinished /\ o.s.bug = s.bug
  <2>1. CASE Gecko(log, s) = {}
    <3> DEFINE shut == [empty EXCEPT !.pr = IF @ = "open" THEN "closed" ELSE @]
    <3>1. GeckoCommits(empty) = {}
      BY <1>4, <1>6, <2>1
    <3>2. (o = Ok(empty) /\ s.pr = "none") \/ (o = Ok(shut) /\ s.pr # "none")
      <4>1. UpdateGithub(empty) = {Ok(shut)}
        BY <1>3, <3>1 DEF UpdateGithub
      <4>2. GeckoCommits(s) = {}
        BY <1>2, <2>1
      <4> HIDE DEF shut
      <4>3. QED
        BY <1>5, <4>1, <4>2
    <3>3. /\ shut \in Sync /\ shut.bug = s.bug /\ shut.base = s.base /\ shut.head = s.head
          /\ shut.wpt = s.wpt /\ shut.on = s.on /\ shut.status = "incomplete"
          /\ shut.pr # "merged"
      BY <1>1, <1>6 DEF Sync
    <3> HIDE DEF shut
    <3>4. PICK u \in Sync : /\ o.s = u /\ u.bug = s.bug /\ u.base = s.base /\ u.head = s.head
                            /\ u.wpt = s.wpt /\ u.on = s.on /\ u.status = "incomplete"
                            /\ u.pr # "merged" /\ (u.pr = s.pr \/ s.pr # "none")
      <4>1. Ok(empty).s = empty /\ Ok(shut).s = shut
        BY OutcomeFields
      <4>2. CASE o = Ok(empty) /\ s.pr = "none"
        BY <1>1, <1>6, <4>1, <4>2
      <4>3. CASE o = Ok(shut) /\ s.pr # "none"
        BY <3>3, <4>1, <4>3
      <4>4. QED
        BY <3>2, <4>2, <4>3
    <3>5. Rooted(log, master, u) /\ Headed(log, n, u) /\ Gecko(log, u) = Gecko(log, s)
      BY <3>4, PrMoved
    <3>6. Settled(log, u)
      BY <2>1, <3>4, <3>5 DEF Settled
    <3>7. QED
      BY <3>4, <3>5, <3>6 DEF Unfinished
  <2>2. CASE Gecko(log, s) # {}
    <3>1. PICK w \in UpdateWptCommits(started) :
            \/ (w.ok \/ s.pr # "none") /\ o \in UpdateGithub(w.s)
            \/ ~w.ok /\ s.pr = "none" /\ o = w
      BY <1>2, <1>5, <2>2
    <3>2. /\ Rooted(log, master, started) /\ Headed(log, n, started)
          /\ Gecko(log, started) = Gecko(log, s)
      BY <1>1, <1>6, PrMoved
    <3>3. /\ Rooted(log, master, w.s) /\ Headed(log, n, w.s) /\ w.s.status = "open"
          /\ w.s.pr = s.pr /\ w.s.bug = s.bug /\ w.s.base = s.base /\ w.s.head = s.head
          /\ w.ok => w.s.wpt = Gecko(log, s)
          /\ ~w.ok => w.s.wpt = {} /\ s.pr = "none"
      <4>1. Gecko(log, started) # {}
        BY <2>2, <3>2
      <4>2. /\ Rooted(log, master, w.s) /\ Headed(log, n, w.s) /\ w.s.status = started.status
            /\ w.s.pr = started.pr /\ w.s.bug = started.bug /\ w.s.base = started.base
            /\ w.s.head = started.head
            /\ w.ok => w.s.wpt = Gecko(log, started)
            /\ ~w.ok => w.s.wpt = {} /\ started.pr = "none"
        BY <1>6, <3>2, <4>1, WptOutcome
      <4>3. QED
        BY <1>6, <3>2, <4>2
    <3>4. w.s \in Sync
      BY <1>6, WptCommitsFit DEF Fits
    <3>5. Gecko(log, w.s) = Gecko(log, s)
      BY <3>3 DEF Gecko
    <3>6. CASE w.ok /\ o \in UpdateGithub(w.s)
      <4>1. /\ Rooted(log, master, o.s) /\ Headed(log, n, o.s) /\ Settled(log, o.s)
            /\ o.s.status = "open" /\ o.s.bug = w.s.bug
        BY <1>1, <2>2, <3>3, <3>4, <3>5, <3>6, GithubSettles
      <4>2. o.s \in Sync
        <5>1. Fits(w.s)
          BY <1>6, WptCommitsFit
        <5>2. Follows(w.s, o.s)
          BY <3>3, <3>6, <5>1, UpdateGithubFollows DEF Unfinished
        <5>3. QED
          BY <5>2 DEF Follows, Fits
      <4>3. QED
        BY <3>3, <4>1, <4>2 DEF Unfinished
    <3>7. CASE ~w.ok /\ o = w
      <4>1. Settled(log, w.s)
        BY <2>2, <3>3, <3>5, <3>7 DEF Settled
      <4>2. QED
        BY <3>3, <3>4, <3>7, <4>1 DEF Unfinished
    <3>8. QED
      BY <3>1, <3>3, <3>6, <3>7
  <2>3. QED
    BY <2>1, <2>2
<1>8. PICK u \in Sync : u = o.s
  BY <1>7
<1>9. /\ t.bug = u.bug /\ t.base = u.base /\ t.head = u.head /\ t.wpt = u.wpt /\ t.on = u.on
      /\ t.pr = u.pr /\ t.sent = u.sent /\ t.status = u.status
  BY <1>5, <1>8, StatusFields
<1>10. Rooted(log, master, t) /\ Headed(log, n, t) /\ Gecko(log, t) = Gecko(log, u)
  <2>1. Rooted(log, master, u) /\ Headed(log, n, u) /\ u.pr # "merged"
    BY <1>7, <1>8 DEF Headed
  <2>2. QED
    BY <1>9, <2>1, PrMoved
<1>11. Settled(log, t)
  BY <1>7, <1>8, <1>9, <1>10 DEF Settled
<1>12. QED
  BY <1>7, <1>8, <1>9, <1>10, <1>11

-----------------------------------------------------------------------------
(***************************************************************************)
(* What a push makes of a sync, and the sync that it creates.              *)
(***************************************************************************)

LEMMA HeadStays ==
  ASSUME NEW n \in Nat, NEW L, Sane(L, n), NEW p \in 0..n, NEW q \in p..n,
         NEW s, s.base \in Nat, s.head \in Nat, Headed(L, p, s),
         Unpaired(L, Span(L, s.bug, p, q)) = {}
  PROVE  Headed(L, q, s)
<1>1. s.base \in 0..p /\ s.head <= q /\ s.wpt \subseteq 1..q
  BY DEF Headed
<1>2. Unpaired(L, Span(L, s.bug, s.base, q)) = Unpaired(L, Span(L, s.bug, s.base, p))
  <2>1. PICK b : b = s.bug
    OBVIOUS
  <2>2. Unpaired(L, Span(L, b, p, q)) = {}
    BY <2>1
  <2>3. \A m \in 0..p : Unpaired(L, Span(L, b, m, q)) = Unpaired(L, Span(L, b, m, p))
    BY <2>2, NothingNew
  <2>4. QED
    BY <1>1, <2>1, <2>3
<1>3. QED
  BY <1>1, <1>2 DEF Headed

LEMMA HeadMoved ==
  ASSUME NEW n \in Nat, NEW L, Sane(L, n), NEW p \in 0..n, NEW q \in p..n, Single(L, p, n),
         NEW M, NEW s, s.base \in Nat, s.head \in Nat,
         Rooted(L, M, s), Headed(L, p, s), Settled(L, s),
         NEW h \in Unpaired(L, Span(L, s.bug, p, q)),
         \A x \in Unpaired(L, Span(L, s.bug, p, q)) : x <= h,
         NEW t, t.bug = s.bug, t.base = s.base, t.head = h, t.wpt = s.wpt, t.on = s.on, t.pr = s.pr
  PROVE  Rooted(L, M, t) /\ Headed(L, q, t)
<1>1. s.base < s.head /\ s.head <= p /\ s.wpt \subseteq 1..p /\ s.pr # "merged"
  BY DEF Headed
<1>2. h \in Nat /\ p < h /\ h <= q
  BY DEF Unpaired, Span
<1>3. Gecko(L, t) = Unpaired(L, Span(L, t.bug, t.base, q))
  <2>1. s.base <= h
    BY <1>1, <1>2
  <2>2. Unpaired(L, Span(L, s.bug, s.base, h)) = Unpaired(L, Span(L, s.bug, s.base, q))
    BY <2>1, HeadSuffices
  <2>3. QED
    BY <2>2 DEF Gecko
<1>4. Agree(t.wpt, Gecko(L, t))
  <2>1. s.base \in 0..n /\ p \in s.base..n /\ s.wpt \in SUBSET (1..p)
    BY <1>1
  <2>2. \/ Unpaired(L, Span(L, s.bug, s.base, p)) = {} \/ s.wpt = {}
        \/ s.wpt = Unpaired(L, Span(L, s.bug, s.base, p))
    BY DEF Settled, Headed
  <2>3. Agree(s.wpt, Unpaired(L, Span(L, s.bug, s.base, q)))
    BY <2>1, <2>2, PushAgrees
  <2>4. QED
    BY <1>3, <2>3
<1>5. Headed(L, q, t)
  BY <1>1, <1>2, <1>3, <1>4 DEF Headed
<1>6. Rooted(L, M, t)
  BY DEF Rooted, Lost
<1>7. QED
  BY <1>5, <1>6

LEMMA SyncMade ==
  ASSUME NEW n \in Nat, NEW L, Sane(L, n), NEW p \in 0..n, NEW q \in p..n, Single(L, p, n),
         NEW M, NEW b, Mine(L, M, b) = LiveIn(L, b, p),
         NEW h \in Unpaired(L, Span(L, b, p, q)), NEW first \in Unpaired(L, Span(L, b, p, q)),
         \A x \in Unpaired(L, Span(L, b, p, q)) : x <= h,
         \/ L[first].outs # {}
         \/ \A x \in Unpaired(L, Span(L, b, p, q)) : L[x].outs = {} /\ first <= x,
         NEW s, s.bug = b, s.base = first - 1, s.head = h, s.wpt = {}, s.pr = "none"
  PROVE  Rooted(L, M, s) /\ Headed(L, q, s)
<1>1. /\ h \in Nat /\ h <= q /\ first \in Nat /\ p < first /\ first <= h
      /\ s.base + 1 = first /\ s.base \in Nat /\ s.base < s.head
  <2>1. h \in (p + 1)..q /\ first \in (p + 1)..q /\ first <= h
    BY DEF Unpaired, Span
  <2>2. QED
    BY <2>1
<1>2. Headed(L, q, s)
  <2>1. Unpaired(L, Span(L, b, s.base, h)) = Unpaired(L, Span(L, b, s.base, q))
    BY <1>1, HeadSuffices
  <2>2. QED
    BY <1>1, <2>1 DEF Headed, Gecko, Agree
<1>3. \A x \in LiveIn(L, b, s.base) : x \in M <=> x \in LiveIn(L, b, p)
  BY DEF Mine, LiveIn
<1>4. /\ LiveIn(L, b, p) \subseteq LiveIn(L, b, s.base)
      /\ LiveIn(L, b, s.base) \ LiveIn(L, b, p) \subseteq L[s.base + 1].outs
  <2>1. CASE L[first].outs # {}
    BY <1>1, <2>1, RootBackout
  <2>2. CASE \A x \in Unpaired(L, Span(L, b, p, q)) : L[x].outs = {} /\ first <= x
    <3>1. LiveIn(L, b, first - 1) = LiveIn(L, b, p)
      BY <2>2, RootFirst
    <3>2. QED
      BY <3>1
  <2>3. QED
    BY <2>1, <2>2
<1>5. Rooted(L, M, s)
  BY <1>3, <1>4 DEF Rooted, Lost
<1>6. QED
  BY <1>2, <1>5

-----------------------------------------------------------------------------
(***************************************************************************)
(* The inductive invariant: what is on master is what gecko had where the  *)
(* sync of a bug begins, or what it has when there is none.                *)
(***************************************************************************)

\* Nothing that loses a part of a push may happen: see the README for what each of these breaks.
Calm ==
  /\ \E r \in Repo : Repos \subseteq {r}
  /\ Backouts \subseteq {"whole", "last"}
  /\ Others \subseteq {"close", "reopen"}
  /\ Faults \subseteq {"bug", "needinfo"}

\* The syncs S, of which `todo' are to be updated, with M on master and n commits seen.
SyncsFlow(L, M, n, S, todo) ==
  \A i \in 1..Len(S) : S[i].status \in Unfinished =>
    /\ Rooted(L, M, S[i]) /\ Headed(L, n, S[i])
    /\ i \notin todo => Settled(L, S[i])
Rests(S, b) == \A i \in 1..Len(S) : S[i].bug = b => S[i].status \notin Unfinished
MasterFlows(L, M, n, S) ==
  \A b \in Bugs : Rests(S, b) => Mine(L, M, b) = LiveIn(L, b, n)

PointsFlow ==   \* one branch is handled, and a job has commits of it that were not processed
  /\ \A r \in Repo \ Repos : point[r] = 0
  /\ job.rev # 0 => job.rev > Processed /\ job.repo \in Repos
  /\ noted \subseteq 1..Seen
FlowInv ==
  /\ Sane(log, Len(log)) /\ Single(log, Processed, Len(log))
  /\ PointsFlow
  /\ SyncsFlow(log, master, Seen, syncs, job.todo)
  /\ MasterFlows(log, master, Seen, syncs)
  /\ master \subseteq 1..central

(***************************************************************************)
(* What a step may do: master stays, or one sync lands.                    *)
(***************************************************************************)
Quiet ==
  /\ master' = master /\ \A i \in 1..Len(syncs) : ~LandedHere(i)
  /\ Extends(log, log', Len(log)) /\ central' >= central
Lands(i) ==
  /\ syncs[i].status = "open" /\ syncs[i].pr = "open"
  /\ syncs[i].sent = GeckoCommits(syncs[i]) /\ syncs[i].sent \subseteq 1..central
  /\ master' = Apply(master, syncs[i].sent)
  /\ \A j \in 1..Len(syncs) : j # i => syncs'[j] = syncs[j]
  /\ UNCHANGED <<log, central, point>> /\ Seen' = Seen
Flows == FlowInv' /\ (Quiet \/ \E i \in 1..Len(syncs) : Lands(i))

LEMMA SeenFacts ==
  ASSUME UpstreamInv
  PROVE  /\ Len(log) \in Nat /\ Processed \in 0..Len(log) /\ Seen \in 0..Len(log)
         /\ Processed <= Seen /\ (job.rev = 0 => Seen = Processed)
         /\ job.rev \in 0..Len(log) /\ job.repo \in Repo /\ point \in [Repo -> 0..Len(log)]
         /\ \A r \in Repo : point[r] <= Processed
         /\ (job.rev > Processed => Seen = job.rev)
<1>1. /\ Len(log) \in Nat /\ point \in [Repo -> 0..Len(log)]
      /\ job.rev \in 0..Len(log) /\ job.repo \in Repo
  BY LenProperties, JobTypes, JobFields DEF UpstreamInv, TypeOK
<1>2. point["autoland"] \in 0..Len(log) /\ point["central"] \in 0..Len(log)
  BY <1>1 DEF Repo
<1>3. Processed \in 0..Len(log) /\ \A r \in Repo : point[r] <= Processed
  BY <1>1, <1>2 DEF Processed, Repo
<1>4. /\ Seen \in 0..Len(log) /\ Processed <= Seen /\ (job.rev = 0 => Seen = Processed)
      /\ (job.rev > Processed => Seen = job.rev)
  BY <1>1, <1>3 DEF Seen
<1>5. QED
  BY <1>1, <1>3, <1>4

\* The branch that is handled is as far as any.
LEMMA OneBranch ==
  ASSUME UpstreamInv, Calm, PointsFlow, NEW r \in Repos
  PROVE  r \in Repo /\ point[r] = Processed
<1>1. r \in Repo /\ \A q \in Repo : q # r => point[q] = 0
  BY ChoiceAssumption DEF Calm, PointsFlow
<1>2. point["autoland"] \in Nat /\ point["central"] \in Nat
  <2>1. point["autoland"] \in 0..Len(log) /\ point["central"] \in 0..Len(log)
    BY SeenFacts DEF Repo
  <2>2. QED
    BY <2>1, SeenFacts
<1>3. r = "autoland" \/ r = "central"
  BY <1>1 DEF Repo
<1>4. CASE r = "autoland"
  BY <1>1, <1>2, <1>4 DEF Processed, Repo
<1>5. CASE r = "central"
  BY <1>1, <1>2, <1>5 DEF Processed, Repo
<1>6. QED
  BY <1>1, <1>3, <1>4, <1>5

LEMMA SyncNumbers ==
  ASSUME UpstreamInv
  PROVE  \A i \in 1..Len(syncs) : /\ syncs[i] \in Sync /\ Fits(syncs[i])
                                  /\ syncs[i].base \in Nat /\ syncs[i].head \in Nat
                                  /\ syncs[i].bug \in Bugs /\ syncs[i].head <= Len(log)
BY Facts, SyncFields, BoundAssumption DEF Fits, Commit

\* One sync changes, and stays what it is for its bug.
LEMMA OneFlows ==
  ASSUME NEW L, NEW M, NEW n, NEW S, NEW todo, SyncsFlow(L, M, n, S, todo), MasterFlows(L, M, n, S),
         NEW T, NEW i \in 1..Len(S), NEW left, Len(T) = Len(S),
         \A j \in 1..Len(S) : j # i => T[j] = S[j] /\ (j \notin left => j \notin todo),
         T[i].bug = S[i].bug, T[i].status \in Unfinished <=> S[i].status \in Unfinished,
         T[i].status \in Unfinished =>
           /\ Rooted(L, M, T[i]) /\ Headed(L, n, T[i])
           /\ i \notin left => Settled(L, T[i])
  PROVE  SyncsFlow(L, M, n, T, left) /\ MasterFlows(L, M, n, T)
<1>1. SyncsFlow(L, M, n, T, left)
  BY DEF SyncsFlow
<1>2. ASSUME NEW b \in Bugs, Rests(T, b) PROVE Rests(S, b)
  BY <1>2 DEF Rests
<1>3. MasterFlows(L, M, n, T)
  BY <1>2 DEF MasterFlows
<1>4. QED
  BY <1>1, <1>3

\* One sync lands.
LEMMA MineAfter ==
  ASSUME NEW L, NEW M, NEW b, NEW G, \A c \in G : L[c].bug = b
  PROVE  Mine(L, After(L, M, G), b) = After(L, Mine(L, M, b), G)
BY DEF Mine, After

LEMMA OthersAfter ==
  ASSUME NEW n \in Nat, NEW L, Sane(L, n), NEW M, NEW d, NEW G \in SUBSET (1..n),
         \A c \in G : L[c].bug # d
  PROVE  Mine(L, After(L, M, G), d) = Mine(L, M, d)
<1>1. \A c \in G : \A e \in L[c].outs : L[e].bug # d
  BY BackoutFacts
<1>2. QED
  BY <1>1 DEF Mine, After

LEMMA OneLands ==
  ASSUME NEW n \in Nat, NEW L, Sane(L, n), NEW M, NEW S,
         NEW todo, SyncsFlow(L, M, n, S, todo), MasterFlows(L, M, n, S),
         NEW T, NEW i \in 1..Len(S), NEW left, Len(T) = Len(S),
         \A j \in 1..Len(S) : j # i => T[j] = S[j] /\ (j \notin left => j \notin todo),
         \A j \in 1..Len(S) : S[j].bug = S[i].bug /\ S[j].status \in Unfinished => j = i,
         S[i].status \in Unfinished, T[i].bug = S[i].bug, T[i].status \notin Unfinished,
         S[i].base \in Nat, S[i].head \in Nat,
         NEW N, N = After(L, M, Gecko(L, S[i]))
  PROVE  /\ SyncsFlow(L, N, n, T, left) /\ MasterFlows(L, N, n, T)
         /\ \A d : Mine(L, N, d) = IF d = S[i].bug THEN LiveIn(L, d, n) ELSE Mine(L, M, d)
<1> DEFINE s == S[i]
           b == s.bug
           G == Gecko(L, s)
<1>1. Rooted(L, M, s) /\ Headed(L, n, s)
  BY DEF SyncsFlow
<1>2. G \in SUBSET (1..n) /\ \A c \in G : L[c].bug = b
  BY <1>1 DEF Gecko, Unpaired, Span, Headed
<1>3. Mine(L, N, b) = LiveIn(L, b, n)
  BY <1>1, <1>2, MineAfter, GeckoAfter
<1>4. ASSUME NEW d, d # b PROVE Mine(L, N, d) = Mine(L, M, d)
  <2>1. \A c \in G : L[c].bug # d
    BY <1>2, <1>4
  <2>2. QED
    BY <1>2, <2>1, OthersAfter
<1> HIDE DEF G
<1>5. ASSUME NEW j \in 1..Len(S), T[j].status \in Unfinished
      PROVE  Rooted(L, N, T[j]) /\ Headed(L, n, T[j]) /\ (j \notin left => Settled(L, T[j]))
  <2>1. j # i /\ T[j] = S[j] /\ S[j].status \in Unfinished /\ S[j].bug # b
    BY <1>5
  <2>2. Rooted(L, M, S[j]) /\ Headed(L, n, S[j]) /\ (j \notin todo => Settled(L, S[j]))
    BY <2>1 DEF SyncsFlow
  <2>3. Mine(L, N, S[j].bug) = Mine(L, M, S[j].bug)
    BY <1>4, <2>1
  <2>4. \A x : x \in LiveIn(L, S[j].bug, S[j].base) => (x \in N <=> x \in M)
    BY <2>3 DEF LiveIn, Mine
  <2>5. Lost(L, N, S[j]) = Lost(L, M, S[j])
    BY <2>4 DEF Lost
  <2>6. Rooted(L, N, S[j])
    BY <2>2, <2>3, <2>5 DEF Rooted
  <2>7. QED
    BY <2>1, <2>2, <2>6
<1>6. SyncsFlow(L, N, n, T, left)
  BY <1>5 DEF SyncsFlow
<1>7. ASSUME NEW d \in Bugs, Rests(T, d) PROVE Mine(L, N, d) = LiveIn(L, d, n)
  <2>1. CASE d = b
    BY <1>3, <2>1
  <2>2. CASE d # b
    <3>1. Rests(S, d)
      BY <1>7, <2>2 DEF Rests
    <3>2. QED
      BY <1>4, <2>2, <3>1 DEF MasterFlows
  <2>3. QED
    BY <2>1, <2>2
<1>8. QED
  BY <1>3, <1>4, <1>6, <1>7 DEF MasterFlows

-----------------------------------------------------------------------------
(***************************************************************************)
(* A step that changes one sync.                                           *)
(***************************************************************************)

LEMMA SeenSame ==
  ASSUME UNCHANGED point, job'.rev = job.rev
  PROVE  Seen' = Seen /\ Processed' = Processed
BY DEF Seen, Processed

LEMMA PointsSame ==
  ASSUME PointsFlow, UNCHANGED point, job'.rev = job.rev, job'.repo = job.repo,
         noted' \subseteq 1..Seen
  PROVE  PointsFlow'
<1>1. Seen' = Seen /\ Processed' = Processed
  BY SeenSame
<1>2. QED
  BY <1>1 DEF PointsFlow

LEMMA LogSame ==
  ASSUME UNCHANGED log
  PROVE  Extends(log, log', Len(log))
BY DEF Extends

\* What both kinds of step leave alone.
JobStays ==
  /\ UNCHANGED <<log, central, point>> /\ job'.rev = job.rev /\ job'.repo = job.repo
  /\ noted' \subseteq 1..Seen

LEMMA SyncQuiet ==
  ASSUME UpstreamInv, FlowInv, NEW i \in 1..Len(syncs), NEW t \in Sync,
         syncs' = [syncs EXCEPT ![i] = t], t.bug = syncs[i].bug,
         t.status \in Unfinished <=> syncs[i].status \in Unfinished,
         t.status \in Unfinished =>
           /\ Rooted(log, master, t) /\ Headed(log, Seen, t)
           /\ i \notin job'.todo => Settled(log, t),
         master' = master, job.todo \ {i} \subseteq job'.todo, JobStays
  PROVE  Flows
<1>1. /\ Len(syncs') = Len(syncs)
      /\ \A j \in 1..Len(syncs) : syncs'[j] = IF j = i THEN t ELSE syncs[j]
  BY Facts, ExceptSeq
<1>2. SyncsFlow(log, master, Seen, syncs', job'.todo) /\ MasterFlows(log, master, Seen, syncs')
  <2>1. SyncsFlow(log, master, Seen, syncs, job.todo) /\ MasterFlows(log, master, Seen, syncs)
    BY DEF FlowInv
  <2>2. \A j \in 1..Len(syncs) : j # i => syncs'[j] = syncs[j] /\ (j \notin job'.todo => j \notin job.todo)
    BY <1>1
  <2>3. PICK T, left : T = syncs' /\ left = job'.todo
    OBVIOUS
  <2>4. T[i] = t /\ Len(T) = Len(syncs)
    BY <1>1, <2>3
  <2>5. /\ T[i].bug = syncs[i].bug
        /\ T[i].status \in Unfinished <=> syncs[i].status \in Unfinished
        /\ T[i].status \in Unfinished =>
             /\ Rooted(log, master, T[i]) /\ Headed(log, Seen, T[i])
             /\ i \notin left => Settled(log, T[i])
    BY <2>3, <2>4
  <2>6. \A j \in 1..Len(syncs) : j # i => T[j] = syncs[j] /\ (j \notin left => j \notin job.todo)
    BY <2>2, <2>3
  <2>7. SyncsFlow(log, master, Seen, T, left) /\ MasterFlows(log, master, Seen, T)
    BY <2>1, <2>4, <2>5, <2>6, OneFlows
  <2>8. QED
    BY <2>3, <2>7
<1>3. Seen' = Seen /\ Processed' = Processed /\ PointsFlow'
  BY SeenSame, PointsSame DEF JobStays, FlowInv
<1>4. FlowInv'
  BY <1>2, <1>3 DEF FlowInv, JobStays
<1>5. ASSUME NEW j \in 1..Len(syncs) PROVE ~LandedHere(j)
  <2>1. CASE j # i
    BY <1>1, <2>1 DEF LandedHere
  <2>2. CASE j = i
    <3>1. t.status = "wpt-merged" => syncs[i].status \notin Unfinished
      BY DEF Unfinished
    <3>2. syncs[i].status \in Statuses
      BY SyncNumbers, SyncFields
    <3>3. t.status = "wpt-merged" => syncs[i].pr = "merged"
      BY <3>1, <3>2 DEF UpstreamInv, AllMerged, Finished, Unfinished, Statuses
    <3>4. QED
      BY <1>1, <2>2, <3>3 DEF LandedHere
  <2>3. QED
    BY <2>1, <2>2
<1>6. Extends(log, log', Len(log)) /\ central' >= central
  <2>1. central \in Nat
    BY CentralSeen DEF UpstreamInv
  <2>2. QED
    BY <2>1, LogSame DEF JobStays
<1>7. QED
  BY <1>4, <1>5, <1>6 DEF Flows, Quiet

LEMMA SyncLands ==
  ASSUME UpstreamInv, FlowInv, NEW i \in 1..Len(syncs), NEW t \in Sync,
         syncs' = [syncs EXCEPT ![i] = t], t.bug = syncs[i].bug,
         syncs[i].status = "open", syncs[i].pr = "open", i \notin job.todo,
         t.status = "wpt-merged", t.sent = syncs[i].sent, GeckoCommits(syncs[i]) \subseteq 1..central,
         master' = Apply(master, t.sent), job.todo \ {i} \subseteq job'.todo, JobStays
  PROVE  FlowInv' /\ Lands(i)
<1> DEFINE s == syncs[i]
           G == Gecko(log, s)
<1>1. /\ Len(syncs') = Len(syncs)
      /\ \A j \in 1..Len(syncs) : syncs'[j] = IF j = i THEN t ELSE syncs[j]
  BY Facts, ExceptSeq
<1>2. s.base \in Nat /\ s.head \in Nat /\ s.head <= Len(log)
  BY SyncNumbers
<1>3. Sane(log, Len(log)) /\ Seen \in 0..Len(log) /\ Len(log) \in Nat
  BY SeenFacts DEF FlowInv
<1>4. GeckoCommits(s) = G
  BY <1>2, <1>3, GeckoIs
<1>5. s.status \in Unfinished /\ t.status \notin Unfinished
  BY DEF Unfinished
<1>6. Settled(log, s)
  BY <1>5 DEF FlowInv, SyncsFlow
<1>7. s.sent = G /\ G \subseteq 1..central
  BY <1>4, <1>6 DEF Settled
<1>8. master' = After(log, master, G)
  BY <1>7, ApplyIs
<1> HIDE DEF G
<1>9. /\ SyncsFlow(log, master', Seen, syncs', job'.todo)
      /\ MasterFlows(log, master', Seen, syncs')
  <2>1. SyncsFlow(log, master, Seen, syncs, job.todo) /\ MasterFlows(log, master, Seen, syncs)
    BY DEF FlowInv
  <2>2. \A j \in 1..Len(syncs) : j # i => syncs'[j] = syncs[j] /\ (j \notin job'.todo => j \notin job.todo)
    BY <1>1
  <2>3. \A j \in 1..Len(syncs) : syncs[j].bug = s.bug /\ syncs[j].status \in Unfinished => j = i
    BY <1>5 DEF UpstreamInv, OneOpen
  <2>4. PICK T, left : T = syncs' /\ left = job'.todo
    OBVIOUS
  <2>5. Sane(log, Seen) /\ Seen \in Nat
    BY <1>3, SaneBefore
  <2>6. master' = After(log, master, Gecko(log, syncs[i]))
    BY <1>8 DEF G
  <2>7. PICK N : N = master'
    OBVIOUS
  <2>8. /\ Len(T) = Len(syncs) /\ T[i].bug = s.bug /\ T[i].status \notin Unfinished
        /\ N = After(log, master, Gecko(log, syncs[i]))
        /\ \A j \in 1..Len(syncs) : j # i => T[j] = syncs[j] /\ (j \notin left => j \notin job.todo)
    BY <1>1, <1>5, <2>2, <2>4, <2>6, <2>7
  <2>9. SyncsFlow(log, N, Seen, T, left) /\ MasterFlows(log, N, Seen, T)
    BY <1>2, <1>5, <2>1, <2>3, <2>5, <2>8, OneLands
  <2>10. QED
    BY <2>4, <2>7, <2>9
<1>10. Seen' = Seen /\ Processed' = Processed /\ PointsFlow'
  BY SeenSame, PointsSame DEF JobStays, FlowInv
<1>11. master' \subseteq 1..central
  BY <1>7, <1>8 DEF After, FlowInv
<1>12. FlowInv'
  BY <1>9, <1>10, <1>11 DEF FlowInv, JobStays
<1>13. Lands(i)
  <2>1. s.sent = GeckoCommits(s) /\ s.sent \subseteq 1..central /\ master' = Apply(master, s.sent)
    BY <1>4, <1>7
  <2>2. \A j \in 1..Len(syncs) : j # i => syncs'[j] = syncs[j]
    BY <1>1
  <2>3. QED
    BY <1>10, <2>1, <2>2 DEF Lands, JobStays
<1>14. QED
  BY <1>12, <1>13

\* A sync like the i-th but for its error.
LEMMA TryLandFlows ==
  ASSUME UpstreamInv, Calm, FlowInv, NEW i \in 1..Len(syncs), NEW s \in Sync, Fits(s),
         s.bug = syncs[i].bug, s.base = syncs[i].base, s.head = syncs[i].head,
         s.wpt = syncs[i].wpt, s.on = syncs[i].on, s.status = syncs[i].status,
         s.pr = syncs[i].pr, s.sent = syncs[i].sent, job.todo = {},
         NEW o \in {Ok(s)} \cup TryLandPr(s), Set(i, o.s), JobStays
  PROVE  Flows
<1> DEFINE ended  == Finish(s, "wpt-merged")
           merged == [ended EXCEPT !.pr = "merged"]
<1>1. s.status \in Unfinished => /\ Rooted(log, master, s) /\ Headed(log, Seen, s)
                                 /\ Settled(log, s)
  <2> SUFFICES ASSUME s.status \in Unfinished
               PROVE  Rooted(log, master, s) /\ Headed(log, Seen, s) /\ Settled(log, s)
    OBVIOUS
  <2>1. /\ Rooted(log, master, syncs[i]) /\ Headed(log, Seen, syncs[i])
        /\ Settled(log, syncs[i])
    BY DEF FlowInv, SyncsFlow
  <2>2. Rooted(log, master, s) /\ Headed(log, Seen, s) /\ Gecko(log, s) = Gecko(log, syncs[i])
    <3>1. s.pr # "merged"
      BY <2>1 DEF Headed
    <3>2. QED
      BY <2>1, <3>1, PrMoved
  <2>3. QED
    BY <2>1, <2>2 DEF Settled
<1>2. o = Ok(s) \/ (s.status = "open" /\ s.pr = "open" /\ GeckoLanded(s) /\ o = Ok(merged))
  <2>1. May("github", s) = {}
    BY DEF May, Calm
  <2>2. s.status = "open" => s.pr # "merged"
    BY <1>1 DEF Unfinished, Headed
  <2>3. s.pr \in {"none", "open", "closed", "merged"}
    BY SyncFields
  <2>4. QED
    BY <2>1, <2>2, <2>3 DEF TryLandPr
<1>3. syncs' = [syncs EXCEPT ![i] = o.s]
  BY DEF Set
<1>4. CASE o = Ok(s)
  <2>1. o.s = s
    BY <1>4, OutcomeFields
  <2>2. master' = master
    BY <2>1 DEF Set
  <2>3. QED
    BY <1>1, <1>3, <2>1, <2>2, SyncQuiet
<1>5. CASE s.status = "open" /\ s.pr = "open" /\ GeckoLanded(s) /\ o = Ok(merged)
  <2>1. /\ Fits(ended) /\ ended.bug = s.bug /\ ended.status = "wpt-merged" /\ ended.sent = s.sent
    BY FinishFacts DEF Statuses
  <2> HIDE DEF ended
  <2>2. /\ Fits(merged) /\ merged.bug = s.bug /\ merged.status = "wpt-merged"
        /\ merged.pr = "merged" /\ merged.sent = s.sent
    BY <2>1, PrFacts
  <2> HIDE DEF merged
  <2>3. o.s = merged /\ merged \in Sync
    BY <1>5, <2>2, OutcomeFields DEF Fits
  <2>4. master' = Apply(master, merged.sent)
    BY <1>5, <2>2, <2>3 DEF Set
  <2>5. GeckoCommits(syncs[i]) \subseteq 1..central
    <3>1. GeckoCommits(syncs[i]) = GeckoCommits(s)
      BY DEF GeckoCommits, CommitRange
    <3>2. GeckoCommits(s) \subseteq 1..Len(log) /\ \A c \in GeckoCommits(s) : c <= known
      BY <1>5, GeckoCommitsExist DEF GeckoLanded, UpstreamInv
    <3>3. known \in Nat /\ central \in Nat /\ known <= central
      BY CentralSeen DEF UpstreamInv, TypeOK
    <3>4. QED
      BY <3>1, <3>2, <3>3
  <2>6. FlowInv' /\ Lands(i)
    BY <1>3, <1>5, <2>2, <2>3, <2>4, <2>5, SyncLands
  <2>7. QED
    BY <2>6 DEF Flows
<1>6. QED
  BY <1>2, <1>4, <1>5

-----------------------------------------------------------------------------
(* The actions, one lemma each. *)

LEMMA NotedSeen ==
  ASSUME UpstreamInv, FlowInv
  PROVE  noted \subseteq 1..Seen
BY DEF FlowInv, PointsFlow

LEMMA UpdateFlows ==
  ASSUME UpstreamInv, Calm, FlowInv, NEW i \in 1..Len(syncs), Update(i)
  PROVE  Flows
<1>1. /\ job.kind \in {"push", "update"} /\ i \in job.todo
      /\ UNCHANGED <<log, central, known, point, noted, master, filed>>
  BY DEF Update
<1>2. PICK s \in UpdateModifiedSync(syncs[i]) :
        /\ syncs' = [syncs EXCEPT ![i] = s]
        /\ job' = Left(job.kind, job.todo \ {i}, syncs')
  BY DEF Update
<1>3. syncs[i].status \in Unfinished /\ Fits(syncs[i])
  BY <1>1, Facts DEF UpstreamInv, TodoOpen
<1>4. Rooted(log, master, syncs[i]) /\ Headed(log, Seen, syncs[i])
  BY <1>3 DEF FlowInv, SyncsFlow
<1>5. /\ Rooted(log, master, s) /\ Headed(log, Seen, s) /\ Settled(log, s)
      /\ s.status \in Unfinished /\ s.bug = syncs[i].bug
  <2>1. TypeOK /\ Sane(log, Len(log)) /\ {"apply", "push", "github"} \cap Faults = {}
    BY DEF UpstreamInv, FlowInv, Calm
  <2>2. Seen \in 0..Len(log)
    BY SeenFacts
  <2>3. QED
    BY <1>3, <1>4, <2>1, <2>2, UpdateSettles
<1>6. s \in Sync
  BY <1>3, UpdateFollows DEF UpstreamInv, Follows, Fits
<1>7. job'.rev = job.rev /\ job'.repo = job.repo /\ job.todo \ {i} \subseteq job'.todo
  <2> DEFINE R == 0..Len(log)
             T == 1..Len(syncs)
  <2>1. job \in JobSet(R, T)
    BY JobTypes DEF UpstreamInv
  <2> HIDE DEF R, T
  <2>2. CASE job.todo \ {i} # {}
    <3>1. job' = [job EXCEPT !.kind = job.kind, !.todo = job.todo \ {i}]
      BY <1>2, <2>2 DEF Left
    <3>2. QED
      BY <2>1, <3>1 DEF JobSet
  <2>3. CASE job.todo \ {i} = {}
    <3>1. PICK land : job' = [job EXCEPT !.kind = "land", !.todo = {}, !.land = land]
      BY <1>2, <2>3 DEF Left
    <3>2. QED
      BY <2>1, <2>3, <3>1 DEF JobSet
  <2>4. QED
    BY <2>2, <2>3
<1>8. JobStays
  BY <1>1, <1>7, NotedSeen DEF JobStays
<1>9. QED
  BY <1>1, <1>2, <1>3, <1>5, <1>6, <1>7, <1>8, SyncQuiet

LEMMA LandFlows ==
  ASSUME UpstreamInv, Calm, FlowInv, NEW i \in 1..Len(syncs), Land(i)
  PROVE  Flows
<1>1. job.kind = "land" /\ UNCHANGED <<log, central, known, point, noted, filed>>
  BY DEF Land
<1>2. PICK o \in TryLandPr(syncs[i]) :
        Set(i, o.s) /\ job' = IF o.ok THEN [job EXCEPT !.land = @ \ {i}] ELSE Idle
  BY DEF Land
<1>3. o.ok = TRUE
  <2>1. May("github", syncs[i]) = {}
    BY DEF May, Calm
  <2>2. \E t : o = Ok(t)
    <3>1. syncs[i].pr \in {"none", "open", "closed", "merged"}
      BY SyncNumbers, SyncFields
    <3>2. QED
      BY <2>1, <3>1 DEF TryLandPr
  <2>3. QED
    BY <2>2, OutcomeFields
<1>4. job.todo = {}
  BY <1>1 DEF UpstreamInv, TodoOpen
<1>5. job'.rev = job.rev /\ job'.repo = job.repo
  <2> DEFINE R == 0..Len(log)
             T == 1..Len(syncs)
  <2>1. job \in JobSet(R, T)
    BY JobTypes DEF UpstreamInv
  <2> HIDE DEF R, T
  <2>2. QED
    BY <1>2, <1>3, <2>1 DEF JobSet
<1>6. JobStays
  BY <1>1, <1>5, NotedSeen DEF JobStays
<1>7. syncs[i] \in Sync /\ Fits(syncs[i])
  BY SyncNumbers
<1>8. QED
  BY <1>2, <1>4, <1>6, <1>7, TryLandFlows

\* No sync changes, nor what was seen.
LEMMA AllQuiet ==
  ASSUME UpstreamInv, FlowInv, UNCHANGED <<syncs, master, log, point>>, job'.rev = job.rev,
         job'.repo = job.repo, job.todo \subseteq job'.todo, central' \in Nat, central' >= central,
         noted' \subseteq 1..Seen
  PROVE  Flows
<1>1. Seen' = Seen /\ Processed' = Processed /\ PointsFlow'
  BY SeenSame, PointsSame DEF FlowInv
<1>2. SyncsFlow(log, master, Seen, syncs, job'.todo)
  BY DEF FlowInv, SyncsFlow
<1>3. master' \subseteq 1..central'
  <2>1. master \subseteq 1..central /\ central \in Nat
    BY CentralSeen DEF FlowInv, UpstreamInv
  <2>2. QED
    BY <2>1
<1>4. FlowInv'
  BY <1>1, <1>2, <1>3 DEF FlowInv
<1>5. \A i \in 1..Len(syncs) : ~LandedHere(i)
  BY DEF LandedHere
<1>6. QED
  BY <1>4, <1>5, LogSame DEF Flows, Quiet

LEMMA IdleJob ==
  ASSUME UpstreamInv, job = Idle
  PROVE  job.todo = {} /\ job.rev = 0 /\ Seen = Processed
BY SeenFacts, JobTypes

LEMMA UpdateSyncFlows ==
  ASSUME UpstreamInv, FlowInv, NEW i \in 1..Len(syncs), UpdateSync(i)
  PROVE  Flows
<1>1. /\ job = Idle /\ noted' = noted \cup GeckoCommits(syncs[i])
      /\ job' = [Idle EXCEPT !.kind = "update", !.todo = {i}, !.land = {i}]
      /\ UNCHANGED <<log, central, point, syncs, master, filed>>
      /\ syncs[i].status \in Unfinished
  BY DEF UpdateSync, OpenSyncs, Unfinished
<1>2. job'.rev = job.rev /\ job'.repo = job.repo /\ job.todo \subseteq job'.todo
  BY <1>1 DEF Idle
<1>3. GeckoCommits(syncs[i]) \subseteq 1..Seen
  <2>1. /\ syncs[i].base \in Nat /\ syncs[i].head \in Nat /\ syncs[i].head <= Len(log)
        /\ Seen \in 0..Len(log) /\ Len(log) \in Nat
    BY SyncNumbers, SeenFacts
  <2>2. syncs[i].head <= Seen
    BY <1>1 DEF FlowInv, SyncsFlow, Headed
  <2>3. CommitRange(syncs[i]) \subseteq 1..Seen
    BY <2>1, <2>2 DEF CommitRange
  <2>4. QED
    BY <2>3, NoPairsSubset DEF GeckoCommits
<1>4. central \in Nat /\ central' >= central
  BY <1>1, CentralSeen DEF UpstreamInv
<1>5. QED
  BY <1>1, <1>2, <1>3, <1>4, NotedSeen, AllQuiet

LEMMA DoneFlows ==
  ASSUME UpstreamInv, Calm, FlowInv, Done
  PROVE  Flows
<1>1. /\ job.kind = "land" /\ job' = Idle
      /\ UNCHANGED <<log, central, known, noted, syncs, master, filed>>
      /\ point' = IF job.rev > point[job.repo] THEN [point EXCEPT ![job.repo] = job.rev] ELSE point
  BY DEF Done
<1>2. job'.rev = 0 /\ job'.todo = {} /\ job.todo = {} /\ Seen' = Processed'
  <2>1. Seen' = IF job'.rev > Processed' THEN job'.rev ELSE Processed'
    BY DEF Seen
  <2>2. job'.rev = 0 /\ job'.todo = {} /\ job.todo = {}
    BY <1>1, JobTypes DEF UpstreamInv, TodoOpen
  <2>3. Processed' \in Nat
    <3>1. UpstreamInv'
      BY <1>1, DoneKeeps DEF UpstreamInv, Kept
    <3>2. \A r \in Repo : point'[r] \in Nat
      BY <3>1, LenProperties DEF UpstreamInv, TypeOK
    <3>3. QED
      BY <3>2 DEF Processed, Repo
  <2>4. QED
    BY <2>1, <2>2, <2>3
<1>3. Seen' = Seen /\ PointsFlow' /\ Single(log, Processed', Len(log))
  <2>1. CASE job.rev = 0
    <3>1. point[job.repo] \in Nat
      BY SeenFacts
    <3>2. point' = point
      BY <1>1, <2>1, <3>1
    <3>3. Seen' = Seen /\ Processed' = Processed /\ PointsFlow'
      <4>1. job'.rev = job.rev
        BY <1>2, <2>1
      <4>2. Seen' = Seen /\ Processed' = Processed
        BY <3>2, <4>1, SeenSame
      <4>3. QED
        BY <1>1, <1>2, <3>2, <4>2 DEF PointsFlow, FlowInv
    <3>4. QED
      BY <3>3 DEF FlowInv
  <2>2. CASE job.rev # 0
    <3>1. /\ job.rev > Processed /\ job.repo \in Repos /\ job.rev \in Nat /\ Processed \in Nat
          /\ Seen = job.rev /\ job.repo \in Repo /\ point[job.repo] = Processed
      <4>1. job.rev > Processed /\ job.repo \in Repos
        BY <2>2 DEF FlowInv, PointsFlow
      <4>2. QED
        BY <4>1, SeenFacts, OneBranch DEF FlowInv
    <3>2. point' = [point EXCEPT ![job.repo] = job.rev]
      BY <1>1, <3>1
    <3>3. /\ point \in [Repo -> 0..Len(log)] /\ Len(log) \in Nat
          /\ \A r \in Repo : point[r] <= Processed
      BY SeenFacts
    <3>4. Processed' = job.rev
      <4>1. \A r \in Repo : point'[r] = IF r = job.repo THEN job.rev ELSE point[r]
        BY <3>1, <3>2, <3>3
      <4>2. point["autoland"] \in Nat /\ point["central"] \in Nat
            /\ point["autoland"] <= Processed /\ point["central"] <= Processed
        BY <3>3 DEF Repo
      <4>3. point'["autoland"] = IF "autoland" = job.repo THEN job.rev ELSE point["autoland"]
        BY <4>1 DEF Repo
      <4>4. point'["central"] = IF "central" = job.repo THEN job.rev ELSE point["central"]
        BY <4>1 DEF Repo
      <4>5. job.repo = "autoland" \/ job.repo = "central"
        BY <3>1 DEF Repo
      <4>6. Processed' = IF point'["autoland"] < point'["central"] THEN point'["central"]
                         ELSE point'["autoland"]
        BY DEF Processed
      <4>7. QED
        BY <3>1, <4>2, <4>3, <4>4, <4>5, <4>6
    <3>5. Seen' = Seen
      BY <1>2, <3>1, <3>4
    <3>6. PointsFlow'
      <4>1. \A r \in Repo \ Repos : point'[r] = 0
        BY <3>1, <3>2, <3>3 DEF PointsFlow, FlowInv
      <4>2. noted' \subseteq 1..Seen'
        BY <1>1, <3>5, NotedSeen
      <4>3. QED
        BY <1>2, <4>1, <4>2 DEF PointsFlow
    <3>7. Single(log, Processed', Len(log))
      <4>1. (job.rev + 1)..Len(log) \subseteq (Processed + 1)..Len(log)
        BY <3>1, <3>3
      <4>2. QED
        BY <3>4, <4>1 DEF Single, FlowInv
    <3>8. QED
      BY <3>5, <3>6, <3>7
  <2>3. QED
    BY <2>1, <2>2
<1>4. FlowInv'
  BY <1>1, <1>2, <1>3 DEF FlowInv, SyncsFlow
<1>5. /\ \A i \in 1..Len(syncs) : ~LandedHere(i)
      /\ central' >= central
  <2>1. central \in Nat
    BY CentralSeen DEF UpstreamInv
  <2>2. QED
    BY <1>1, <2>1 DEF LandedHere
<1>6. QED
  BY <1>1, <1>4, <1>5, LogSame DEF Flows, Quiet

\* A sync whose PR is merged is finished.
LEMMA MergedFinished ==
  ASSUME UpstreamInv, FlowInv, NEW i \in 1..Len(syncs), syncs[i].pr = "merged"
  PROVE  syncs[i].status \notin Unfinished
BY DEF FlowInv, SyncsFlow, Headed

LEMMA RefreshPrFlows ==
  ASSUME UpstreamInv, Calm, FlowInv, NEW i \in 1..Len(syncs), RefreshPr(i)
  PROVE  Flows
<1>1. job = Idle /\ known' = central /\ UNCHANGED <<log, central, point, noted, filed, job>>
  BY DEF RefreshPr
<1>2. JobStays /\ job.todo = {}
  BY <1>1, NotedSeen, IdleJob DEF JobStays
<1>3. syncs[i] \in Sync /\ Fits(syncs[i])
  BY SyncNumbers
<1>4. ASSUME NEW status \in Finished, syncs[i].pr = "merged", Set(i, Finish(syncs[i], status))
      PROVE  Flows
  <2>1. PICK t : t = Finish(syncs[i], status)
    OBVIOUS
  <2>2. Fits(t) /\ t.bug = syncs[i].bug /\ t.status = status /\ t.pr = "merged"
    BY <1>3, <1>4, <2>1, FinishFacts DEF Finished, Statuses
  <2>3. t \in Sync /\ t.status \notin Unfinished /\ syncs[i].status \notin Unfinished
    BY <1>4, <2>2, MergedFinished DEF Fits, Finished, Unfinished
  <2>4. syncs' = [syncs EXCEPT ![i] = t] /\ master' = master
    BY <1>4, <2>1 DEF Set
  <2>5. QED
    BY <1>1, <1>2, <2>2, <2>3, <2>4, SyncQuiet
<1>5. ASSUME NEW o \in TryLandPr(syncs[i]), Set(i, o.s)
      PROVE  Flows
  BY <1>2, <1>3, <1>5, TryLandFlows
<1>6. QED
  BY <1>4, <1>5 DEF RefreshPr, Finished

LEMMA CheckRunFlows ==
  ASSUME UpstreamInv, Calm, FlowInv, NEW i \in 1..Len(syncs), CheckRun(i)
  PROVE  Flows
<1> DEFINE passed == [syncs[i] EXCEPT !.error = FALSE]
           failed == [syncs[i] EXCEPT !.error = TRUE]
<1>1. /\ job = Idle /\ syncs[i].status = "open"
      /\ UNCHANGED <<log, central, known, point, noted, filed, job>>
      /\ \/ \E o \in {Ok(passed)} \cup TryLandPr(passed) : Set(i, o.s)
         \/ Set(i, failed)
  BY DEF CheckRun
<1>2. JobStays /\ job.todo = {}
  BY <1>1, NotedSeen, IdleJob DEF JobStays
<1>3. Fits(syncs[i]) /\ syncs[i] \in Sync
  BY SyncNumbers
<1>4. ASSUME NEW e \in BOOLEAN, NEW t, t = [syncs[i] EXCEPT !.error = e]
      PROVE  /\ t \in Sync /\ Fits(t) /\ t.bug = syncs[i].bug /\ t.base = syncs[i].base
             /\ t.head = syncs[i].head /\ t.wpt = syncs[i].wpt /\ t.on = syncs[i].on
             /\ t.status = syncs[i].status /\ t.pr = syncs[i].pr /\ t.sent = syncs[i].sent
  <2>1. /\ t \in Sync /\ t.bug = syncs[i].bug /\ t.base = syncs[i].base
        /\ t.head = syncs[i].head /\ t.wpt = syncs[i].wpt /\ t.on = syncs[i].on
        /\ t.status = syncs[i].status /\ t.pr = syncs[i].pr /\ t.sent = syncs[i].sent
    BY <1>3, <1>4 DEF Sync
  <2>2. Fits(t)
    BY <1>3, <2>1, FitsExcept
  <2>3. QED
    BY <2>1, <2>2
<1>5. PICK p : p = passed
  OBVIOUS
<1>6. PICK f : f = failed
  OBVIOUS
<1>7. \/ \E o \in {Ok(p)} \cup TryLandPr(p) : Set(i, o.s)
      \/ Set(i, f)
  BY <1>1, <1>5, <1>6
<1>8. \A t \in {p, f} :
        /\ t \in Sync /\ Fits(t) /\ t.bug = syncs[i].bug /\ t.base = syncs[i].base
        /\ t.head = syncs[i].head /\ t.wpt = syncs[i].wpt /\ t.on = syncs[i].on
        /\ t.status = syncs[i].status /\ t.pr = syncs[i].pr /\ t.sent = syncs[i].sent
  BY <1>4, <1>5, <1>6
<1> HIDE DEF passed, failed
<1>9. ASSUME NEW o \in {Ok(p)} \cup TryLandPr(p), Set(i, o.s)
      PROVE  Flows
  BY <1>2, <1>8, <1>9, TryLandFlows
<1>10. ASSUME Set(i, f) PROVE Flows
  <2>1. Ok(f) \in {Ok(f)} \cup TryLandPr(f) /\ Ok(f).s = f
    BY OutcomeFields
  <2>2. PICK o \in {Ok(f)} \cup TryLandPr(f) : Set(i, o.s)
    BY <1>10, <2>1
  <2>3. QED
    BY <1>2, <1>8, <2>2, TryLandFlows
<1>11. QED
  BY <1>7, <1>9, <1>10

\* A PR that is closed or reopened has a branch, so that all commits of its sync apply.
LEMMA OtherEditsFlow ==
  ASSUME UpstreamInv, Calm, FlowInv, NEW i \in 1..Len(syncs), OtherEdits(i)
  PROVE  Flows
<1>1. /\ UNCHANGED <<log, central, known, point, noted, filed, job>>
      /\ \E pr \in {"open", "closed"} :
           /\ syncs[i].pr \in {"open", "closed"}
           /\ Set(i, [syncs[i] EXCEPT !.pr = pr])
  BY DEF OtherEdits, Calm
<1>2. PICK pr \in {"open", "closed"} :
        syncs[i].pr \in {"open", "closed"} /\ Set(i, [syncs[i] EXCEPT !.pr = pr])
  BY <1>1
<1>3. PICK t : t = [syncs[i] EXCEPT !.pr = pr]
  OBVIOUS
<1>4. /\ t \in Sync /\ t.bug = syncs[i].bug /\ t.base = syncs[i].base
      /\ t.head = syncs[i].head /\ t.wpt = syncs[i].wpt /\ t.on = syncs[i].on
      /\ t.status = syncs[i].status /\ t.pr = pr /\ t.sent = syncs[i].sent
  BY <1>3, SyncNumbers DEF Sync
<1>5. ASSUME syncs[i].status \in Unfinished
      PROVE  /\ Rooted(log, master, t) /\ Headed(log, Seen, t)
             /\ i \notin job.todo => Settled(log, t)
  <2>1. /\ Rooted(log, master, syncs[i]) /\ Headed(log, Seen, syncs[i])
        /\ i \notin job.todo => Settled(log, syncs[i])
    BY <1>5 DEF FlowInv, SyncsFlow
  <2>2. /\ Rooted(log, master, t) /\ Headed(log, Seen, t) /\ Gecko(log, t) = Gecko(log, syncs[i])
    <3>1. t.pr # "merged" /\ syncs[i].pr # "none"
      BY <1>2, <1>4
    <3>2. QED
      BY <1>4, <2>1, <3>1, PrMoved
  <2>3. Settled(log, syncs[i]) => Settled(log, t)
    BY <1>2, <1>4, <2>2 DEF Settled
  <2>4. QED
    BY <2>1, <2>2, <2>3
<1>6. syncs' = [syncs EXCEPT ![i] = t] /\ master' = master
  BY <1>2, <1>3, <1>4 DEF Set
<1>7. JobStays
  BY <1>1, NotedSeen DEF JobStays
<1>8. t.status \in Unfinished <=> syncs[i].status \in Unfinished
  BY <1>4
<1>9. t.status \in Unfinished =>
        /\ Rooted(log, master, t) /\ Headed(log, Seen, t)
        /\ i \notin job'.todo => Settled(log, t)
  BY <1>1, <1>4, <1>5
<1>10. job.todo \ {i} \subseteq job'.todo
  BY <1>1
<1>11. QED
  BY <1>4, <1>6, <1>7, <1>8, <1>9, <1>10, SyncQuiet

LEMMA MergeFlows ==
  ASSUME UpstreamInv, FlowInv, MergeToCentral
  PROVE  Flows
<1>1. /\ central' \in (central + 1)..Len(log)
      /\ UNCHANGED <<log, known, point, noted, syncs, master, filed, job>>
  BY DEF MergeToCentral
<1>2. central' \in Nat /\ central' >= central
  BY <1>1, CentralSeen, SeenFacts DEF UpstreamInv
<1>3. QED
  BY <1>1, <1>2, NotedSeen, AllQuiet

(***************************************************************************)
(* Gecko.                                                                  *)
(***************************************************************************)
LEMMA GrowsFlow ==
  ASSUME UpstreamInv, FlowInv, NEW commit, Push(commit),
         commit.outs # {} => \A c \in (Processed + 1)..Len(log) :
                               log[c].bug = commit.bug => log[c].outs = {},
         \/ commit.outs = {} \/ commit.outs = LiveIn(log, commit.bug, Len(log))
         \/ commit.outs = Ends(LiveIn(log, commit.bug, Len(log))),
         commit \in [bug : Bugs, outs : SUBSET Commit]
  PROVE  Flows
<1> DEFINE n == Len(log)
<1>1. /\ log' = Append(log, commit)
      /\ UNCHANGED <<central, known, point, noted, syncs, master, filed, job>>
  BY DEF Push
<1>2. n \in Nat /\ log \in Seq([bug : Bugs, outs : SUBSET Commit])
  BY SeenFacts DEF UpstreamInv, TypeOK
<1>3. /\ Len(log') = n + 1 /\ log'[n + 1] = commit
      /\ \A c \in 1..n : log'[c] = log[c]
  BY <1>1, <1>2, AppendProperties
<1>4. Seen' = Seen /\ Processed' = Processed
  BY <1>1, SeenSame
<1>5. /\ Seen \in 0..n /\ Processed \in 0..n
      /\ master \subseteq 1..n /\ Sane(log, n) /\ Single(log, Processed, n)
  BY SeenFacts DEF FlowInv, UpstreamInv, TypeOK
<1>6. PICK L : L = log'
  OBVIOUS
<1>7. Extends(log, L, n) /\ L[n + 1] = commit
  BY <1>3, <1>6 DEF Extends
<1>8. Sane(L, n + 1)
  BY <1>2, <1>5, <1>7, SaneGrows
<1>9. Single(L, Processed, n + 1)
  <2> SUFFICES ASSUME NEW c \in (Processed + 1)..(n + 1), NEW k \in (Processed + 1)..(n + 1),
                      L[c].outs # {}, L[k].outs # {}, L[c].bug = L[k].bug
               PROVE  c = k
    BY DEF Single
  <2>1. \A x \in (Processed + 1)..(n + 1) : x \in (Processed + 1)..n \/ x = n + 1
    BY <1>2, <1>5
  <2>2. \A x \in (Processed + 1)..n : L[x] = log[x]
    BY <1>5, <1>7 DEF Extends
  <2>3. ASSUME NEW x \in (Processed + 1)..n, commit.outs # {}, L[x].bug = commit.bug
        PROVE  L[x].outs = {}
    BY <2>2, <2>3
  <2>4. CASE c \in (Processed + 1)..n /\ k \in (Processed + 1)..n
    BY <1>5, <2>2, <2>4 DEF Single
  <2>5. QED
    BY <1>7, <2>1, <2>3, <2>4
<1>10. SyncsFlow(L, master, Seen, syncs, job.todo)
  <2> SUFFICES ASSUME NEW i \in 1..Len(syncs), syncs[i].status \in Unfinished
               PROVE  /\ Rooted(L, master, syncs[i]) /\ Headed(L, Seen, syncs[i])
                      /\ i \notin job.todo => Settled(L, syncs[i])
    BY DEF SyncsFlow
  <2>1. PICK s : s = syncs[i]
    OBVIOUS
  <2>2. /\ Rooted(log, master, s) /\ Headed(log, Seen, s)
        /\ i \notin job.todo => Settled(log, s)
    BY <2>1 DEF FlowInv, SyncsFlow
  <2>3. s.base \in Nat /\ s.head \in Nat
    BY <2>1, SyncNumbers
  <2>4. /\ Headed(L, Seen, s) /\ Rooted(L, master, s)
        /\ Settled(log, s) => Settled(L, s)
    BY <1>2, <1>5, <1>7, <2>2, <2>3, SyncStays
  <2>5. QED
    BY <2>1, <2>2, <2>4
<1>11. MasterFlows(L, master, Seen, syncs)
  <2>1. \A b : Mine(L, master, b) = Mine(log, master, b)
    BY <1>5, <1>7 DEF Mine, Extends
  <2>2. \A b : LiveIn(L, b, Seen) = LiveIn(log, b, Seen)
    BY <1>2, <1>5, <1>7, LogStays
  <2>3. QED
    BY <2>1, <2>2 DEF FlowInv, MasterFlows
<1>12. PointsFlow'
  BY <1>1, <1>4, NotedSeen, PointsSame DEF FlowInv
<1>13. FlowInv'
  BY <1>1, <1>3, <1>4, <1>6, <1>8, <1>9, <1>10, <1>11, <1>12 DEF FlowInv
<1>14. /\ \A i \in 1..Len(syncs) : ~LandedHere(i)
       /\ central' >= central
  BY <1>1, CentralSeen DEF LandedHere, UpstreamInv
<1>15. QED
  BY <1>1, <1>6, <1>7, <1>13, <1>14 DEF Flows, Quiet

LEMMA CommitChangeFlows ==
  ASSUME UpstreamInv, FlowInv, NEW b \in Bugs, CommitChange(b)
  PROVE  Flows
<1>1. PICK commit : commit = [bug |-> b, outs |-> {}]
  OBVIOUS
<1>2. commit.outs = {} /\ commit.bug = b /\ commit \in [bug : Bugs, outs : SUBSET Commit]
  BY <1>1
<1>3. Push(commit)
  BY <1>1 DEF CommitChange
<1>4. QED
  BY <1>2, <1>3, GrowsFlow

LEMMA BackOutFlows ==
  ASSUME UpstreamInv, Calm, FlowInv, NEW b \in Bugs, BackOut(b)
  PROVE  Flows
<1> DEFINE live == LiveIn(log, b, Len(log))
<1>1. Of(b, Tree(Len(log))) = live
  BY TreeIs
<1>2. \A c \in Of(b, (Processed + 1)..Len(log)) : ~IsBackout(c)
  BY DEF BackOut, Calm
<1>3. PICK outs \in {live, Ends(live)} : Push([bug |-> b, outs |-> outs])
  BY <1>1 DEF BackOut, Calm
<1>4. PICK commit : commit = [bug |-> b, outs |-> outs]
  OBVIOUS
<1>5. commit.outs = outs /\ commit.bug = b
  BY <1>4
<1>6. outs \subseteq Commit
  <2>1. live \subseteq 1..Len(log) /\ Ends(live) \subseteq live
    BY DEF LiveIn, Ends
  <2>2. 1..Len(log) \subseteq Commit
    BY Facts, BoundAssumption DEF Commit
  <2>3. QED
    BY <1>3, <2>1, <2>2
<1>7. commit \in [bug : Bugs, outs : SUBSET Commit]
  BY <1>4, <1>6
<1>8. \A c \in (Processed + 1)..Len(log) : log[c].bug = commit.bug => log[c].outs = {}
  BY <1>2, <1>5 DEF Of, IsBackout
<1>9. Push(commit)
  BY <1>3, <1>4
<1>10. \/ commit.outs = LiveIn(log, commit.bug, Len(log))
       \/ commit.outs = Ends(LiveIn(log, commit.bug, Len(log)))
  BY <1>3, <1>5
<1>11. QED
  BY <1>7, <1>8, <1>9, <1>10, GrowsFlow

-----------------------------------------------------------------------------
(***************************************************************************)
(* A push.                                                                 *)
(***************************************************************************)

LEMMA EachOnce ==
  ASSUME NEW S, IsFiniteSet(S), NEW x \in S
  PROVE  \E j \in 1..Cardinality(S) : SetToSeq(S)[j] = x
<1> DEFINE n == Cardinality(S)
           f == SetToSeq(S)
<1>1. /\ f \in [1..n -> S] /\ n \in Nat
      /\ \A i, j \in 1..n : f[i] = f[j] => i = j
  BY SetToSeqFacts
<1> HIDE DEF f
<1>2. f \in Injection(1..n, S)
  BY <1>1 DEF Injection, IsInjective
<1>3. IsFiniteSet(1..n) /\ Cardinality(1..n) = n
  BY <1>1, FS_Interval
<1>4. f \in Surjection(1..n, S)
  BY <1>2, <1>3, FS_Injection
<1>5. QED
  BY <1>4 DEF Surjection, f

\* What gecko_push makes of the syncs: those there are, and one for each bug that needs one.
LEMMA TakeParts ==
  ASSUME UpstreamInv, job = Idle, NEW r \in Repo, NEW rev \in 1..Len(log),
         NEW new, new \subseteq 1..Len(log), NEW taken \in Takings(new), Take(r, rev, new, taken)
  PROVE  LET n == Len(syncs)
             touched == Updated(new) \cup (n + 1)..Len(syncs')
         IN  /\ n \in Nat /\ Len(syncs') \in Nat /\ n <= Len(syncs')
             /\ \A i \in 1..n :
                  syncs'[i] = IF i \in Updated(new) /\ News(i, new) # {}
                              THEN [syncs[i] EXCEPT !.head = Highest(News(i, new))] ELSE syncs[i]
             /\ \A i \in (n + 1)..Len(syncs') :
                  \E b \in Created(new, taken) : syncs'[i] = NewSync(b, new, taken)
             /\ \A b \in Created(new, taken) :
                  \E i \in (n + 1)..Len(syncs') : syncs'[i] = NewSync(b, new, taken)
             /\ job'.todo = touched /\ job'.rev = rev /\ job'.repo = r
             /\ noted' = noted \cup UNION {GeckoCommits(syncs'[i]) : i \in touched}
<1> DEFINE created == SetToSeq(Created(new, taken))
           m       == Cardinality(Created(new, taken))
           n       == Len(syncs)
           moved   == [i \in 1..n |->
                         IF i \in Updated(new) /\ News(i, new) # {}
                         THEN [syncs[i] EXCEPT !.head = Highest(News(i, new))] ELSE syncs[i]]
           fresh   == [j \in 1..m |-> NewSync(created[j], new, taken)]
           S       == moved \o fresh
           touched == Updated(new) \cup (n + 1)..Len(S)
           started == [job EXCEPT !.repo = r, !.rev = rev]
<1>1. n \in Nat /\ DOMAIN syncs = 1..n
  BY Facts
<1>2. IsFiniteSet(Created(new, taken))
  <2>1. Created(new, taken) \subseteq Bugs
    BY DEF Created
  <2>2. QED
    BY <2>1, BugAssumption, FS_Subset
<1>3. /\ created \in [1..m -> Created(new, taken)] /\ m \in Nat /\ DOMAIN created = 1..m
      /\ \A b \in Created(new, taken) : \E j \in 1..m : created[j] = b
  BY <1>2, SetToSeqFacts, EachOnce
<1>4. /\ syncs' = S
      /\ noted' = noted \cup UNION {GeckoCommits(S[i]) : i \in touched}
      /\ job' = IF touched # {} THEN [started EXCEPT !.kind = "push", !.todo = touched]
                ELSE [started EXCEPT !.kind = "land", !.land = Landable(S)]
  BY <1>1, <1>3 DEF Take
<1>5. PICK X : \A i \in 1..n : moved[i] \in X
  <2>1. \A i \in 1..n : moved[i] \in {moved[k] : k \in 1..n}
    OBVIOUS
  <2>2. QED
    BY <2>1
<1>6. PICK Y : \A j \in 1..m : fresh[j] \in Y
  <2>1. \A j \in 1..m : fresh[j] \in {fresh[k] : k \in 1..m}
    OBVIOUS
  <2>2. QED
    BY <2>1
<1>7. PICK Z : moved \in [1..n -> Z] /\ fresh \in [1..m -> Z]
  <2>1. moved \in [1..n -> X \cup Y] /\ fresh \in [1..m -> X \cup Y]
    BY <1>5, <1>6
  <2>2. QED
    BY <2>1
<1>8. \A i \in 1..n : moved[i] = IF i \in Updated(new) /\ News(i, new) # {}
                                 THEN [syncs[i] EXCEPT !.head = Highest(News(i, new))]
                                 ELSE syncs[i]
  OBVIOUS
<1>9. \A j \in 1..m : fresh[j] = NewSync(created[j], new, taken)
  OBVIOUS
<1> HIDE DEF moved, fresh, created, m
<1>10. moved \in Seq(Z) /\ Len(moved) = n /\ fresh \in Seq(Z) /\ Len(fresh) = m
  BY <1>1, <1>3, <1>7, SeqOfFunction
<1>11. /\ Len(S) = n + m
       /\ \A i \in 1..n : S[i] = moved[i]
       /\ \A j \in 1..m : S[n + j] = fresh[j]
  <2>1. /\ Len(S) = Len(moved) + Len(fresh)
        /\ \A i \in 1..(Len(moved) + Len(fresh)) :
             S[i] = IF i <= Len(moved) THEN moved[i] ELSE fresh[i - Len(moved)]
    BY <1>10, ConcatProperties
  <2> HIDE DEF S
  <2>2. \A j \in 1..m : n + j \in 1..(n + m) /\ ~(n + j <= n) /\ (n + j) - n = j
    BY <1>1, <1>3
  <2>3. \A i \in 1..n : i \in 1..(n + m) /\ i <= n
    BY <1>1, <1>3
  <2>4. QED
    BY <1>10, <2>1, <2>2, <2>3
<1> HIDE DEF S
<1>12. Len(syncs') = n + m /\ Len(syncs') \in Nat /\ n <= Len(syncs')
  BY <1>1, <1>3, <1>4, <1>11
<1>13. ASSUME NEW i \in (n + 1)..Len(syncs')
       PROVE  \E b \in Created(new, taken) : syncs'[i] = NewSync(b, new, taken)
  <2>1. i - n \in 1..m /\ i = n + (i - n)
    BY <1>1, <1>3, <1>12
  <2>2. syncs'[i] = fresh[i - n]
    BY <1>4, <1>11, <2>1
  <2>3. created[i - n] \in Created(new, taken)
    BY <1>3, <2>1
  <2>4. QED
    BY <1>9, <2>1, <2>2, <2>3
<1>14. ASSUME NEW b \in Created(new, taken)
       PROVE  \E i \in (n + 1)..Len(syncs') : syncs'[i] = NewSync(b, new, taken)
  <2>1. PICK j \in 1..m : created[j] = b
    BY <1>3
  <2>2. n + j \in (n + 1)..Len(syncs') /\ syncs'[n + j] = NewSync(b, new, taken)
    BY <1>1, <1>3, <1>4, <1>9, <1>11, <1>12, <2>1
  <2>3. QED
    BY <2>2
<1> HIDE DEF touched
<1>15. job'.todo = touched /\ job'.rev = rev /\ job'.repo = r
  <2>1. started.todo = {} /\ started.rev = rev /\ started.repo = r
        /\ DOMAIN started = {"kind", "repo", "rev", "todo", "land"}
    BY DEF Idle
  <2> HIDE DEF started
  <2>2. QED
    BY <1>4, <2>1
<1>16. touched = Updated(new) \cup (n + 1)..Len(syncs')
  BY <1>4 DEF touched
<1>17. noted' = noted \cup UNION {GeckoCommits(syncs'[i]) : i \in touched}
  BY <1>4
<1>18. \A i \in 1..n : syncs'[i] = IF i \in Updated(new) /\ News(i, new) # {}
                                   THEN [syncs[i] EXCEPT !.head = Highest(News(i, new))]
                                   ELSE syncs[i]
  BY <1>4, <1>8, <1>11
<1>19. QED
  BY <1>1, <1>12, <1>13, <1>14, <1>15, <1>16, <1>17, <1>18

LEMMA PushIs ==
  ASSUME UpstreamInv, Calm, FlowInv, job = Idle, NEW r \in Repos,
         NEW rev \in (point[r] + 1)..Tip(r)
  PROVE  /\ Seen = Processed /\ Processed \in 0..Len(log) /\ rev \in Processed..Len(log)
         /\ Processed < rev /\ New(point[r], rev) = Unpaired(log, (Processed + 1)..rev)
<1>1. Seen = Processed /\ Processed \in 0..Len(log) /\ point[r] = Processed /\ Len(log) \in Nat
  BY IdleJob, SeenFacts, OneBranch DEF FlowInv
<1>2. Tip(r) \in Nat /\ Tip(r) <= Len(log)
  BY <1>1, CentralSeen DEF Tip, UpstreamInv
<1>3. rev \in Processed..Len(log) /\ Processed < rev
  BY <1>1, <1>2
<1>4. NoPairs((Processed + 1)..rev) \cap noted = {}
  <2>1. noted \subseteq 1..Processed
    BY <1>1, NotedSeen
  <2>2. NoPairs((Processed + 1)..rev) \subseteq (Processed + 1)..rev
    BY NoPairsSubset
  <2>3. QED
    BY <1>1, <2>1, <2>2
<1>5. New(point[r], rev) = Unpaired(log, (Processed + 1)..rev)
  BY <1>1, <1>4, NoPairsIs DEF New
<1>6. QED
  BY <1>1, <1>3, <1>5

\* The new commits of a sync are those of its bug.
LEMMA NewsAre ==
  ASSUME UpstreamInv, FlowInv, job = Idle, NEW rev \in Processed..Len(log), NEW new,
         new = Unpaired(log, (Processed + 1)..rev), NEW i \in 1..Len(syncs),
         syncs[i].status \in Unfinished
  PROVE  /\ News(i, new) = Of(syncs[i].bug, new)
         /\ i \in Updated(new) <=> News(i, new) # {}
<1> DEFINE s == syncs[i]
<1>1. /\ Len(log) \in Nat /\ Processed \in 0..Len(log) /\ Seen = Processed /\ Sane(log, Len(log))
      /\ s.base \in Nat /\ s.head \in Nat /\ s.head <= Len(log)
  BY SeenFacts, IdleJob, SyncNumbers DEF FlowInv
<1>2. s.head <= Processed
  BY <1>1 DEF FlowInv, SyncsFlow, Headed
<1>3. new \subseteq (Processed + 1)..rev
  BY DEF Unpaired
<1>4. new \cap GeckoCommits(s) = {}
  <2>1. CommitRange(s) \subseteq 1..Processed
    BY <1>1, <1>2 DEF CommitRange
  <2>2. GeckoCommits(s) \subseteq 1..Processed
    BY <2>1, NoPairsSubset DEF GeckoCommits
  <2>3. QED
    BY <1>1, <1>3, <2>2
<1>5. ASSUME NEW c \in new, log[c].outs \cap Of(s.bug, s.wpt) # {} PROVE log[c].bug = s.bug
  <2>1. c \in 1..Len(log)
    BY <1>1, <1>3
  <2>2. PICK e \in log[c].outs : log[e].bug = s.bug
    BY <1>5 DEF Of
  <2>3. QED
    BY <1>1, <2>1, <2>2, BackoutFacts
<1>6. News(i, new) = Of(s.bug, new)
  BY <1>4, <1>5 DEF News, Of
<1>7. ~Revisit(i, new)
  BY <1>4 DEF Revisit, Of
<1>8. i \in DOMAIN syncs /\ i \in OpenSyncs(syncs[i].bug)
  BY Facts DEF OpenSyncs, Unfinished
<1>9. QED
  BY <1>6, <1>7, <1>8 DEF Updated

\* A bug without an open sync takes its backouts.
LEMMA GivenAre ==
  ASSUME UpstreamInv, FlowInv, NEW rev \in Processed..Len(log), NEW new,
         new = Unpaired(log, (Processed + 1)..rev), NEW taken \in Takings(new),
         NEW b \in Bugs, OpenSyncs(b) = {}
  PROVE  /\ Given(b, new, taken) = Of(b, new)
         /\ {k \in DOMAIN taken : taken[k] = b} = {k \in Of(b, new) : log[k].outs # {}}
<1> DEFINE takers == {k \in Homeless(new) : FreeBugs(k) # {}}
<1>1. DOMAIN taken = takers /\ \A k \in takers : taken[k] \in FreeBugs(k)
  BY DEF Takings
<1> HIDE DEF takers
<1>2. Len(log) \in Nat /\ Processed \in 0..Len(log) /\ Sane(log, Len(log))
  BY SeenFacts DEF FlowInv
<1>3. new \subseteq 1..Len(log)
  BY <1>2 DEF Unpaired
<1>4. ASSUME NEW k \in new, NEW e \in log[k].outs PROVE log[e].bug = log[k].bug
  <2>1. k \in 1..Len(log)
    BY <1>3
  <2>2. QED
    BY <1>2, <2>1, BackoutFacts
<1>5. ASSUME NEW k \in DOMAIN taken, taken[k] = b PROVE k \in Of(b, new) /\ log[k].outs # {}
  <2>1. k \in new /\ b \in FreeBugs(k)
    BY <1>1, <1>5 DEF takers, Homeless
  <2>2. PICK e \in log[k].outs : log[e].bug = b
    BY <2>1 DEF FreeBugs
  <2>3. log[k].bug = b
    BY <1>4, <2>1, <2>2
  <2>4. QED
    BY <2>1, <2>2, <2>3 DEF Of
<1>6. ASSUME NEW k \in Of(b, new), log[k].outs # {} PROVE k \in DOMAIN taken /\ taken[k] = b
  <2>1. k \in new /\ log[k].bug = b
    BY DEF Of
  <2>2. PICK e \in log[k].outs : TRUE
    BY <1>6
  <2>3. \A x \in log[k].outs : log[x].bug = b
    BY <1>4, <2>1
  <2>4. k \in Homeless(new)
    BY <2>1, <2>2, <2>3 DEF Homeless
  <2>5. FreeBugs(k) = {b}
    BY <2>2, <2>3 DEF FreeBugs
  <2>6. QED
    BY <1>1, <2>4, <2>5 DEF takers
<1>7. QED
  BY <1>5, <1>6 DEF Given

\* The syncs that are there.
LEMMA OldFlows ==
  ASSUME UpstreamInv, FlowInv, job = Idle, NEW rev \in Processed..Len(log), NEW new,
         new = Unpaired(log, (Processed + 1)..rev), NEW i \in 1..Len(syncs),
         syncs[i].status \in Unfinished, NEW t,
         t = IF i \in Updated(new) /\ News(i, new) # {}
             THEN [syncs[i] EXCEPT !.head = Highest(News(i, new))] ELSE syncs[i]
  PROVE  /\ Rooted(log, master, t) /\ Headed(log, rev, t)
         /\ i \notin Updated(new) => Settled(log, t)
<1> DEFINE n == Len(log)
           p == Processed
<1>1. PICK s \in Sync : s = syncs[i]
  BY SyncNumbers
<1>2. /\ n \in Nat /\ p \in 0..n /\ Sane(log, n) /\ Single(log, p, n)
      /\ s.base \in Nat /\ s.head \in Nat
  BY <1>1, SeenFacts, SyncNumbers DEF FlowInv
<1>3. Rooted(log, master, s) /\ Headed(log, p, s) /\ Settled(log, s)
  BY <1>1, IdleJob DEF FlowInv, SyncsFlow
<1>4. News(i, new) = Unpaired(log, Span(log, s.bug, p, rev)) /\ (i \in Updated(new) <=> News(i, new) # {})
  <2>1. News(i, new) = Of(s.bug, new) /\ (i \in Updated(new) <=> News(i, new) # {})
    BY <1>1, NewsAre
  <2>2. PICK b : b = s.bug
    OBVIOUS
  <2>3. {c \in Unpaired(log, (p + 1)..rev) : log[c].bug = b} = Unpaired(log, Span(log, b, p, rev))
    BY <1>2, UnpairedOf
  <2>4. Of(b, new) = Unpaired(log, Span(log, b, p, rev))
    BY <2>3 DEF Of
  <2>5. QED
    BY <2>1, <2>2, <2>4
<1>5. CASE News(i, new) = {}
  <2>1. t = s
    BY <1>1, <1>5
  <2>2. Headed(log, rev, s)
    BY <1>2, <1>3, <1>4, <1>5, HeadStays
  <2>3. QED
    BY <1>3, <2>1, <2>2
<1>6. CASE News(i, new) # {}
  <2>1. PICK h : h = Highest(News(i, new))
    OBVIOUS
  <2>2. News(i, new) \subseteq 1..n
    <3>1. new \subseteq 1..n
      BY <1>2 DEF Unpaired
    <3>2. QED
      BY <3>1 DEF News
  <2>3. h \in News(i, new) /\ \A x \in News(i, new) : x <= h
    BY <1>2, <1>6, <2>1, <2>2, HighestIn
  <2>4. t = [s EXCEPT !.head = h]
    BY <1>1, <1>4, <1>6, <2>1
  <2>5. t.bug = s.bug /\ t.base = s.base /\ t.head = h /\ t.wpt = s.wpt /\ t.on = s.on /\ t.pr = s.pr
    BY <2>4 DEF Sync
  <2>6. /\ h \in Unpaired(log, Span(log, s.bug, p, rev))
        /\ \A x \in Unpaired(log, Span(log, s.bug, p, rev)) : x <= h
    BY <1>4, <2>3
  <2>7. Rooted(log, master, t) /\ Headed(log, rev, t)
    BY <1>2, <1>3, <2>5, <2>6, HeadMoved
  <2>8. QED
    BY <1>4, <1>6, <2>7
<1>7. QED
  BY <1>5, <1>6

\* The syncs that are created.
LEMMA NewFlows ==
  ASSUME UpstreamInv, FlowInv, job = Idle, NEW rev \in Processed..Len(log), NEW new,
         new = Unpaired(log, (Processed + 1)..rev), NEW taken \in Takings(new),
         NEW b \in Created(new, taken), NEW s, s = NewSync(b, new, taken)
  PROVE  Rooted(log, master, s) /\ Headed(log, rev, s)
<1> DEFINE n == Len(log)
           p == Processed
           N == Unpaired(log, Span(log, b, p, rev))
           resets == {k \in DOMAIN taken : taken[k] = b}
           first  == IF resets # {} THEN Highest(resets) ELSE Lowest(N)
<1>1. b \in Bugs /\ OpenSyncs(b) = {} /\ Given(b, new, taken) # {}
  BY DEF Created
<1>2. n \in Nat /\ p \in 0..n /\ Sane(log, n) /\ Single(log, p, n) /\ Seen = p
  BY SeenFacts, IdleJob DEF FlowInv
<1>3. Of(b, new) = N
  BY <1>2, UnpairedOf DEF Of
<1>4. Given(b, new, taken) = N /\ resets = {k \in N : log[k].outs # {}} /\ N # {}
  BY <1>1, <1>3, GivenAre
<1>5. N \subseteq 1..n
  BY <1>2 DEF Unpaired, Span
<1>6. /\ s.bug = b /\ s.base = first - 1 /\ s.head = Highest(N) /\ s.wpt = {} /\ s.pr = "none"
  BY <1>4 DEF NewSync, Endpoints
<1> HIDE DEF N, resets
<1>7. PICK h : h = Highest(N)
  OBVIOUS
<1>8. h \in N /\ \A x \in N : x <= h
  BY <1>2, <1>4, <1>5, <1>7, HighestIn
<1>9. /\ first \in N
      /\ \/ log[first].outs # {}
         \/ \A x \in N : log[x].outs = {} /\ first <= x
  <2>1. CASE resets # {}
    <3>1. resets \subseteq 1..n
      BY <1>4, <1>5
    <3>2. Highest(resets) \in resets
      BY <1>2, <2>1, <3>1, HighestIn
    <3>3. QED
      BY <1>4, <2>1, <3>2
  <2>2. CASE resets = {}
    <3>1. Lowest(N) \in N /\ \A x \in N : Lowest(N) <= x
      BY <1>2, <1>4, <1>5, LowestIn
    <3>2. QED
      BY <1>4, <2>2, <3>1
  <2>3. QED
    BY <2>1, <2>2
<1>10. Mine(log, master, b) = LiveIn(log, b, p)
  <2>1. Rests(syncs, b)
    BY <1>1, Facts DEF Rests, OpenSyncs, Unfinished
  <2>2. QED
    BY <1>1, <1>2, <2>1 DEF FlowInv, MasterFlows
<1> HIDE DEF first
<1>11. PICK f : f = first
  OBVIOUS
<1>12. /\ h \in Unpaired(log, Span(log, b, p, rev)) /\ f \in Unpaired(log, Span(log, b, p, rev))
       /\ \A x \in Unpaired(log, Span(log, b, p, rev)) : x <= h
       /\ \/ log[f].outs # {}
          \/ \A x \in Unpaired(log, Span(log, b, p, rev)) : log[x].outs = {} /\ f <= x
  BY <1>8, <1>9, <1>11 DEF N
<1>13. s.bug = b /\ s.base = f - 1 /\ s.head = h /\ s.wpt = {} /\ s.pr = "none"
  BY <1>6, <1>7, <1>11
<1>14. QED
  BY <1>2, <1>10, <1>12, <1>13, SyncMade

LEMMA TakeFlows ==
  ASSUME UpstreamInv, UpstreamInv', Calm, FlowInv, job = Idle, NEW r \in Repos,
         NEW rev \in (point[r] + 1)..Tip(r), NEW new, new = New(point[r], rev),
         NEW taken \in Takings(new), Take(r, rev, new, taken),
         UNCHANGED <<log, central, point, master>>
  PROVE  Flows
<1> DEFINE n == Len(log)
           p == Processed
           m == Len(syncs)
           touched == Updated(new) \cup (m + 1)..Len(syncs')
<1>1. /\ Seen = p /\ p \in 0..n /\ n \in Nat /\ rev \in p..n /\ p < rev /\ rev \in 1..n
      /\ new = Unpaired(log, (p + 1)..rev) /\ Sane(log, n) /\ r \in Repo
  <2>1. Seen = p /\ p \in 0..n /\ rev \in p..n /\ p < rev /\ new = Unpaired(log, (p + 1)..rev)
    BY PushIs
  <2>2. n \in Nat /\ Sane(log, n) /\ r \in Repo
    BY SeenFacts, OneBranch DEF FlowInv
  <2>3. QED
    BY <2>1, <2>2
<1>2. new \subseteq 1..n
  BY <1>1 DEF Unpaired
<1>3. /\ m \in Nat /\ Len(syncs') \in Nat /\ m <= Len(syncs')
      /\ \A i \in 1..m :
           syncs'[i] = IF i \in Updated(new) /\ News(i, new) # {}
                       THEN [syncs[i] EXCEPT !.head = Highest(News(i, new))] ELSE syncs[i]
      /\ \A i \in (m + 1)..Len(syncs') :
           \E b \in Created(new, taken) : syncs'[i] = NewSync(b, new, taken)
      /\ \A b \in Created(new, taken) :
           \E i \in (m + 1)..Len(syncs') : syncs'[i] = NewSync(b, new, taken)
      /\ job'.todo = touched /\ job'.rev = rev /\ job'.repo = r
      /\ noted' = noted \cup UNION {GeckoCommits(syncs'[i]) : i \in touched}
  BY <1>1, <1>2, TakeParts
<1> HIDE DEF touched
<1>4. ASSUME NEW i \in (m + 1)..Len(syncs')
      PROVE  /\ Rooted(log, master, syncs'[i]) /\ Headed(log, rev, syncs'[i]) /\ i \in job'.todo
             /\ syncs'[i].status \in Unfinished
  <2>1. PICK b \in Created(new, taken) : syncs'[i] = NewSync(b, new, taken)
    BY <1>3
  <2>2. Rooted(log, master, syncs'[i]) /\ Headed(log, rev, syncs'[i])
    BY <1>1, <2>1, NewFlows
  <2>3. syncs'[i].status = "open"
    BY <1>2, <2>1, NewSyncFits
  <2>4. QED
    BY <1>3, <2>2, <2>3 DEF touched, Unfinished
<1>5. ASSUME NEW i \in 1..m
      PROVE  /\ syncs'[i].bug = syncs[i].bug /\ syncs'[i].status = syncs[i].status
             /\ syncs'[i].pr = syncs[i].pr
  <2>1. syncs[i] \in Sync
    BY SyncNumbers
  <2>2. QED
    BY <1>3, <2>1 DEF Sync
<1>6. ASSUME NEW i \in 1..m, syncs[i].status \in Unfinished
      PROVE  /\ Rooted(log, master, syncs'[i]) /\ Headed(log, rev, syncs'[i])
             /\ i \notin job'.todo => Settled(log, syncs'[i])
  <2>1. PICK t : t = syncs'[i]
    OBVIOUS
  <2>2. t = IF i \in Updated(new) /\ News(i, new) # {}
            THEN [syncs[i] EXCEPT !.head = Highest(News(i, new))] ELSE syncs[i]
    BY <1>3, <2>1
  <2>3. /\ Rooted(log, master, t) /\ Headed(log, rev, t)
        /\ i \notin Updated(new) => Settled(log, t)
    BY <1>1, <1>6, <2>2, OldFlows
  <2>4. QED
    BY <1>3, <2>1, <2>3 DEF touched
<1>7. \A i \in 1..Len(syncs') : i \in 1..m \/ i \in (m + 1)..Len(syncs')
  BY <1>3
<1>8. SyncsFlow(log, master, rev, syncs', job'.todo)
  BY <1>4, <1>5, <1>6, <1>7 DEF SyncsFlow
<1>9. MasterFlows(log, master, rev, syncs')
  <2> SUFFICES ASSUME NEW b \in Bugs, Rests(syncs', b)
               PROVE  Mine(log, master, b) = LiveIn(log, b, rev)
    BY DEF MasterFlows
  <2>1. Rests(syncs, b)
    <3>1. \A i \in 1..m : i \in 1..Len(syncs')
      BY <1>3
    <3>2. QED
      BY <1>5, <3>1 DEF Rests
  <2>2. OpenSyncs(b) = {}
    BY <2>1, Facts DEF Rests, OpenSyncs, Unfinished
  <2>3. b \notin Created(new, taken)
    <3>1. SUFFICES ASSUME b \in Created(new, taken) PROVE FALSE
      OBVIOUS
    <3>2. PICK i \in (m + 1)..Len(syncs') : syncs'[i] = NewSync(b, new, taken)
      BY <1>3, <3>1
    <3>3. syncs'[i].bug = b /\ syncs'[i].status = "open"
      BY <1>2, <3>1, <3>2, NewSyncFits
    <3>4. i \in 1..Len(syncs')
      BY <1>3
    <3>5. QED
      BY <3>3, <3>4 DEF Rests, Unfinished
  <2>4. Of(b, new) = {}
    BY <1>1, <2>2, <2>3, GivenAre DEF Created
  <2>5. {c \in Unpaired(log, (p + 1)..rev) : log[c].bug = b} = Unpaired(log, Span(log, b, p, rev))
    BY <1>1, UnpairedOf
  <2>6. Unpaired(log, Span(log, b, p, rev)) = {}
    BY <1>1, <2>4, <2>5 DEF Of
  <2>7. LiveIn(log, b, rev) = LiveIn(log, b, p)
    BY <1>1, <2>6, NothingNew
  <2>8. QED
    BY <1>1, <2>1, <2>7 DEF FlowInv, MasterFlows
<1>10. Processed' = p /\ Seen' = rev
  BY <1>1, <1>3 DEF Processed, Seen
<1>11. noted' \subseteq 1..rev
  <2>1. ASSUME NEW i \in touched PROVE GeckoCommits(syncs'[i]) \subseteq 1..rev
    <3>1. i \in 1..Len(syncs') /\ syncs'[i].status \in Unfinished
      <4>1. CASE i \in (m + 1)..Len(syncs')
        BY <1>3, <1>4, <4>1
      <4>2. CASE i \in Updated(new)
        <5>1. i \in 1..m /\ syncs[i].status \in Unfinished
          BY <4>2, Facts DEF Updated, OpenSyncs, Unfinished
        <5>2. QED
          BY <1>3, <1>5, <5>1
      <4>3. QED
        BY <4>1, <4>2 DEF touched
    <3>2. syncs'[i].head <= rev
      BY <1>8, <3>1 DEF SyncsFlow, Headed
    <3>3. syncs'[i].base \in Nat /\ syncs'[i].head \in Nat
      <4>1. syncs'[i] \in Sync
        BY <3>1 DEF UpstreamInv, AllFit, Fits
      <4>2. QED
        BY <4>1, SyncFields, BoundAssumption DEF Commit
    <3>4. CommitRange(syncs'[i]) \subseteq 1..rev
      BY <1>1, <3>2, <3>3 DEF CommitRange
    <3>5. QED
      BY <3>4, NoPairsSubset DEF GeckoCommits
  <2>2. noted \subseteq 1..rev
    <3>1. noted \subseteq 1..p
      BY <1>1, NotedSeen
    <3>2. QED
      BY <1>1, <3>1
  <2>3. QED
    BY <1>3, <2>1, <2>2
<1>12. PointsFlow'
  BY <1>1, <1>3, <1>10, <1>11 DEF PointsFlow, FlowInv
<1>13. FlowInv'
  BY <1>8, <1>9, <1>10, <1>12 DEF FlowInv
<1>14. \A i \in 1..Len(syncs) : ~LandedHere(i)
  BY <1>5 DEF LandedHere
<1>15. central' >= central
  BY CentralSeen DEF UpstreamInv
<1>16. QED
  BY <1>13, <1>14, <1>15, LogSame DEF Flows, Quiet

LEMMA PushFlows ==
  ASSUME UpstreamInv, UpstreamInv', Calm, FlowInv, NEW r \in Repo, NEW rev \in 1..Len(log),
         GeckoPush(r, rev)
  PROVE  Flows
<1>1. /\ job = Idle /\ r \in Repos /\ rev \in (point[r] + 1)..Tip(r) /\ known' = central
      /\ UNCHANGED <<log, central, point, master>>
  BY DEF GeckoPush
<1>2. PICK new : new = New(point[r], rev)
  OBVIOUS
<1>3. \/ UNCHANGED <<noted, syncs, filed, job>>
      \/ \E taken \in Takings(new) : Take(r, rev, new, taken)
  BY <1>2 DEF GeckoPush
<1>4. CASE UNCHANGED <<noted, syncs, filed, job>>
  <2>1. central' \in Nat /\ central' >= central
    BY <1>1, CentralSeen DEF UpstreamInv
  <2>2. QED
    BY <1>1, <1>4, <2>1, NotedSeen, AllQuiet
<1>5. ASSUME NEW taken \in Takings(new), Take(r, rev, new, taken) PROVE Flows
  BY <1>1, <1>2, <1>5, TakeFlows
<1>6. QED
  BY <1>3, <1>4, <1>5

-----------------------------------------------------------------------------
LEMMA FlowInvStarts == Calm /\ Init => FlowInv
<1> SUFFICES ASSUME Init PROVE FlowInv
  OBVIOUS
<1>1. /\ log = <<>> /\ central = 0 /\ point = [r \in Repo |-> 0] /\ noted = {} /\ syncs = <<>>
      /\ master = {} /\ job = Idle /\ Len(log) = 0 /\ Len(syncs) = 0
  BY DEF Init
<1>2. Processed = 0 /\ Seen = 0 /\ job.rev = 0 /\ job.todo = {}
  BY <1>1, JobTypes DEF Processed, Seen, Repo
<1>3. Sane(log, Len(log)) /\ Single(log, Processed, Len(log))
  BY <1>1, <1>2 DEF Sane, Single
<1>4. PointsFlow
  BY <1>1, <1>2 DEF PointsFlow
<1>5. SyncsFlow(log, master, Seen, syncs, job.todo)
  BY <1>1 DEF SyncsFlow
<1>6. MasterFlows(log, master, Seen, syncs)
  BY <1>1, <1>2 DEF MasterFlows, Mine, LiveIn
<1>7. QED
  BY <1>1, <1>3, <1>4, <1>5, <1>6 DEF FlowInv

LEMMA FlowInvKept ==
  ASSUME Calm, UpstreamInv, UpstreamInv', FlowInv, [Next]_vars
  PROVE  Flows
<1>1. ASSUME NEW b \in Bugs, CommitChange(b) \/ BackOut(b) PROVE Flows
  BY <1>1, CommitChangeFlows, BackOutFlows
<1>2. CASE MergeToCentral
  BY <1>2, MergeFlows
<1>3. ASSUME NEW r \in Repo, NEW rev \in 1..Len(log), GeckoPush(r, rev) PROVE Flows
  BY <1>3, PushFlows
<1>4. ASSUME NEW i \in 1..Len(syncs),
             \/ Update(i) \/ Land(i) \/ UpdateSync(i) \/ RefreshPr(i)
             \/ CheckRun(i) \/ OtherEdits(i)
      PROVE  Flows
  BY <1>4, UpdateFlows, LandFlows, UpdateSyncFlows, RefreshPrFlows, CheckRunFlows, OtherEditsFlow
<1>5. ASSUME NEW i \in 1..Len(syncs), PrMerged(i) PROVE FALSE
  BY <1>5, MergedFinished DEF PrMerged, Unfinished
<1>6. CASE Done
  BY <1>6, DoneFlows
<1>7. CASE Crash
  BY <1>7 DEF Crash, Calm
<1>8. CASE UNCHANGED vars
  <2>1. central' \in Nat /\ central' >= central
    BY <1>8, CentralSeen DEF UpstreamInv, vars
  <2>2. QED
    BY <1>8, <2>1, NotedSeen, AllQuiet DEF vars
<1>9. DOMAIN syncs = 1..Len(syncs)
  BY Facts
<1>10. QED
  BY <1>1, <1>2, <1>3, <1>4, <1>5, <1>6, <1>7, <1>8, <1>9 DEF Next

\* The invariant holds of every state, as long as nothing that loses a part of a push may happen.
THEOREM FlowInvHolds == Calm => (Spec => []FlowInv)
<1> SUFFICES ASSUME Calm PROVE Spec => []FlowInv
  OBVIOUS
<1>1. Init => FlowInv
  BY FlowInvStarts
<1>2. UpstreamInv /\ UpstreamInv' /\ FlowInv /\ [Next]_vars => FlowInv'
  BY FlowInvKept DEF Flows
<1>3. QED
  BY <1>1, <1>2, UpstreamInvHolds, PTL DEF Spec

-----------------------------------------------------------------------------
(***************************************************************************)
(* What is on master, bug by bug.                                          *)
(***************************************************************************)

LEMMA BugAfter ==
  ASSUME NEW n \in Nat, NEW L, Sane(L, n), NEW M, NEW d, NEW P \in SUBSET (1..n)
  PROVE  Mine(L, After(L, M, P), d) = After(L, Mine(L, M, d), Mine(L, P, d))
<1>1. \A k \in P : \A e \in L[k].outs : L[e].bug = L[k].bug
  BY BackoutFacts
<1>2. QED
  BY <1>1 DEF Mine, After

\* A sync and its bug, once it is updated: with its commits, master has what gecko has.
LEMMA SyncCovers ==
  ASSUME UpstreamInv, FlowInv, NEW i \in 1..Len(syncs), syncs[i].status \in Unfinished
  PROVE  /\ GeckoCommits(syncs[i]) = Gecko(log, syncs[i])
         /\ Gecko(log, syncs[i]) \subseteq 1..Len(log)
         /\ \A c \in Gecko(log, syncs[i]) : log[c].bug = syncs[i].bug
         /\ After(log, Mine(log, master, syncs[i].bug), Gecko(log, syncs[i]))
              = LiveIn(log, syncs[i].bug, Seen)
<1>1. PICK s : s = syncs[i]
  OBVIOUS
<1>2. /\ Len(log) \in Nat /\ Seen \in 0..Len(log) /\ Sane(log, Len(log))
      /\ s.base \in Nat /\ s.head \in Nat /\ s.head <= Len(log)
  BY <1>1, SeenFacts, SyncNumbers DEF FlowInv
<1>3. Rooted(log, master, s) /\ Headed(log, Seen, s)
  BY <1>1 DEF FlowInv, SyncsFlow
<1>4. Sane(log, Seen) /\ Seen \in Nat
  BY <1>2, SaneBefore
<1>5. After(log, Mine(log, master, s.bug), Gecko(log, s)) = LiveIn(log, s.bug, Seen)
  BY <1>2, <1>3, <1>4, GeckoAfter
<1>6. GeckoCommits(s) = Gecko(log, s)
  BY <1>2, GeckoIs
<1>7. Gecko(log, s) \subseteq 1..Len(log) /\ \A c \in Gecko(log, s) : log[c].bug = s.bug
  BY <1>2 DEF Gecko, Unpaired, Span
<1>8. QED
  BY <1>1, <1>5, <1>6, <1>7

LEMMA CoveredFollows ==
  ASSUME UpstreamInv, FlowInv, job = Idle
  PROVE  Apply(master, Pending) = Tree(Processed)
<1> DEFINE n == Len(log)
           P == Pending
           N == After(log, master, P)
<1>1. n \in Nat /\ Processed \in 0..n /\ Seen = Processed /\ job.todo = {} /\ Sane(log, n)
  BY SeenFacts, IdleJob DEF FlowInv
<1>2. P \in SUBSET (1..n)
  BY SyncCovers, Facts DEF Pending, Unfinished
<1>3. ASSUME NEW c \in P, NEW i \in 1..Len(syncs), syncs[i].status \in Unfinished,
             log[c].bug = syncs[i].bug
      PROVE  c \in Gecko(log, syncs[i]) /\ syncs[i].status = "open"
  <2>1. PICK j \in 1..Len(syncs) : syncs[j].status = "open" /\ c \in GeckoCommits(syncs[j])
    BY Facts DEF Pending
  <2>2. c \in Gecko(log, syncs[j]) /\ log[c].bug = syncs[j].bug
    BY <2>1, SyncCovers DEF Unfinished
  <2>3. j = i
    BY <1>3, <2>1, <2>2 DEF UpstreamInv, OneOpen, Unfinished
  <2>4. QED
    BY <2>1, <2>2, <2>3
<1>4. ASSUME NEW i \in 1..Len(syncs), syncs[i].status \in Unfinished
      PROVE  Mine(log, P, syncs[i].bug) = Gecko(log, syncs[i])
  <2>1. CASE syncs[i].status = "open"
    <3>1. Gecko(log, syncs[i]) \subseteq P
      BY <2>1, <1>4, SyncCovers, Facts DEF Pending
    <3>2. QED
      BY <1>3, <1>4, <3>1, SyncCovers DEF Mine
  <2>2. CASE syncs[i].status = "incomplete"
    <3>1. Gecko(log, syncs[i]) = {}
      BY <1>1, <1>4, <2>2 DEF FlowInv, SyncsFlow, Settled
    <3>2. QED
      BY <1>3, <1>4, <2>2, <3>1 DEF Mine
  <2>3. QED
    BY <1>4, <2>1, <2>2 DEF Unfinished
<1> HIDE DEF P
<1>5. ASSUME NEW b \in Bugs PROVE Mine(log, N, b) = LiveIn(log, b, Processed)
  <2>1. Mine(log, N, b) = After(log, Mine(log, master, b), Mine(log, P, b))
    BY <1>1, <1>2, BugAfter
  <2>2. ASSUME NEW i \in 1..Len(syncs), syncs[i].bug = b, syncs[i].status \in Unfinished
        PROVE  Mine(log, N, b) = LiveIn(log, b, Processed)
    BY <1>1, <1>4, <2>1, <2>2, SyncCovers
  <2>3. CASE Rests(syncs, b)
    <3>1. Mine(log, P, b) = {}
      <4>1. ASSUME NEW c \in P PROVE log[c].bug # b
        <5>1. PICK j \in 1..Len(syncs) : syncs[j].status = "open" /\ c \in GeckoCommits(syncs[j])
          BY Facts DEF Pending, P
        <5>2. log[c].bug = syncs[j].bug /\ syncs[j].status \in Unfinished
          BY <5>1, SyncCovers DEF Unfinished
        <5>3. QED
          BY <2>3, <5>2 DEF Rests
      <4>2. QED
        BY <4>1 DEF Mine
    <3>2. After(log, Mine(log, master, b), {}) = Mine(log, master, b)
      BY DEF After
    <3>3. Mine(log, master, b) = LiveIn(log, b, Processed)
      BY <1>1, <2>3 DEF FlowInv, MasterFlows
    <3>4. QED
      BY <2>1, <3>1, <3>2, <3>3
  <2>4. QED
    BY <2>2, <2>3 DEF Rests
<1>6. ASSUME NEW b \in Bugs PROVE Of(b, Tree(Processed)) = Mine(log, N, b)
  BY <1>5, TreeIs
<1>7. N \subseteq 1..n /\ Tree(Processed) \subseteq 1..n
  <2>1. master \subseteq 1..n
    BY Facts
  <2>2. N \subseteq 1..n
    BY <1>2, <2>1 DEF After
  <2>3. 1..Processed \subseteq 1..n
    BY <1>1
  <2>4. Tree(Processed) \subseteq 1..n
    BY <2>3 DEF Tree, Changes
  <2>5. QED
    BY <2>2, <2>4
<1>8. ASSUME NEW x \in 1..n PROVE log[x].bug \in Bugs
  <2>1. log[x] \in [bug : Bugs, outs : SUBSET Commit]
    BY <1>1, ElementOfSeq DEF UpstreamInv, TypeOK
  <2>2. QED
    BY <2>1
<1>9. ASSUME NEW x \in 1..n PROVE x \in N <=> x \in Tree(Processed)
  BY <1>6, <1>8 DEF Of, Mine
<1>10. Apply(master, P) = N
  BY ApplyIs
<1>11. QED
  BY <1>7, <1>9, <1>10 DEF P

\* What gecko_push has processed is on wpt master or in an open sync, and nothing else is: no
\* change is forgotten, and a backout takes out what master has.
THEOREM EverythingCovered == Calm => (Spec => []Covered)
<1> SUFFICES ASSUME Calm PROVE Spec => []Covered
  OBVIOUS
<1>1. UpstreamInv /\ FlowInv => Covered
  BY CoveredFollows DEF Covered
<1>2. QED
  BY <1>1, UpstreamInvHolds, FlowInvHolds, PTL

\* try_land_pr merges a PR whose branch has the gecko commits of its sync, all and only, and
\* when all of them are on central.
THEOREM MergesAreWhole == Calm => (Spec => MergedWhole)
<1> SUFFICES ASSUME Calm PROVE Spec => MergedWhole
  OBVIOUS
<1> DEFINE Step == \A i \in DOMAIN syncs : LandedHere(i) =>
                     /\ syncs[i].sent = GeckoCommits(syncs[i])
                     /\ syncs[i].sent \subseteq 1..central
<1>1. ASSUME UpstreamInv, UpstreamInv', FlowInv, [Next]_vars PROVE Step
  <2> SUFFICES ASSUME NEW i \in DOMAIN syncs, LandedHere(i)
               PROVE  /\ syncs[i].sent = GeckoCommits(syncs[i])
                      /\ syncs[i].sent \subseteq 1..central
    OBVIOUS
  <2>1. i \in 1..Len(syncs)
    BY <1>1, Facts
  <2>2. PICK j \in 1..Len(syncs) : Lands(j)
    BY <1>1, <2>1, FlowInvKept DEF Flows, Quiet
  <2>3. j = i
    BY <2>1, <2>2 DEF Lands, LandedHere
  <2>4. QED
    BY <2>2, <2>3 DEF Lands
<1>2. UpstreamInv /\ UpstreamInv' /\ FlowInv /\ [Next]_vars => [Step]_vars
  BY <1>1
<1>3. QED
  BY <1>2, UpstreamInvHolds, FlowInvHolds, PTL DEF Spec, MergedWhole

-----------------------------------------------------------------------------
(***************************************************************************)
(* Upstream implements ChangeFlow: a landing delivers the changes of its   *)
(* bug, and every other step is a push that is seen, or nothing.           *)
(***************************************************************************)

wantedNow   == [b \in Bugs |-> Of(b, Tree(Seen))]
centralNow  == Changes(1..central)
upstreamNow == [b \in Bugs |-> Of(b, master)]

LEMMA FlowStarts == Init => Flow!Init
<1> SUFFICES ASSUME Init PROVE Flow!Init
  OBVIOUS
<1>1. log = <<>> /\ central = 0 /\ master = {} /\ Seen = 0
  BY JobTypes DEF Init, Processed, Seen, Repo
<1>2. Tree(0) = {} /\ Changes(1..0) = {}
  BY DEF Tree, Changes
<1>3. QED
  BY <1>1, <1>2 DEF Flow!Init, Of

\* All that is seen, at any time, are commits.
SeenExists ==
  /\ Seen \in Nat /\ Seen <= Len(log) /\ Len(log) <= MaxCommits
  /\ central \in Nat /\ central <= Len(log) /\ Len(log) \in Nat

LEMMA AllSeenExists == TypeOK => SeenExists
<1> SUFFICES ASSUME TypeOK PROVE SeenExists
  OBVIOUS
<1>1. /\ Len(log) \in Nat /\ Len(log) <= MaxCommits /\ point \in [Repo -> 0..Len(log)]
      /\ job.rev \in 0..Len(log) /\ central \in 0..Len(log)
  BY LenProperties, JobTypes, JobFields DEF TypeOK
<1>2. point["autoland"] \in 0..Len(log) /\ point["central"] \in 0..Len(log)
  BY <1>1 DEF Repo
<1>3. QED
  BY <1>1, <1>2 DEF SeenExists, Seen, Processed

LEMMA AllSeenStillExists == TypeOK' => SeenExists'
BY AllSeenExists, PTL

LEMMA QuietSees ==
  ASSUME UpstreamInv, UpstreamInv', Quiet
  PROVE  Flow!See
<1>1. /\ Len(log) \in Nat /\ central \in Nat /\ central <= Len(log)
      /\ master \subseteq 1..Len(log) /\ 1..Len(log) \subseteq Commit
  BY AllSeenExists, Facts, BoundAssumption DEF UpstreamInv, SeenExists, Commit
<1>2. /\ Seen' \in Nat /\ Seen' <= MaxCommits
      /\ central' \in Nat /\ central' <= MaxCommits /\ central <= central'
  <2>1. TypeOK'
    BY DEF UpstreamInv
  <2>2. QED
    BY <1>1, <2>1, AllSeenStillExists, BoundAssumption DEF Quiet, SeenExists
<1>3. wantedNow' \in [Bugs -> SUBSET Commit]
  <2>1. 1..Seen' \subseteq Commit
    BY <1>2, BoundAssumption DEF Commit
  <2>2. \A b \in Bugs : Of(b, Tree(Seen))' \subseteq Commit
    BY <2>1 DEF Of, Tree, Changes
  <2>3. QED
    BY <2>2 DEF wantedNow
<1>4. centralNow' \in SUBSET Commit /\ centralNow \subseteq centralNow'
  <2>1. 1..central' \subseteq Commit /\ 1..central \subseteq 1..central'
    BY <1>1, <1>2, BoundAssumption DEF Commit
  <2>2. \A c \in 1..central : log'[c] = log[c]
    BY <1>1 DEF Quiet, Extends
  <2>3. QED
    BY <2>1, <2>2 DEF centralNow, Changes, IsBackout
<1>5. upstreamNow' = upstreamNow
  <2>1. \A c \in master : log'[c] = log[c]
    BY <1>1 DEF Quiet, Extends
  <2>2. QED
    BY <2>1 DEF upstreamNow, Of, Quiet
<1>6. QED
  BY <1>3, <1>4, <1>5 DEF Flow!See, wantedNow, centralNow, upstreamNow

LEMMA LandingDelivers ==
  ASSUME UpstreamInv, FlowInv, NEW i \in 1..Len(syncs), Lands(i)
  PROVE  \E b \in Bugs : Flow!Deliver(b)
<1>1. PICK s : s = syncs[i]
  OBVIOUS
<1>2. PICK G : G = Gecko(log, s)
  OBVIOUS
<1>3. PICK b : b = s.bug
  OBVIOUS
<1>4. /\ b \in Bugs /\ syncs[i].status \in Unfinished /\ Len(log) \in Nat /\ Sane(log, Len(log))
      /\ UNCHANGED <<log, central>> /\ Seen' = Seen
  BY <1>1, <1>3, SyncNumbers, SeenFacts DEF Lands, Unfinished, FlowInv
<1>5. /\ G \in SUBSET (1..Len(log)) /\ G \subseteq 1..central /\ \A c \in G : log[c].bug = b
      /\ After(log, Mine(log, master, b), G) = LiveIn(log, b, Seen)
      /\ master' = After(log, master, G)
  BY <1>1, <1>2, <1>3, <1>4, SyncCovers, ApplyIs DEF Lands
<1>6. Mine(log, master', b) = LiveIn(log, b, Seen)
  <2>1. Mine(log, G, b) = G
    BY <1>5 DEF Mine
  <2>2. Mine(log, After(log, master, G), b) = After(log, Mine(log, master, b), Mine(log, G, b))
    BY <1>4, <1>5, BugAfter
  <2>3. QED
    BY <1>5, <2>1, <2>2
<1>7. ASSUME NEW d \in Bugs, d # b PROVE Mine(log, master', d) = Mine(log, master, d)
  <2>1. \A c \in G : log[c].bug # d
    BY <1>5, <1>7
  <2>2. QED
    BY <1>4, <1>5, <2>1, OthersAfter
<1>8. \A d \in Bugs : /\ wantedNow[d] = LiveIn(log, d, Seen)
                      /\ upstreamNow[d] = Mine(log, master, d)
                      /\ upstreamNow'[d] = Mine(log, master', d)
  BY <1>4, TreeIs DEF wantedNow, upstreamNow, Of, Mine
<1>9. wantedNow' = wantedNow /\ centralNow' = centralNow
  BY <1>4 DEF wantedNow, centralNow, Tree, Of, Changes, BackedOut, IsBackout
<1>10. wantedNow[b] \subseteq centralNow
  <2>1. LiveIn(log, b, Seen) \subseteq Mine(log, master, b) \cup G
    BY <1>5 DEF After
  <2>2. LiveIn(log, b, Seen) \subseteq 1..central
    BY <1>5, <2>1 DEF Mine, FlowInv
  <2>3. \A x \in LiveIn(log, b, Seen) : log[x].outs = {}
    BY DEF LiveIn
  <2>4. QED
    BY <1>4, <1>8, <2>2, <2>3 DEF centralNow, Changes, IsBackout
<1>11. upstreamNow' = [upstreamNow EXCEPT ![b] = wantedNow[b]]
  <2>1. \A d \in Bugs : upstreamNow'[d] = IF d = b THEN wantedNow[b] ELSE upstreamNow[d]
    BY <1>4, <1>6, <1>7, <1>8
  <2>2. /\ upstreamNow = [d \in Bugs |-> upstreamNow[d]]
        /\ upstreamNow' = [d \in Bugs |-> upstreamNow'[d]]
    BY DEF upstreamNow
  <2>3. QED
    BY <2>1, <2>2
<1>12. Flow!Deliver(b)
  BY <1>9, <1>10, <1>11 DEF Flow!Deliver, wantedNow, centralNow, upstreamNow
<1>13. QED
  BY <1>4, <1>12

\* For each bug, the changes that gecko has are taken to wpt together, when all of them are on
\* central, and what gecko backed out is taken out again: upstreaming implements ChangeFlow.
THEOREM ImplementsChangeFlow == Calm => (Spec => FlowSpec)
<1> SUFFICES ASSUME Calm PROVE Spec => FlowSpec
  OBVIOUS
<1>1. ASSUME UpstreamInv, UpstreamInv', FlowInv, [Next]_vars PROVE Flow!Next
  <2>1. CASE Quiet
    BY <1>1, <2>1, QuietSees DEF Flow!Next
  <2>2. ASSUME NEW i \in 1..Len(syncs), Lands(i) PROVE Flow!Next
    BY <1>1, <2>2, LandingDelivers DEF Flow!Next
  <2>3. QED
    BY <1>1, <2>1, <2>2, FlowInvKept DEF Flows
<1>2. UpstreamInv /\ UpstreamInv' /\ FlowInv /\ [Next]_vars => [Flow!Next]_(Flow!flow)
  BY <1>1
<1>3. QED
  BY <1>2, FlowStarts, UpstreamInvHolds, FlowInvHolds, PTL DEF Spec, FlowSpec, Flow!Spec
=============================================================================
