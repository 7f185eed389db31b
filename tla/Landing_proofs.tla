--------------------------- MODULE Landing_proofs ---------------------------
(***************************************************************************)
(* Proofs about Landing, for any number of pull requests, landings and try *)
(* pushes, any commands and any failures.                                  *)
(***************************************************************************)
EXTENDS Landing, SequenceTheorems, FiniteSetTheorems, WellFoundedInduction, TLAPS

Outcome  == [landing : LandingSync, fetch : BOOLEAN, push : BOOLEAN, notify : BOOLEAN,
             again : BOOLEAN]

OlderComplete(l) ==   \* OlderTriesComplete, of one landing
  \A k \in 1..Len(l.tries) : k < Len(l.tries) => l.tries[k].status = "complete"

(***************************************************************************)
(* A try push passed, for next_try_push, or its failures were accepted.  A *)
(* stability try push comes after an ordinary one of which this is so.     *)
(***************************************************************************)
PassedTry(t) ==
  /\ t.status = "complete"
  /\ (t.result \in {"success", "acceptable"} /\ ~t.infra) \/ t.accept \/ t.waived
HasOrdinary(l) == \E j \in 1..Len(l.tries) : ~l.tries[j].stability /\ PassedTry(l.tries[j])
Tested(l)   == (\E k \in 1..Len(l.tries) : l.tries[k].stability) => HasOrdinary(l)
Orderly(l)  == OlderComplete(l) /\ Tested(l)
Pushable(l) == l.tries # <<>> /\ Latest(l).stability /\ PassedTry(Latest(l))

\* The options that calls are made with.
Opt == [retry : BOOLEAN, accept : BOOLEAN, push : BOOLEAN]

(***************************************************************************)
(* What a call may make of landing i: it keeps its commits, and is only    *)
(* completed by what the local refs have of central; only its latest try   *)
(* push may be open; if it is allowed to push, it goes on to               *)
(* notify_downstream with landing_is_complete only for what is pushed; it  *)
(* pushes once, what is tested and made for the tree.                      *)
(***************************************************************************)
Same(l, m) == m.base = l.base /\ m.head = l.head /\ m.tree = l.tree
Allowed(l, i, o, r) ==
  /\ r \in Outcome
  /\ Same(l, r.landing)
  /\ r.landing.status \in {l.status, "complete"}
  /\ r.landing.status = "complete" => l.status = "complete" \/ Pushed(i, local.central)
  /\ Orderly(r.landing)
  /\ r.notify /\ o.push => r.push \/ Pushed(i, Len(autoland))
  /\ r.push => /\ Pushable(r.landing) /\ ~Pushed(i, Len(autoland)) /\ SyncPoint(Len(autoland)) = l.tree
               /\ r.notify \/ "answer" \in Faults

-----------------------------------------------------------------------------
(* Lemmas on the landing sync as a value. *)

LEMMA LandingFields ==
  ASSUME NEW l \in LandingSync
  PROVE  /\ l.status \in {"open", "complete"} /\ l.base \in 0..N /\ l.head \in 0..N
         /\ l.tree \in 0..N /\ l.from \in Nat /\ l.built \in BOOLEAN /\ l.error \in BOOLEAN
         /\ l.tries \in Seq(Try) /\ Len(l.tries) \in Nat
BY DEF LandingSync

\* The try pushes are replaced, and nothing else.
LEMMA TriesReplaced ==
  ASSUME NEW l \in LandingSync, NEW s \in Seq(Try)
  PROVE  LET m == [l EXCEPT !.tries = s]
         IN  m \in LandingSync /\ m.tries = s /\ m.status = l.status /\ Same(l, m)
BY DEF LandingSync, Same

LEMMA LatestIsTry ==
  ASSUME NEW l \in LandingSync, l.tries # <<>>
  PROVE  /\ Latest(l) \in Try /\ Len(l.tries) \in 1..Len(l.tries)
         /\ Latest(l) = l.tries[Len(l.tries)]
<1>1. Len(l.tries) \in Nat \ {0}
  BY LandingFields, EmptySeq
<1>2. QED
  BY <1>1, LandingFields, ElementOfSeq DEF Latest, Last

\* A try push may be replaced by one that is of the same kind and as good.
AsGood(t, u) == u.stability = t.stability /\ (PassedTry(t) => PassedTry(u))

LEMMA SetLatestFacts ==
  ASSUME NEW l \in LandingSync, l.tries # <<>>, NEW t \in Try
  PROVE  LET m == SetLatest(l, t)
         IN  /\ m \in LandingSync /\ Same(l, m) /\ m.status = l.status
             /\ m.tries # <<>> /\ Latest(m) = t
             /\ Orderly(l) /\ AsGood(Latest(l), t) => Orderly(m)
<1> DEFINE s == [l.tries EXCEPT ![Len(l.tries)] = t]
<1>1. l.tries \in Seq(Try) /\ Len(l.tries) \in 1..Len(l.tries) /\ Len(l.tries) \in Nat
  BY LandingFields, LatestIsTry
<1>2. /\ s \in Seq(Try) /\ Len(s) = Len(l.tries)
      /\ \A j \in 1..Len(l.tries) : s[j] = IF j = Len(l.tries) THEN t ELSE l.tries[j]
  BY <1>1, ExceptSeq
<1>3. SetLatest(l, t) = [l EXCEPT !.tries = s]
  BY DEF SetLatest, LandingSync
<1>5. s # <<>> /\ s[Len(s)] = t
  BY <1>1, <1>2
<1> HIDE DEF s
<1>4. /\ SetLatest(l, t).tries = s /\ SetLatest(l, t) \in LandingSync
      /\ Same(l, SetLatest(l, t)) /\ SetLatest(l, t).status = l.status
  BY <1>2, <1>3, TriesReplaced
<1>6. ASSUME Orderly(l), AsGood(Latest(l), t) PROVE Orderly(SetLatest(l, t))
  <2>1. OlderComplete(SetLatest(l, t))
    BY <1>1, <1>2, <1>4, <1>6 DEF Orderly, OlderComplete
  <2>2. Latest(l) = l.tries[Len(l.tries)]
    BY LatestIsTry
  <2>3. ASSUME NEW k \in 1..Len(s), s[k].stability PROVE HasOrdinary(SetLatest(l, t))
    <3>1. l.tries[k].stability
      BY <1>1, <1>2, <1>6, <2>2, <2>3 DEF AsGood
    <3>2. PICK j \in 1..Len(l.tries) : ~l.tries[j].stability /\ PassedTry(l.tries[j])
      BY <1>2, <1>6, <2>3, <3>1 DEF Orderly, Tested, HasOrdinary
    <3>3. ~s[j].stability /\ PassedTry(s[j])
      BY <1>2, <1>6, <2>2, <3>2 DEF AsGood
    <3>4. QED
      BY <1>2, <1>4, <3>3 DEF HasOrdinary
  <2>4. QED
    BY <1>4, <2>1, <2>3 DEF Orderly, Tested
<1>7. QED
  BY <1>4, <1>5, <1>6 DEF Latest, Last

LEMMA CloseFacts ==
  ASSUME NEW l \in LandingSync, l.tries # <<>>
  PROVE  /\ Close(l) \in LandingSync /\ Same(l, Close(l)) /\ Close(l).status = l.status
         /\ Close(l).tries # <<>> /\ Latest(Close(l)).status = "complete"
         /\ Latest(Close(l)).stability = Latest(l).stability
         /\ Orderly(l) => Orderly(Close(l))
<1> DEFINE t == [Latest(l) EXCEPT !.status = "complete"]
<1>1. /\ t \in Try /\ t.status = "complete" /\ t.stability = Latest(l).stability
      /\ AsGood(Latest(l), t)
  BY LatestIsTry DEF Try, AsGood, PassedTry
<1>2. Close(l) = SetLatest(l, t)
  BY DEF Close
<1> HIDE DEF t
<1>3. QED
  BY <1>1, <1>2, SetLatestFacts

LEMMA AppendTry ==
  ASSUME NEW l \in LandingSync, NEW t \in Try, Orderly(l),
         l.tries = <<>> \/ Latest(l).status = "complete", t.stability => HasOrdinary(l)
  PROVE  LET m == [l EXCEPT !.tries = Append(@, t)]
         IN  m \in LandingSync /\ Same(l, m) /\ m.status = l.status /\ Orderly(m)
<1> DEFINE s == Append(l.tries, t)
<1>1. l.tries \in Seq(Try) /\ Len(l.tries) \in Nat
  BY LandingFields
<1>2. /\ s \in Seq(Try) /\ Len(s) = Len(l.tries) + 1
      /\ \A j \in 1..Len(l.tries) : s[j] = l.tries[j]
  BY <1>1, AppendProperties
<1>3. [l EXCEPT !.tries = Append(@, t)] = [l EXCEPT !.tries = s]
  OBVIOUS
<1>4. \A k \in 1..Len(l.tries) : l.tries[k].status = "complete"
  <2>1. CASE l.tries = <<>>
    BY <2>1, EmptySeq
  <2>2. CASE l.tries # <<>>
    BY <2>2, <1>1, LatestIsTry DEF Orderly, OlderComplete
  <2>3. QED
    BY <2>1, <2>2
<1> DEFINE m == [l EXCEPT !.tries = s]
<1>a. m.tries = s
  BY <1>2, TriesReplaced
<1>b. OlderComplete(m)
  BY <1>1, <1>2, <1>4, <1>a DEF OlderComplete
<1>c. s[Len(s)] = t
  BY <1>1, AppendProperties
<1> HIDE DEF s
<1>d. HasOrdinary(l) => HasOrdinary(m)
  BY <1>1, <1>2, <1>a DEF HasOrdinary
<1>e. \A k \in 1..Len(s) : k \in 1..Len(l.tries) \/ s[k] = t
  BY <1>1, <1>2, <1>c
<1>f. Tested(m)
  BY <1>1, <1>2, <1>a, <1>d, <1>e DEF Tested, Orderly
<1>5. Orderly([l EXCEPT !.tries = s])
  BY <1>b, <1>f DEF Orderly
<1> USE DEF s
<1>6. QED
  BY <1>2, <1>3, <1>5, TriesReplaced

-----------------------------------------------------------------------------
(* What each call may return. *)

\* An outcome for a landing that differs from l in its try pushes, is one for l.
LEMMA AllowedTransfer ==
  ASSUME NEW l, NEW m, NEW i, NEW o, NEW r, Same(l, m), m.status = l.status, Allowed(m, i, o, r)
  PROVE  Allowed(l, i, o, r)
BY DEF Allowed, Same

LEMMA OutAllowed ==
  ASSUME NEW l \in LandingSync, Orderly(l), NEW i, NEW o
  PROVE  /\ Allowed(l, i, o, Out(l)) /\ Allowed(l, i, o, Failed(l))
         /\ Allowed(l, i, o, [Out(l) EXCEPT !.again = TRUE])
<1> DEFINE f == [l EXCEPT !.error = TRUE]
<1>1. f \in LandingSync /\ Same(l, f) /\ f.status = l.status /\ f.tries = l.tries
  BY DEF LandingSync, Same
<1>2. Orderly(f)
  BY <1>1 DEF Orderly, OlderComplete, Tested, HasOrdinary
<1>3. l.status \in {"open", "complete"} /\ Same(l, l)
  BY LandingFields DEF Same
<1> HIDE DEF f
<1>4. Allowed(l, i, o, Out(l)) /\ Allowed(l, i, o, [Out(l) EXCEPT !.again = TRUE])
  BY <1>3 DEF Allowed, Out, Outcome
<1>5. Allowed(l, i, o, Out(f))
  BY <1>1, <1>2, <1>3 DEF Allowed, Out, Outcome
<1>6. QED
  BY <1>4, <1>5 DEF Failed, f

LEMMA CreateTryAllowed ==
  ASSUME NEW l \in LandingSync, Orderly(l), NEW stability \in BOOLEAN, NEW i, NEW o,
         l.tries = <<>> \/ Latest(l).status = "complete", stability => HasOrdinary(l),
         NEW r \in CreateTry(l, stability)
  PROVE  Allowed(l, i, o, r)
<1> DEFINE t == [stability |-> stability, status |-> "open", infra |-> FALSE, accept |-> FALSE,
                 waived |-> FALSE, retriggered |-> FALSE, result |-> "none"]
           m == [l EXCEPT !.tries = Append(@, t)]
<1>1. r = Out(m) \/ r = [Out(l) EXCEPT !.again = TRUE]
  BY DEF CreateTry, When
<1>2. t \in Try /\ t.stability = stability
  BY DEF Try
<1> HIDE DEF t
<1>3. m \in LandingSync /\ Same(l, m) /\ m.status = l.status /\ Orderly(m)
  BY <1>2, AppendTry
<1> HIDE DEF m
<1>4. CASE r = Out(m)
  BY <1>3, <1>4, OutAllowed, AllowedTransfer
<1>5. CASE r = [Out(l) EXCEPT !.again = TRUE]
  BY <1>5, OutAllowed
<1>6. QED
  BY <1>1, <1>4, <1>5

LEMMA FirstTryAllowed ==
  ASSUME NEW l \in LandingSync, Orderly(l), l.tries = <<>>, NEW i, NEW o,
         NEW r \in FirstTry(l)
  PROVE  Allowed(l, i, o, r)
<1> DEFINE m == [l EXCEPT !.built = TRUE]
<1>1. m \in LandingSync /\ Same(l, m) /\ m.status = l.status /\ m.tries = l.tries
  BY DEF LandingSync, Same
<1>2. Orderly(m)
  BY <1>1 DEF Orderly, OlderComplete, Tested, HasOrdinary
<1>3. r = Out(l) \/ r \in CreateTry(m, FALSE)
  BY DEF FirstTry, When
<1> HIDE DEF m
<1>4. CASE r = Out(l)
  BY <1>4, OutAllowed
<1>5. CASE r \in CreateTry(m, FALSE)
  BY <1>1, <1>2, <1>5, CreateTryAllowed, AllowedTransfer
<1>6. QED
  BY <1>3, <1>4, <1>5

LEMMA PushToGeckoAllowed ==
  ASSUME NEW l \in LandingSync, Orderly(l), Pushable(l), NEW i, NEW o, NEW r \in PushToGecko(l, i)
  PROVE  Allowed(l, i, o, r)
<1> DEFINE again  == Pushed(i, Len(autoland))
           raised == [Out(l) EXCEPT !.fetch = TRUE]
<1>1. \/ r = raised
      \/ r = [raised EXCEPT !.push = ~again, !.notify = TRUE] /\ (~again => RebaseWorks(l, Len(autoland)))
      \/ r = [raised EXCEPT !.push = ~again] /\ RebaseWorks(l, Len(autoland)) /\ "answer" \in Faults
  BY DEF PushToGecko, When
<1>2. l.status \in {"open", "complete"} /\ Same(l, l)
  BY LandingFields DEF Same
<1>3. again \in BOOLEAN
  BY DEF Pushed
<1> HIDE DEF again
<1>4. /\ r \in Outcome /\ r.landing = l /\ (r.notify => r.push \/ again)
      /\ r.push => ~again /\ SyncPoint(Len(autoland)) = l.tree /\ (r.notify \/ "answer" \in Faults)
  BY <1>1, <1>3 DEF Out, Outcome, RebaseWorks
<1>5. QED
  BY <1>2, <1>4 DEF Allowed, again, Pushable

\* What next_try_push and push_to_gecko take for passed, or an operator accepted.
LEMMA WaivedFacts ==
  ASSUME NEW l \in LandingSync, Orderly(l), l.tries # <<>>, Latest(l).status = "complete"
  PROVE  LET m == Waived(l)
         IN  /\ m \in LandingSync /\ Same(l, m) /\ m.status = l.status /\ m.tries # <<>>
             /\ Orderly(m) /\ Latest(m).status = "complete" /\ PassedTry(Latest(m))
<1> DEFINE t == Latest(l)
           w == t.waived \/ ~IsOk(l)
           u == [t EXCEPT !.waived = w]
<1>1. t \in Try /\ t.status = "complete"
  BY LatestIsTry
<1>2. IsOk(l) => t.accept \/ (t.result \in {"success", "acceptable"} /\ ~t.infra)
  <2> SUFFICES ASSUME IsOk(l), ~t.accept
               PROVE  t.result \in {"success", "acceptable"} /\ ~t.infra
    OBVIOUS
  <2>1. ~t.infra
    <3>1. ASSUME t.infra PROVE TryResult(l) = "builds"
      BY <3>1 DEF TryResult
    <3>2. QED
      BY <3>1 DEF IsOk
  <2>2. CASE t.result = "success"
    BY <2>1, <2>2
  <2>3. CASE t.result # "success"
    <3>1. t.result \notin {"none", "running"}
      BY <2>1 DEF IsOk, TryResult
    <3>2. TryResult(l) = t.result
      BY <2>1, <2>3, <3>1 DEF TryResult
    <3>3. QED
      BY <2>1, <3>2 DEF IsOk
  <2>4. QED
    BY <2>2, <2>3
<1>3. w \in BOOLEAN /\ (~IsOk(l) => w)
  BY <1>1 DEF Try
<1>4. Waived(l) = SetLatest(l, u)
  BY DEF Waived
<1> HIDE DEF t, w
<1>5. /\ u \in Try /\ u.status = t.status /\ u.stability = t.stability /\ u.infra = t.infra
      /\ u.accept = t.accept /\ u.result = t.result /\ u.waived = w
  BY <1>1, <1>3 DEF Try
<1> HIDE DEF u
<1>6. PassedTry(u) /\ u.status = "complete" /\ AsGood(t, u)
  BY <1>1, <1>2, <1>3, <1>5 DEF PassedTry, AsGood
<1>7. QED
  BY <1>4, <1>5, <1>6, SetLatestFacts DEF t

LEMMA AdvanceAllowed ==
  ASSUME NEW l \in LandingSync, Orderly(l), l.tries # <<>>, Latest(l).status = "complete",
         PassedTry(Latest(l)), NEW i, NEW o \in Opt, NEW r \in Advance(l, i, o)
  PROVE  Allowed(l, i, o, r)
<1>1. (~Latest(l).infra) \in BOOLEAN
  OBVIOUS
<1>a. ~Latest(l).stability => HasOrdinary(l)
  BY LatestIsTry DEF HasOrdinary
<1>2. \/ r = Failed(l)
      \/ r \in CreateTry(l, ~Latest(l).infra) /\ ~Latest(l).stability
      \/ r \in PushToGecko(l, i) /\ Latest(l).stability
      \/ ~o.push /\ r = [Out(l) EXCEPT !.notify = TRUE]
  BY DEF Advance, When
<1>3. CASE r = Failed(l)
  BY <1>3, OutAllowed
<1>4. CASE r \in CreateTry(l, ~Latest(l).infra) /\ ~Latest(l).stability
  BY <1>1, <1>4, <1>a, CreateTryAllowed
<1>5. CASE r \in PushToGecko(l, i) /\ Latest(l).stability
  BY <1>5, PushToGeckoAllowed DEF Pushable
<1>6. CASE ~o.push /\ r = [Out(l) EXCEPT !.notify = TRUE]
  BY <1>6, OutAllowed DEF Allowed, Out, Outcome
<1>7. QED
  BY <1>2, <1>3, <1>4, <1>5, <1>6

LEMMA RetryAllowed ==
  ASSUME NEW l \in LandingSync, Orderly(l), l.tries # <<>>, NEW i, NEW o, NEW r \in Retry(l)
  PROVE  Allowed(l, i, o, r)
<1>1. r = Failed(l) \/ r \in CreateTry(Close(l), Latest(l).stability)
  BY DEF Retry, When
<1>2. Latest(l).stability \in BOOLEAN /\ (Latest(l).stability => HasOrdinary(Close(l)))
  <2>1. Latest(l).stability \in BOOLEAN
    BY LatestIsTry DEF Try
  <2>2. /\ Close(l) \in LandingSync /\ Close(l).tries # <<>> /\ Orderly(Close(l))
        /\ Latest(Close(l)).stability = Latest(l).stability
    BY CloseFacts
  <2>3. /\ Len(Close(l).tries) \in 1..Len(Close(l).tries)
        /\ Latest(Close(l)) = Close(l).tries[Len(Close(l).tries)]
    BY <2>2, LatestIsTry
  <2>4. QED
    BY <2>1, <2>2, <2>3 DEF Orderly, Tested
<1>3. CASE r = Failed(l)
  BY <1>3, OutAllowed
<1>4. CASE r \in CreateTry(Close(l), Latest(l).stability)
  BY <1>2, <1>4, CloseFacts, CreateTryAllowed, AllowedTransfer
<1>5. QED
  BY <1>1, <1>3, <1>4

LEMMA UpdateAllowed ==
  ASSUME NEW l \in LandingSync, Orderly(l), NEW i, NEW o \in Opt, NEW r \in Update(l, i, o)
  PROVE  Allowed(l, i, o, r)
<1>1. \/ Pushed(i, local.central) /\ r = Out(Finish(l))
      \/ r = Out(l)
      \/ l.tries = <<>> /\ r \in FirstTry(l)
      \/ l.tries # <<>> /\ r \in Retry(l)
      \/ l.tries # <<>> /\ Latest(l).status = "complete" /\ r \in Advance(Waived(l), i, o)
  BY DEF Update
<1>2. CASE Pushed(i, local.central) /\ r = Out(Finish(l))
  <2>1. /\ Finish(l) \in LandingSync /\ Finish(l).status = "complete"
        /\ Same(l, Finish(l)) /\ Finish(l).tries = l.tries
    BY DEF Finish, LandingSync, Same
  <2>2. Orderly(Finish(l))
    BY <2>1 DEF Orderly, OlderComplete, Tested, HasOrdinary
  <2>3. QED
    BY <1>2, <2>1, <2>2 DEF Allowed, Out, Outcome
<1>3. CASE l.tries # <<>> /\ Latest(l).status = "complete" /\ r \in Advance(Waived(l), i, o)
  BY <1>3, WaivedFacts, AdvanceAllowed, AllowedTransfer
<1>4. QED
  BY <1>1, <1>2, <1>3, OutAllowed, FirstTryAllowed, RetryAllowed

LEMMA TryPushCompleteAllowed ==
  ASSUME NEW l0 \in LandingSync, Orderly(l0), l0.tries # <<>>, NEW i, NEW o \in Opt,
         NEW r \in TryPushComplete(l0, i, o)
  PROVE  Allowed(l0, i, o, r)
<1> DEFINE t    == [Latest(l0) EXCEPT !.accept = @ \/ o.accept]
           l    == SetLatest(l0, t)
           inf  == SetLatest(l, [t EXCEPT !.infra = TRUE])
           rerun == SetLatest(l, [t EXCEPT !.retriggered = TRUE, !.result = "running"])
           d    == [Default EXCEPT !.push = o.push]
<1>0. CASE Latest(l0).status # "open"
  <2>1. r = Out(l0)
    BY <1>0, LatestIsTry DEF TryPushComplete, Try
  <2>2. QED
    BY <2>1, OutAllowed
<1>o. SUFFICES ASSUME Latest(l0).status = "open" PROVE Allowed(l0, i, o, r)
  BY <1>0
<1>1. /\ Latest(l0) \in Try /\ o.accept \in BOOLEAN /\ o.push \in BOOLEAN
  BY LatestIsTry DEF Opt
<1>2. /\ t \in Try /\ [t EXCEPT !.infra = TRUE] \in Try
      /\ [t EXCEPT !.retriggered = TRUE, !.result = "running"] \in Try
      /\ AsGood(Latest(l0), t) /\ AsGood(t, [t EXCEPT !.infra = TRUE])
      /\ AsGood(t, [t EXCEPT !.retriggered = TRUE, !.result = "running"])
  BY <1>1, <1>o DEF Try, AsGood, PassedTry
<1>3. d \in Opt /\ d.push = o.push
  BY <1>1 DEF Opt, Default
<1>4. \/ r \in {Out(l0), Out(l), Failed(inf), Failed(l), Failed(Close(l)), Out(rerun)}
      \/ r \in Update(Close(l), i, d)
  BY DEF TryPushComplete
<1> HIDE DEF t, d
<1>5. /\ l \in LandingSync /\ Same(l0, l) /\ l.status = l0.status /\ l.tries # <<>>
      /\ Orderly(l) /\ Latest(l) = t
  BY <1>2, SetLatestFacts
<1> HIDE DEF l
<1>6. /\ inf \in LandingSync /\ Same(l, inf) /\ inf.status = l.status /\ Orderly(inf)
      /\ rerun \in LandingSync /\ Same(l, rerun) /\ rerun.status = l.status
      /\ Orderly(rerun)
  BY <1>2, <1>5, SetLatestFacts
<1>7. /\ Close(l) \in LandingSync /\ Same(l, Close(l)) /\ Close(l).status = l.status
      /\ Orderly(Close(l))
  BY <1>5, CloseFacts
<1> HIDE DEF inf, rerun
<1>8. \A m \in {l0, l, inf, rerun, Close(l)} :
        m \in LandingSync /\ Same(l0, m) /\ m.status = l0.status /\ Orderly(m)
  BY <1>5, <1>6, <1>7 DEF Same
<1>9. \A m \in {l0, l, inf, rerun, Close(l)} :
        Allowed(l0, i, o, Out(m)) /\ Allowed(l0, i, o, Failed(m))
  BY <1>8, OutAllowed, AllowedTransfer
<1>10. CASE r \in Update(Close(l), i, d)
  <2>1. Allowed(Close(l), i, d, r)
    BY <1>3, <1>7, <1>10, UpdateAllowed
  <2>2. Allowed(Close(l), i, o, r)
    BY <2>1, <1>3 DEF Allowed
  <2>3. QED
    BY <2>2, <1>8, AllowedTransfer
<1>11. QED
  BY <1>4, <1>9, <1>10

-----------------------------------------------------------------------------
(* Types of what the state is read through. *)

LEMMA SyncPointType ==
  ASSUME landings \in Seq(LandingSync), NEW n
  PROVE  SyncPoint(n) \in 0..N
<1>1. CASE Top(Live(n)) = {}
  BY <1>1, BoundAssumption DEF SyncPoint
<1>2. CASE Top(Live(n)) # {}
  <2>1. PICK i \in Top(Live(n)) : i = CHOOSE j \in Top(Live(n)) : TRUE
    BY <1>2
  <2>2. i \in 1..Len(landings)
    BY DEF Top, Live
  <2>3. landings[i] \in LandingSync
    BY <2>2, ElementOfSeq
  <2>4. QED
    BY <1>2, <2>1, <2>3 DEF SyncPoint, LandingSync
<1>3. QED
  BY <1>1, <1>2

LEMMA LandableHeadType ==
  ASSUME NEW prev \in 0..N
  PROVE  LandableHead(prev) \in 0..N
BY DEF LandableHead, Top, Rng, PR

-----------------------------------------------------------------------------
(***************************************************************************)
(* The inductive invariant.                                                *)
(***************************************************************************)
PushAllowed == \A opt \in Options : opt.push
Calm        == Command = {} /\ ~LateBackouts /\ NoBug = {}
Reliable    == NoBug = {} /\ Faults \cap {"answer", "crash"} = {}

Prs(i)   == Rng(landings[i].base, landings[i].head)
PrsOf(S) == UNION {Prs(i) : i \in S}
UpTo(i, n) == {j \in Live(n) : j <= i}
Waits(p) == pc[p] = "update" /\ cur[p] = 0   \* it is about to create a landing
Told(i)  == \E p \in Proc : pc[p] = "notify" /\ cur[p] = i

CurExists ==       \* a process works on a landing that exists
  \A p \in Proc : cur[p] \in 0..Len(landings) /\ (pc[p] = "notify" => cur[p] # 0)
AutolandKnown ==   \* and so does autoland
  \A k \in 1..Len(autoland) : autoland[k].of \in 1..Len(landings)
RefsBehind ==      \* the local refs are not ahead of the remote
  local.central <= central /\ local.central <= local.autoland /\ local.autoland <= Len(autoland)
BackoutsSeen ==    \* what the local ref of central has was backed out before, if ever
  ~LateBackouts => \A i \in 1..Len(landings) :
    Pushed(i, local.central) /\ BackedOut(i, Len(autoland)) => BackedOut(i, local.autoland)
NotifyPushed ==    \* notify_downstream with landing_is_complete follows a push
  PushAllowed => \A p \in Proc : pc[p] = "notify" => Pushed(cur[p], Len(autoland))
DonePushed ==      \* DoneWasPushed, when no command is run with --no-push
  PushAllowed => \A n \in done : \E i \in 1..Len(landings) :
    n \in Prs(i) /\ Pushed(i, Len(autoland))
CompleteSeen ==    \* a complete landing is on central, if every sync has a bug
  NoBug = {} => \A i \in 1..Len(landings) :
    landings[i].status = "complete" => Pushed(i, local.central)
AllOrderly ==      \* OlderTriesComplete, and what PushedWasTested asks of the try pushes
  \A i \in 1..Len(landings) : Orderly(landings[i])
Alone ==           \* without commands nothing creates a landing behind the worker's back
  Command = {} => Open \subseteq {Len(landings)} /\ (Waits(Worker) => Open = {})
Informed ==        \* the process that pushes a landing notifies downstream before the next call
  Reliable => \A i \in 1..Len(landings) :
    /\ Pushed(i, Len(autoland)) => Prs(i) \subseteq done \/ Told(i)
    /\ landings[i].status = "complete" => Prs(i) \subseteq done
Based ==           \* a landing continues from the sync point of the tree it is made for
  Calm => \A i \in 1..Len(landings) :
    landings[i].base = landings[i].tree /\ landings[i].base <= landings[i].head
ReadIsRight ==     \* the sync point the worker has read is still that of the tree
  Calm /\ Waits(Worker) => sp[Worker] = SyncPoint(Len(autoland))
Stacked ==         \* each landing in the tree adds to what is below it
  Calm => \A n \in 0..Len(autoland) : \A i \in Live(n) :
    PrsOf(UpTo(i, n)) = Rng(0, landings[i].head)

LandingInv ==
  /\ TypeOK
  /\ CurExists
  /\ AutolandKnown
  /\ RefsBehind
  /\ BackoutsSeen
  /\ NotifyPushed
  /\ DonePushed
  /\ CompleteSeen
  /\ AllOrderly
  /\ Alone
  /\ Informed
  /\ Based
  /\ ReadIsRight
  /\ Stacked

(***************************************************************************)
(* What is asked of a step to keep it.                                     *)
(***************************************************************************)
Justified(e) ==   \* e may be appended to autoland
  /\ e \in Push /\ e.of \in 1..Len(landings)
  /\ e.kind = "landing" =>
       /\ Pushable(landings'[e.of]) /\ ~Pushed(e.of, Len(autoland))
       /\ SyncPoint(Len(autoland)) = landings[e.of].tree
       /\ "answer" \in Faults \/ \E p \in Proc : pc'[p] = "notify" /\ cur'[p] = e.of
  /\ e.kind = "backout" =>
       e.of \in Top(Live(Len(autoland))) /\ (LateBackouts \/ ~Pushed(e.of, central))
Grows == autoland' = autoland \/ \E e \in Push : Justified(e) /\ autoland' = Append(autoland, e)

Stays(p) == pc'[p] = pc[p] /\ cur'[p] = cur[p]
Nobody   == \A q \in Proc : pc[q] # "notify"   \* LockFree, for the one that asks too

MayComplete ==
  NoBug = {} => \A i \in 1..Len(landings') : landings'[i].status = "complete" =>
    \/ i <= Len(landings) /\ landings[i].status = "complete"
    \/ Pushed(i, local'.central) /\ Nobody
MayCreate ==
  \A i \in 1..Len(landings') : i > Len(landings) =>
    /\ landings'[i].tree = SyncPoint(Len(autoland))
    /\ \E p \in Proc : Waits(p) /\ landings'[i].base = sp[p] /\ landings'[i].head >= sp[p]
MayRead ==
  Waits(Worker)' =>
    \/ Waits(Worker) /\ sp'[Worker] = sp[Worker]
    \/ Open = {} /\ sp'[Worker] = SyncPoint(local.autoland) /\ UNCHANGED <<landings, autoland, local>>
MayNotify ==
  PushAllowed => \A p \in Proc : pc'[p] = "notify" =>
    (pc[p] = "notify" /\ cur'[p] = cur[p]) \/ Pushed(cur[p], Len(autoland))'
MayLeave ==
  \A p \in Proc : pc[p] = "notify" =>
    Stays(p) \/ "crash" \in Faults \/ (NoBug = {} => Prs(cur[p]) \subseteq done')
MayFinish ==
  PushAllowed => \A n \in done' : n \in done \/ \E i \in 1..Len(landings) :
    n \in Prs(i) /\ Pushed(i, Len(autoland))
Keeps ==
  /\ TypeOK' /\ CurExists' /\ AllOrderly' /\ Alone'
  /\ Grows /\ central' >= central /\ local' \in {local, Fetched} /\ done \subseteq done'
  /\ Len(landings') >= Len(landings)
  /\ \A i \in 1..Len(landings) : Same(landings[i], landings'[i])
  /\ MayComplete /\ MayCreate /\ MayRead /\ MayNotify /\ MayLeave /\ MayFinish

-----------------------------------------------------------------------------
(* What such a step leaves of what there was. *)

\* The numbers that all of this is about.
LEMMA Lengths ==
  ASSUME LandingInv
  PROVE  /\ autoland \in Seq(Push) /\ Len(autoland) \in Nat /\ central \in 0..Len(autoland)
         /\ landings \in Seq(LandingSync) /\ Len(landings) \in Nat
         /\ \A i \in 1..Len(landings) : landings[i] \in LandingSync
         /\ local.central \in 0..Len(autoland) /\ local.autoland \in 0..Len(autoland)
         /\ local.central <= central /\ local.central <= local.autoland
<1>1. /\ autoland \in Seq(Push) /\ central \in 0..Len(autoland) /\ landings \in Seq(LandingSync)
      /\ local.central \in Nat /\ local.autoland \in Nat
  BY DEF LandingInv, TypeOK, Repo
<1>2. Len(autoland) \in Nat /\ Len(landings) \in Nat
  BY <1>1, LenProperties
<1>3. QED
  BY <1>1, <1>2, ElementOfSeq DEF LandingInv, RefsBehind

\* Autoland only grows, by one commit at most.
LEMMA HistoryStays ==
  ASSUME LandingInv, Grows
  PROVE  /\ Len(autoland') \in {Len(autoland), Len(autoland) + 1}
         /\ \A k \in 1..Len(autoland) : autoland'[k] = autoland[k]
         /\ autoland' # autoland => Justified(autoland'[Len(autoland) + 1])
         /\ Len(autoland') = Len(autoland) => autoland' = autoland
<1>1. autoland \in Seq(Push) /\ Len(autoland) \in Nat
  BY Lengths
<1>2. CASE autoland' = autoland
  BY <1>1, <1>2
<1>3. ASSUME NEW e \in Push, Justified(e), autoland' = Append(autoland, e)
      PROVE  /\ Len(autoland') = Len(autoland) + 1 /\ autoland'[Len(autoland) + 1] = e
             /\ \A k \in 1..Len(autoland) : autoland'[k] = autoland[k]
  BY <1>1, <1>3, AppendProperties
<1>4. QED
  BY <1>1, <1>2, <1>3 DEF Grows

\* What the first n commits do, they do ever after.
LEMMA PushedStays ==
  ASSUME LandingInv, Grows, NEW n \in 0..Len(autoland)
  PROVE  \A i : /\ Pushed(i, n)' <=> Pushed(i, n)
                /\ BackedOut(i, n)' <=> BackedOut(i, n)
<1>1. \A k \in 1..n : autoland'[k] = autoland[k]
  BY Lengths, HistoryStays
<1>2. QED
  BY <1>1 DEF Pushed, BackedOut

LEMMA PushedMore ==
  ASSUME NEW i, NEW n \in Nat, NEW m \in Nat, n <= m
  PROVE  (Pushed(i, n) => Pushed(i, m)) /\ (BackedOut(i, n) => BackedOut(i, m))
BY DEF Pushed, BackedOut

\* What the first n commits name are landings that exist.
LEMMA PushedExists ==
  ASSUME LandingInv, NEW n \in 0..Len(autoland), NEW i, Pushed(i, n) \/ BackedOut(i, n)
  PROVE  i \in 1..Len(landings)
<1>1. PICK k \in 1..n : autoland[k].of = i
  BY DEF Pushed, BackedOut
<1>2. k \in 1..Len(autoland)
  BY Lengths
<1>3. QED
  BY <1>1, <1>2 DEF LandingInv, AutolandKnown

LEMMA PrsStay ==
  ASSUME LandingInv, Keeps, NEW i \in 1..Len(landings)
  PROVE  /\ Prs(i)' = Prs(i) /\ landings'[i].head = landings[i].head
         /\ landings'[i].base = landings[i].base /\ landings'[i].tree = landings[i].tree
         /\ i \in 1..Len(landings')
BY Lengths DEF Keeps, Same, Prs, Rng

LEMMA LiveStays ==
  ASSUME LandingInv, Keeps, NEW n \in 0..Len(autoland)
  PROVE  /\ Live(n)' = Live(n) /\ SyncPoint(n)' = SyncPoint(n)
         /\ Live(n) \subseteq 1..Len(landings)
<1>1. \A i : /\ Pushed(i, n)' <=> Pushed(i, n)
             /\ BackedOut(i, n)' <=> BackedOut(i, n)
  BY PushedStays DEF Keeps
<1>2. \A i \in 1..Len(landings') : Pushed(i, n) => i \in 1..Len(landings)
  BY PushedExists
<1>3. \A i \in 1..Len(landings) : i \in 1..Len(landings')
  BY PrsStay
<1>4. Live(n)' = Live(n)
  BY <1>1, <1>2, <1>3 DEF Live
<1>5. Live(n) \subseteq 1..Len(landings)
  BY DEF Live
<1>6. Top(Live(n)) \subseteq 1..Len(landings) /\ Top(Live(n))' = Top(Live(n))
  BY <1>4, <1>5 DEF Top
<1>7. CASE Top(Live(n)) = {}
  BY <1>4, <1>5, <1>6, <1>7 DEF SyncPoint
<1>8. CASE Top(Live(n)) # {}
  <2>1. PICK i \in Top(Live(n)) : i = CHOOSE j \in Top(Live(n)) : TRUE
    BY <1>8
  <2>2. SyncPoint(n) = landings[i].head
    BY <1>8, <2>1 DEF SyncPoint
  <2>3. SyncPoint(n)' = landings'[i].head
    BY <1>6, <1>8, <2>1 DEF SyncPoint
  <2>4. QED
    BY <1>4, <1>5, <1>6, <2>2, <2>3, PrsStay
<1>9. QED
  BY <1>4, <1>5, <1>7, <1>8

-----------------------------------------------------------------------------
(* A step that is as asked keeps the invariant, one conjunct at a time. *)

LEMMA AutolandKept == LandingInv /\ Keeps => AutolandKnown' /\ RefsBehind'
<1> SUFFICES ASSUME LandingInv, Keeps PROVE AutolandKnown' /\ RefsBehind'
  OBVIOUS
<1>1. /\ Len(autoland') \in {Len(autoland), Len(autoland) + 1}
      /\ \A k \in 1..Len(autoland) : autoland'[k] = autoland[k]
      /\ autoland' # autoland => Justified(autoland'[Len(autoland) + 1])
  BY HistoryStays DEF Keeps
<1>2. Len(landings') >= Len(landings) /\ Len(landings) \in Nat /\ Len(landings') \in Nat
  BY Lengths, LenProperties DEF Keeps, TypeOK
<1>3. AutolandKnown'
  <2> SUFFICES ASSUME NEW k \in 1..Len(autoland') PROVE autoland'[k].of \in 1..Len(landings')
    BY DEF AutolandKnown
  <2>1. CASE k \in 1..Len(autoland)
    BY <1>1, <1>2, <2>1 DEF LandingInv, AutolandKnown
  <2>2. CASE k = Len(autoland) + 1 /\ autoland' # autoland
    BY <1>1, <1>2, <2>2 DEF Justified
  <2>3. QED
    BY <1>1, <2>1, <2>2, Lengths
<1>4. RefsBehind'
  <2>1. central' >= central /\ local' \in {local, Fetched} /\ central' \in Nat
    BY LenProperties DEF Keeps, TypeOK
  <2>2. CASE local' = local
    BY <1>1, <2>1, <2>2, Lengths DEF RefsBehind
  <2>3. CASE local' = Fetched
    BY <1>1, <2>1, <2>3, Lengths DEF RefsBehind, Fetched
  <2>4. QED
    BY <2>1, <2>2, <2>3
<1>5. QED
  BY <1>3, <1>4

\* What the local refs have after the step was there before it.
LEMMA LocalRefs ==
  ASSUME LandingInv, Keeps
  PROVE  /\ local'.central \in 0..Len(autoland) /\ local'.autoland \in 0..Len(autoland)
         /\ local'.central <= central /\ local.central <= local'.central
BY Lengths DEF Keeps, Fetched

LEMMA BackoutsKept == LandingInv /\ Keeps => BackoutsSeen'
<1> SUFFICES ASSUME LandingInv, Keeps, ~LateBackouts, NEW i \in 1..Len(landings'),
                    Pushed(i, local.central)', BackedOut(i, Len(autoland))'
             PROVE  BackedOut(i, local.autoland)'
  BY DEF BackoutsSeen
<1>1. /\ local'.central \in 0..Len(autoland) /\ local'.autoland \in 0..Len(autoland)
      /\ local'.central <= central
  BY LocalRefs
<1>2. Pushed(i, local'.central) /\ i \in 1..Len(landings)
  <2>1. Pushed(i, local'.central)
    BY <1>1, PushedStays DEF Keeps, Pushed
  <2>2. QED
    BY <1>1, <2>1, PushedExists
<1>3. Pushed(i, central)
  BY <1>1, <1>2, Lengths, PushedMore
<1>4. BackedOut(i, Len(autoland))
  <2>1. PICK k \in 1..Len(autoland') : autoland'[k].kind = "backout" /\ autoland'[k].of = i
    BY DEF BackedOut
  <2>2. CASE k \in 1..Len(autoland)
    BY <2>1, <2>2, HistoryStays DEF BackedOut, Keeps
  <2>3. CASE k = Len(autoland) + 1 /\ autoland' # autoland
    BY <1>3, <2>1, <2>3, HistoryStays DEF Keeps, Justified
  <2>4. QED
    BY <2>1, <2>2, <2>3, HistoryStays, Lengths DEF Keeps
<1>5. BackedOut(i, local'.autoland)
  <2>1. CASE local' = local
    BY <1>2, <1>4, <2>1 DEF LandingInv, BackoutsSeen
  <2>2. CASE local' = Fetched
    BY <1>4, <2>2 DEF Fetched
  <2>3. QED
    BY <2>1, <2>2 DEF Keeps
<1>6. QED
  BY <1>1, <1>5, PushedStays DEF Keeps, BackedOut

LEMMA PushesKept == LandingInv /\ Keeps => NotifyPushed' /\ DonePushed' /\ CompleteSeen'
<1> SUFFICES ASSUME LandingInv, Keeps PROVE NotifyPushed' /\ DonePushed' /\ CompleteSeen'
  OBVIOUS
<1>1. \A i : Pushed(i, Len(autoland)) => Pushed(i, Len(autoland))'
  <2>1. /\ Len(autoland) \in Nat /\ Len(autoland') \in Nat /\ Len(autoland) <= Len(autoland')
        /\ \A k \in 1..Len(autoland) : autoland'[k] = autoland[k]
    BY Lengths, HistoryStays DEF Keeps
  <2>2. QED
    BY <2>1 DEF Pushed
<1>2. NotifyPushed'
  <2> SUFFICES ASSUME PushAllowed, NEW p \in Proc, pc'[p] = "notify"
               PROVE  Pushed(cur[p], Len(autoland))'
    BY DEF NotifyPushed, PushAllowed, Proc
  <2>1. CASE pc[p] = "notify" /\ cur'[p] = cur[p]
    BY <1>1, <2>1 DEF LandingInv, NotifyPushed, Pushed
  <2>2. QED
    BY <2>1 DEF Keeps, MayNotify
<1>3. DonePushed'
  <2> SUFFICES ASSUME PushAllowed, NEW n \in done'
               PROVE  \E i \in 1..Len(landings') : n \in Prs(i)' /\ Pushed(i, Len(autoland))'
    BY DEF DonePushed, PushAllowed
  <2>1. PICK i \in 1..Len(landings) : n \in Prs(i) /\ Pushed(i, Len(autoland))
    BY DEF Keeps, MayFinish, LandingInv, DonePushed
  <2>2. QED
    BY <1>1, <2>1, PrsStay
<1>4. CompleteSeen'
  <2> SUFFICES ASSUME NoBug = {}, NEW i \in 1..Len(landings'), landings'[i].status = "complete"
               PROVE  Pushed(i, local.central)'
    BY DEF CompleteSeen
  <2>1. Pushed(i, local'.central)
    <3>1. CASE i <= Len(landings) /\ landings[i].status = "complete"
      <4>1. Pushed(i, local.central)
        BY <3>1, Lengths DEF LandingInv, CompleteSeen
      <4>2. QED
        BY <4>1, LocalRefs, Lengths, PushedMore
    <3>2. QED
      BY <3>1 DEF Keeps, MayComplete
  <2>2. QED
    BY <2>1, LocalRefs, PushedStays DEF Keeps, Pushed
<1>5. QED
  BY <1>2, <1>3, <1>4

\* A landing that is pushed in the step was there, and who pushed it notifies downstream.
LEMMA InformedKept == LandingInv /\ Keeps => Informed'
<1> SUFFICES ASSUME LandingInv, Keeps, Reliable, NEW i \in 1..Len(landings')
             PROVE  /\ Pushed(i, Len(autoland))' => Prs(i)' \subseteq done' \/ Told(i)'
                    /\ landings'[i].status = "complete" => Prs(i)' \subseteq done'
  BY DEF Informed, Reliable
<1>1. NoBug = {} /\ "crash" \notin Faults /\ "answer" \notin Faults
  BY DEF Reliable
<1>2. done \subseteq done'
  BY DEF Keeps
<1>3. ASSUME i \in 1..Len(landings), Pushed(i, Len(autoland))
      PROVE  Prs(i)' \subseteq done' \/ Told(i)'
  <2>1. Prs(i)' = Prs(i)
    BY <1>3, PrsStay
  <2>2. CASE Prs(i) \subseteq done
    BY <1>2, <2>1, <2>2
  <2>3. ASSUME NEW p \in Proc, pc[p] = "notify", cur[p] = i
        PROVE  Prs(i)' \subseteq done' \/ Told(i)'
    <3>1. Stays(p) \/ Prs(i) \subseteq done'
      BY <1>1, <2>3 DEF Keeps, MayLeave
    <3>2. CASE Stays(p)
      BY <2>3, <3>2 DEF Stays, Told, Proc
    <3>3. QED
      BY <2>1, <3>1, <3>2
  <2>4. QED
    BY <1>3, <2>2, <2>3 DEF LandingInv, Informed, Told
<1>4. ASSUME Pushed(i, Len(autoland))' PROVE Prs(i)' \subseteq done' \/ Told(i)'
  <2>1. PICK k \in 1..Len(autoland') : autoland'[k].kind = "landing" /\ autoland'[k].of = i
    BY <1>4 DEF Pushed
  <2>2. CASE k \in 1..Len(autoland)
    <3>1. Pushed(i, Len(autoland))
      BY <2>1, <2>2, HistoryStays DEF Pushed, Keeps
    <3>2. QED
      BY <1>3, <3>1, PushedExists, Lengths
  <2>3. CASE k = Len(autoland) + 1 /\ autoland' # autoland
    <3>1. Justified(autoland'[k])
      BY <2>3, HistoryStays DEF Keeps
    <3>2. QED
      BY <1>1, <2>1, <3>1 DEF Justified, Told
  <2>4. QED
    BY <2>1, <2>2, <2>3, HistoryStays, Lengths DEF Keeps
<1>5. ASSUME landings'[i].status = "complete" PROVE Prs(i)' \subseteq done'
  <2>1. CASE i <= Len(landings) /\ landings[i].status = "complete"
    <3>1. i \in 1..Len(landings)
      BY <2>1, Lengths
    <3>2. Prs(i) \subseteq done
      BY <2>1, <3>1 DEF LandingInv, Informed
    <3>3. QED
      BY <1>2, <3>1, <3>2, PrsStay
  <2>2. CASE Pushed(i, local'.central) /\ Nobody
    <3>1. Pushed(i, Len(autoland)) /\ i \in 1..Len(landings)
      BY <2>2, LocalRefs, Lengths, PushedMore, PushedExists
    <3>2. ~Told(i)
      BY <2>2 DEF Told, Nobody
    <3>3. Prs(i) \subseteq done
      BY <3>1, <3>2 DEF LandingInv, Informed
    <3>4. QED
      BY <1>2, <3>1, <3>3, PrsStay
  <2>3. QED
    BY <1>1, <1>5, <2>1, <2>2 DEF Keeps, MayComplete
<1>6. QED
  BY <1>4, <1>5

LEMMA BasedKept == LandingInv /\ Keeps => Based'
<1> SUFFICES ASSUME LandingInv, Keeps, Calm, NEW i \in 1..Len(landings')
             PROVE  landings'[i].base = landings'[i].tree /\ landings'[i].base <= landings'[i].head
  BY DEF Based, Calm
<1>1. CASE i \in 1..Len(landings)
  BY <1>1, PrsStay DEF LandingInv, Based
<1>2. CASE i > Len(landings)
  <2>1. landings'[i].tree = SyncPoint(Len(autoland))
    BY <1>2 DEF Keeps, MayCreate
  <2>2. PICK p \in Proc : Waits(p) /\ landings'[i].base = sp[p] /\ landings'[i].head >= sp[p]
    BY <1>2 DEF Keeps, MayCreate
  <2>3. p = Worker
    BY DEF Calm, Proc
  <2>4. sp[p] = SyncPoint(Len(autoland)) /\ sp[p] \in Nat /\ landings'[i].head \in Nat
    <3>1. landings' \in Seq(LandingSync) /\ sp \in [Proc -> 0..N]
      BY DEF Keeps, LandingInv, TypeOK
    <3>2. landings'[i] \in LandingSync
      BY <3>1, ElementOfSeq
    <3>3. QED
      BY <2>2, <2>3, <3>1, <3>2, LandingFields, BoundAssumption DEF LandingInv, ReadIsRight
  <2>5. QED
    BY <2>1, <2>2, <2>4
<1>3. QED
  BY <1>1, <1>2, Lengths

\* If all landings are complete nothing may be appended to autoland.
LEMMA NothingMoves ==
  ASSUME LandingInv, Keeps, Calm, Open = {}
  PROVE  /\ autoland' = autoland
         /\ \A i \in 1..Len(landings) : Pushed(i, local.central)
<1>1. \A i \in 1..Len(landings) : landings[i].status = "complete"
  BY Lengths, LandingFields DEF Open
<1>2. \A i \in 1..Len(landings) : Pushed(i, local.central)
  BY <1>1 DEF LandingInv, CompleteSeen, Calm
<1>3. ASSUME NEW e, Justified(e) PROVE FALSE
  <2>1. Pushed(e.of, central) /\ Pushed(e.of, Len(autoland))
    BY <1>2, <1>3, Lengths, PushedMore DEF Justified
  <2>2. e.kind \in {"landing", "backout"}
    BY <1>3 DEF Justified, Push
  <2>3. QED
    BY <1>3, <2>1, <2>2 DEF Justified, Calm
<1>4. QED
  BY <1>2, <1>3 DEF Keeps, Grows

LEMMA ReadKept == LandingInv /\ Keeps => ReadIsRight'
<1> SUFFICES ASSUME LandingInv, Keeps, Calm, Waits(Worker)'
             PROVE  sp'[Worker] = SyncPoint(Len(autoland))'
  BY DEF ReadIsRight, Calm
<1>1. SyncPoint(Len(autoland))' = SyncPoint(Len(autoland)) \/ autoland' # autoland
  <2>1. PICK n \in 0..Len(autoland) : n = Len(autoland)
    BY Lengths
  <2>2. SyncPoint(n)' = SyncPoint(n)
    BY LiveStays
  <2>3. autoland' = autoland => SyncPoint(Len(autoland))' = SyncPoint(n)'
    BY <2>1 DEF SyncPoint, Live, Pushed, BackedOut
  <2>4. QED
    BY <2>1, <2>2, <2>3
<1>2. CASE Waits(Worker) /\ sp'[Worker] = sp[Worker]
  BY <1>1, <1>2, NothingMoves DEF LandingInv, Alone, ReadIsRight, Calm
<1>3. CASE /\ Open = {} /\ sp'[Worker] = SyncPoint(local.autoland)
           /\ UNCHANGED <<landings, autoland, local>>
  <2>1. \A i \in 1..Len(landings) : Pushed(i, local.central)
    BY <1>3, NothingMoves
  <2>2. \A i \in 1..Len(landings) : Pushed(i, local.autoland) /\ Pushed(i, Len(autoland))
    BY <2>1, Lengths, PushedMore
  <2>3. \A i \in 1..Len(landings) : BackedOut(i, local.autoland) <=> BackedOut(i, Len(autoland))
    BY <2>1, Lengths, PushedMore DEF LandingInv, BackoutsSeen, Calm
  <2>4. Live(local.autoland) = Live(Len(autoland))
    BY <2>2, <2>3 DEF Live
  <2>5. QED
    BY <1>1, <1>3, <2>4 DEF SyncPoint
<1>4. QED
  BY <1>2, <1>3 DEF Keeps, MayRead

LEMMA Highest ==
  ASSUME NEW m \in Nat, NEW S, S \subseteq 1..m, S # {}
  PROVE  Top(S) # {}
<1> DEFINE T == {m - x : x \in S}
<1>1. T \subseteq Nat /\ T # {}
  <2>1. \A x \in S : m - x \in Nat
    OBVIOUS
  <2>2. QED
    BY <2>1
<1>2. PICK t \in T : \A u \in T : <<u, t>> \notin OpToRel(<, Nat)
  BY <1>1, NatLessThanWellFounded, WFMin
<1>3. PICK x \in S : t = m - x
  OBVIOUS
<1>4. ASSUME NEW y \in S PROVE y <= x
  <2>1. m - y \in T
    OBVIOUS
  <2>2. ~(m - y < m - x)
    BY <1>1, <1>2, <1>3, <2>1 DEF OpToRel
  <2>3. QED
    BY <2>2
<1>5. QED
  BY <1>4 DEF Top

\* All that is in the tree is what the last landing there is stacked on.
LEMMA TreeIsSyncPoint ==
  ASSUME LandingInv, Calm, NEW n \in 0..Len(autoland)
  PROVE  PrsOf(Live(n)) = Rng(0, SyncPoint(n))
<1>1. Live(n) \subseteq 1..Len(landings) /\ Len(landings) \in Nat
  BY Lengths DEF Live
<1>2. CASE Live(n) = {}
  <2>1. PrsOf(Live(n)) = {}
    BY <1>2 DEF PrsOf
  <2>2. SyncPoint(n) = 0
    BY <1>2 DEF SyncPoint, Top
  <2>3. QED
    BY <2>1, <2>2, BoundAssumption DEF Rng, PR
<1>3. CASE Live(n) # {}
  <2>1. Top(Live(n)) # {}
    BY <1>1, <1>3, Highest
  <2>2. PICK i \in Top(Live(n)) : i = CHOOSE j \in Top(Live(n)) : TRUE
    BY <2>1
  <2>3. SyncPoint(n) = landings[i].head
    BY <2>1, <2>2 DEF SyncPoint
  <2>4. i \in Live(n) /\ UpTo(i, n) = Live(n)
    BY DEF Top, UpTo
  <2>5. PrsOf(UpTo(i, n)) = Rng(0, landings[i].head)
    BY <2>4 DEF LandingInv, Stacked
  <2>6. QED
    BY <2>3, <2>4, <2>5
<1>4. QED
  BY <1>2, <1>3

\* The last commit of autoland changes what is live.
LEMMA LiveGrows ==
  ASSUME LandingInv, Keeps, NEW n, n = Len(autoland) + 1, autoland' # autoland,
         NEW e, e = autoland'[n]
  PROVE  /\ Justified(e)
         /\ \A j \in 1..Len(landings') :
              j \in Live(n)' <=> /\ j \in Live(Len(autoland)) \/ (e.kind = "landing" /\ e.of = j /\ ~BackedOut(j, Len(autoland)))
                                 /\ ~(e.kind = "backout" /\ e.of = j)
<1>1. /\ Len(autoland) \in Nat /\ \A k \in 1..Len(autoland) : autoland'[k] = autoland[k]
      /\ Justified(e)
  BY Lengths, HistoryStays DEF Keeps
<1>2. \A k : k \in 1..n <=> k \in 1..Len(autoland) \/ k = n
  BY <1>1
<1>3. \A j : Pushed(j, n)' <=> Pushed(j, Len(autoland)) \/ (e.kind = "landing" /\ e.of = j)
  BY <1>1, <1>2 DEF Pushed
<1>4. \A j : BackedOut(j, n)' <=> BackedOut(j, Len(autoland)) \/ (e.kind = "backout" /\ e.of = j)
  BY <1>1, <1>2 DEF BackedOut
<1>5. \A j : Pushed(j, Len(autoland)) => j \in 1..Len(landings)
  BY Lengths, PushedExists
<1>6. e.kind = "landing" => e.kind # "backout"
  OBVIOUS
<1>7. QED
  BY <1>1, <1>3, <1>4, <1>5, <1>6 DEF Live

LEMMA PrsTogether ==
  ASSUME NEW a \in Nat, NEW b \in Nat, a <= b
  PROVE  Rng(0, a) \cup Rng(a, b) = Rng(0, b)
BY BoundAssumption DEF Rng, PR

LEMMA StackedKept == LandingInv /\ Keeps => Stacked'
<1> SUFFICES ASSUME LandingInv, Keeps, Calm, NEW n \in 0..Len(autoland'), NEW i \in Live(n)'
             PROVE  PrsOf(UpTo(i, n))' = Rng(0, landings'[i].head)
  BY DEF Stacked, Calm
<1> DEFINE m == Len(autoland)
<1>1. m \in Nat /\ Len(landings) \in Nat /\ (n \in 0..m \/ (n = m + 1 /\ autoland' # autoland))
  BY Lengths, HistoryStays DEF Keeps
<1>2. ASSUME NEW S, S \subseteq 1..Len(landings) PROVE UNION {Prs(j)' : j \in S} = PrsOf(S)
  BY <1>2, PrsStay DEF PrsOf
<1>3. ASSUME NEW k \in 0..m, i \in Live(k), UpTo(i, n)' = UpTo(i, k)
      PROVE  PrsOf(UpTo(i, n))' = Rng(0, landings'[i].head)
  <2>1. UpTo(i, k) \subseteq 1..Len(landings) /\ i \in 1..Len(landings)
    BY <1>3 DEF UpTo, Live
  <2>2. PrsOf(UpTo(i, n))' = UNION {Prs(j)' : j \in UpTo(i, k)}
    BY <1>3 DEF PrsOf
  <2>3. PrsOf(UpTo(i, k)) = Rng(0, landings[i].head)
    BY <1>3 DEF LandingInv, Stacked
  <2>4. QED
    BY <1>2, <2>1, <2>2, <2>3, PrsStay
<1>4. CASE n \in 0..m
  <2>1. Live(n)' = Live(n)
    BY <1>4, LiveStays
  <2>2. UpTo(i, n)' = UpTo(i, n)
    BY <2>1 DEF UpTo
  <2>3. QED
    BY <1>3, <1>4, <2>1, <2>2
<1>5. ASSUME n = m + 1, autoland' # autoland, NEW e, e = autoland'[n]
      PROVE  PrsOf(UpTo(i, n))' = Rng(0, landings'[i].head)
  <2>1. /\ Justified(e) /\ e.of \in 1..Len(landings) /\ e.kind \in {"landing", "backout"}
        /\ \A j \in 1..Len(landings') :
             j \in Live(n)' <=> /\ j \in Live(m) \/ (e.kind = "landing" /\ e.of = j /\ ~BackedOut(j, m))
                                /\ ~(e.kind = "backout" /\ e.of = j)
    BY <1>5, LiveGrows DEF Justified, Push
  <2>2. Live(n)' \subseteq 1..Len(landings') /\ Live(m) \subseteq 1..Len(landings)
        /\ 1..Len(landings) \subseteq 1..Len(landings')
    BY PrsStay DEF Live
  <2>3. CASE e.kind = "backout"
    <3>1. e.of \in Top(Live(m))
      BY <2>1, <2>3 DEF Justified
    <3>2. i \in Live(m) /\ i # e.of /\ i < e.of
      BY <2>1, <2>2, <2>3, <3>1 DEF Top
    <3>3. \A j : j \in UpTo(i, n)' <=> j \in UpTo(i, m)
      <4>1. \A j \in Live(m) : j <= i => j # e.of
        BY <2>1, <2>2, <3>2
      <4>2. QED
        BY <2>1, <2>2, <2>3, <4>1 DEF UpTo
    <3>4. UpTo(i, n)' = UpTo(i, m)
      BY <3>3 DEF UpTo
    <3>5. QED
      BY <1>1, <1>3, <3>2, <3>4
  <2>4. CASE e.kind = "landing"
    <3>1. ~Pushed(e.of, m) /\ SyncPoint(m) = landings[e.of].tree
      BY <2>1, <2>4 DEF Justified
    <3>2. e.of = Len(landings)
      <4>1. ~Pushed(e.of, local.central)
        BY <3>1, Lengths, PushedMore
      <4>2. e.of \in Open
        BY <2>1, <4>1, Lengths, LandingFields DEF Open, LandingInv, CompleteSeen, Calm
      <4>3. QED
        BY <4>2 DEF LandingInv, Alone, Calm
    <3>3. e.of \notin Live(m)
      BY <3>1 DEF Live
    <3>4. CASE i # e.of
      <4>1. i \in Live(m) /\ i < e.of
        BY <2>1, <2>2, <2>4, <3>2, <3>4
      <4>2. \A j : j \in UpTo(i, n)' <=> j \in UpTo(i, m)
        BY <2>1, <2>2, <2>4, <4>1 DEF UpTo
      <4>3. UpTo(i, n)' = UpTo(i, m)
        BY <4>2 DEF UpTo
      <4>4. QED
        BY <1>1, <1>3, <4>1, <4>3
    <3>5. CASE i = e.of
      <4>1. \A j : j \in UpTo(i, n)' <=> j \in Live(m) \cup {i}
        BY <2>1, <2>2, <2>4, <3>2, <3>5 DEF UpTo
      <4>2. UpTo(i, n)' = Live(m) \cup {i}
        BY <4>1 DEF UpTo
      <4>3. PrsOf(UpTo(i, n))' = UNION {Prs(j)' : j \in Live(m) \cup {i}}
        BY <4>2 DEF PrsOf
      <4>4. PrsOf(UpTo(i, n))' = PrsOf(Live(m) \cup {i})
        BY <1>2, <2>1, <2>2, <3>5, <4>3
      <4>5. PrsOf(Live(m) \cup {i}) = PrsOf(Live(m)) \cup Prs(i)
        BY DEF PrsOf
      <4>6. PrsOf(Live(m)) = Rng(0, SyncPoint(m))
        BY <1>1, TreeIsSyncPoint
      <4>7. Prs(i) = Rng(SyncPoint(m), landings[i].head) /\ SyncPoint(m) <= landings[i].head
        BY <2>1, <3>1, <3>5 DEF LandingInv, Based, Prs
      <4>8. SyncPoint(m) \in Nat /\ landings[i].head \in Nat
        BY <2>1, <3>5, Lengths, LandingFields, SyncPointType, BoundAssumption
      <4>9. PrsOf(UpTo(i, n))' = Rng(0, landings[i].head)
        BY <4>4, <4>5, <4>6, <4>7, <4>8, PrsTogether
      <4>10. QED
        BY <2>1, <3>5, <4>9, PrsStay
    <3>6. QED
      BY <3>4, <3>5
  <2>5. QED
    BY <2>1, <2>3, <2>4
<1>6. QED
  BY <1>1, <1>4, <1>5

LEMMA KeepsInv == LandingInv /\ Keeps => LandingInv'
BY AutolandKept, BackoutsKept, PushesKept, InformedKept, BasedKept, ReadKept, StackedKept
   DEF LandingInv, Keeps

-----------------------------------------------------------------------------
LEMMA FetchedType ==
  ASSUME TypeOK
  PROVE  Fetched \in [Repo -> Nat] /\ Fetched["central"] = central /\ local.central \in Nat
BY LenProperties DEF Fetched, Repo, TypeOK

LEMMA LandingsFacts ==   \* the landings as a sequence, and one of them replaced
  ASSUME TypeOK, NEW i \in 1..Len(landings), NEW l \in LandingSync,
         landings' = [landings EXCEPT ![i] = l]
  PROVE  /\ landings' \in Seq(LandingSync) /\ Len(landings') = Len(landings)
         /\ Len(landings) \in Nat /\ landings[i] \in LandingSync
         /\ \A j \in 1..Len(landings) : landings'[j] = IF j = i THEN l ELSE landings[j]
BY ExceptSeq, ElementOfSeq, LenProperties DEF TypeOK

(***************************************************************************)
(* A call for landing i that ends with an allowed outcome.                 *)
(***************************************************************************)
LEMMA CallKeeps ==
  ASSUME LandingInv, NEW p \in Proc, NEW i \in 1..Len(landings), NEW o \in Opt,
         PushAllowed => o.push, NEW r, Allowed(landings[i], i, o, r), Nobody,
         landings' = [landings EXCEPT ![i] = r.landing], Leave(p, i, r),
         queued' \in 0..Gone, UNCHANGED <<master, ready, done, central, seen, sp>>
  PROVE  Keeps
<1>1. r \in Outcome /\ r.landing \in LandingSync
  BY DEF Allowed, Outcome
<1>2. TypeOK
  BY DEF LandingInv
<1>3. /\ landings' \in Seq(LandingSync) /\ Len(landings') = Len(landings)
      /\ Len(landings) \in Nat /\ landings[i] \in LandingSync
      /\ \A j \in 1..Len(landings) : landings'[j] = IF j = i THEN r.landing ELSE landings[j]
  BY <1>1, <1>2, LandingsFacts
<1>4. i \in 1..MaxLandings /\ i \in 0..MaxLandings
  BY <1>2, <1>3, BoundAssumption DEF TypeOK
<1>5. /\ autoland' \in Seq(Push) /\ Len(autoland) \in Nat /\ Len(autoland') >= Len(autoland)
      /\ [kind |-> "landing", of |-> i] \in Push
  <2>1. [kind |-> "landing", of |-> i] \in Push
    BY <1>4 DEF Push
  <2>2. autoland \in Seq(Push) /\ Len(autoland) \in Nat
    BY <1>2, LenProperties DEF TypeOK
  <2>3. QED
    BY <2>1, <2>2, AppendProperties DEF Leave
<1>6. local' \in [Repo -> Nat] /\ local' \in {local, Fetched}
  BY <1>2, FetchedType DEF Leave, TypeOK
<1>7. /\ pc' \in [Proc -> {"idle", "update", "notify"}] /\ cur' \in [Proc -> 0..MaxLandings]
      /\ pc'[p] = IF r.notify THEN "notify" ELSE "idle"
      /\ cur'[p] = IF r.notify THEN i ELSE 0
      /\ \A q \in Proc \ {p} : pc'[q] = pc[q] /\ cur'[q] = cur[q]
  <2> DEFINE stage == IF r.notify THEN "notify" ELSE "idle"
             job   == IF r.notify THEN i ELSE 0
  <2>1. stage \in {"idle", "update", "notify"} /\ job \in 0..MaxLandings
    BY <1>4, BoundAssumption
  <2>2. pc' = [pc EXCEPT ![p] = stage] /\ cur' = [cur EXCEPT ![p] = job]
    BY DEF Leave
  <2> HIDE DEF stage, job
  <2>3. /\ pc' \in [Proc -> {"idle", "update", "notify"}] /\ pc'[p] = stage
        /\ cur' \in [Proc -> 0..MaxLandings] /\ cur'[p] = job
        /\ \A q \in Proc \ {p} : pc'[q] = pc[q] /\ cur'[q] = cur[q]
    BY <1>2, <2>1, <2>2 DEF TypeOK
  <2>4. QED
    BY <2>3 DEF stage, job
<1>8. TypeOK'
  BY <1>2, <1>3, <1>5, <1>6, <1>7 DEF TypeOK
<1>9. CurExists'
  BY <1>3, <1>7 DEF CurExists, LandingInv, Proc
<1>10. Grows
  <2> DEFINE e == [kind |-> "landing", of |-> i]
  <2>1. CASE ~r.push
    BY <2>1 DEF Leave, Grows
  <2>2. CASE r.push
    <3>1. e.of = i /\ e.kind = "landing"
      OBVIOUS
    <3>2. autoland' = Append(autoland, e)
      BY <2>2 DEF Leave
    <3> HIDE DEF e
    <3>3. /\ Pushable(r.landing) /\ ~Pushed(i, Len(autoland))
          /\ SyncPoint(Len(autoland)) = landings[i].tree /\ (r.notify \/ "answer" \in Faults)
      BY <2>2 DEF Allowed
    <3>4. r.notify => pc'[p] = "notify" /\ cur'[p] = i
      BY <1>7
    <3>5. Justified(e)
      BY <1>3, <1>5, <3>1, <3>3, <3>4 DEF Justified, e
    <3>6. QED
      BY <3>2, <3>5 DEF Grows, Justified
  <2>3. QED
    BY <2>1, <2>2
<1>11. AllOrderly'
  BY <1>3 DEF AllOrderly, LandingInv, Allowed
<1>12. Alone'
  <2> SUFFICES ASSUME Command = {} PROVE Alone'
    BY DEF Alone
  <2>1. p = Worker /\ pc'[Worker] # "update"
    BY <1>7 DEF Proc
  <2>2. Open' \subseteq Open
    BY <1>3, LandingFields DEF Open, Allowed
  <2>3. QED
    BY <1>3, <2>1, <2>2 DEF Alone, LandingInv, Waits
<1>13. \A j \in 1..Len(landings) : Same(landings[j], landings'[j])
  BY <1>3 DEF Same, Allowed
<1>14. ASSUME NEW j \in 1..Len(landings'), landings'[j].status = "complete"
       PROVE  landings[j].status = "complete" \/ Pushed(j, local'.central)
  <2>1. CASE j # i
    BY <1>3, <1>14, <2>1
  <2>2. CASE j = i /\ landings[i].status # "complete"
    <3>1. Pushed(i, local.central)
      BY <1>3, <1>14, <2>2 DEF Allowed
    <3>2. local.central \in Nat /\ local'.central \in Nat /\ local.central <= local'.central
      BY <1>6, Lengths DEF Fetched
    <3>3. QED
      BY <2>2, <3>1, <3>2, PushedMore
  <2>3. QED
    BY <2>1, <2>2
<1>15. ASSUME PushAllowed, NEW q \in Proc, pc'[q] = "notify"
       PROVE  (pc[q] = "notify" /\ cur'[q] = cur[q]) \/ Pushed(cur[q], Len(autoland))'
  <2>1. CASE q # p
    BY <1>7, <1>15, <2>1
  <2>2. CASE q = p
    <3>1. r.notify /\ cur'[q] = i /\ (r.push \/ Pushed(i, Len(autoland)))
      BY <1>1, <1>7, <1>15, <2>2 DEF Allowed, Outcome
    <3>2. CASE r.push
      <4>1. /\ Len(autoland') = Len(autoland) + 1
            /\ autoland'[Len(autoland) + 1] = [kind |-> "landing", of |-> i]
        <5>1. [kind |-> "landing", of |-> i] \in Push
          BY <1>4 DEF Push
        <5>2. QED
          BY <1>2, <3>2, <5>1, AppendProperties DEF Leave, TypeOK
      <4>2. Len(autoland) + 1 \in 1..Len(autoland')
        BY <1>5, <4>1
      <4>3. QED
        BY <3>1, <4>1, <4>2 DEF Pushed
    <3>3. CASE ~r.push
      BY <3>1, <3>3 DEF Leave, Pushed
    <3>4. QED
      BY <3>2, <3>3
  <2>3. QED
    BY <2>1, <2>2
<1>16. MayComplete /\ MayCreate /\ MayLeave
  BY <1>3, <1>14 DEF MayComplete, MayCreate, MayLeave, Nobody
<1>17. MayRead
  <2>1. CASE p = Worker
    BY <1>7, <2>1 DEF MayRead, Waits
  <2>2. CASE p # Worker
    BY <1>7, <2>2 DEF MayRead, Waits, Proc
  <2>3. QED
    BY <2>1, <2>2
<1>18. MayNotify /\ MayFinish
  BY <1>15 DEF MayNotify, MayFinish
<1>19. central' >= central
  BY <1>2, LenProperties DEF TypeOK
<1>20. QED
  BY <1>3, <1>6, <1>8, <1>9, <1>10, <1>11, <1>12, <1>13, <1>16, <1>17, <1>18, <1>19 DEF Keeps

\* One landing gets other try pushes, and nothing else happens.
LEMMA TriesKeep ==
  ASSUME LandingInv, NEW i \in 1..Len(landings), NEW l \in LandingSync, Same(landings[i], l),
         l.status = landings[i].status, Orderly(l), landings' = [landings EXCEPT ![i] = l],
         UNCHANGED <<master, ready, done, autoland, central, local, seen, queued, pc, cur, sp>>
  PROVE  Keeps
<1>1. TypeOK
  BY DEF LandingInv
<1>2. /\ landings' \in Seq(LandingSync) /\ Len(landings') = Len(landings)
      /\ Len(landings) \in Nat
      /\ \A j \in 1..Len(landings) : landings'[j] = IF j = i THEN l ELSE landings[j]
  BY <1>1, LandingsFacts
<1>3. TypeOK'
  BY <1>1, <1>2 DEF TypeOK
<1>4. CurExists'
  BY <1>2 DEF CurExists, LandingInv
<1>5. AllOrderly'
  BY <1>2 DEF AllOrderly, LandingInv
<1>6. Open' = Open
  BY <1>2 DEF Open
<1>7. Alone'
  BY <1>2, <1>6 DEF Alone, LandingInv, Waits
<1>8. Grows /\ central' >= central
  BY <1>1, LenProperties DEF Grows, TypeOK
<1>9. \A j \in 1..Len(landings) : Same(landings[j], landings'[j])
  BY <1>2 DEF Same
<1>10. \A j \in 1..Len(landings') : landings'[j].status = landings[j].status
  BY <1>2
<1>11. MayComplete /\ MayCreate
  BY <1>2, <1>10 DEF MayComplete, MayCreate
<1>12. MayRead /\ MayNotify /\ MayLeave /\ MayFinish
  BY DEF MayRead, Waits, MayNotify, MayLeave, Stays, MayFinish
<1>13. QED
  BY <1>2, <1>3, <1>4, <1>5, <1>7, <1>8, <1>9, <1>11, <1>12 DEF Keeps

\* No landing and no process changes.
LEMMA WorldKeeps ==
  ASSUME LandingInv, TypeOK', Grows, central' >= central, local' \in {local, Fetched},
         UNCHANGED <<landings, done, pc, cur, sp>>
  PROVE  Keeps
<1>1. CurExists' /\ AllOrderly' /\ Alone'
  BY DEF LandingInv, CurExists, AllOrderly, Alone, Open, Waits
<1>2. Len(landings) \in Nat
  BY LenProperties DEF LandingInv, TypeOK
<1>3. \A j \in 1..Len(landings) : Same(landings[j], landings'[j])
  BY DEF Same
<1>4. MayComplete /\ MayCreate
  BY <1>2 DEF MayComplete, MayCreate
<1>5. MayRead /\ MayNotify /\ MayLeave /\ MayFinish
  BY DEF MayRead, Waits, MayNotify, MayLeave, Stays, MayFinish
<1>6. QED
  BY <1>1, <1>2, <1>3, <1>4, <1>5 DEF Keeps

\* A process p takes up or leaves a landing.
LEMMA ProcessKeeps ==
  ASSUME LandingInv, NEW p \in Proc, UNCHANGED <<landings, done, autoland, central, local>>, TypeOK',
         \A q \in Proc \ {p} : pc'[q] = pc[q] /\ cur'[q] = cur[q] /\ sp'[q] = sp[q],
         pc'[p] \in {"idle", "update"}, cur'[p] \in 0..Len(landings),
         Waits(p)' => Open = {} /\ sp'[p] = SyncPoint(local.autoland),
         pc[p] = "notify" => "crash" \in Faults
  PROVE  Keeps
<1>1. CurExists' /\ AllOrderly'
  BY DEF LandingInv, CurExists, AllOrderly
<1>2. Alone'
  BY DEF LandingInv, Alone, Open, Proc, Waits
<1>3. Len(landings) \in Nat /\ Grows /\ central \in Nat /\ central' >= central
  BY LenProperties DEF LandingInv, TypeOK, Grows
<1>4. \A j \in 1..Len(landings) : Same(landings[j], landings'[j])
  BY DEF Same
<1>5. MayNotify /\ MayLeave /\ MayFinish
  BY DEF MayNotify, MayLeave, Stays, MayFinish
<1>6. MayComplete /\ MayCreate
  BY <1>3 DEF MayComplete, MayCreate
<1>7. MayRead
  BY DEF MayRead, Waits, Proc
<1>8. QED
  BY <1>1, <1>2, <1>3, <1>4, <1>5, <1>6, <1>7 DEF Keeps

LEMMA ReadCurrentKeeps ==
  ASSUME LandingInv, NEW p \in Proc, Idle(p), ReadCurrent(p), queued' \in 0..Gone,
         UNCHANGED <<master, ready, done, landings, autoland, central, local, seen>>
  PROVE  Keeps
<1>1. TypeOK
  BY DEF LandingInv
<1>2. SyncPoint(local.autoland) \in 0..N
  BY <1>1, SyncPointType DEF TypeOK
<1> DEFINE c == IF Open = {} THEN 0 ELSE CHOOSE i \in Open : TRUE
<1>3. c \in 0..Len(landings) /\ (c = 0 => Open = {}) /\ c \in 0..MaxLandings
  BY <1>1, BoundAssumption, LenProperties DEF Open, TypeOK
<1>4. CASE UNCHANGED <<pc, cur, sp>>
  <2>1. TypeOK'
    BY <1>1, <1>4 DEF TypeOK
  <2>2. Grows /\ central' >= central
    BY <1>1, LenProperties DEF Grows, TypeOK
  <2>3. QED
    BY <1>4, <2>1, <2>2, WorldKeeps
<1>5. CASE /\ pc' = [pc EXCEPT ![p] = "update"] /\ cur' = [cur EXCEPT ![p] = c]
           /\ sp' = [sp EXCEPT ![p] = SyncPoint(local.autoland)]
  <2> HIDE DEF c
  <2>1. TypeOK'
    BY <1>1, <1>2, <1>3, <1>5 DEF TypeOK
  <2>2. /\ \A q \in Proc \ {p} : pc'[q] = pc[q] /\ cur'[q] = cur[q] /\ sp'[q] = sp[q]
        /\ pc'[p] = "update" /\ cur'[p] = c /\ sp'[p] = SyncPoint(local.autoland)
    BY <1>1, <1>5 DEF TypeOK
  <2>3. Waits(p)' => Open = {}
    BY <1>3, <2>2 DEF Waits
  <2>4. pc[p] # "notify"
    BY DEF Idle
  <2>5. QED
    BY <1>3, <2>1, <2>2, <2>3, <2>4, ProcessKeeps
<1>6. QED
  BY <1>4, <1>5 DEF ReadCurrent

-----------------------------------------------------------------------------
(* Each action keeps the invariant. *)

LEMMA OptionsType ==
  /\ Default \in Opt /\ Default.push
  /\ \A opt \in Options : opt \in Opt /\ [opt EXCEPT !.push = TRUE] \in Opt
                          /\ [opt EXCEPT !.push = TRUE].push
BY ChoiceAssumption DEF Default, Opt

LEMMA GoneType == Gone \in 0..Gone /\ 0 \in 0..Gone
BY BoundAssumption DEF Gone

LEMMA EndTaskType ==
  ASSUME TypeOK, NEW p, NEW again, EndTask(p, again)
  PROVE  queued' \in 0..Gone
BY GoneType, BoundAssumption DEF TypeOK, EndTask, Gone

LEMMA LandTaskKeeps == LandingInv /\ LandTask => Keeps
<1> SUFFICES ASSUME LandingInv, LandTask PROVE Keeps
  OBVIOUS
<1>1. queued' \in 0..Gone
  BY GoneType DEF LandTask, LandingInv, TypeOK
<1>2. QED
  BY <1>1, ReadCurrentKeeps DEF LandTask, Proc

LEMMA CommandStartKeeps ==
  ASSUME LandingInv, NEW p \in Command, CommandStart(p)
  PROVE  Keeps
<1>1. queued' \in 0..Gone
  BY DEF CommandStart, LandingInv, TypeOK
<1>2. QED
  BY <1>1, ReadCurrentKeeps DEF CommandStart, Proc

LEMMA UpdateLandingKeeps ==
  ASSUME LandingInv, NEW p \in Proc, UpdateLanding(p)
  PROVE  Keeps
<1>1. cur[p] \in 1..Len(landings)
  BY LenProperties DEF UpdateLanding, LandingInv, CurExists, TypeOK
<1>2. landings[cur[p]] \in LandingSync /\ Orderly(landings[cur[p]])
  BY <1>1, ElementOfSeq DEF LandingInv, TypeOK, AllOrderly
<1>3. \A opt \in OptionsOf(p) : opt \in Opt /\ opt.push
  BY OptionsType DEF OptionsOf
<1>4. PICK opt \in OptionsOf(p) : \E o \in Update(landings[cur[p]], cur[p], opt) :
        /\ landings' = [landings EXCEPT ![cur[p]] = o.landing]
        /\ EndTask(p, o.again)
        /\ Leave(p, cur[p], o)
  BY DEF UpdateLanding
<1>5. PICK o \in Update(landings[cur[p]], cur[p], opt) :
        /\ landings' = [landings EXCEPT ![cur[p]] = o.landing]
        /\ EndTask(p, o.again)
        /\ Leave(p, cur[p], o)
  BY <1>4
<1>6. Allowed(landings[cur[p]], cur[p], opt, o)
  BY <1>2, <1>3, UpdateAllowed
<1>7. queued' \in 0..Gone
  BY <1>5, EndTaskType DEF LandingInv
<1>8. UNCHANGED <<master, ready, done, central, seen, sp>> /\ Nobody
  BY DEF UpdateLanding, LockFree, Nobody
<1>9. QED
  BY <1>1, <1>3, <1>5, <1>6, <1>7, <1>8, CallKeeps

LEMMA TaskGroupHandlerKeeps ==
  ASSUME LandingInv, NEW i \in 1..Len(landings), TaskGroupHandler(i)
  PROVE  Keeps
<1>1. landings[i] \in LandingSync /\ Orderly(landings[i])
  BY ElementOfSeq DEF LandingInv, TypeOK, AllOrderly
<1>2. PICK o \in TryPushComplete(landings[i], i, Default) :
        landings' = [landings EXCEPT ![i] = o.landing] /\ Leave(Worker, i, o)
  BY DEF TaskGroupHandler
<1>3. Allowed(landings[i], i, Default, o)
  BY <1>1, OptionsType, TryPushCompleteAllowed DEF TaskGroupHandler
<1>4. Worker \in Proc /\ queued' \in 0..Gone
  BY DEF Proc, TaskGroupHandler, LandingInv, TypeOK
<1>5. UNCHANGED <<master, ready, done, central, seen, sp>> /\ Nobody
  BY DEF TaskGroupHandler, LockFree, Nobody, Idle
<1>6. QED
  BY <1>2, <1>3, <1>4, <1>5, OptionsType, CallKeeps

LEMMA BustedFacts ==
  ASSUME NEW l \in LandingSync, Orderly(l), NEW m \in Busted(l)
  PROVE  m \in LandingSync /\ Same(l, m) /\ m.status = l.status /\ Orderly(m)
<1> DEFINE t == [Latest(l) EXCEPT !.status = "complete", !.infra = TRUE]
<1>1. l.tries # <<>> /\ m = SetLatest(l, t) /\ Latest(l).status = "open"
  BY DEF Busted, When
<1>2. t \in Try /\ AsGood(Latest(l), t)
  <2>1. Latest(l) \in Try
    BY <1>1, LatestIsTry
  <2>2. t \in Try /\ t.stability = Latest(l).stability
    BY <2>1 DEF Try
  <2>3. QED
    BY <1>1, <2>2 DEF AsGood, PassedTry
<1>3. QED
  BY <1>1, <1>2, SetLatestFacts

LEMMA DoLandingKeeps ==
  ASSUME LandingInv, NEW p \in Command, NEW opt \in Options, DoLanding(p, opt)
  PROVE  Keeps
<1>1. PICK i \in Open : \E l \in {landings[i]} \cup Busted(landings[i]) :
        /\ l.tries # <<>>
        /\ \E o \in IF ~opt.retry /\ Latest(l).status = "open"
                    THEN When(TryResult(l) # "pending", TryPushComplete(l, i, opt))
                    ELSE Update(l, i, [opt EXCEPT !.push = TRUE]) :
             landings' = [landings EXCEPT ![i] = o.landing] /\ Leave(p, i, o)
  BY DEF DoLanding
<1>2. i \in 1..Len(landings) /\ landings[i] \in LandingSync /\ Orderly(landings[i])
  BY ElementOfSeq DEF Open, LandingInv, TypeOK, AllOrderly
<1>3. PICK l \in {landings[i]} \cup Busted(landings[i]) :
        /\ l.tries # <<>>
        /\ \E o \in IF ~opt.retry /\ Latest(l).status = "open"
                    THEN When(TryResult(l) # "pending", TryPushComplete(l, i, opt))
                    ELSE Update(l, i, [opt EXCEPT !.push = TRUE]) :
             landings' = [landings EXCEPT ![i] = o.landing] /\ Leave(p, i, o)
  BY <1>1
<1>4. l \in LandingSync /\ Same(landings[i], l) /\ l.status = landings[i].status /\ Orderly(l)
  BY <1>2, BustedFacts DEF Same
<1>5. PICK o : /\ o \in TryPushComplete(l, i, opt) \cup Update(l, i, [opt EXCEPT !.push = TRUE])
               /\ landings' = [landings EXCEPT ![i] = o.landing] /\ Leave(p, i, o)
  BY <1>3 DEF When
<1>6. PICK c \in {opt, [opt EXCEPT !.push = TRUE]} : Allowed(l, i, c, o)
  BY <1>3, <1>4, <1>5, OptionsType, TryPushCompleteAllowed, UpdateAllowed
<1>7. Allowed(landings[i], i, c, o)
  BY <1>4, <1>6, AllowedTransfer
<1>8. c \in Opt /\ (PushAllowed => c.push)
  BY OptionsType DEF PushAllowed
<1>9. p \in Proc /\ queued' \in 0..Gone /\ UNCHANGED <<master, ready, done, central, seen, sp>>
  BY DEF Proc, DoLanding, LandingInv, TypeOK
<1>10. Nobody
  BY DEF DoLanding, LockFree, Nobody, Idle
<1>11. QED
  BY <1>2, <1>5, <1>7, <1>8, <1>9, <1>10, CallKeeps

LEMMA NewLandingKeeps ==
  ASSUME LandingInv, NEW p \in Proc, NewLanding(p)
  PROVE  Keeps
<1> DEFINE h == LandableHead(sp[p])
           l == [status |-> "open", base |-> sp[p], head |-> h,
                 tree |-> SyncPoint(Len(autoland)), from |-> Len(autoland), built |-> FALSE,
                 error |-> FALSE, tries |-> <<>>]
           n == Len(landings) + 1
<1>1. TypeOK /\ sp[p] \in 0..N /\ landings \in Seq(LandingSync) /\ Len(landings) \in Nat
  BY LenProperties DEF LandingInv, TypeOK
<1>2. h \in 0..N /\ SyncPoint(Len(autoland)) \in 0..N /\ Len(autoland) \in Nat
  BY <1>1, LandableHeadType, SyncPointType, LenProperties DEF TypeOK
<1>3. <<>> \in Seq(Try) /\ Len(<<>>) = 0
  BY EmptySeq
<1>4. l \in LandingSync /\ l.tries = <<>> /\ l.status = "open"
  BY <1>1, <1>2, <1>3 DEF LandingSync
<1>5. Orderly(l)
  <2>1. \A k \in 1..Len(l.tries) : FALSE
    BY <1>3, <1>4
  <2>2. QED
    BY <2>1 DEF Orderly, OlderComplete, Tested
<1>6. /\ local' = Fetched /\ pc' = [pc EXCEPT ![p] = "idle"] /\ pc[p] = "update" /\ cur[p] = 0
      /\ UNCHANGED <<master, ready, done, autoland, central, seen, cur, sp>>
  BY DEF NewLanding
<1>7. /\ pc' \in [Proc -> {"idle", "update", "notify"}] /\ pc'[p] = "idle"
      /\ \A q \in Proc \ {p} : pc'[q] = pc[q]
  BY <1>1, <1>6 DEF TypeOK
<1>8. local' \in [Repo -> Nat] /\ Nobody
  BY <1>1, <1>6, FetchedType DEF NewLanding, LockFree, Nobody
<1>9. Grows /\ central' >= central
  BY <1>1, <1>6, LenProperties DEF Grows, TypeOK
<1>13. MayNotify /\ MayLeave /\ MayRead
  <2>1. \A q \in Proc : pc'[q] = "notify" => pc[q] = "notify" /\ cur'[q] = cur[q]
    BY <1>6, <1>7
  <2>2. \A q \in Proc : pc[q] = "notify" => FALSE
    BY <1>8 DEF Nobody
  <2>3. Waits(Worker)' => Waits(Worker) /\ sp'[Worker] = sp[Worker]
    BY <1>6, <1>7 DEF Waits, Proc
  <2>4. QED
    BY <2>1, <2>2, <2>3 DEF MayNotify, MayLeave, MayRead
<1>10. CASE landings' = landings /\ EndTask(p, FALSE)
  <2>1. TypeOK'
    <3>1. queued' \in 0..Gone
      BY <1>1, <1>10, EndTaskType
    <3>2. QED
      BY <1>1, <1>6, <1>7, <1>8, <1>10, <3>1 DEF TypeOK
  <2>2. CurExists' /\ AllOrderly' /\ Alone'
    BY <1>6, <1>7, <1>10 DEF LandingInv, CurExists, AllOrderly, Alone, Open, Proc, Waits
  <2>3. \A j \in 1..Len(landings) : Same(landings[j], landings'[j])
    BY <1>10 DEF Same
  <2>4. MayComplete /\ MayCreate /\ MayFinish
    BY <1>1, <1>6, <1>10 DEF MayComplete, MayCreate, MayFinish
  <2>5. QED
    BY <1>1, <1>6, <1>9, <1>10, <1>13, <2>1, <2>2, <2>3, <2>4 DEF Keeps
<1>11. ASSUME NEW o \in FirstTry(l), Len(landings) < MaxLandings, h > sp[p],
              landings' = Append(landings, o.landing),
              EndTask(p, o.again)
       PROVE  Keeps
  <2> HIDE DEF l, h
  <2>1. Allowed(l, n, Default, o)
    BY <1>4, <1>5, FirstTryAllowed
  <2>2. o.landing \in LandingSync /\ Orderly(o.landing)
    BY <2>1 DEF Allowed, Outcome
  <2>3. /\ landings' \in Seq(LandingSync) /\ Len(landings') = Len(landings) + 1
        /\ \A j \in 1..Len(landings) : landings'[j] = landings[j]
        /\ landings'[Len(landings) + 1] = o.landing
    BY <1>1, <1>11, <2>2, AppendProperties
  <2>4. TypeOK'
    <3>1. queued' \in 0..Gone
      BY <1>1, <1>11, EndTaskType
    <3>2. QED
      BY <1>1, <1>6, <1>7, <1>8, <1>11, <2>2, <2>3, <3>1, BoundAssumption DEF TypeOK
  <2>5. CurExists'
    BY <1>1, <1>6, <1>7, <2>3 DEF LandingInv, CurExists
  <2>6. AllOrderly'
    BY <1>1, <2>2, <2>3 DEF LandingInv, AllOrderly
  <2>7. Alone'
    <3> SUFFICES ASSUME Command = {} PROVE Alone'
      BY DEF Alone
    <3>1. p = Worker /\ Open = {} /\ pc'[Worker] = "idle"
      BY <1>6, <1>7 DEF Proc, LandingInv, Alone, Waits
    <3>2. Open' \subseteq {Len(landings) + 1}
      BY <1>1, <2>3, <3>1 DEF Open
    <3>3. QED
      BY <2>3, <3>1, <3>2 DEF Alone, Waits
  <2>8. \A j \in 1..Len(landings) : Same(landings[j], landings'[j])
    BY <2>3 DEF Same
  <2>9. ASSUME NEW j \in 1..Len(landings'), landings'[j].status = "complete"
        PROVE  (j <= Len(landings) /\ landings[j].status = "complete") \/ Pushed(j, local'.central)
    <3>1. CASE j <= Len(landings)
      BY <1>1, <2>3, <2>9, <3>1
    <3>2. CASE j = n
      <4>1. o.landing.status = "complete" /\ l.status = "open"
        BY <1>4, <2>3, <2>9, <3>2
      <4>2. Pushed(n, local.central)
        BY <2>1, <4>1 DEF Allowed
      <4>3. local.central \in Nat /\ local'.central \in Nat /\ local.central <= local'.central
        BY <1>6, Lengths DEF Fetched
      <4>4. QED
        BY <3>2, <4>2, <4>3, PushedMore
    <3>3. QED
      BY <1>1, <2>3, <3>1, <3>2
  <2>10. MayComplete /\ MayFinish
    BY <1>6, <1>8, <2>9 DEF MayComplete, MayFinish
  <2>11. MayCreate
    <3> SUFFICES ASSUME NEW j \in 1..Len(landings'), j > Len(landings)
                 PROVE  /\ landings'[j].tree = SyncPoint(Len(autoland))
                        /\ \E q \in Proc : Waits(q) /\ landings'[j].base = sp[q] /\ landings'[j].head >= sp[q]
      BY DEF MayCreate
    <3>1. landings'[j] = o.landing
      BY <1>1, <2>3
    <3>2. o.landing.tree = l.tree /\ o.landing.base = l.base /\ o.landing.head = l.head
      BY <2>1 DEF Allowed, Same
    <3>3. l.tree = SyncPoint(Len(autoland)) /\ l.base = sp[p] /\ l.head = h
      BY DEF l
    <3>4. Waits(p) /\ h >= sp[p]
      BY <1>1, <1>2, <1>6, <1>11 DEF Waits
    <3>5. QED
      BY <3>1, <3>2, <3>3, <3>4
  <2>12. Len(landings') >= Len(landings)
    BY <1>1, <2>3
  <2>13. QED
    BY <1>6, <1>9, <1>13, <2>4, <2>5, <2>6, <2>7, <2>8, <2>10, <2>11, <2>12 DEF Keeps
<1>12. QED
  BY <1>10, <1>11 DEF NewLanding

LEMMA NotifyDownstreamKeeps ==
  ASSUME LandingInv, NEW p \in Proc, NotifyDownstream(p)
  PROVE  Keeps
<1>1. TypeOK /\ cur[p] \in 1..Len(landings) /\ Len(landings) \in Nat
  BY LenProperties DEF NotifyDownstream, LandingInv, CurExists, TypeOK
<1>2. /\ done \subseteq done'
      /\ done' \subseteq done \cup Prs(cur[p])
      /\ NoBug = {} => Prs(cur[p]) \subseteq done'
      /\ pc' = [pc EXCEPT ![p] = "idle"] /\ cur' = [cur EXCEPT ![p] = 0]
      /\ UNCHANGED <<master, ready, landings, autoland, central, local, seen, queued, sp>>
  BY DEF NotifyDownstream, Prs
<1>3. TypeOK'
  BY <1>1, <1>2, BoundAssumption DEF TypeOK, Prs, Rng
<1>4. /\ \A q \in Proc \ {p} : pc'[q] = pc[q] /\ cur'[q] = cur[q]
      /\ pc'[p] = "idle" /\ cur'[p] = 0
  BY <1>1, <1>2 DEF TypeOK
<1>5. CurExists' /\ AllOrderly' /\ Alone'
  BY <1>1, <1>2, <1>4 DEF LandingInv, CurExists, AllOrderly, Alone, Open, Proc, Waits
<1>6. Grows /\ central' >= central
  BY <1>1, <1>2, LenProperties DEF Grows, TypeOK
<1>7. \A j \in 1..Len(landings) : Same(landings[j], landings'[j])
  BY <1>2 DEF Same
<1>8. PushAllowed => Pushed(cur[p], Len(autoland))
  BY DEF NotifyDownstream, LandingInv, NotifyPushed
<1>9. MayFinish
  BY <1>1, <1>2, <1>8 DEF MayFinish
<1>10. MayLeave /\ MayNotify
  BY <1>2, <1>4 DEF MayLeave, Stays, MayNotify
<1>11. MayComplete /\ MayCreate
  BY <1>1, <1>2 DEF MayComplete, MayCreate
<1>12. MayRead
  BY <1>2, <1>4 DEF MayRead, Waits, Proc
<1>13. QED
  BY <1>1, <1>2, <1>3, <1>5, <1>6, <1>7, <1>9, <1>10, <1>11, <1>12 DEF Keeps

LEMMA CrashKeeps ==
  ASSUME LandingInv, NEW p \in Proc, Crash(p)
  PROVE  Keeps
<1>1. TypeOK /\ Len(landings) \in Nat
  BY LenProperties DEF LandingInv, TypeOK
<1>2. TypeOK'
  BY <1>1, GoneType, BoundAssumption DEF Crash, TypeOK
<1>3. /\ \A q \in Proc \ {p} : pc'[q] = pc[q] /\ cur'[q] = cur[q] /\ sp'[q] = sp[q]
      /\ pc'[p] = "idle" /\ cur'[p] = 0 /\ ~Waits(p)'
  BY <1>1 DEF TypeOK, Crash, Waits
<1>4. /\ UNCHANGED <<landings, done, autoland, central, local>> /\ "crash" \in Faults
      /\ 0 \in 0..Len(landings)
  BY <1>1 DEF Crash
<1>5. QED
  BY <1>1, <1>2, <1>3, <1>4, ProcessKeeps

LEMMA SeqOfFunction ==
  ASSUME NEW S, NEW n \in Nat, NEW f \in [1..n -> S]
  PROVE  f \in Seq(S) /\ Len(f) = n
OBVIOUS

LEMMA GeckoPushKeeps ==
  ASSUME LandingInv, NEW repo \in Repo, NEW r \in DOMAIN autoland, GeckoPush(repo, r)
  PROVE  Keeps
<1> DEFINE new(kind) ==
             {autoland[k].of : k \in {k \in (seen[repo] + 1)..r : autoland[k].kind = kind}}
           finished == {i \in new("landing") : Finishes(repo, i)}
           once(i)  == IF i \in finished THEN Finish(landings[i]) ELSE landings[i]
           after(i) == IF i \in new("backout") THEN MarkBackedOut(once(i)) ELSE once(i)
<1>1. TypeOK /\ Len(landings) \in Nat /\ DOMAIN landings = 1..Len(landings) /\ Len(autoland) \in Nat
  BY LenProperties DEF LandingInv, TypeOK
<1>2. landings' = [i \in 1..Len(landings) |-> after(i)]
  BY <1>1 DEF GeckoPush
<1>3. /\ r \in (seen[repo] + 1)..Fetched[repo] /\ local' = Fetched
      /\ seen' = [seen EXCEPT ![repo] = r] /\ queued' \in {0, queued}
      /\ UNCHANGED <<master, ready, done, autoland, central, pc, cur, sp>>
  BY DEF GeckoPush
<1>4. ASSUME NEW i \in 1..Len(landings)
      PROVE  /\ landings'[i] \in LandingSync /\ Same(landings[i], landings'[i])
             /\ landings'[i].tries = landings[i].tries
             /\ landings'[i].status \in {landings[i].status, "complete"}
             /\ landings'[i].status = "complete" => landings[i].status = "complete" \/ i \in finished
  <2> DEFINE fin == i \in finished
  <2>1. landings[i] \in LandingSync
    BY <1>1, ElementOfSeq DEF TypeOK
  <2>2. landings'[i] = after(i)
    BY <1>2
  <2> HIDE DEF finished
  <2>3. /\ once(i) \in LandingSync /\ Same(landings[i], once(i))
        /\ once(i).tries = landings[i].tries
        /\ once(i).status = IF fin THEN "complete" ELSE landings[i].status
    BY <2>1 DEF Finish, LandingSync, Same
  <2> HIDE DEF once, new
  <2>4. /\ after(i) \in LandingSync /\ Same(landings[i], after(i))
        /\ after(i).tries = landings[i].tries /\ after(i).status = once(i).status
    BY <2>3 DEF MarkBackedOut, LandingSync, Same
  <2>5. QED
    BY <2>1, <2>2, <2>3, <2>4, LandingFields
<1>5. landings' \in [1..Len(landings) -> LandingSync]
  BY <1>2, <1>4
<1>6. landings' \in Seq(LandingSync) /\ Len(landings') = Len(landings)
  BY <1>1, <1>5, SeqOfFunction
<1>7. r \in Nat /\ seen[repo] \in Nat /\ (repo = "central" => r <= central)
  BY <1>1, <1>3, FetchedType DEF TypeOK
<1>8. NoBug = {} => \A i \in finished : Pushed(i, central)
  <2> SUFFICES ASSUME NoBug = {}, NEW i \in finished PROVE Pushed(i, central)
    OBVIOUS
  <2>1. repo = "central"
    BY DEF Finishes
  <2>2. PICK k \in (seen[repo] + 1)..r : autoland[k].kind = "landing" /\ autoland[k].of = i
    OBVIOUS
  <2>3. k \in 1..central
    BY <1>1, <1>7, <2>1, <2>2 DEF TypeOK
  <2>4. QED
    BY <2>2, <2>3 DEF Pushed
<1>9. TypeOK'
  <2>1. queued' \in 0..Gone
    BY <1>1, <1>3, GoneType DEF TypeOK
  <2>2. QED
    BY <1>1, <1>3, <1>6, <1>7, <2>1, FetchedType DEF TypeOK
<1>10. CurExists' /\ Nobody
  BY <1>3, <1>6 DEF LandingInv, CurExists, GeckoPush, LockFree, Idle, Nobody
<1>11. AllOrderly'
  <2> SUFFICES ASSUME NEW i \in 1..Len(landings) PROVE Orderly(landings'[i])
    BY <1>6 DEF AllOrderly
  <2>1. Orderly(landings[i]) /\ landings'[i].tries = landings[i].tries
    BY <1>4 DEF LandingInv, AllOrderly
  <2>2. QED
    BY <2>1 DEF Orderly, OlderComplete, Tested, HasOrdinary
<1>12. Open' \subseteq Open
  <2>1. \A i \in 1..Len(landings) : landings[i].status \in {"open", "complete"}
    BY <1>1, ElementOfSeq, LandingFields DEF TypeOK
  <2>2. QED
    BY <1>4, <1>6, <2>1 DEF Open
<1>13. Alone'
  BY <1>3, <1>6, <1>12 DEF LandingInv, Alone, Waits
<1>14. Grows /\ central' >= central
  BY <1>1, <1>3 DEF Grows, TypeOK
<1>15. MayComplete
  <2> HIDE DEF finished
  <2>1. local'.central = central
    BY <1>3 DEF Fetched
  <2>2. QED
    BY <1>1, <1>4, <1>6, <1>8, <1>10, <2>1 DEF MayComplete
<1>16. MayCreate
  BY <1>1, <1>6 DEF MayCreate
<1>17. MayRead /\ MayNotify /\ MayLeave /\ MayFinish
  BY <1>3 DEF MayRead, Waits, MayNotify, MayLeave, Stays, MayFinish
<1>18. QED
  BY <1>1, <1>3, <1>4, <1>6, <1>9, <1>10, <1>11, <1>13, <1>14, <1>15, <1>16, <1>17 DEF Keeps

LEMMA TryStepKeeps ==
  ASSUME LandingInv, NEW i \in 1..Len(landings), NEW a,
         NEW b \in ResultKinds \cup {"none", "running"}, TryStep(i, a, b)
  PROVE  Keeps
<1> DEFINE t == [Latest(landings[i]) EXCEPT !.result = b]
<1>1. landings[i] \in LandingSync /\ Orderly(landings[i]) /\ landings[i].tries # <<>>
  BY ElementOfSeq DEF LandingInv, TypeOK, AllOrderly, TryStep
<1>2. t \in Try /\ AsGood(Latest(landings[i]), t)
  <2>1. Latest(landings[i]) \in Try /\ Latest(landings[i]).status = "open"
    BY <1>1, LatestIsTry DEF TryStep
  <2>2. QED
    BY <2>1 DEF Try, AsGood, PassedTry
<1>3. landings' = [landings EXCEPT ![i] = SetLatest(landings[i], t)]
  BY DEF TryStep
<1>4. UNCHANGED <<master, ready, done, autoland, central, local, seen, queued, pc, cur, sp>>
  BY DEF TryStep
<1> HIDE DEF t
<1>5. QED
  BY <1>1, <1>2, <1>3, <1>4, SetLatestFacts, TriesKeep

LEMMA TryBustedKeeps ==
  ASSUME LandingInv, NEW i \in 1..Len(landings), TryBusted(i)
  PROVE  Keeps
<1>1. landings[i] \in LandingSync /\ Orderly(landings[i])
  BY ElementOfSeq DEF LandingInv, TypeOK, AllOrderly
<1>2. PICK l \in Busted(landings[i]) : landings' = [landings EXCEPT ![i] = l]
  BY DEF TryBusted
<1>3. l \in LandingSync /\ Same(landings[i], l) /\ l.status = landings[i].status /\ Orderly(l)
  BY <1>1, BustedFacts
<1>4. UNCHANGED <<master, ready, done, autoland, central, local, seen, queued, pc, cur, sp>>
  BY DEF TryBusted
<1>5. QED
  BY <1>2, <1>3, <1>4, TriesKeep

\* The actions of the world, and a fetch.
LEMMA WorldActionsKeep ==
  ASSUME LandingInv,
         \/ Fetch \/ MergePr \/ (\E n \in PR : SyncReady(n)) \/ MergeToCentral
         \/ \E i \in 1..Len(landings) : Backout(i)
  PROVE  Keeps
<1>1. TypeOK /\ Len(autoland) \in Nat /\ central \in Nat /\ Len(landings) <= MaxLandings
  BY LenProperties DEF LandingInv, TypeOK
<1>2. CASE Fetch
  <2>1. TypeOK'
    BY <1>1, <1>2, FetchedType DEF Fetch, TypeOK
  <2>2. QED
    BY <1>1, <1>2, <2>1, WorldKeeps DEF Fetch, Grows
<1>3. CASE MergePr \/ \E n \in PR : SyncReady(n)
  <2>1. TypeOK'
    BY <1>1, <1>3, BoundAssumption DEF MergePr, SyncReady, TypeOK
  <2>2. QED
    BY <1>1, <1>3, <2>1, WorldKeeps DEF MergePr, SyncReady, Grows
<1>4. CASE MergeToCentral
  <2>1. TypeOK' /\ central' >= central
    BY <1>1, <1>4 DEF MergeToCentral, TypeOK
  <2>2. QED
    BY <1>1, <1>4, <2>1, WorldKeeps DEF MergeToCentral, Grows
<1>5. ASSUME NEW i \in 1..Len(landings), Backout(i) PROVE Keeps
  <2>1. [kind |-> "backout", of |-> i] \in Push
    BY <1>1, LenProperties, BoundAssumption DEF Push, TypeOK
  <2>2. autoland' = Append(autoland, [kind |-> "backout", of |-> i])
    BY <1>5 DEF Backout
  <2>3. autoland' \in Seq(Push) /\ Len(autoland') = Len(autoland) + 1
    BY <1>1, <2>1, <2>2, AppendProperties DEF TypeOK
  <2>4. TypeOK'
    BY <1>1, <1>5, <2>3 DEF Backout, TypeOK
  <2>5. Justified([kind |-> "backout", of |-> i])
    BY <1>5, <2>1 DEF Justified, Backout
  <2>6. Grows
    BY <2>1, <2>2, <2>5 DEF Grows
  <2>7. QED
    BY <1>1, <1>5, <2>4, <2>6, WorldKeeps DEF Backout
<1>6. QED
  BY <1>2, <1>3, <1>4, <1>5

LEMMA NextKeeps == LandingInv /\ Next => Keeps
<1> SUFFICES ASSUME LandingInv, Next PROVE Keeps
  OBVIOUS
<1>1. DOMAIN landings = 1..Len(landings)
  BY LenProperties DEF LandingInv, TypeOK
<1>2. CASE LandTask
  BY <1>2, LandTaskKeeps
<1>3. ASSUME NEW p \in Command, CommandStart(p) \/ \E opt \in Options : DoLanding(p, opt)
      PROVE  Keeps
  BY <1>3, CommandStartKeeps, DoLandingKeeps
<1>4. ASSUME NEW p \in Proc, NewLanding(p) \/ UpdateLanding(p) \/ NotifyDownstream(p) \/ Crash(p)
      PROVE  Keeps
  BY <1>4, NewLandingKeeps, UpdateLandingKeeps, NotifyDownstreamKeeps, CrashKeeps
<1>5. ASSUME NEW i \in 1..Len(landings),
             TaskGroupHandler(i) \/ TryScheduled(i) \/ TryEnds(i) \/ TryBusted(i)
      PROVE  Keeps
  <2>1. CASE TaskGroupHandler(i) \/ TryBusted(i)
    BY <2>1, TaskGroupHandlerKeeps, TryBustedKeeps
  <2>2. CASE TryScheduled(i)
    BY <2>2, TryStepKeeps DEF TryScheduled
  <2>3. CASE TryEnds(i)
    BY <2>3, TryStepKeeps, ChoiceAssumption DEF TryEnds
  <2>4. QED
    BY <1>5, <2>1, <2>2, <2>3
<1>6. ASSUME NEW repo \in Repo, NEW r \in DOMAIN autoland, GeckoPush(repo, r) PROVE Keeps
  BY <1>6, GeckoPushKeeps
<1>7. CASE \/ Fetch \/ MergePr \/ (\E n \in PR : SyncReady(n)) \/ MergeToCentral
           \/ \E i \in 1..Len(landings) : Backout(i)
  BY <1>7, WorldActionsKeep
<1>8. QED
  BY <1>1, <1>2, <1>3, <1>4, <1>5, <1>6, <1>7 DEF Next

LEMMA StutterKeeps == LandingInv /\ UNCHANGED vars => LandingInv'
<1> SUFFICES ASSUME LandingInv, UNCHANGED vars PROVE LandingInv'
  OBVIOUS
<1> USE DEF vars, LandingInv
<1>1. TypeOK' /\ CurExists' /\ AutolandKnown' /\ RefsBehind'
  BY DEF TypeOK, CurExists, AutolandKnown, RefsBehind
<1>2. NotifyPushed' /\ DonePushed' /\ CompleteSeen' /\ BackoutsSeen'
  BY DEF NotifyPushed, DonePushed, CompleteSeen, BackoutsSeen, Pushed, BackedOut, Prs
<1>3. AllOrderly' /\ Alone' /\ Informed' /\ Based'
  BY DEF AllOrderly, Alone, Open, Waits, Informed, Based, Told, Prs, Pushed
<1>4. ReadIsRight'
  BY DEF ReadIsRight, Waits, SyncPoint, Live, Pushed, BackedOut
<1>5. Stacked'
  <2> SUFFICES ASSUME Calm, NEW n \in 0..Len(autoland'), NEW i \in Live(n)'
               PROVE  PrsOf(UpTo(i, n))' = Rng(0, landings'[i].head)
    BY DEF Stacked, Calm
  <2>1. Live(n)' = Live(n)
    BY DEF Live, Pushed, BackedOut
  <2>2. UpTo(i, n)' = UpTo(i, n)
    BY <2>1 DEF UpTo
  <2>3. PrsOf(UpTo(i, n))' = PrsOf(UpTo(i, n))
    BY <2>2 DEF PrsOf, Prs
  <2>4. QED
    BY <2>1, <2>3 DEF Stacked
<1>6. QED
  BY <1>1, <1>2, <1>3, <1>4, <1>5

LEMMA InitInv == Init => LandingInv
<1> SUFFICES ASSUME Init PROVE LandingInv
  OBVIOUS
<1>1. /\ <<>> \in Seq(LandingSync) /\ <<>> \in Seq(Push) /\ Len(<<>>) = 0
  BY EmptySeq
<1>2. TypeOK
  BY <1>1, BoundAssumption, GoneType DEF Init, TypeOK, Repo
<1>3. CurExists /\ AutolandKnown /\ RefsBehind /\ BackoutsSeen /\ NotifyPushed
  BY <1>1 DEF Init, CurExists, AutolandKnown, RefsBehind, BackoutsSeen, NotifyPushed, Repo
<1>4. DonePushed /\ CompleteSeen /\ AllOrderly /\ Alone /\ Informed /\ Based
  BY <1>1 DEF Init, DonePushed, CompleteSeen, AllOrderly, Alone, Open, Informed, Based
<1>5. ReadIsRight
  BY DEF Init, ReadIsRight, Waits, Proc
<1>6. Stacked
  BY <1>1 DEF Init, Stacked, Live
<1>7. QED
  BY <1>2, <1>3, <1>4, <1>5, <1>6 DEF LandingInv

THEOREM LandingInvHolds == Spec => []LandingInv
<1>1. LandingInv /\ [Next]_vars => LandingInv'
  BY NextKeeps, KeepsInv, StutterKeeps
<1>2. QED
  BY InitInv, <1>1, PTL DEF Spec

-----------------------------------------------------------------------------
(***************************************************************************)
(* The state keeps its types, whatever the commands do and what fails.     *)
(***************************************************************************)
THEOREM TypeCorrect == Spec => []TypeOK
<1>1. LandingInv => TypeOK
  BY DEF LandingInv
<1>2. QED
  BY <1>1, LandingInvHolds, PTL

(***************************************************************************)
(* Without commands the worker never has two open landings, however        *)
(* landings are finished, fail and are backed out (gecko_push: "the        *)
(* invariant that there is only one").                                     *)
(***************************************************************************)
THEOREM WorkerHasOneLanding == Command = {} => (Spec => []OneOpenLanding)
<1> SUFFICES ASSUME Command = {} PROVE Spec => []OneOpenLanding
  OBVIOUS
<1>1. LandingInv => OneOpenLanding
  <2> SUFFICES ASSUME LandingInv PROVE Cardinality(Open) <= 1
    BY DEF OneOpenLanding
  <2>1. CASE Open = {}
    BY <2>1, FS_EmptySet
  <2>2. CASE Open # {}
    <3>1. PICK i \in Open : Open = {i}
      BY <2>2 DEF LandingInv, Alone
    <3>2. Cardinality({i}) = 1
      BY FS_Singleton
    <3>3. QED
      BY <3>1, <3>2
  <2>3. QED
    BY <2>1, <2>2
<1>2. QED
  BY <1>1, LandingInvHolds, PTL

(***************************************************************************)
(* Downstream syncs are finished only by a landing that was pushed, with   *)
(* any commands but those with --no-push, and whatever dies or fails.      *)
(***************************************************************************)
THEOREM FinishedSyncsWerePushed == PushAllowed => (Spec => []DoneWasPushed)
<1> SUFFICES ASSUME PushAllowed PROVE Spec => []DoneWasPushed
  OBVIOUS
<1>1. LandingInv => DoneWasPushed
  <2> SUFFICES ASSUME LandingInv, NEW n \in done
               PROVE  n \in UNION {Rng(landings[i].base, landings[i].head) :
                                   i \in {i \in DOMAIN landings : Pushed(i, Len(autoland))}}
    BY DEF DoneWasPushed
  <2>1. PICK i \in 1..Len(landings) :
          n \in Rng(landings[i].base, landings[i].head) /\ Pushed(i, Len(autoland))
    BY DEF LandingInv, DonePushed, Prs
  <2>2. i \in DOMAIN landings
    BY LenProperties DEF LandingInv, TypeOK
  <2>3. QED
    BY <2>1, <2>2
<1>2. QED
  BY <1>1, LandingInvHolds, PTL

(***************************************************************************)
(* A landing is complete only when it is on central, if every downstream   *)
(* sync has a bug of its own.                                              *)
(***************************************************************************)
THEOREM CompleteReachedCentral == NoBug = {} => (Spec => []CompleteIsOnCentral)
<1> SUFFICES ASSUME NoBug = {} PROVE Spec => []CompleteIsOnCentral
  OBVIOUS
<1>1. LandingInv => CompleteIsOnCentral
  <2> SUFFICES ASSUME LandingInv, NEW i \in DOMAIN landings, landings[i].status = "complete"
               PROVE  Pushed(i, central)
    BY DEF CompleteIsOnCentral
  <2>1. i \in 1..Len(landings)
    BY Lengths, LenProperties
  <2>2. Pushed(i, local.central)
    BY <2>1 DEF LandingInv, CompleteSeen
  <2>3. QED
    BY <2>2, Lengths, PushedMore
<1>2. QED
  BY <1>1, LandingInvHolds, PTL

(***************************************************************************)
(* Only the latest try push of a landing is ever open, whatever is retried *)
(* and by whom.                                                            *)
(***************************************************************************)
THEOREM OnlyLatestTryOpen == Spec => []OlderTriesComplete
<1>1. LandingInv => OlderTriesComplete
  <2> SUFFICES ASSUME LandingInv, NEW i \in DOMAIN landings, NEW k \in DOMAIN landings[i].tries,
                      k < Len(landings[i].tries)
               PROVE  landings[i].tries[k].status = "complete"
    BY DEF OlderTriesComplete
  <2>1. i \in 1..Len(landings) /\ landings[i] \in LandingSync
    BY LenProperties, ElementOfSeq DEF LandingInv, TypeOK
  <2>2. k \in 1..Len(landings[i].tries)
    BY <2>1, LandingFields, LenProperties
  <2>3. QED
    BY <2>1, <2>2 DEF LandingInv, AllOrderly, Orderly, OlderComplete
<1>2. QED
  BY <1>1, LandingInvHolds, PTL

(***************************************************************************)
(* What is pushed was tested: at the push the last try push is a complete  *)
(* stability one that passed, after a complete ordinary one that passed,   *)
(* unless --accept-failures was given for that try push; whatever is       *)
(* retried, fails or dies, and with any commands.                          *)
(***************************************************************************)
THEOREM PushesWereTested == Spec => PushedWasTested
<1> DEFINE Good(k) ==
      LET t == landings'[autoland'[k].of].tries
          Passed(j) == /\ t[j].status = "complete"
                       /\ \/ t[j].result \in {"success", "acceptable"} /\ ~t[j].infra
                          \/ t[j].accept \/ t[j].waived
      IN  /\ t[Len(t)].stability /\ Passed(Len(t))
          /\ \E j \in DOMAIN t : ~t[j].stability /\ Passed(j)
    Step == \A k \in DOMAIN autoland' \ DOMAIN autoland :
              autoland'[k].kind = "landing" => Good(k)
<1>1. ASSUME LandingInv, Next, NEW k \in DOMAIN autoland' \ DOMAIN autoland,
             autoland'[k].kind = "landing"
      PROVE  Good(k)
  <2>1. Keeps
    BY <1>1, NextKeeps
  <2>2. k = Len(autoland) + 1 /\ autoland' # autoland
    <3>1. /\ DOMAIN autoland = 1..Len(autoland) /\ DOMAIN autoland' = 1..Len(autoland')
          /\ Len(autoland) \in Nat
      BY <1>1, <2>1, LenProperties DEF Keeps, LandingInv, TypeOK
    <3>2. autoland' # autoland
      BY <1>1
    <3>3. Len(autoland') \in {Len(autoland), Len(autoland) + 1}
      BY <1>1, <2>1, HistoryStays DEF Keeps
    <3>4. k \in 1..Len(autoland') /\ k \notin 1..Len(autoland)
      BY <1>1, <3>1
    <3>5. CASE Len(autoland') = Len(autoland)
      BY <3>4, <3>5
    <3>6. CASE Len(autoland') = Len(autoland) + 1
      <4>1. Len(autoland) \in Nat
        BY <3>1
      <4>2. k \in 1..(Len(autoland) + 1)
        BY <3>4, <3>6
      <4>3. k = Len(autoland) + 1
        BY <3>4, <4>1, <4>2
      <4>4. QED
        BY <3>2, <4>3
    <3>7. QED
      BY <3>3, <3>5, <3>6
  <2>3. PICK i \in 1..Len(landings) :
          autoland'[k].of = i /\ Pushable(landings'[i]) /\ Justified(autoland'[k])
    BY <1>1, <2>1, <2>2, HistoryStays DEF Keeps, Justified
  <2> DEFINE l == landings'[i]
  <2>4. l \in LandingSync /\ Orderly(l)
    <3>1. i \in 1..Len(landings')
      BY <1>1, <2>1, PrsStay
    <3>2. QED
      BY <2>1, <3>1, ElementOfSeq DEF Keeps, TypeOK, AllOrderly
  <2> HIDE DEF l
  <2>5. Pushable(l)
    BY <2>3 DEF l
  <2>6. Latest(l) = l.tries[Len(l.tries)] /\ Len(l.tries) \in 1..Len(l.tries)
    BY <2>4, <2>5, LatestIsTry DEF Pushable
  <2>7. HasOrdinary(l) /\ PassedTry(l.tries[Len(l.tries)]) /\ l.tries[Len(l.tries)].stability
    BY <2>4, <2>5, <2>6 DEF Orderly, Tested, Pushable
  <2>8. PICK j \in 1..Len(l.tries) : ~l.tries[j].stability /\ PassedTry(l.tries[j])
    BY <2>7 DEF HasOrdinary
  <2>9. DOMAIN l.tries = 1..Len(l.tries)
    BY <2>4, LandingFields, LenProperties
  <2>10. landings'[autoland'[k].of] = l
    BY <2>3 DEF l
  <2>11. QED
    BY <2>7, <2>8, <2>9, <2>10 DEF PassedTry
<1>2. LandingInv /\ [Next]_vars => [Step]_vars
  BY <1>1
<1>3. QED
  BY <1>2, LandingInvHolds, PTL DEF Spec, PushedWasTested

(***************************************************************************)
(* The tree has just the PRs up to its sync point, in every state that     *)
(* autoland was in, if nothing is backed out after it reached central and  *)
(* only the worker lands: whatever fails or dies, whatever is backed out,  *)
(* and however often landings are pushed and follow each other.            *)
(***************************************************************************)
THEOREM SyncPointIsWhatIsThere == Calm => (Spec => []TreeMatchesSyncPoint)
<1> SUFFICES ASSUME Calm PROVE Spec => []TreeMatchesSyncPoint
  OBVIOUS
<1>1. LandingInv => TreeMatchesSyncPoint
  BY TreeIsSyncPoint DEF TreeMatchesSyncPoint, InTree, PrsOf, Prs
<1>2. QED
  BY <1>1, LandingInvHolds, PTL

(***************************************************************************)
(* When a landing is complete the syncs of its PRs are finished, with any  *)
(* commands, if no process dies between the push and the notifications,    *)
(* lando's answer is not lost, and every downstream sync has a bug.        *)
(***************************************************************************)
THEOREM CompleteSyncsWereFinished == Reliable => (Spec => []CompleteWasNotified)
<1> SUFFICES ASSUME Reliable PROVE Spec => []CompleteWasNotified
  OBVIOUS
<1>1. LandingInv => CompleteWasNotified
  <2> SUFFICES ASSUME LandingInv, NEW i \in DOMAIN landings, landings[i].status = "complete"
               PROVE  Rng(landings[i].base, landings[i].head) \subseteq done
    BY DEF CompleteWasNotified
  <2>1. i \in 1..Len(landings)
    BY Lengths, LenProperties
  <2>2. QED
    BY <2>1 DEF LandingInv, Informed, Prs
<1>2. QED
  BY <1>1, LandingInvHolds, PTL
=============================================================================
