-------------------------- MODULE SyncLocks_proofs --------------------------
(***************************************************************************)
(* Proofs about SyncLocks, for any number of processes and pull requests,  *)
(* any nesting of blocks and any of the failures.                          *)
(***************************************************************************)
EXTENDS SyncLocks, WellFoundedInduction, TLAPS

IsLock(p, i) == i \in 1..Depth(p) /\ stack[p][i].kind = "lock"
IsMut(p, i)  == i \in 1..Depth(p) /\ stack[p][i].kind = "mut"
LockAt(p, i) == stack[p][i].lock
Owns(p, l, i) == IsLock(p, i) /\ LockAt(p, i) = l /\ stack[p][i].own

(***************************************************************************)
(* The inductive invariant.  Mutual exclusion alone is not inductive: it   *)
(* rests on the entry that took the file being the outermost one for its   *)
(* lock, and on Lock.locks naming every lock the process is inside.        *)
(***************************************************************************)
Registered ==        \* a lock that is held or entered is in Lock.locks
  \A p \in Proc :
    /\ \A l \in Lock : file[l] = p => l \in locks[p]
    /\ \A i \in Nat : IsLock(p, i) => LockAt(p, i) \in locks[p]
OwnerHolds ==        \* the entry that took the file has it
  \A p \in Proc : \A l \in Lock : \A i \in Nat : Owns(p, l, i) => file[l] = p
OwnerOutermost ==    \* and is the first one for its lock
  \A p \in Proc : \A l \in Lock : \A i, j \in Nat :
    Owns(p, l, i) /\ IsLock(p, j) /\ LockAt(p, j) = l => i <= j
HolderInside ==      \* a lock is held for an entry (a commit that raises breaks this)
  \A p \in Proc : \A l \in Lock :
    file[l] = p /\ (l = Repo => "commit" \notin Failures) => \E i \in Nat : Owns(p, l, i)
GuardInside ==       \* a guard is inside the block that took its lock
  \A p \in Proc : \A i \in Nat : IsMut(p, i) =>
    /\ LockAt(p, i) \in SyncLock
    /\ \E j \in Nat : j < i /\ Owns(p, LockAt(p, i), j)
WaiterOutside ==     \* a process waits for a lock it neither holds nor is inside
  \A p \in Proc : waiting[p] # NoLock =>
    /\ waiting[p] \in locks[p] /\ file[waiting[p]] # p
    /\ \A i \in Nat : IsLock(p, i) => LockAt(p, i) # waiting[p]
RegisteredHeld ==    \* an acquire that raises breaks this
  "acquire" \notin Failures =>
    \A p \in Proc : \A l \in locks[p] : file[l] = p \/ waiting[p] = l

LockInv ==
  /\ TypeOK
  /\ Registered
  /\ OwnerHolds
  /\ OwnerOutermost
  /\ HolderInside
  /\ GuardInside
  /\ WaiterOutside
  /\ RegisteredHeld

-----------------------------------------------------------------------------
USE DEF Proc

(* The place locks are different from the mark that no lock is waited for. *)
LEMMA NoLockDistinct == NoLock \notin Lock /\ Repo \in Lock /\ SyncLock \subseteq Lock
BY DEF NoLock, Lock, SyncLock, Task, Landing, Upstream, Repo, Downstream

(* Entering a block appends one entry and changes no other. *)
LEMMA PushFacts ==
  ASSUME stack \in [Proc -> Seq(Entry)],
         NEW p \in Proc, NEW kind \in {"lock", "mut"}, NEW l \in Lock, NEW own \in BOOLEAN,
         Push(p, kind, l, own)
  PROVE  /\ stack' \in [Proc -> Seq(Entry)]
         /\ Depth(p) \in Nat /\ Depth(p)' = Depth(p) + 1
         /\ stack'[p][Depth(p) + 1] = [kind |-> kind, lock |-> l, own |-> own]
         /\ \A i \in 1..Depth(p) : stack'[p][i] = stack[p][i]
         /\ \A q \in Proc \ {p} : stack'[q] = stack[q] /\ Depth(q)' = Depth(q)
<1> DEFINE e == [kind |-> kind, lock |-> l, own |-> own]
<1>1. e \in Entry
  BY DEF Entry
<1>2. stack'[p] = Append(stack[p], e) /\ stack' \in [Proc -> Seq(Entry)]
  BY <1>1 DEF Push
<1>3. \A q \in Proc \ {p} : stack'[q] = stack[q]
  BY DEF Push
<1>4. QED
  BY <1>1, <1>2, <1>3 DEF Depth

(* Leaving a block removes the last entry and changes no other. *)
LEMMA PopFacts ==
  ASSUME stack \in [Proc -> Seq(Entry)], NEW p \in Proc, Depth(p) > 0, Pop(p)
  PROVE  /\ stack' \in [Proc -> Seq(Entry)]
         /\ Depth(p) \in Nat /\ Depth(p)' = Depth(p) - 1
         /\ Top(p) = stack[p][Depth(p)] /\ Top(p) \in Entry
         /\ \A i \in 1..Depth(p)' : stack'[p][i] = stack[p][i]
         /\ \A q \in Proc \ {p} : stack'[q] = stack[q] /\ Depth(q)' = Depth(q)
<1>1. stack[p] \in Seq(Entry) /\ Len(stack[p]) \in Nat /\ Len(stack[p]) > 0
  BY DEF Depth
<1>2. stack'[p] = SubSeq(stack[p], 1, Len(stack[p]) - 1)
  BY DEF Pop
<1>3. SubSeq(stack[p], 1, Len(stack[p]) - 1) \in Seq(Entry)
  BY <1>1
<1>4. stack' \in [Proc -> Seq(Entry)]
  BY <1>2, <1>3 DEF Pop
<1>5. \A q \in Proc \ {p} : stack'[q] = stack[q]
  BY DEF Pop
<1>6. QED
  BY <1>1, <1>2, <1>4, <1>5 DEF Depth, Top

(* So a lock or guard entry survives unless it is the one left. *)
LEMMA PopEntries ==
  ASSUME stack \in [Proc -> Seq(Entry)], NEW p \in Proc, Depth(p) > 0, Pop(p),
         NEW q \in Proc, NEW i \in Nat
  PROVE  /\ IsLock(q, i)' <=> IsLock(q, i) /\ ~(q = p /\ i = Depth(p))
         /\ IsMut(q, i)' <=> IsMut(q, i) /\ ~(q = p /\ i = Depth(p))
         /\ IsLock(q, i)' \/ IsMut(q, i)' => stack'[q][i] = stack[q][i]
<1>1. CASE q = p
  <2>1. i \in 1..Depth(p)' <=> i \in 1..Depth(p) /\ i # Depth(p)
    BY PopFacts
  <2>2. i \in 1..Depth(p)' => stack'[p][i] = stack[p][i]
    BY PopFacts
  <2>3. QED
    BY <1>1, <2>1, <2>2 DEF IsLock, IsMut
<1>2. CASE q # p
  <2>1. stack'[q] = stack[q] /\ Depth(q)' = Depth(q)
    BY <1>2, PopFacts
  <2>2. QED
    BY <1>2, <2>1 DEF IsLock, IsMut
<1>3. QED
  BY <1>1, <1>2

LEMMA InitInv == Init => LockInv
<1> SUFFICES ASSUME Init PROVE LockInv
  OBVIOUS
<1> USE DEF Init
<1>1. TypeOK
  BY DEF TypeOK
<1>2. \A p \in Proc : Depth(p) = 0
  BY DEF Depth
<1>3. \A p \in Proc : \A i \in Nat : ~IsLock(p, i) /\ ~IsMut(p, i)
  BY <1>2 DEF IsLock, IsMut
<1>4. \A p \in Proc : \A l \in Lock : file[l] # p
  BY ProcAssumption
<1>5. QED
  BY <1>1, <1>3, <1>4 DEF LockInv, Registered, OwnerHolds, OwnerOutermost, HolderInside,
       GuardInside, WaiterOutside, RegisteredHeld, Owns

LEMMA EnterInv ==
  ASSUME LockInv, NEW p \in Proc, NEW l \in Lock, Enter(p, l)
  PROVE  LockInv'
<1> USE NoLockDistinct DEF LockInv
<1>1. CASE l \in locks[p]
  <2>1. Push(p, "lock", l, FALSE) /\ UNCHANGED <<file, locks, waiting>>
    BY <1>1 DEF Enter
  <2>2. stack \in [Proc -> Seq(Entry)] /\ waiting[p] = NoLock
    BY DEF TypeOK, Enter
  <2>3. /\ stack' \in [Proc -> Seq(Entry)]
        /\ Depth(p) \in Nat /\ Depth(p)' = Depth(p) + 1
        /\ stack'[p][Depth(p) + 1] = [kind |-> "lock", lock |-> l, own |-> FALSE]
        /\ \A i \in 1..Depth(p) : stack'[p][i] = stack[p][i]
        /\ \A q \in Proc \ {p} : stack'[q] = stack[q] /\ Depth(q)' = Depth(q)
    BY <2>1, <2>2, PushFacts
  <2>4. TypeOK'
    BY <2>1, <2>3 DEF TypeOK
  <2>5. \A q \in Proc, k \in Lock, i \in Nat : Owns(q, k, i)' <=> Owns(q, k, i)
    BY <2>3 DEF Owns, IsLock, LockAt
  <2>6. \A q \in Proc, i \in Nat : IsMut(q, i)' => IsMut(q, i) /\ LockAt(q, i)' = LockAt(q, i)
    BY <2>3 DEF IsMut, LockAt
  <2>7. \A q \in Proc, i \in Nat : IsLock(q, i)' =>
          \/ IsLock(q, i) /\ LockAt(q, i)' = LockAt(q, i)
          \/ q = p /\ i = Depth(p) + 1 /\ LockAt(q, i)' = l
    BY <2>3 DEF IsLock, LockAt
  <2>8. Registered'
    BY <1>1, <2>1, <2>7 DEF Registered
  <2>9. OwnerHolds' /\ HolderInside' /\ RegisteredHeld'
    BY <2>1, <2>5 DEF OwnerHolds, HolderInside, RegisteredHeld
  <2>10. OwnerOutermost'
    <3>1. \A k \in Lock, i \in Nat : Owns(p, k, i) => i <= Depth(p)
      BY <2>3 DEF Owns, IsLock
    <3>2. QED
      BY <2>3, <2>5, <2>7, <3>1 DEF OwnerOutermost
  <2>11. GuardInside'
    BY <2>5, <2>6 DEF GuardInside
  <2>12. WaiterOutside'
    BY <2>1, <2>2, <2>7 DEF WaiterOutside
  <2>13. QED
    BY <2>4, <2>8, <2>9, <2>10, <2>11, <2>12
<1>2. CASE l \notin locks[p]
  <2>1. /\ locks' = [locks EXCEPT ![p] = @ \cup {l}]
        /\ waiting' = [waiting EXCEPT ![p] = l]
        /\ file' = file /\ stack' = stack
    BY <1>2 DEF Enter
  <2>2. TypeOK'
    BY <2>1 DEF TypeOK
  <2>3. /\ locks'[p] = locks[p] \cup {l} /\ waiting'[p] = l
        /\ \A q \in Proc \ {p} : locks'[q] = locks[q] /\ waiting'[q] = waiting[q]
    BY <2>1 DEF TypeOK
  <2>4. Registered' /\ OwnerHolds' /\ OwnerOutermost' /\ HolderInside' /\ GuardInside'
    BY <2>1, <2>3 DEF Registered, OwnerHolds, OwnerOutermost, HolderInside, GuardInside,
         Owns, IsLock, IsMut, LockAt, Depth
  <2>5. RegisteredHeld'
    <3>1. waiting[p] = NoLock
      BY DEF Enter
    <3>2. QED
      BY <2>1, <2>3, <3>1 DEF RegisteredHeld, TypeOK
  <2>6. WaiterOutside'
    <3>1. file[l] # p /\ \A i \in Nat : IsLock(p, i) => LockAt(p, i) # l
      BY <1>2 DEF Registered
    <3>2. QED
      BY <2>1, <2>3, <3>1 DEF WaiterOutside, IsLock, LockAt, Depth
  <2>7. QED
    BY <2>2, <2>4, <2>5, <2>6
<1>3. QED
  BY <1>1, <1>2

LEMMA AcquireInv ==
  ASSUME LockInv, NEW p \in Proc, Acquire(p)
  PROVE  LockInv'
<1> USE NoLockDistinct, ProcAssumption DEF LockInv
<1> DEFINE l == waiting[p]
<1>1. /\ l \in Lock /\ file[l] = NoProc
      /\ file' = [file EXCEPT ![l] = p] /\ waiting' = [waiting EXCEPT ![p] = NoLock]
      /\ Push(p, "lock", l, TRUE) /\ locks' = locks
      /\ stack \in [Proc -> Seq(Entry)]
  BY DEF Acquire, TypeOK
<1> HIDE DEF l
<1>2. /\ stack' \in [Proc -> Seq(Entry)]
      /\ Depth(p) \in Nat /\ Depth(p)' = Depth(p) + 1
      /\ stack'[p][Depth(p) + 1] = [kind |-> "lock", lock |-> l, own |-> TRUE]
      /\ \A i \in 1..Depth(p) : stack'[p][i] = stack[p][i]
      /\ \A q \in Proc \ {p} : stack'[q] = stack[q] /\ Depth(q)' = Depth(q)
  BY <1>1, PushFacts
<1>3. /\ file'[l] = p /\ \A k \in Lock \ {l} : file'[k] = file[k]
      /\ waiting'[p] = NoLock /\ \A q \in Proc \ {p} : waiting'[q] = waiting[q]
  BY <1>1 DEF TypeOK
<1>4. l \in locks[p] /\ \A i \in Nat : IsLock(p, i) => LockAt(p, i) # l
  BY <1>1 DEF WaiterOutside, l
<1>5. TypeOK'
  BY <1>1, <1>2 DEF TypeOK
<1>6. \A q \in Proc, k \in Lock, i \in Nat :
        Owns(q, k, i)' <=> Owns(q, k, i) \/ (q = p /\ k = l /\ i = Depth(p) + 1)
  BY <1>2 DEF Owns, IsLock, LockAt
<1>7. \A q \in Proc, i \in Nat : IsMut(q, i)' => IsMut(q, i) /\ LockAt(q, i)' = LockAt(q, i)
  BY <1>2 DEF IsMut, LockAt
<1>8. \A q \in Proc, i \in Nat : IsLock(q, i)' =>
        \/ IsLock(q, i) /\ LockAt(q, i)' = LockAt(q, i)
        \/ q = p /\ i = Depth(p) + 1 /\ LockAt(q, i)' = l
  BY <1>2 DEF IsLock, LockAt
<1>9. Registered'
  BY <1>1, <1>3, <1>4, <1>8 DEF Registered
<1>10. OwnerHolds'
  BY <1>1, <1>3, <1>6 DEF OwnerHolds
<1>11. OwnerOutermost'
  <2>1. \A i \in Nat : IsLock(p, i) => i <= Depth(p)
    BY <1>2 DEF IsLock
  <2>2. \A k \in Lock, i \in Nat : Owns(p, k, i) => IsLock(p, i) /\ LockAt(p, i) = k
    BY DEF Owns
  <2>3. SUFFICES ASSUME NEW q \in Proc, NEW k \in Lock, NEW i \in Nat, NEW j \in Nat,
                        Owns(q, k, i)', IsLock(q, j)', LockAt(q, j)' = k
                 PROVE  i <= j
    BY DEF OwnerOutermost
  <2>4. CASE Owns(q, k, i)
    BY <1>2, <1>4, <1>8, <2>1, <2>2, <2>3, <2>4 DEF OwnerOutermost
  <2>5. CASE q = p /\ k = l /\ i = Depth(p) + 1
    BY <1>2, <1>4, <1>8, <2>3, <2>5
  <2>6. QED
    BY <1>6, <2>3, <2>4, <2>5
<1>12. HolderInside'
  <2>1. \A k \in Lock : k = l => \E i \in Nat : Owns(p, k, i)'
    BY <1>1, <1>2, <1>6
  <2>2. QED
    BY <1>1, <1>3, <1>6, <2>1 DEF HolderInside
<1>13. GuardInside'
  BY <1>6, <1>7 DEF GuardInside
<1>14. WaiterOutside'
  BY <1>1, <1>3, <1>8 DEF WaiterOutside
<1>15. RegisteredHeld'
  BY <1>1, <1>3 DEF RegisteredHeld, TypeOK, l
<1>16. QED
  BY <1>5, <1>9, <1>10, <1>11, <1>12, <1>13, <1>14, <1>15

LEMMA AcquireRaisesInv ==
  ASSUME LockInv, NEW p \in Proc, AcquireRaises(p)
  PROVE  LockInv'
<1> USE NoLockDistinct DEF LockInv
<1>1. /\ file' = file /\ stack' = stack
      /\ waiting[p] # NoLock
      /\ locks' = [locks EXCEPT ![p] = @ \ ({waiting[p]} \cap {Task})]
      /\ waiting' = [waiting EXCEPT ![p] = NoLock]
  BY DEF AcquireRaises
<1>2. TypeOK'
  BY <1>1 DEF TypeOK
<1>3. /\ waiting'[p] = NoLock
      /\ locks'[p] \subseteq locks[p] /\ locks[p] \subseteq locks'[p] \cup {waiting[p]}
      /\ \A q \in Proc \ {p} : locks'[q] = locks[q] /\ waiting'[q] = waiting[q]
  BY <1>1 DEF TypeOK
<1>4. \A i \in Nat : IsLock(p, i) => LockAt(p, i) # waiting[p]
  BY <1>1 DEF WaiterOutside
<1>5. Registered'
  <2>1. file[waiting[p]] # p
    BY <1>1 DEF WaiterOutside
  <2>2. QED
    BY <1>1, <1>3, <1>4, <2>1 DEF Registered, IsLock, LockAt, Depth
<1>6. OwnerHolds' /\ OwnerOutermost' /\ HolderInside' /\ GuardInside'
  BY <1>1 DEF OwnerHolds, OwnerOutermost, HolderInside, GuardInside, Owns, IsLock, IsMut,
       LockAt, Depth
<1>7. WaiterOutside'
  BY <1>1, <1>3 DEF WaiterOutside, IsLock, LockAt, Depth
<1>8. RegisteredHeld'
  BY DEF RegisteredHeld, AcquireRaises
<1>9. QED
  BY <1>2, <1>5, <1>6, <1>7, <1>8

LEMMA ExitLockInv ==
  ASSUME LockInv, NEW p \in Proc, ExitLock(p)
  PROVE  LockInv'
<1> USE NoLockDistinct, ProcAssumption DEF LockInv
<1> DEFINE n == Depth(p)
<1>1. /\ waiting[p] = NoLock /\ waiting' = waiting
      /\ n > 0 /\ Top(p).kind = "lock" /\ Pop(p)
      /\ stack \in [Proc -> Seq(Entry)]
  BY DEF ExitLock, TypeOK
<1>2. /\ stack' \in [Proc -> Seq(Entry)]
      /\ n \in Nat /\ Depth(p)' = n - 1
      /\ Top(p) = stack[p][n] /\ Top(p) \in Entry
      /\ \A i \in 1..Depth(p)' : stack'[p][i] = stack[p][i]
      /\ \A q \in Proc \ {p} : stack'[q] = stack[q] /\ Depth(q)' = Depth(q)
  BY <1>1, PopFacts
<1>a. \A q \in Proc, i \in Nat :
        /\ IsLock(q, i)' <=> IsLock(q, i) /\ ~(q = p /\ i = n)
        /\ IsMut(q, i)' <=> IsMut(q, i) /\ ~(q = p /\ i = n)
        /\ IsLock(q, i)' \/ IsMut(q, i)' => stack'[q][i] = stack[q][i]
  BY <1>1, PopEntries
<1>b. IsLock(p, n) /\ ~IsMut(p, n) /\ \A i \in Nat : IsMut(p, i) => i <= n
  BY <1>1, <1>2 DEF IsLock, IsMut
<1> HIDE DEF n
<1>3. IsLock(p, n) /\ LockAt(p, n) \in Lock /\ Top(p).lock = LockAt(p, n)
  BY <1>1, <1>2 DEF IsLock, LockAt, Entry, n
<1>4. \A q \in Proc, k \in Lock, i \in Nat :
        Owns(q, k, i)' <=> Owns(q, k, i) /\ ~(q = p /\ i = n)
  BY <1>a DEF Owns, LockAt
<1>5. \A q \in Proc, i \in Nat :
        /\ IsMut(q, i)' => IsMut(q, i) /\ LockAt(q, i)' = LockAt(q, i)
        /\ IsLock(q, i)' => IsLock(q, i) /\ LockAt(q, i)' = LockAt(q, i) /\ ~(q = p /\ i = n)
        /\ IsMut(q, i)' /\ q = p => i < n
  BY <1>2, <1>a, <1>b DEF LockAt
<1>6. GuardInside'
  BY <1>2, <1>4, <1>5 DEF GuardInside
<1>7. CASE Top(p).own
  <2> DEFINE l == LockAt(p, n)
  <2>1. Owns(p, l, n) /\ n \in Nat /\ l \in Lock
    BY <1>2, <1>3, <1>7 DEF Owns
  <2> HIDE DEF l
  <2>2. /\ locks' = [locks EXCEPT ![p] = @ \ {l}]
        /\ file' = [file EXCEPT ![l] = NoProc]
    BY <1>3, <1>7 DEF ExitLock, l
  <2>3. /\ file'[l] = NoProc /\ \A k \in Lock \ {l} : file'[k] = file[k]
        /\ locks'[p] = locks[p] \ {l} /\ \A q \in Proc \ {p} : locks'[q] = locks[q]
    BY <2>1, <2>2 DEF TypeOK
  <2>4. file[l] = p /\ \A i \in Nat : IsLock(p, i) /\ LockAt(p, i) = l => n <= i
    BY <2>1 DEF OwnerHolds, OwnerOutermost
  <2>5. \A i \in Nat : IsLock(p, i)' => LockAt(p, i) # l
    BY <1>1, <1>2, <1>5, <2>4 DEF IsLock
  <2>6. \A q \in Proc, k \in Lock, i \in Nat : Owns(q, k, i)' => k # l
    BY <1>2, <1>4, <1>5, <2>4, <2>5 DEF OwnerHolds, Owns
  <2>7. TypeOK'
    BY <1>1, <1>2, <2>1, <2>2 DEF TypeOK
  <2>8. Registered'
    BY <1>5, <2>3, <2>5 DEF Registered
  <2>9. OwnerHolds'
    BY <1>4, <2>3, <2>6 DEF OwnerHolds
  <2>10. OwnerOutermost'
    BY <1>4, <1>5 DEF OwnerOutermost
  <2>11. HolderInside'
    BY <1>4, <2>1, <2>3 DEF HolderInside, Owns
  <2>12. WaiterOutside'
    <3> SUFFICES ASSUME NEW q \in Proc, waiting'[q] # NoLock
                 PROVE  /\ waiting'[q] \in locks'[q] /\ file'[waiting'[q]] # q
                        /\ \A i \in Nat : IsLock(q, i)' => LockAt(q, i)' # waiting'[q]
      BY DEF WaiterOutside
    <3>1. q # p /\ waiting[q] # NoLock /\ waiting[q] \in Lock
      BY <1>1 DEF TypeOK
    <3>2. /\ waiting[q] \in locks[q] /\ file[waiting[q]] # q
          /\ \A i \in Nat : IsLock(q, i) => LockAt(q, i) # waiting[q]
      BY <3>1 DEF WaiterOutside
    <3>3. waiting'[q] \in locks'[q] /\ file'[waiting'[q]] # q
      BY <1>1, <2>3, <3>1, <3>2
    <3>4. QED
      BY <1>1, <1>5, <3>2, <3>3
  <2>13. RegisteredHeld'
    <3> SUFFICES ASSUME "acquire" \notin Failures, NEW q \in Proc, NEW k \in locks'[q]
                 PROVE  file'[k] = q \/ waiting'[q] = k
      BY DEF RegisteredHeld
    <3>1. k \in locks[q] /\ k \in Lock /\ (q = p => k # l)
      BY <2>3 DEF TypeOK
    <3>2. file[k] = q \/ waiting[q] = k
      BY <3>1 DEF RegisteredHeld
    <3>3. q = p => file[k] = q
      BY <1>1, <3>1, <3>2
    <3>4. QED
      BY <1>1, <2>3, <2>4, <3>1, <3>2, <3>3
  <2>14. QED
    BY <1>6, <2>7, <2>8, <2>9, <2>10, <2>11, <2>12, <2>13
<1>8. CASE ~Top(p).own
  <2>1. file' = file /\ locks' = locks
    BY <1>8 DEF ExitLock
  <2>2. \A q \in Proc, k \in Lock, i \in Nat : Owns(q, k, i)' <=> Owns(q, k, i)
    BY <1>2, <1>4, <1>8 DEF Owns
  <2>3. TypeOK'
    BY <1>1, <1>2, <2>1 DEF TypeOK
  <2>4. Registered' /\ WaiterOutside' /\ OwnerOutermost'
    BY <1>1, <1>5, <2>1, <2>2 DEF Registered, WaiterOutside, OwnerOutermost
  <2>5. OwnerHolds' /\ HolderInside' /\ RegisteredHeld'
    BY <1>1, <2>1, <2>2 DEF OwnerHolds, HolderInside, RegisteredHeld
  <2>6. QED
    BY <1>6, <2>3, <2>4, <2>5
<1>9. QED
  BY <1>7, <1>8

LEMMA CommitRaisesInv ==
  ASSUME LockInv, NEW p \in Proc, CommitRaises(p)
  PROVE  LockInv'
<1> USE NoLockDistinct, ProcAssumption DEF LockInv
<1> DEFINE n == Depth(p)
<1>1. /\ "commit" \in Failures /\ waiting' = waiting /\ file' = file /\ locks' = locks
      /\ n > 0 /\ Top(p).lock = Repo /\ Top(p).kind = "lock" /\ Pop(p)
      /\ stack \in [Proc -> Seq(Entry)]
  BY DEF CommitRaises, TypeOK
<1>2. /\ stack' \in [Proc -> Seq(Entry)]
      /\ n \in Nat /\ Depth(p)' = n - 1
      /\ Top(p) = stack[p][n] /\ Top(p) \in Entry
      /\ \A i \in 1..Depth(p)' : stack'[p][i] = stack[p][i]
      /\ \A q \in Proc \ {p} : stack'[q] = stack[q] /\ Depth(q)' = Depth(q)
  BY <1>1, PopFacts
<1>a. \A q \in Proc, i \in Nat :
        /\ IsLock(q, i)' <=> IsLock(q, i) /\ ~(q = p /\ i = n)
        /\ IsMut(q, i)' <=> IsMut(q, i) /\ ~(q = p /\ i = n)
        /\ IsLock(q, i)' \/ IsMut(q, i)' => stack'[q][i] = stack[q][i]
  BY <1>1, PopEntries
<1>b. IsLock(p, n) /\ ~IsMut(p, n) /\ \A i \in Nat : IsMut(p, i) => i <= n
  BY <1>1, <1>2 DEF IsLock, IsMut
<1> HIDE DEF n
<1>3. \A q \in Proc, k \in Lock, i \in Nat :
        Owns(q, k, i)' <=> Owns(q, k, i) /\ ~(q = p /\ i = n)
  BY <1>a DEF Owns, LockAt
<1>4. \A k \in Lock : Owns(p, k, n) => k = Repo
  BY <1>1, <1>2 DEF Owns, LockAt
<1>5. \A q \in Proc, i \in Nat :
        /\ IsMut(q, i)' => IsMut(q, i) /\ LockAt(q, i)' = LockAt(q, i)
        /\ IsLock(q, i)' => IsLock(q, i) /\ LockAt(q, i)' = LockAt(q, i)
        /\ IsMut(q, i)' /\ q = p => i < n
  BY <1>2, <1>a, <1>b DEF LockAt
<1>6. TypeOK'
  BY <1>1, <1>2 DEF TypeOK
<1>7. Registered' /\ WaiterOutside'
  BY <1>1, <1>5 DEF Registered, WaiterOutside
<1>8. OwnerHolds' /\ OwnerOutermost'
  BY <1>1, <1>3, <1>5 DEF OwnerHolds, OwnerOutermost
<1>9. HolderInside'
  BY <1>1, <1>3, <1>4 DEF HolderInside
<1>10. GuardInside'
  BY <1>2, <1>3, <1>5 DEF GuardInside
<1>11. RegisteredHeld'
  BY <1>1 DEF RegisteredHeld
<1>12. QED
  BY <1>6, <1>7, <1>8, <1>9, <1>10, <1>11

LEMMA AsMutInv ==
  ASSUME LockInv, NEW p \in Proc, NEW l \in SyncLock, AsMut(p, l)
  PROVE  LockInv'
<1> USE NoLockDistinct DEF LockInv
<1> DEFINE own == ~Mutable(p, l)
<1>0. own \in BOOLEAN /\ l \in Lock /\ Push(p, "mut", l, own)
  BY DEF AsMut
<1> HIDE DEF own
<1>1. /\ file' = file /\ locks' = locks /\ waiting' = waiting
      /\ file[l] = p /\ stack \in [Proc -> Seq(Entry)]
  BY DEF AsMut, TypeOK
<1>2. /\ stack \in [Proc -> Seq(Entry)] /\ p \in Proc /\ "mut" \in {"lock", "mut"}
      /\ own \in BOOLEAN /\ l \in Lock /\ Push(p, "mut", l, own)
  BY <1>0, <1>1
<1>3. /\ stack' \in [Proc -> Seq(Entry)]
      /\ Depth(p) \in Nat /\ Depth(p)' = Depth(p) + 1
      /\ stack'[p][Depth(p) + 1] = [kind |-> "mut", lock |-> l, own |-> own]
      /\ \A i \in 1..Depth(p) : stack'[p][i] = stack[p][i]
      /\ \A q \in Proc \ {p} : stack'[q] = stack[q] /\ Depth(q)' = Depth(q)
  BY <1>2, PushFacts
<1>4. \A q \in Proc, k \in Lock, i \in Nat : Owns(q, k, i)' <=> Owns(q, k, i)
  BY <1>3 DEF Owns, IsLock, LockAt
<1>5. \A q \in Proc, i \in Nat : IsLock(q, i)' => IsLock(q, i) /\ LockAt(q, i)' = LockAt(q, i)
  BY <1>3 DEF IsLock, LockAt
<1>6. \A q \in Proc, i \in Nat : IsMut(q, i)' =>
        \/ IsMut(q, i) /\ LockAt(q, i)' = LockAt(q, i)
        \/ q = p /\ i = Depth(p) + 1 /\ LockAt(q, i)' = l
  BY <1>3 DEF IsMut, LockAt
<1>7. TypeOK'
  BY <1>1, <1>3 DEF TypeOK
<1>8. Registered' /\ WaiterOutside'
  BY <1>1, <1>5 DEF Registered, WaiterOutside
<1>9. OwnerHolds' /\ OwnerOutermost' /\ HolderInside' /\ RegisteredHeld'
  BY <1>1, <1>4, <1>5 DEF OwnerHolds, OwnerOutermost, HolderInside, RegisteredHeld
<1>10. GuardInside'
  <2>1. l # Repo
    BY DEF SyncLock, Landing, Upstream, Downstream, Repo
  <2>2. PICK j \in Nat : Owns(p, l, j)
    BY <1>0, <1>1, <2>1 DEF HolderInside
  <2>3. j < Depth(p) + 1
    BY <1>3, <2>2 DEF Owns, IsLock
  <2>4. QED
    BY <1>3, <1>4, <1>6, <2>2, <2>3 DEF GuardInside
<1>11. QED
  BY <1>7, <1>8, <1>9, <1>10

LEMMA ExitMutInv ==
  ASSUME LockInv, NEW p \in Proc, ExitMut(p)
  PROVE  LockInv'
<1> USE NoLockDistinct DEF LockInv
<1> DEFINE n == Depth(p)
<1>1. /\ waiting' = waiting /\ file' = file /\ locks' = locks
      /\ n > 0 /\ Top(p).kind = "mut" /\ Pop(p)
      /\ stack \in [Proc -> Seq(Entry)]
  BY DEF ExitMut, TypeOK
<1>2. /\ stack' \in [Proc -> Seq(Entry)]
      /\ n \in Nat /\ Depth(p)' = n - 1
      /\ Top(p) = stack[p][n] /\ Top(p) \in Entry
      /\ \A i \in 1..Depth(p)' : stack'[p][i] = stack[p][i]
      /\ \A q \in Proc \ {p} : stack'[q] = stack[q] /\ Depth(q)' = Depth(q)
  BY <1>1, PopFacts
<1>a. \A q \in Proc, i \in Nat :
        /\ IsLock(q, i)' <=> IsLock(q, i) /\ ~(q = p /\ i = n)
        /\ IsMut(q, i)' => IsMut(q, i)
        /\ IsLock(q, i)' \/ IsMut(q, i)' => stack'[q][i] = stack[q][i]
  BY <1>1, PopEntries
<1>b. ~IsLock(p, n)
  BY <1>1, <1>2 DEF IsLock
<1> HIDE DEF n
<1>3. \A q \in Proc, k \in Lock, i \in Nat : Owns(q, k, i)' <=> Owns(q, k, i)
  BY <1>a, <1>b DEF Owns, LockAt
<1>4. \A q \in Proc, i \in Nat :
        /\ IsMut(q, i)' => IsMut(q, i) /\ LockAt(q, i)' = LockAt(q, i)
        /\ IsLock(q, i)' => IsLock(q, i) /\ LockAt(q, i)' = LockAt(q, i)
  BY <1>a DEF LockAt
<1>5. TypeOK'
  BY <1>1, <1>2 DEF TypeOK
<1>6. Registered' /\ WaiterOutside'
  BY <1>1, <1>4 DEF Registered, WaiterOutside
<1>7. OwnerHolds' /\ OwnerOutermost' /\ HolderInside' /\ RegisteredHeld'
  BY <1>1, <1>3, <1>4 DEF OwnerHolds, OwnerOutermost, HolderInside, RegisteredHeld
<1>8. GuardInside'
  BY <1>3, <1>4 DEF GuardInside
<1>9. QED
  BY <1>5, <1>6, <1>7, <1>8

LEMMA CrashInv ==
  ASSUME LockInv, NEW p \in Proc, Crash(p)
  PROVE  LockInv'
<1> USE NoLockDistinct, ProcAssumption DEF LockInv
<1>1. /\ file' = [l \in Lock |-> IF file[l] = p THEN NoProc ELSE file[l]]
      /\ locks' = [locks EXCEPT ![p] = {}] /\ stack' = [stack EXCEPT ![p] = <<>>]
      /\ waiting' = [waiting EXCEPT ![p] = NoLock]
  BY DEF Crash
<1>2. TypeOK'
  BY <1>1 DEF TypeOK
<1>3. /\ \A l \in Lock : file'[l] = IF file[l] = p THEN NoProc ELSE file[l]
      /\ locks'[p] = {} /\ stack'[p] = <<>> /\ waiting'[p] = NoLock
      /\ \A q \in Proc \ {p} :
           locks'[q] = locks[q] /\ stack'[q] = stack[q] /\ waiting'[q] = waiting[q]
  BY <1>1 DEF TypeOK
<1>4. Depth(p)' = 0
  BY <1>3 DEF Depth
<1>5. \A i \in Nat : ~IsLock(p, i)' /\ ~IsMut(p, i)' /\ \A l \in Lock : ~Owns(p, l, i)'
  BY <1>4 DEF IsLock, IsMut, Owns
<1>6. \A q \in Proc \ {p}, i \in Nat :
        /\ IsLock(q, i)' <=> IsLock(q, i)
        /\ IsMut(q, i)' <=> IsMut(q, i)
        /\ LockAt(q, i)' = LockAt(q, i)
        /\ \A l \in Lock : Owns(q, l, i)' <=> Owns(q, l, i)
  BY <1>3 DEF IsLock, IsMut, LockAt, Owns, Depth
<1>7. Registered' /\ OwnerHolds' /\ OwnerOutermost' /\ HolderInside'
  BY <1>3, <1>5, <1>6 DEF Registered, OwnerHolds, OwnerOutermost, HolderInside
<1>8. GuardInside'
  BY <1>5, <1>6 DEF GuardInside, SyncLock, Lock
<1>9. WaiterOutside' /\ RegisteredHeld'
  BY <1>3, <1>6 DEF WaiterOutside, RegisteredHeld, TypeOK
<1>10. QED
  BY <1>2, <1>7, <1>8, <1>9

LEMMA NextInv == LockInv /\ [Next]_vars => LockInv'
<1> SUFFICES ASSUME LockInv, [Next]_vars PROVE LockInv'
  OBVIOUS
<1>1. CASE UNCHANGED vars
  BY <1>1 DEF vars, LockInv, TypeOK, Registered, OwnerHolds, OwnerOutermost, HolderInside,
       GuardInside, WaiterOutside, RegisteredHeld, IsLock, IsMut, LockAt, Owns, Depth
<1>2. CASE Next
  <2> PICK p \in Proc : Step(p)
    BY <1>2 DEF Next
  <2>1. CASE \E l \in Lock : Enter(p, l)
    BY <2>1, EnterInv
  <2>2. CASE Acquire(p)
    BY <2>2, AcquireInv
  <2>3. CASE AcquireRaises(p)
    BY <2>3, AcquireRaisesInv
  <2>4. CASE ExitLock(p)
    BY <2>4, ExitLockInv
  <2>5. CASE CommitRaises(p)
    BY <2>5, CommitRaisesInv
  <2>6. CASE \E l \in SyncLock : AsMut(p, l)
    BY <2>6, AsMutInv
  <2>7. CASE ExitMut(p)
    BY <2>7, ExitMutInv
  <2>8. CASE Crash(p)
    BY <2>8, CrashInv
  <2>9. QED
    BY <2>1, <2>2, <2>3, <2>4, <2>5, <2>6, <2>7, <2>8 DEF Step
<1>3. QED
  BY <1>1, <1>2

(***************************************************************************)
(* The invariant holds in every reachable state: in particular the state   *)
(* keeps its types.                                                        *)
(***************************************************************************)
THEOREM LockInvHolds == Spec => []LockInv
<1>1. QED
  BY InitInv, NextInv, PTL DEF Spec

THEOREM TypeCorrect == Spec => []TypeOK
<1>1. LockInv => TypeOK
  BY DEF LockInv
<1>2. QED
  BY <1>1, LockInvHolds, PTL

(***************************************************************************)
(* Whatever acquire and create_commit do, two processes never have the     *)
(* objects of one lock mutable, and a process that does holds the lock.    *)
(* It follows from GuardInside and OwnerHolds: the guard is inside a block *)
(* that took the file, and that block still has it.                        *)
(***************************************************************************)
LEMMA MutableLocal == LockInv => MutableHeld /\ MutationExclusive
<1> SUFFICES ASSUME LockInv PROVE MutableHeld /\ MutationExclusive
  OBVIOUS
<1>1. ASSUME NEW p \in Proc, NEW l \in SyncLock, Mutable(p, l) PROVE file[l] = p
  <2>1. l \in Lock /\ stack[p] \in Seq(Entry)
    BY NoLockDistinct DEF LockInv, TypeOK
  <2>2. PICK i \in 1..Depth(p) : stack[p][i].kind = "mut" /\ stack[p][i].lock = l
    BY <1>1 DEF Mutable
  <2>3. i \in Nat /\ IsMut(p, i) /\ LockAt(p, i) = l
    BY <2>2 DEF IsMut, LockAt
  <2>4. QED
    BY <2>1, <2>3 DEF LockInv, GuardInside, OwnerHolds
<1>2. QED
  BY <1>1 DEF MutableHeld, MutationExclusive

THEOREM MutationIsExclusive == Spec => []MutationExclusive
<1>1. QED
  BY LockInvHolds, MutableLocal, PTL

(* And an inner block that is left does not give the lock away. *)
THEOREM MutableIsHeld == Spec => []MutableHeld
<1>1. QED
  BY LockInvHolds, MutableLocal, PTL

(***************************************************************************)
(* If acquire never raises, one process at a time is inside a commit: a    *)
(* process is inside it only while the lock is in its Lock.locks, and then *)
(* it holds the file.                                                      *)
(***************************************************************************)
THEOREM CommitIsExclusive ==
  ASSUME "acquire" \notin Failures
  PROVE  Spec => []CommitExclusive
<1>1. LockInv => CommitExclusive
  <2> SUFFICES ASSUME LockInv, NEW p \in Proc, Repo \in Inside(p) PROVE file[Repo] = p
    BY DEF CommitExclusive
  <2>1. stack[p] \in Seq(Entry)
    BY DEF LockInv, TypeOK
  <2>2. PICK i \in 1..Depth(p) : stack[p][i].kind = "lock" /\ stack[p][i].lock = Repo
    BY DEF Inside
  <2>3. i \in Nat /\ IsLock(p, i) /\ LockAt(p, i) = Repo
    BY <2>2 DEF IsLock, LockAt
  <2>4. QED
    BY <2>3, NoLockDistinct DEF LockInv, Registered, RegisteredHeld, WaiterOutside
<1>2. QED
  BY <1>1, LockInvHolds, PTL

(***************************************************************************)
(* If create_commit never raises, every lock that is taken is given back:  *)
(* a process inside no block holds no lock file.                           *)
(***************************************************************************)
THEOREM LocksGivenBack ==
  ASSUME "commit" \notin Failures
  PROVE  Spec => []IdleHoldsNothing
<1>1. LockInv => IdleHoldsNothing
  <2> SUFFICES ASSUME LockInv, NEW p \in Proc, stack[p] = <<>>, NEW l \in Lock, file[l] = p
               PROVE  FALSE
    BY DEF IdleHoldsNothing
  <2>1. PICK i \in Nat : Owns(p, l, i)
    BY DEF LockInv, HolderInside
  <2>2. QED
    BY <2>1 DEF Owns, IsLock, Depth
<1>2. QED
  BY <1>1, LockInvHolds, PTL

-----------------------------------------------------------------------------
(***************************************************************************)
(* Waiting.  A process that waits entered the lock as MayEnter allows, and *)
(* has been inside the same blocks since.                                  *)
(***************************************************************************)
WaitOrdered == \A p \in Proc : waiting[p] # NoLock => MayEnter(p, waiting[p])

LEMMA WaitOrderedStep == LockInv /\ WaitOrdered /\ [Next]_vars => WaitOrdered'
<1> SUFFICES ASSUME LockInv, WaitOrdered, [Next]_vars, NEW q \in Proc, (waiting[q] # NoLock)'
             PROVE  MayEnter(q, waiting[q])'
  BY DEF WaitOrdered
<1> USE DEF TypeOK
<1>1. ASSUME stack'[q] = stack[q], waiting'[q] = waiting[q] PROVE MayEnter(q, waiting[q])'
  <2>1. Inside(q)' = Inside(q)
    BY <1>1 DEF Inside, Depth
  <2>2. MayEnter(q, waiting[q])
    BY <1>1 DEF WaitOrdered
  <2>3. QED
    BY <1>1, <2>1, <2>2 DEF MayEnter
<1>2. CASE UNCHANGED vars
  BY <1>1, <1>2 DEF vars
<1>3. ASSUME NEW p \in Proc, Step(p) PROVE MayEnter(q, waiting[q])'
  <2>1. CASE p # q
    BY <1>1, <1>3, <2>1 DEF LockInv, Step, Enter, Acquire, AcquireRaises, ExitLock, CommitRaises,
         AsMut, ExitMut, Crash, Push, Pop
  <2>2. CASE p = q
    <3>1. PICK l \in Lock : Enter(q, l) /\ l \notin locks[q]
      BY <1>3, <2>2 DEF LockInv, Step, Enter, Acquire, AcquireRaises, ExitLock, CommitRaises,
           AsMut, ExitMut, Crash, Push, Pop
    <3>2. waiting'[q] = l /\ stack' = stack /\ MayEnter(q, l)
      BY <3>1 DEF LockInv, Enter
    <3>3. QED
      BY <3>2 DEF MayEnter, Inside, Depth
  <2>3. QED
    BY <2>1, <2>2
<1>4. QED
  BY <1>2, <1>3 DEF Next

(* Of the holders of locks that others wait for: who holds a lock and waits, waits for a *)
(* lock that comes after it.                                                             *)
LEMMA HeldBefore ==
  ASSUME "commit" \notin Failures, LockInv, WaitOrdered,
         NEW p \in Proc, NEW l \in Lock, file[l] = p, waiting[p] # NoLock
  PROVE  /\ waiting[p] \in Lock /\ waiting[p] # l /\ l \in Inside(p)
         /\ MayEnter(p, waiting[p])
<1>1. PICK i \in Nat : Owns(p, l, i)
  BY DEF LockInv, HolderInside
<1>2. l \in Inside(p)
  BY <1>1 DEF Owns, IsLock, LockAt, Inside
<1>3. QED
  BY <1>2 DEF LockInv, TypeOK, WaiterOutside, WaitOrdered

(* A set of PRs has a first one. *)
LEMMA FirstPr == ASSUME NEW D, D \subseteq Nat, D # {} PROVE \E m \in D : \A n \in D : m <= n
<1>1. PICK m \in D : \A n \in D : <<n, m>> \notin OpToRel(<, Nat)
  BY NatLessThanWellFounded, WFMin
<1>2. \A n \in D : ~(n < m)
  BY <1>1 DEF OpToRel
<1>3. QED
  BY <1>2

(***************************************************************************)
(* No set S of processes wait for each other.  Nobody in S waits for the   *)
(* repository, whose holder waits for nothing; so nobody waits for the     *)
(* first of the PRs that are waited for, whose holder waits for an earlier *)
(* one; and so on down to the task lock.                                   *)
(***************************************************************************)
LEMMA Ordered ==
  ASSUME "commit" \notin Failures, LockInv, WaitOrdered PROVE NoCyclicWait
<1> SUFFICES ASSUME NEW S \in SUBSET Proc, S # {}, \A p \in S : \E q \in S : WaitsFor(p, q)
             PROVE  FALSE
  BY DEF NoCyclicWait
<1>1. \A p \in S : waiting[p] # NoLock /\ waiting[p] \in Lock /\ \E q \in S : file[waiting[p]] = q
  BY DEF WaitsFor, LockInv, TypeOK
<1>2. ASSUME NEW p \in S
      PROVE  \E q \in S : /\ waiting[q] \in Lock /\ waiting[q] # waiting[p]
                          /\ waiting[p] \in Inside(q) /\ MayEnter(q, waiting[q])
  BY <1>1, HeldBefore
<1>3. \A p \in S : waiting[p] # Repo
  BY <1>2 DEF MayEnter
<1>4. \A p \in S, pr \in Prs : waiting[p] # Downstream(pr)
  <2> DEFINE D == {pr \in Prs : \E p \in S : waiting[p] = Downstream(pr)}
  <2>1. SUFFICES ASSUME D # {} PROVE FALSE
    OBVIOUS
  <2>2. PICK first \in D : \A pr \in D : first <= pr
    BY <2>1, FirstPr, PrAssumption
  <2>3. PICK p \in S : waiting[p] = Downstream(first)
    BY <2>2
  <2>4. PICK q \in S : /\ waiting[q] \in Lock /\ waiting[q] # Downstream(first)
                       /\ Downstream(first) \in Inside(q) /\ MayEnter(q, waiting[q])
    BY <1>2, <2>3
  <2>5. /\ Downstream(first) \notin {Task, Landing, Upstream, Repo}
        /\ \A pr, qr \in Prs : Downstream(pr) = Downstream(qr) => pr = qr
    BY DEF Downstream, Task, Landing, Upstream, Repo
  <2>6. PICK pr \in Prs : waiting[q] = Downstream(pr)
    BY <1>3, <2>4, <2>5 DEF MayEnter, Lock, SyncLock
  <2>7. <<first, pr>> \in Reverts
    BY <2>4, <2>5, <2>6 DEF MayEnter
  <2>8. pr < first
    BY <2>7, RevertAssumption
  <2>9. QED
    BY <2>2, <2>6, <2>8, PrAssumption
<1>5. Upstream \notin {Task, Landing} /\ Landing # Task
  BY DEF Upstream, Task, Landing
<1>6. ASSUME NEW p \in S
      PROVE  \E q \in S : /\ waiting[q] \in {Task, Landing, Upstream} \ {waiting[p]}
                          /\ waiting[p] \in Inside(q) /\ MayEnter(q, waiting[q])
  BY <1>2, <1>3, <1>4 DEF Lock, SyncLock
<1>7. \A p \in S : waiting[p] # Upstream
  BY <1>5, <1>6 DEF MayEnter
<1>8. \A p \in S : waiting[p] # Landing
  BY <1>5, <1>6, <1>7 DEF MayEnter
<1>9. \A p \in S : waiting[p] # Task
  BY <1>6, <1>7, <1>8 DEF MayEnter
<1>10. QED
  BY <1>6, <1>7, <1>8, <1>9

(***************************************************************************)
(* If create_commit never raises, the locks never block each other for     *)
(* good, however they nest and whatever acquire does.  (A commit that      *)
(* raises leaves its process with the repository lock: it may then wait    *)
(* for any other.)                                                         *)
(***************************************************************************)
THEOREM NobodyWaitsInACircle ==
  ASSUME "commit" \notin Failures
  PROVE  Spec => []NoCyclicWait
<1>1. Init => WaitOrdered
  BY DEF Init, WaitOrdered
<1>2. QED
  BY <1>1, LockInvHolds, WaitOrderedStep, Ordered, PTL DEF Spec
=============================================================================
