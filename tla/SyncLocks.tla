------------------------------ MODULE SyncLocks ------------------------------
(***************************************************************************)
(* The locks of wpt-sync: the file locks of sync/lock.py, the task lock of *)
(* sync/tasks.py and the repository lock that CommitBuilder of             *)
(* sync/base.py takes around a commit.                                     *)
(*                                                                         *)
(* A process is single threaded.  It is either a Celery worker, whose      *)
(* tasks run under the task lock, or a `wptsync' command, which runs the   *)
(* same code without it.  A process enters and leaves "with" blocks in     *)
(* LIFO order: stack[p] holds the context managers it is inside.           *)
(***************************************************************************)
EXTENDS Integers, Sequences

CONSTANTS Worker,    \* worker processes
          Command,   \* processes running a wptsync command
          Prs,       \* numbers of the wpt pull requests
          Reverts,   \* <<p, q>>: every commit of PR p reverts a commit, one of PR q
          Failures,  \* which calls may raise: "acquire", "commit"
          MaxDepth,  \* bound on the nesting of "with" blocks
          NoProc

Proc == Worker \cup Command

\* One file per lock path: the process locks are named by (sync_type, obj_id).
Task     == <<"task", 0>>
Landing  == <<"landing", 0>>
Upstream == <<"upstream", 0>>
Repo     == <<"repo", 0>>
Downstream(pr) == <<"downstream", pr>>
SyncLock == {Landing, Upstream} \cup {Downstream(pr) : pr \in Prs}
Lock     == SyncLock \cup {Task, Repo}
NoLock   == <<"none", 0>>

(***************************************************************************)
(* PRs are numbered in the order of their commits: a commit names the      *)
(* hash of the commit it reverts, so a revert comes after what it reverts. *)
(***************************************************************************)
ASSUME ProcAssumption   == Worker \cap Command = {} /\ NoProc \notin Proc
ASSUME PrAssumption     == Prs \subseteq Nat
ASSUME RevertAssumption ==
  Reverts \subseteq Prs \X Prs /\ \A r \in Reverts : r[2] < r[1]
ASSUME BoundAssumption  == MaxDepth \in Nat
ASSUME FailAssumption   == Failures \subseteq {"acquire", "commit"}

VARIABLES
  file,     \* file[l]: the process that holds the lock file of l
  locks,    \* locks[p]: the keys of the class-level dictionaries Lock.locks of p
  stack,    \* stack[p]: the context managers p is inside, innermost last
  waiting   \* waiting[p]: the lock p is blocked on in FileLock.acquire

vars == <<file, locks, stack, waiting>>

\* own: for a lock, this Lock object took the file; for a guard, took_lock.
Entry == [kind : {"lock", "mut"}, lock : Lock, own : BOOLEAN]

TypeOK ==
  /\ file \in [Lock -> Proc \cup {NoProc}]
  /\ locks \in [Proc -> SUBSET Lock]
  /\ stack \in [Proc -> Seq(Entry)]
  /\ waiting \in [Proc -> Lock \cup {NoLock}]

Init ==
  /\ file = [l \in Lock |-> NoProc]
  /\ locks = [p \in Proc |-> {}]
  /\ stack = [p \in Proc |-> <<>>]
  /\ waiting = [p \in Proc |-> NoLock]

Depth(p) == Len(stack[p])
Top(p)   == stack[p][Depth(p)]
Push(p, kind, l, own) ==
  stack' = [stack EXCEPT ![p] = Append(@, [kind |-> kind, lock |-> l, own |-> own])]
Pop(p) == stack' = [stack EXCEPT ![p] = SubSeq(@, 1, Len(@) - 1)]

\* The locks whose blocks p is inside.
Inside(p) == {stack[p][i].lock : i \in {j \in 1..Depth(p) : stack[p][j].kind = "lock"}}
\* p is inside a MutGuard for the objects that l protects.
Mutable(p, l) == \E i \in 1..Depth(p) : stack[p][i].kind = "mut" /\ stack[p][i].lock = l

(***************************************************************************)
(* The places of the code that enter each lock, by what may be held there. *)
(* Task: with_lock, the whole of a task (and of the cleanup command).      *)
(* Landing: update_landing and gecko_push of landing.py, do_landing.       *)
(* Upstream: the push handler and PR events, and landable_commits inside a *)
(* landing.  A downstream lock: PR and try push events, inside a landing   *)
(* (try_notify_downstream), inside Upstream (update_pr schedules the PR    *)
(* event of an unknown PR while it holds it), again for the same PR        *)
(* (update_pr, try_notify), and from a PR that reverts this one            *)
(* (update_commits and reverts_syncs).  Repo: every CommitBuilder.         *)
(***************************************************************************)
MutantMayEnter(p, l) ==   \* a push handler that starts a landing: upstream, then landing
  /\ Inside(p) = {} => (p \in Worker => l = Task)
  /\ Repo \in Inside(p) => l = Repo
  /\ l = Task => Inside(p) = {}

MayEnter(p, l) ==
  /\ Inside(p) = {} => (p \in Worker => l = Task)
  /\ Repo \in Inside(p) => l = Repo
  /\ l = Task => Inside(p) = {}
  /\ l = Landing => Inside(p) \subseteq {Task, Landing}
  /\ l = Upstream => Inside(p) \subseteq {Task, Landing, Upstream}
  /\ \A pr \in Prs : l = Downstream(pr) =>
       \A q \in Prs : Downstream(q) \in Inside(p) => q = pr \/ <<q, pr>> \in Reverts

(***************************************************************************)
(* Lock.__enter__: a lock whose path this process already has in           *)
(* Lock.locks is a no-op; otherwise the path is registered first, and then *)
(* the call blocks in acquire.                                             *)
(***************************************************************************)
Enter(p, l) ==
  /\ waiting[p] = NoLock
  /\ Depth(p) < MaxDepth
  /\ MayEnter(p, l)
  /\ IF l \in locks[p]
     THEN Push(p, "lock", l, FALSE) /\ UNCHANGED <<file, locks, waiting>>
     ELSE /\ locks' = [locks EXCEPT ![p] = @ \cup {l}]
          /\ waiting' = [waiting EXCEPT ![p] = l]
          /\ UNCHANGED <<file, stack>>

Acquire(p) ==
  /\ waiting[p] # NoLock
  /\ file[waiting[p]] = NoProc
  /\ file' = [file EXCEPT ![waiting[p]] = p]
  /\ Push(p, "lock", waiting[p], TRUE)
  /\ waiting' = [waiting EXCEPT ![p] = NoLock]
  /\ UNCHANGED locks

(***************************************************************************)
(* acquire raises (the lock file cannot be opened): the path stays in      *)
(* Lock.locks.  The task lock is a plain FileLock, with no such dictionary.*)
(***************************************************************************)
AcquireRaises(p) ==
  /\ "acquire" \in Failures
  /\ waiting[p] # NoLock
  /\ locks' = [locks EXCEPT ![p] = @ \ ({waiting[p]} \cap {Task})]
  /\ waiting' = [waiting EXCEPT ![p] = NoLock]
  /\ UNCHANGED <<file, stack>>

MutantExitLock(p) ==   \* the inner of two nested blocks gives the lock back
  /\ waiting[p] = NoLock
  /\ Depth(p) > 0 /\ Top(p).kind = "lock"
  /\ Pop(p)
  /\ locks' = [locks EXCEPT ![p] = @ \ {Top(p).lock}]
  /\ file' = [file EXCEPT ![Top(p).lock] = IF @ = p THEN NoProc ELSE @]
  /\ UNCHANGED waiting

MutantExitKeeps(p) ==   \* __exit__ forgets the lock without releasing its file
  /\ waiting[p] = NoLock
  /\ Depth(p) > 0 /\ Top(p).kind = "lock"
  /\ Pop(p)
  /\ locks' = IF Top(p).own THEN [locks EXCEPT ![p] = @ \ {Top(p).lock}] ELSE locks
  /\ UNCHANGED <<file, waiting>>

\* Lock.__exit__: only the Lock object that took the file releases it.
ExitLock(p) ==
  /\ waiting[p] = NoLock
  /\ Depth(p) > 0 /\ Top(p).kind = "lock"
  /\ Pop(p)
  /\ IF Top(p).own
     THEN /\ locks' = [locks EXCEPT ![p] = @ \ {Top(p).lock}]
          /\ file' = [file EXCEPT ![Top(p).lock] = NoProc]
     ELSE UNCHANGED <<file, locks>>
  /\ UNCHANGED waiting

(***************************************************************************)
(* CommitBuilder.__exit__ when create_commit raises, or returns because    *)
(* there is neither a change nor a parent: the lock's __exit__ is skipped. *)
(***************************************************************************)
CommitRaises(p) ==
  /\ "commit" \in Failures
  /\ waiting[p] = NoLock
  /\ Depth(p) > 0 /\ Top(p).kind = "lock" /\ Top(p).lock = Repo
  /\ Pop(p)
  /\ UNCHANGED <<file, locks, waiting>>

MutantAsMut(p, l) ==   \* the lock object is trusted without looking at is_locked
  /\ waiting[p] = NoLock
  /\ Depth(p) < MaxDepth
  /\ l \in Inside(p) /\ Repo \notin Inside(p)
  /\ Push(p, "mut", l, ~Mutable(p, l))
  /\ UNCHANGED <<file, locks, waiting>>

MutantGuardUnset(p, l) ==   \* took_lock of an inner guard keeps its initial None
  /\ waiting[p] = NoLock
  /\ Depth(p) < MaxDepth
  /\ l \in Inside(p) /\ Repo \notin Inside(p)
  /\ file[l] = p
  /\ Push(p, "mut", l, IF Mutable(p, l) THEN NoProc ELSE TRUE)
  /\ UNCHANGED <<file, locks, waiting>>

(***************************************************************************)
(* MutGuard: as_mut checks that the lock it is given protects the object   *)
(* and that its file is held (ProcessLock.check); a guard inside another   *)
(* for the same object is a no-op.                                         *)
(***************************************************************************)
AsMut(p, l) ==
  /\ waiting[p] = NoLock
  /\ Depth(p) < MaxDepth
  /\ l \in Inside(p) /\ Repo \notin Inside(p)
  /\ file[l] = p
  /\ Push(p, "mut", l, ~Mutable(p, l))
  /\ UNCHANGED <<file, locks, waiting>>

ExitMut(p) ==
  /\ waiting[p] = NoLock
  /\ Depth(p) > 0 /\ Top(p).kind = "mut"
  /\ Pop(p)
  /\ UNCHANGED <<file, locks, waiting>>

\* The process is killed; the operating system drops its file locks.
Crash(p) ==
  /\ stack[p] # <<>> \/ waiting[p] # NoLock \/ locks[p] # {}
  /\ file' = [l \in Lock |-> IF file[l] = p THEN NoProc ELSE file[l]]
  /\ locks' = [locks EXCEPT ![p] = {}]
  /\ stack' = [stack EXCEPT ![p] = <<>>]
  /\ waiting' = [waiting EXCEPT ![p] = NoLock]

Step(p) ==
  \/ \E l \in Lock : Enter(p, l)
  \/ Acquire(p)
  \/ AcquireRaises(p)
  \/ ExitLock(p)
  \/ CommitRaises(p)
  \/ \E l \in SyncLock : AsMut(p, l)
  \/ ExitMut(p)
  \/ Crash(p)

Next == \E p \in Proc : Step(p)

Spec == Init /\ [][Next]_vars

-----------------------------------------------------------------------------
(***************************************************************************)
(* Two processes never have the objects of the same lock mutable, whatever *)
(* raises: "to ensure that multiples processes don't try to update the     *)
(* same sync at the same time" (the purpose of SyncLock in lock.py).       *)
(***************************************************************************)
MutationExclusive ==
  \A p, q \in Proc : \A l \in SyncLock : Mutable(p, l) /\ Mutable(q, l) => p = q

(***************************************************************************)
(* A process stays the holder of a lock until it has left the outermost    *)
(* block for it: leaving an inner, re-entrant block does not give the lock *)
(* away while an object it protects is still mutable.                      *)
(***************************************************************************)
MutableHeld == \A p \in Proc : \A l \in SyncLock : Mutable(p, l) => file[l] = p

(***************************************************************************)
(* Only one process at a time is inside a CommitBuilder: "only one process *)
(* may make a commit at a time" (CommitBuilder, base.py).                  *)
(***************************************************************************)
CommitExclusive ==
  \A p, q \in Proc : Repo \in Inside(p) /\ Repo \in Inside(q) => p = q

(***************************************************************************)
(* A process inside no block holds no lock file: what is taken is given    *)
(* back ("On exiting the context, the commit is created, [...] and the     *)
(* lock released", CommitBuilder).                                         *)
(***************************************************************************)
IdleHoldsNothing ==
  \A p \in Proc : stack[p] = <<>> => \A l \in Lock : file[l] # p

\* p is blocked by q.
WaitsFor(p, q) == waiting[p] # NoLock /\ file[waiting[p]] = q

(***************************************************************************)
(* No set of processes wait for each other: the nesting of the code takes  *)
(* the locks in one order, task, landing, upstream, downstream (a          *)
(* reverting PR before the PR it reverts), repository.                     *)
(***************************************************************************)
NoCyclicWait ==
  ~ \E S \in SUBSET Proc : S # {} /\ \A p \in S : \E q \in S : WaitsFor(p, q)

=============================================================================
