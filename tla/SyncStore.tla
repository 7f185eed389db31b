------------------------------ MODULE SyncStore ------------------------------
(***************************************************************************)
(* Where syncs are stored: sync/base.py, index.py and the part of sync.py  *)
(* that creates, changes, finds and deletes them.                          *)
(*                                                                         *)
(* A sync has a branch in the gecko and in the wpt repository, a file with *)
(* its data, and entries in the indexes by status, bug and PR.  Files and  *)
(* entries are in one git tree, which a commit replaces at once; branches  *)
(* are written apart from it.  A process reads a sync into memory (the     *)
(* identity map) and writes all of it back when the guard that made it     *)
(* mutable is left, together with the index changes that this process      *)
(* made, which are kept for all of its objects at one place.               *)
(*                                                                         *)
(* A downstream sync is named for its PR, an upstream sync for its bug and *)
(* a number; landing syncs are stored as upstream syncs are.               *)
(***************************************************************************)
EXTENDS Integers, FiniteSets, Functions

CONSTANTS
  Prs,       \* pull requests
  Bugs,      \* bugs
  Procs,     \* worker and commands
  MaxTasks,  \* bound: tasks that begin
  InUse,     \* bound: statuses that occur
  MaxSeq,    \* bound: highest number of an upstream sync of a bug
  Faults     \* what happens besides: a set of FaultKinds

(* A process dies; a sync is loaded before the lock is taken (handle_pr, do_delete and *)
(* do_status do that); the guard of a try push is opened inside that of its sync.       *)
FaultKinds == {"crash", "early", "nested"}
None == "none"

ASSUME StoreAssumption ==
  /\ "open" \in InUse /\ MaxSeq \in Nat /\ Faults \subseteq FaultKinds
  /\ None \notin Prs \cup Bugs \cup Procs /\ "upstream" \notin Prs

VARIABLES
  refs,      \* the names that have a branch, by repository
  data,      \* the stored data: a function on the names that have any
  index,     \* the entries of the three indexes
  author,    \* who made a PR on GitHub
  lock,      \* the process that holds the lock of a group, or None
  job,       \* what a process does
  mem,       \* the syncs that a process has in memory: as it read or saved them last, and now
  mutable,   \* the names whose guard a process has open
  pend,      \* index changes that a process has not saved
  spoiled,   \* history: syncs that may be stored wrong from then on, see Indexed
  tasks      \* how many tasks have begun

vars == <<refs, data, index, author, lock, job, mem, mutable, pend, spoiled, tasks>>

Repository == {"gecko", "wpt"}
Name == [kind : {"downstream"}, obj : Prs, seq : {0}]
          \cup [kind : {"upstream"}, obj : Bugs, seq : 0..MaxSeq]
Groups   == Prs \cup {"upstream"}
Group(n) == IF n.kind = "upstream" THEN "upstream" ELSE n.obj

Transitions(kind) ==
  IF kind = "upstream"
  THEN {<<"open", "wpt-merged">>, <<"open", "complete">>, <<"open", "incomplete">>,
        <<"incomplete", "open">>, <<"wpt-merged", "complete">>}
  ELSE {<<"open", "complete">>, <<"complete", "open">>}

Data == [status : InUse, bug : Bugs \cup {None}, pr : Prs \cup {None}]
NoName == [kind |-> None, obj |-> None, seq |-> 0]
Idle == [op |-> "idle", group |-> None, name |-> NoName, step |-> None]
Saved == [ins |-> {}, del |-> {}]

Init ==
  /\ refs = [r \in Repository |-> {}] /\ data = <<>> /\ index = {}
  /\ author = [pr \in Prs |-> None] /\ lock = [g \in Groups |-> None]
  /\ job = [p \in Procs |-> Idle] /\ mem = [p \in Procs |-> <<>>]
  /\ mutable = [p \in Procs |-> {}] /\ pend = [p \in Procs |-> Saved]
  /\ spoiled = {} /\ tasks = 0

-----------------------------------------------------------------------------
(* Indexes. *)

StatusEntry(n, d) == [in |-> "status", key |-> <<d.status>>, name |-> n]
BugEntry(n, d)    == [in |-> "bug", key |-> <<d.bug, d.status>>, name |-> n]
PrEntry(n, d)     == [in |-> "pr", key |-> <<d.pr>>, name |-> n]
Entries(n, d) ==
  {StatusEntry(n, d)} \cup (IF d.bug # None THEN {BugEntry(n, d)} ELSE {})
                      \cup (IF d.pr # None THEN {PrEntry(n, d)} ELSE {})
Found(in, key) == {e.name : e \in {f \in index : f.in = in /\ f.key = key}}
\* get_pr_sync, for_pr: the syncs of a PR, of whatever kind.
PrSyncs(pr)    == Found("pr", <<pr>>)

\* Of the changes of an entry, the last counts when they are saved.
Insert(c, E) == [ins |-> c.ins \cup E, del |-> c.del \ E]
Delete(c, E) == [ins |-> c.ins \ E, del |-> c.del \cup E]
Apply(I, c)  == (I \ c.del) \cup c.ins

\* All the changes of p are saved, and there are none any more.
Save(p) == index' = Apply(index, pend[p]) /\ pend' = [pend EXCEPT ![p] = Saved]

\* What is in memory, with a sync changed; with one added; a copy of the stored data.
Changed(p, n, d) == [mem EXCEPT ![p] = [@ EXCEPT ![n].now = d, ![n].set = TRUE]]
Remember(f, n, m) == [x \in DOMAIN f \cup {n} |-> IF x = n THEN m ELSE f[x]]
Copy(d, early)    == [read |-> d, now |-> d, set |-> FALSE, early |-> early]

Stored(n, d)      == [x \in DOMAIN data \cup {n} |-> IF x = n THEN d ELSE data[x]]

\* What p is about to write or delete is not what it read.
Outdated(p, n) == n \notin DOMAIN data \/ data[n] # mem[p][n].read
Mark(p, n)     == spoiled' = IF Outdated(p, n) THEN spoiled \cup {n} ELSE spoiled

-----------------------------------------------------------------------------
(* Tasks: a process takes the lock of a group, works on syncs of that group, and forgets what *)
(* it had in memory.                                                                         *)

Loadable(n) == n \in DOMAIN data /\ n \in refs["gecko"] /\ n \in refs["wpt"]

Load(p, n) ==
  /\ Loadable(n) /\ n \notin DOMAIN mem[p]
  /\ \/ job[p].op = "task" /\ Group(n) = job[p].group
     \/ job[p] = Idle /\ "early" \in Faults /\ mem[p] = <<>>
  /\ mem' = [mem EXCEPT ![p] = Remember(@, n, Copy(data[n], job[p] = Idle))]
  /\ UNCHANGED <<refs, data, index, author, lock, job, mutable, pend, spoiled, tasks>>

Begin(p, g) ==
  /\ job[p] = Idle /\ lock[g] = None /\ \A n \in DOMAIN mem[p] : Group(n) = g
  /\ lock' = [lock EXCEPT ![g] = p]
  /\ job' = [job EXCEPT ![p] = [Idle EXCEPT !.op = "task", !.group = g]]
  /\ tasks < MaxTasks /\ tasks' = tasks + 1
  /\ UNCHANGED <<refs, data, index, author, mem, mutable, pend, spoiled>>

\* Memory and locks of p are given up.
MutantForget(p) ==   \* the identity map keeps its objects
  /\ lock' = [g \in Groups |-> IF lock[g] = p THEN None ELSE lock[g]]
  /\ job' = [job EXCEPT ![p] = Idle] /\ mem' = mem
  /\ mutable' = [mutable EXCEPT ![p] = {}] /\ pend' = [pend EXCEPT ![p] = Saved]
Forget(p) ==
  /\ lock' = [g \in Groups |-> IF lock[g] = p THEN None ELSE lock[g]]
  /\ job' = [job EXCEPT ![p] = Idle] /\ mem' = [mem EXCEPT ![p] = <<>>]
  /\ mutable' = [mutable EXCEPT ![p] = {}] /\ pend' = [pend EXCEPT ![p] = Saved]

End(p) ==
  /\ job[p].op = "task" /\ mutable[p] = {} /\ Forget(p)
  /\ UNCHANGED <<refs, data, index, author, spoiled, tasks>>

Crash(p) ==
  /\ "crash" \in Faults /\ job[p] # Idle /\ Forget(p)
  /\ spoiled' = IF "nested" \in Faults THEN spoiled \cup mutable[p] ELSE spoiled
  /\ UNCHANGED <<refs, data, index, author, tasks>>

-----------------------------------------------------------------------------
(* Changes of a sync in memory. *)

AsMut(p, n) ==
  /\ job[p].op = "task" /\ Group(n) = job[p].group
  /\ n \in DOMAIN mem[p] \ mutable[p] /\ mutable[p] = {}
  /\ mutable' = [mutable EXCEPT ![p] = @ \cup {n}]
  /\ UNCHANGED <<refs, data, index, author, lock, job, mem, pend, spoiled, tasks>>

CanSet(p, n) == job[p].op = "task" /\ n \in mutable[p]

MutantSetStatus(p, n, status) ==   \* the old entries stay
  LET d == mem[p][n].now
      e == [d EXCEPT !.status = status]
  IN  /\ CanSet(p, n) /\ <<d.status, status>> \in Transitions(n.kind) /\ d.bug # None
      /\ mem' = Changed(p, n, e)
      /\ pend' = [pend EXCEPT ![p] = Insert(@, {StatusEntry(n, e), BugEntry(n, e)})]
      /\ UNCHANGED <<refs, data, index, author, lock, job, mutable, spoiled, tasks>>
\* The setter fails half-way for a sync without a bug.
SetStatus(p, n, status) ==
  LET d == mem[p][n].now
      e == [d EXCEPT !.status = status]
  IN  /\ CanSet(p, n) /\ <<d.status, status>> \in Transitions(n.kind)
      /\ \/ /\ d.bug # None /\ mem' = Changed(p, n, e)
            /\ pend' = [pend EXCEPT ![p] = Insert(Delete(@, {StatusEntry(n, d), BugEntry(n, d)}),
                                                  {StatusEntry(n, e), BugEntry(n, e)})]
            /\ spoiled' = spoiled
         \/ /\ d.bug = None /\ mem' = mem
            /\ pend' = [pend EXCEPT ![p] = Delete(@, {StatusEntry(n, d)})]
            /\ spoiled' = spoiled \cup {n}
      /\ UNCHANGED <<refs, data, index, author, lock, job, mutable, tasks>>

SetBug(p, n, b) ==
  LET d == mem[p][n].now
      e == [d EXCEPT !.bug = b]
  IN  /\ CanSet(p, n) /\ n.kind = "downstream" /\ d.bug # b
      /\ mem' = Changed(p, n, e)
      /\ pend' = [pend EXCEPT ![p] = Insert(IF d.bug = None THEN @ ELSE Delete(@, {BugEntry(n, d)}),
                                            {BugEntry(n, e)})]
      /\ UNCHANGED <<refs, data, index, author, lock, job, mutable, spoiled, tasks>>

\* create_pr: the PR is made on GitHub and noted in memory.
SetPr(p, n, pr) ==
  LET e == [mem[p][n].now EXCEPT !.pr = pr]
  IN  /\ CanSet(p, n) /\ n.kind = "upstream" /\ mem[p][n].now.pr = None /\ author[pr] = None
      /\ author' = [author EXCEPT ![pr] = "bot"]
      /\ mem' = Changed(p, n, e)
      /\ pend' = [pend EXCEPT ![p] = Insert(@, {PrEntry(n, e)})]
      /\ UNCHANGED <<refs, data, index, lock, job, mutable, spoiled, tasks>>

\* The guard is left: one commit has the data, if anything in them was set, and all index
\* changes of p.
ExitMut(p, n) ==
  LET d == mem[p][n].now
  IN  /\ CanSet(p, n)
      /\ \/ ~mem[p][n].set /\ UNCHANGED <<data, spoiled, tasks>>
         \/ data' = Stored(n, d) /\ Mark(p, n)
      /\ Save(p)
      /\ mem' = [mem EXCEPT ![p] = Remember(@, n, Copy(d, mem[p][n].early))]
      /\ mutable' = [mutable EXCEPT ![p] = @ \ {n}]
      /\ UNCHANGED <<refs, author, lock, job, tasks>>

\* The guard of a try push of the sync is left before that of the sync.
ExitTryPush(p) ==
  /\ "nested" \in Faults /\ mutable[p] # {} /\ job[p].op = "task" /\ pend[p] # Saved
  /\ Save(p)
  /\ spoiled' = spoiled \cup {n \in mutable[p] : Outdated(p, n)}
  /\ UNCHANGED <<refs, data, author, lock, job, mem, mutable, tasks>>

-----------------------------------------------------------------------------
(* Creation: both branches, then one commit of the data and the entries. *)

Open(pr) ==
  /\ author[pr] = None
  /\ author' = [author EXCEPT ![pr] = "person"]
  /\ UNCHANGED <<refs, data, index, lock, job, mem, mutable, pend, spoiled, tasks>>

\* handle_pr and new_wpt_pr: the PR has no sync, before the lock is taken.
MutantFindPr(p, pr) ==   \* whoever made the PR
  /\ job[p] = Idle /\ mem[p] = <<>> /\ author[pr] # None /\ PrSyncs(pr) = {}
  /\ job' = [job EXCEPT ![p] = [Idle EXCEPT !.op = "found", !.group = pr]]
  /\ UNCHANGED <<refs, data, index, author, lock, mem, mutable, pend, spoiled, tasks>>
FindPr(p, pr) ==
  /\ job[p] = Idle /\ mem[p] = <<>> /\ author[pr] = "person" /\ PrSyncs(pr) = {}
  /\ job' = [job EXCEPT ![p] = [Idle EXCEPT !.op = "found", !.group = pr]]
  /\ UNCHANGED <<refs, data, index, author, lock, mem, mutable, pend, spoiled, tasks>>

\* with_seq_id.
NextName(kind, obj) ==
  LET seqs == {n.seq : n \in {m \in DOMAIN data : m.kind = kind /\ m.obj = obj}}
  IN  [kind |-> kind, obj |-> obj,
       seq |-> CHOOSE s \in 0..(MaxSeq + 1) : (s = 0 \/ s - 1 \in seqs) /\ \A t \in seqs : t < s]

Create(p, n) == job' = [job EXCEPT ![p].op = "create", ![p].name = n, ![p].step = "gecko"]

MutantNewDownstream(p) ==   \* a second sync for a PR is created
  /\ job[p].op = "found" /\ lock[job[p].group] = None
  /\ tasks < MaxTasks /\ tasks' = tasks + 1
  /\ Create(p, NextName("downstream", job[p].group))
  /\ lock' = [lock EXCEPT ![job[p].group] = p]
  /\ UNCHANGED <<refs, data, index, author, mem, mutable, pend, spoiled>>
\* The lock is taken; a second sync for the PR is refused, which ends the task.
NewDownstream(p) ==
  LET n == NextName("downstream", job[p].group)
  IN  /\ job[p].op = "found" /\ lock[job[p].group] = None
      /\ tasks < MaxTasks /\ tasks' = tasks + 1
      /\ \/ /\ n \in Name /\ Create(p, n)
            /\ lock' = [lock EXCEPT ![job[p].group] = p]
            /\ UNCHANGED <<mem, mutable, pend>>
         \/ n \notin Name /\ Forget(p)
      /\ UNCHANGED <<refs, data, index, author, spoiled>>

NewUpstream(p, b) ==
  /\ job[p].op = "task" /\ job[p].group = "upstream" /\ mutable[p] = {}
  /\ NextName("upstream", b) \in Name /\ Create(p, NextName("upstream", b))
  /\ UNCHANGED <<refs, data, index, author, lock, mem, mutable, pend, spoiled, tasks>>

CreateRef(p, r) ==
  /\ job[p].op = "create" /\ job[p].step = r
  /\ refs' = [refs EXCEPT ![r] = @ \cup {job[p].name}]
  /\ job' = [job EXCEPT ![p].step = IF r = "gecko" THEN "wpt" ELSE "commit"]
  /\ UNCHANGED <<data, index, author, lock, mem, mutable, pend, spoiled, tasks>>

CreateData(p) ==
  LET n == job[p].name
      d == IF n.kind = "upstream" THEN [status |-> "open", bug |-> n.obj, pr |-> None]
           ELSE [status |-> "open", bug |-> None, pr |-> n.obj]
  IN  /\ job[p].op = "create" /\ job[p].step = "commit"
      /\ data' = Stored(n, d)
      /\ index' = index \cup Entries(n, d)
      /\ mem' = [mem EXCEPT ![p] = Remember(@, n, Copy(d, FALSE))]
      /\ job' = [job EXCEPT ![p].op = "task", ![p].name = NoName, ![p].step = None]
      /\ UNCHANGED <<refs, author, lock, mutable, pend, spoiled, tasks>>

-----------------------------------------------------------------------------
(* Deletion: the branches, each index, then the data. *)

StartDelete(p, n) ==
  /\ CanSet(p, n) /\ mutable[p] = {n} /\ pend[p] = Saved /\ ~mem[p][n].set
  /\ job' = [job EXCEPT ![p].op = "delete", ![p].name = n, ![p].step = "wpt"]
  /\ UNCHANGED <<refs, data, index, author, lock, mem, mutable, pend, spoiled, tasks>>

Deleting(p, step, next) ==
  /\ job[p].op = "delete" /\ job[p].step = step
  /\ job' = [job EXCEPT ![p].step = next]
  /\ UNCHANGED <<author, tasks>>

DeleteRef(p, r) ==
  \/ /\ Deleting(p, r, IF r = "wpt" THEN "gecko" ELSE "status")
     /\ job[p].name \in refs[r] /\ refs' = [refs EXCEPT ![r] = @ \ {job[p].name}]
     /\ UNCHANGED <<data, index, mem, mutable, lock, pend, spoiled, tasks>>
  \/ /\ job[p].op = "delete" /\ job[p].step = r /\ job[p].name \notin refs[r] /\ Forget(p)
     /\ UNCHANGED <<refs, data, index, author, spoiled, tasks>>

\* Each index in a commit of its own; without a bug the key of the last cannot be made.
DeleteEntry(p) ==
  LET n == job[p].name
      d == mem[p][n].now
      drop(step, next, e) == /\ Deleting(p, step, next) /\ index' = index \ {e}
                             /\ UNCHANGED <<refs, data, mem, mutable, lock, pend, spoiled, tasks>>
  IN  /\ job[p].op = "delete"
      /\ \/ drop("status", "pr", StatusEntry(n, d))
         \/ drop("pr", "bug", PrEntry(n, d))
         \/ d.bug # None /\ drop("bug", "data", BugEntry(n, d))
         \/ /\ job[p].step = "bug" /\ d.bug = None /\ Forget(p)
            /\ UNCHANGED <<refs, data, index, author, spoiled, tasks>>

\* What is not there cannot be removed: the commit fails.
DeleteData(p) ==
  /\ job[p].op = "delete" /\ job[p].step = "data"
  /\ data' = Restrict(data, DOMAIN data \ {job[p].name})
  /\ Mark(p, job[p].name) /\ Forget(p)
  /\ UNCHANGED <<refs, index, author, tasks>>

-----------------------------------------------------------------------------
Next ==
  \/ \E pr \in Prs : Open(pr)
  \/ \E p \in Procs :
       \/ \E g \in Groups : Begin(p, g)
       \/ ExitTryPush(p) \/ End(p) \/ Crash(p) \/ NewDownstream(p) \/ CreateData(p) \/ DeleteEntry(p) \/ DeleteData(p)
       \/ \E pr \in Prs : FindPr(p, pr)
       \/ \E b \in Bugs : NewUpstream(p, b)
       \/ \E r \in Repository : CreateRef(p, r) \/ DeleteRef(p, r)
       \/ \E n \in Name :
            \/ Load(p, n) \/ AsMut(p, n) \/ ExitMut(p, n) \/ StartDelete(p, n)
            \/ \E s \in InUse : SetStatus(p, n, s)
            \/ \E b \in Bugs : SetBug(p, n, b)
            \/ \E pr \in Prs : SetPr(p, n, pr)

Spec == Init /\ [][Next]_vars

-----------------------------------------------------------------------------
(* Properties. *)

TypeOK ==
  /\ refs \in [Repository -> SUBSET Name]
  /\ DOMAIN data \subseteq Name /\ \A n \in DOMAIN data : data[n] \in Data
  /\ \A e \in index : e.in \in {"status", "bug", "pr"} /\ e.name \in Name
  /\ author \in [Prs -> {None, "bot", "person"}] /\ lock \in [Groups -> Procs \cup {None}]
  /\ job \in [Procs -> [op : {"idle", "task", "found", "create", "delete"}, group : Groups \cup {None},
                        name : Name \cup {NoName}, step : Repository \cup {None, "commit", "status", "pr", "bug", "data"}]]
  /\ \A p \in Procs : DOMAIN mem[p] \subseteq Name /\ mutable[p] \subseteq DOMAIN mem[p]
  /\ \A p \in Procs, n \in Name : n \in DOMAIN mem[p] => mem[p][n] \in [read : Data, now : Data, set : BOOLEAN, early : BOOLEAN]

(* A sync that can be loaded, and that no process is in the middle of, is found by its status, *)
(* its bug and its PR, and by nothing else: data and indexes are saved in one commit.  The     *)
(* exceptions are a sync whose status setter failed half-way, for want of a bug; one that was  *)
(* changed from a copy that was read before the lock was taken; and one that a process changed *)
(* when it died, with an inner guard that had saved the entries and not the data.  And an      *)
(* entry is for a sync that has data: lookups build the sync without a check.                  *)
Settled(n) == \A p \in Procs : n \notin mutable[p] /\ job[p].name # n
Indexed ==
  /\ \A n \in DOMAIN data \ spoiled :
       Loadable(n) /\ Settled(n) => {e \in index : e.name = n} = Entries(n, data[n])
  /\ \A e \in index : e.name \in DOMAIN data \cup spoiled

(* A PR has one sync, whether it came from gecko or from a contributor (get_pr_sync takes the *)
(* first it finds).                                                                           *)
OnePerPr == \A m, n \in DOMAIN data : data[m].pr = data[n].pr /\ data[n].pr # None => m = n

(* No update is lost: what a process writes or deletes is what it read, and changed since, if *)
(* it read it under the lock.                                                                 *)
NotLost ==
  [][\A p \in Procs, n \in Name :
       n \in mutable[p] \ mutable'[p] /\ data' # data /\ ~mem[p][n].early => ~Outdated(p, n)]_vars
=============================================================================
