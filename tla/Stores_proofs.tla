--------------------------- MODULE Stores_proofs ----------------------------
(***************************************************************************)
(* Proofs about SyncStore, for any pull requests, bugs, processes, number  *)
(* of tasks and faults; about MetadataRepo, for any files, bugs, writers,  *)
(* number of retries and bounds; and about the two together.               *)
(***************************************************************************)
EXTENDS MCSyncStore, WellFoundedInduction, TLAPS

Mem == [read : Data, now : Data, set : BOOLEAN, early : BOOLEAN]
Ops   == {"idle", "task", "found", "create", "delete"}
Steps == Repository \cup {None, "commit", "status", "pr", "bug", "data"}
Job   == [op : Ops, group : Groups \cup {None}, name : Name \cup {NoName}, step : Steps]
IsEntry(e) == e.in \in {"status", "bug", "pr"} /\ e.name \in Name

\* TypeOK, and the shape of what it leaves open.
DataType(D) == DOMAIN D \subseteq Name /\ \A n \in DOMAIN D : D[n] \in Data
MemType(m)  == DOMAIN m = Procs /\ \A p \in Procs : DOMAIN m[p] \subseteq Name
                                               /\ \A n \in DOMAIN m[p] : m[p][n] \in Mem
Change(c)   == c = [ins |-> c.ins, del |-> c.del] /\ \A e \in c.ins : IsEntry(e)
PendType(c) == DOMAIN c = Procs /\ \A p \in Procs : Change(c[p])
OnlyAt(f, g, p) == DOMAIN f = Procs /\ DOMAIN g = Procs /\ \A q \in Procs : q # p => g[q] = f[q]
Types ==
  /\ refs \in [Repository -> SUBSET Name] /\ DataType(data) /\ \A e \in index : IsEntry(e)
  /\ author \in [Prs -> {None, "bot", "person"}] /\ lock \in [Groups -> Procs \cup {None}]
  /\ job \in [Procs -> Job] /\ MemType(mem) /\ PendType(pend)
  /\ DOMAIN mutable = Procs /\ \A p \in Procs : mutable[p] \subseteq DOMAIN mem[p]

(***************************************************************************)
(* Who works on what.  A process in a task holds the lock of its group,    *)
(* and all that it has in memory is of that group; what it did not read    *)
(* early is what is stored.                                                *)
(***************************************************************************)
Working(p) == job[p].op \in {"task", "create", "delete"}
Fresh(p, n) == n \in DOMAIN data /\ data[n] = mem[p][n].read
Works(p) ==
  /\ Working(p) => job[p].group \in Groups /\ lock[job[p].group] = p
  /\ ~Working(p) => mutable[p] = {}
  /\ \A n \in DOMAIN mem[p] : Working(p) => Group(n) = job[p].group
  /\ \A n \in DOMAIN mem[p] : ~mem[p][n].early => Working(p) /\ Fresh(p, n)
  /\ job[p].op = "found" =>
       job[p].group \in Prs /\ mem[p] = <<>> /\ author[job[p].group] = "person"
  /\ job[p].op \in {"create", "delete"} =>
       job[p].name \in Name /\ Group(job[p].name) = job[p].group
  /\ job[p].op = "create" =>
       /\ job[p].name \notin DOMAIN data /\ mutable[p] = {}
       /\ job[p].name.kind = "downstream" => author[job[p].name.obj] = "person"
  /\ job[p].op = "delete" => mutable[p] = {job[p].name}
Held == \A p \in Procs : Works(p)

(***************************************************************************)
(* The branch in gecko is made first and deleted last.                     *)
(***************************************************************************)
Branches ==
  /\ refs["wpt"] \subseteq refs["gecko"]
  /\ \A p \in Procs :
       /\ job[p].op = "create" /\ job[p].step = "wpt" => job[p].name \in refs["gecko"]
       /\ job[p].op = "create" /\ job[p].step = "commit" => job[p].name \in refs["wpt"]
       /\ job[p].op = "delete" /\ job[p].step # "wpt" => job[p].name \notin refs["wpt"]

(***************************************************************************)
(* A process changes one sync at a time, its unsaved index changes are for *)
(* that one, and there are none if nothing was set.                        *)
(***************************************************************************)
Changes(p) ==
  /\ \A m, n \in mutable[p] : m = n
  /\ \A e \in pend[p].ins \cup pend[p].del : e.name \in mutable[p]
  /\ \A n \in DOMAIN mem[p] : n \notin mutable[p] => ~mem[p][n].set
  /\ \A n \in DOMAIN mem[p] : ~mem[p][n].set => mem[p][n].now = mem[p][n].read
  /\ \A n \in mutable[p] : ~mem[p][n].set => pend[p] = Saved \/ n \in spoiled
  /\ job[p].op = "delete" => ~mem[p][job[p].name].set /\ pend[p] = Saved
Pending == \A p \in Procs : Changes(p)

(***************************************************************************)
(* Whose a PR is.                                                          *)
(***************************************************************************)
Has(n, pr) ==
  \/ n \in DOMAIN data /\ data[n].pr = pr
  \/ \E p \in Procs : n \in DOMAIN mem[p] /\ pr \in {mem[p][n].read.pr, mem[p][n].now.pr}
Owned ==
  \A pr \in Prs :
    /\ \A n \in Name : Has(n, pr) =>
         /\ n.kind = "downstream" => n.obj = pr /\ author[pr] = "person"
         /\ n.kind = "upstream" => author[pr] = "bot"
    /\ \A m, n \in Name : m.kind = "upstream" /\ n.kind = "upstream" /\ Has(m, pr) /\ Has(n, pr)
                            => m = n

(***************************************************************************)
(* The entries of a sync: those of its data; or those of what is in        *)
(* memory, once the changes of the process are made; or, while it is       *)
(* deleted, no more than what is still to be removed.                      *)
(***************************************************************************)
Of(I, n) == {e \in I : e.name = n}
Removed(step) == IF step = "pr" THEN {"status"}
                 ELSE IF step = "bug" THEN {"status", "pr"}
                 ELSE IF step = "data" THEN {"status", "pr", "bug"} ELSE {}
NoData(n)  == n \notin DOMAIN data => Of(index, n) = {}
AtRest(n)  ==
  Loadable(n) /\ ("nested" \notin Faults \/ \A p \in Procs : n \in mutable[p] => Outdated(p, n))
    => Of(index, n) = Entries(n, data[n])
InMemory(p, n) ==
  n \in mutable[p] /\ ~Outdated(p, n) /\ Loadable(n)
    => Of(Apply(index, pend[p]), n) = Entries(n, mem[p][n].now)
Doomed(p, n) ==
  job[p].op = "delete" /\ job[p].name = n /\ ~Outdated(p, n) /\ (job[p].step = "wpt" => n \in refs["wpt"])
    => Of(index, n) \subseteq {e \in Entries(n, mem[p][n].now) : e.in \notin Removed(job[p].step)}
EntriesOf(n) == NoData(n) /\ AtRest(n) /\ \A p \in Procs : InMemory(p, n) /\ Doomed(p, n)
Kept == \A n \in Name \ spoiled : EntriesOf(n)

StoreInv == Types /\ Held /\ Branches /\ Pending /\ Owned /\ Kept
-----------------------------------------------------------------------------
(* Lemmas on the operators. *)

LEMMA NameFacts ==
  /\ \A n \in Name : Group(n) \in Groups /\ n.kind \in {"upstream", "downstream"}
  /\ \A n \in Name : n.kind = "downstream" => n.obj \in Prs /\ Group(n) = n.obj /\ n.seq = 0
  /\ \A n \in Name : n.kind = "upstream" => n.obj \in Bugs
  /\ NoName \notin Name
  /\ \A m, n \in Name : m.kind = n.kind /\ m.obj = n.obj /\ m.seq = n.seq => m = n
BY StoreAssumption DEF Name, Group, Groups, NoName, None

LEMMA DataFacts ==
  ASSUME NEW d \in Data
  PROVE  /\ d.status \in InUse /\ d.bug \in Bugs \cup {None} /\ d.pr \in Prs \cup {None}
         /\ \A s \in InUse : [d EXCEPT !.status = s] \in Data
         /\ \A b \in Bugs : [d EXCEPT !.bug = b] \in Data
         /\ \A pr \in Prs : [d EXCEPT !.pr = pr] \in Data
BY DEF Data

LEMMA CopyFacts ==
  ASSUME NEW d \in Data, NEW b \in BOOLEAN
  PROVE  /\ Copy(d, b) \in Mem
         /\ Copy(d, b).read = d /\ Copy(d, b).now = d /\ Copy(d, b).set = FALSE
         /\ Copy(d, b).early = b
BY DEF Copy, Mem

LEMMA EntryFacts ==
  ASSUME NEW n \in Name, NEW d \in Data
  PROVE  /\ IsEntry(StatusEntry(n, d)) /\ IsEntry(BugEntry(n, d)) /\ IsEntry(PrEntry(n, d))
         /\ \A e \in Entries(n, d) : IsEntry(e) /\ e.name = n
BY DEF IsEntry, StatusEntry, BugEntry, PrEntry, Entries

LEMMA JobFacts ==
  ASSUME job \in [Procs -> Job], NEW p \in Procs, NEW s \in Steps
  PROVE  /\ [job EXCEPT ![p].step = s] \in [Procs -> Job]
         /\ \A o \in Ops, n \in Name \cup {NoName} :
              [job EXCEPT ![p].op = o, ![p].name = n, ![p].step = s] \in [Procs -> Job]
BY DEF Job

\* What a process remembers, of a sync it had in memory or not.
LEMMA Remembered ==
  ASSUME MemType(mem), NEW p \in Procs, NEW n \in Name, NEW m \in Mem,
         OnlyAt(mem, mem', p), mem'[p] = Remember(mem[p], n, m)
  PROVE  /\ MemType(mem') /\ DOMAIN mem'[p] = DOMAIN mem[p] \cup {n} /\ mem'[p][n] = m
         /\ \A k \in DOMAIN mem[p] : k # n => mem'[p][k] = mem[p][k]
         /\ \A q \in Procs : q # p => mem'[q] = mem[q]
<1>1. /\ DOMAIN mem'[p] = DOMAIN mem[p] \cup {n} /\ mem'[p][n] = m
      /\ \A k \in DOMAIN mem[p] : k # n => mem'[p][k] = mem[p][k]
  BY DEF Remember
<1>2. QED
  BY <1>1 DEF MemType, OnlyAt

LEMMA ChangedFacts ==
  ASSUME MemType(mem), NEW p \in Procs, NEW n \in DOMAIN mem[p], NEW d \in Data,
         mem' = Changed(p, n, d)
  PROVE  /\ MemType(mem') /\ DOMAIN mem'[p] = DOMAIN mem[p]
         /\ mem'[p][n].read = mem[p][n].read /\ mem'[p][n].now = d
         /\ mem'[p][n].set = TRUE /\ mem'[p][n].early = mem[p][n].early
         /\ \A k \in DOMAIN mem[p] : k # n => mem'[p][k] = mem[p][k]
         /\ \A q \in Procs : q # p => mem'[q] = mem[q]
<1>1. mem[p][n] \in Mem /\ DOMAIN mem = Procs
  BY DEF MemType
<1>2. /\ mem'[p] = [mem[p] EXCEPT ![n].now = d, ![n].set = TRUE] /\ DOMAIN mem' = Procs
      /\ \A q \in Procs : q # p => mem'[q] = mem[q]
  BY <1>1 DEF Changed
<1>3. /\ mem'[p][n] = [mem[p][n] EXCEPT !.now = d, !.set = TRUE] /\ DOMAIN mem'[p] = DOMAIN mem[p]
      /\ \A k \in DOMAIN mem[p] : k # n => mem'[p][k] = mem[p][k]
  BY <1>2
<1>4. /\ mem'[p][n] \in Mem /\ mem'[p][n].read = mem[p][n].read /\ mem'[p][n].now = d
      /\ mem'[p][n].set = TRUE /\ mem'[p][n].early = mem[p][n].early
  BY <1>1, <1>3 DEF Mem
<1>5. QED
  BY <1>2, <1>3, <1>4 DEF MemType

LEMMA StoredFacts ==
  ASSUME DataType(data), NEW n \in Name, NEW d \in Data
  PROVE  /\ DataType(Stored(n, d)) /\ DOMAIN Stored(n, d) = DOMAIN data \cup {n} /\ Stored(n, d)[n] = d
         /\ \A k \in DOMAIN data : k # n => Stored(n, d)[k] = data[k]
BY DEF Stored, DataType

\* Index changes that are not saved.
LEMMA ChangeFacts ==
  /\ Change(Saved)
  /\ \A c, D : Change(c) => Change(Delete(c, D))
  /\ \A c, E : Change(c) /\ (\A e \in E : IsEntry(e)) => Change(Insert(c, E))
BY DEF Change, Saved, Insert, Delete

LEMMA PendFacts ==
  ASSUME PendType(pend), NEW p \in Procs, NEW cc, OnlyAt(pend, cc, p), Change(cc[p])
  PROVE  PendType(cc)
BY DEF PendType, OnlyAt

\* A process forgets.
LEMMA Forgotten ==
  ASSUME Types, NEW p \in Procs, Forget(p)
  PROVE  /\ lock' \in [Groups -> Procs \cup {None}]
         /\ \A g \in Groups : lock'[g] = IF lock[g] = p THEN None ELSE lock[g]
         /\ job' \in [Procs -> Job] /\ job'[p] = Idle
         /\ MemType(mem') /\ DOMAIN mem'[p] = {} /\ mem'[p] = <<>>
         /\ DOMAIN mutable' = Procs /\ mutable'[p] = {} /\ PendType(pend') /\ pend'[p] = Saved
         /\ \A q \in Procs : q # p => /\ job'[q] = job[q] /\ mem'[q] = mem[q]
                                     /\ mutable'[q] = mutable[q] /\ pend'[q] = pend[q]
<1>1. OnlyAt(mem, mem', p) /\ mem'[p] = <<>> /\ OnlyAt(pend, pend', p) /\ pend'[p] = Saved
  BY DEF Types, Forget, MemType, PendType, OnlyAt
<1>2. job' \in [Procs -> Job] /\ job'[p] = Idle
  BY DEF Types, Forget, Job, Idle, Ops, Steps
<1>3. DOMAIN mem'[p] = {} /\ MemType(mem')
  BY <1>1 DEF Types, MemType, OnlyAt
<1>4. PendType(pend')
  BY <1>1, ChangeFacts, PendFacts DEF Types
<1>5. QED
  BY <1>1, <1>2, <1>3, <1>4 DEF Types, Forget, OnlyAt

-----------------------------------------------------------------------------

(* Types. *)
LEMMA TypesKept ==
  ASSUME Types, Held, [Next]_vars
  PROVE  Types'
<1>0. DataType(data) /\ MemType(mem) /\ PendType(pend) /\ job \in [Procs -> Job]
  BY DEF Types
<1>1. ASSUME NEW pr \in Prs, Open(pr) PROVE Types'
  BY <1>1 DEF Types, Open
<1>2. ASSUME NEW p \in Procs, NEW g \in Groups, Begin(p, g) PROVE Types'
  BY <1>2 DEF Types, Begin, Job, Idle, Ops, Steps
<1>3. ASSUME NEW p \in Procs, ExitTryPush(p) PROVE Types'
  BY <1>3, ChangeFacts DEF Types, ExitTryPush, Save, Apply, PendType, Change
<1>4. ASSUME NEW p \in Procs, End(p) PROVE Types'
  BY <1>4, Forgotten DEF Types, End, Saved
<1>5. ASSUME NEW p \in Procs, Crash(p) PROVE Types'
  BY <1>5, Forgotten DEF Types, Crash, Saved
<1>6. ASSUME NEW p \in Procs, NewDownstream(p) PROVE Types'
  <2>1. CASE NextName("downstream", job[p].group) \in Name
    <3>1. /\ Create(p, NextName("downstream", job[p].group)) /\ lock' = [lock EXCEPT ![job[p].group] = p]
          /\ UNCHANGED <<refs, data, index, author, mem, mutable, pend>>
      BY <2>1, <1>6 DEF NewDownstream
    <3>2. job[p].group \in Groups
      BY <1>6 DEF NewDownstream, Held, Works, Groups
    <3>3. job' \in [Procs -> Job]
      <4>1. job' = [job EXCEPT ![p].op = "create", ![p].name = NextName("downstream", job[p].group), ![p].step = "gecko"]
        BY <3>1 DEF Create
      <4>2. "create" \in Ops /\ "gecko" \in Steps
        BY DEF Ops, Steps, Repository
      <4>3. QED
        BY <1>0, <2>1, <4>1, <4>2, JobFacts
    <3>4. QED
      BY <3>1, <3>2, <3>3 DEF Types
  <2>2. CASE Forget(p)
    BY <2>2, <1>6, Forgotten DEF Types, NewDownstream, Saved
  <2>3. QED
    BY <1>6, <2>1, <2>2 DEF NewDownstream
<1>7. ASSUME NEW p \in Procs, CreateData(p) PROVE Types'
  <2> DEFINE n == job[p].name
             d == IF n.kind = "upstream" THEN [status |-> "open", bug |-> n.obj, pr |-> None]
                  ELSE [status |-> "open", bug |-> None, pr |-> n.obj]
  <2>1. n \in Name /\ d \in Data
    BY <1>7, NameFacts, StoreAssumption DEF Held, Works, CreateData, Data
  <2>2. /\ data' = Stored(n, d) /\ index' = index \cup Entries(n, d)
        /\ mem' = [mem EXCEPT ![p] = Remember(@, n, Copy(d, FALSE))]
    BY <1>7 DEF CreateData
  <2> HIDE DEF d
  <2>3. DataType(data')
    BY <2>1, <2>2, StoredFacts DEF Types
  <2>4. MemType(mem') /\ \A q \in Procs : DOMAIN mem[q] \subseteq DOMAIN mem'[q]
    <3>1. Copy(d, FALSE) \in Mem
      BY <2>1, CopyFacts
    <3>2. OnlyAt(mem, mem', p) /\ mem'[p] = Remember(mem[p], n, Copy(d, FALSE))
      BY <2>2 DEF Types, MemType, OnlyAt
    <3>3. QED
      <4>1. MemType(mem') /\ DOMAIN mem'[p] = DOMAIN mem[p] \cup {n}
        BY <1>0, <2>1, <3>1, <3>2, Remembered
      <4>2. QED
        BY <4>1, <3>2 DEF OnlyAt
  <2>5. \A e \in index' : IsEntry(e)
    BY <2>1, <2>2, EntryFacts DEF Types
  <2>6. job' \in [Procs -> Job]
    <3>1. job' = [job EXCEPT ![p].op = "task", ![p].name = NoName, ![p].step = None]
      BY <1>7 DEF CreateData
    <3>2. "task" \in Ops /\ None \in Steps
      BY DEF Ops, Steps
    <3>3. QED
      BY <1>0, <3>1, <3>2, JobFacts
  <2>7. QED
    BY <1>7, <2>3, <2>4, <2>5, <2>6 DEF Types, CreateData
<1>8. ASSUME NEW p \in Procs, DeleteEntry(p) PROVE Types'
  <2>1. CASE job[p].step = "bug" /\ mem[p][job[p].name].now.bug = None
    <3>1. Forget(p) /\ UNCHANGED <<refs, data, index, author>>
      BY <2>1, <1>8 DEF DeleteEntry, Deleting
    <3>2. QED
      BY <3>1, Forgotten DEF Types
  <2>2. CASE ~(job[p].step = "bug" /\ mem[p][job[p].name].now.bug = None)
    <3>1. PICK s \in Steps : job' = [job EXCEPT ![p].step = s]
      BY <2>2, <1>8 DEF DeleteEntry, Deleting, Steps, Repository
    <3>2. job' \in [Procs -> Job]
      BY <1>0, <3>1, JobFacts
    <3>3. UNCHANGED <<data, author, lock, mem, mutable, pend>> /\ index' \subseteq index
          /\ refs' \in [Repository -> SUBSET Name]
      BY <2>2, <1>8 DEF Types, DeleteEntry, Deleting
    <3>4. QED
      BY <3>2, <3>3 DEF Types
  <2>3. QED
    BY <2>1, <2>2
<1>9. ASSUME NEW p \in Procs, DeleteData(p) PROVE Types'
  <2>1. DataType(data')
    BY <1>9 DEF DeleteData, Restrict, DataType, Types
  <2>2. Forget(p) /\ UNCHANGED <<refs, index, author>>
    BY <1>9 DEF DeleteData
  <2>3. QED
    BY <2>1, <2>2, Forgotten DEF Types
<1>10. ASSUME NEW p \in Procs, NEW pr \in Prs, FindPr(p, pr) PROVE Types'
  BY <1>10 DEF Types, FindPr, Job, Groups, Idle, Ops, Steps
<1>11. ASSUME NEW p \in Procs, NEW b \in Bugs, NewUpstream(p, b) PROVE Types'
  <2>1. job' \in [Procs -> Job]
    <3>1. /\ NextName("upstream", b) \in Name
          /\ job' = [job EXCEPT ![p].op = "create", ![p].name = NextName("upstream", b), ![p].step = "gecko"]
      BY <1>11 DEF NewUpstream, Create
    <3>2. "create" \in Ops /\ "gecko" \in Steps
      BY DEF Ops, Steps, Repository
    <3>3. QED
      BY <1>0, <3>1, <3>2, JobFacts
  <2>2. QED
    BY <2>1, <1>11 DEF Types, NewUpstream
<1>12. ASSUME NEW p \in Procs, NEW r \in Repository, CreateRef(p, r) PROVE Types'
  <2>1. job' \in [Procs -> Job]
    BY <1>12, JobFacts DEF Types, CreateRef, Repository, Steps
  <2>2. QED
    BY <2>1, <1>12 DEF Types, CreateRef, Held, Works
<1>13. ASSUME NEW p \in Procs, NEW r \in Repository, DeleteRef(p, r) PROVE Types'
  <2>1. CASE job[p].name \notin refs[r]
    <3>1. Forget(p) /\ UNCHANGED <<refs, data, index, author>>
      BY <2>1, <1>13 DEF DeleteRef, Deleting
    <3>2. QED
      BY <3>1, Forgotten DEF Types
  <2>2. CASE ~(job[p].name \notin refs[r])
    <3>1. PICK s \in Steps : job' = [job EXCEPT ![p].step = s]
      BY <2>2, <1>13 DEF DeleteRef, Deleting, Steps, Repository
    <3>2. job' \in [Procs -> Job]
      BY <1>0, <3>1, JobFacts
    <3>3. UNCHANGED <<data, author, lock, mem, mutable, pend>> /\ index' \subseteq index
          /\ refs' \in [Repository -> SUBSET Name]
      BY <2>2, <1>13 DEF Types, DeleteRef, Deleting
    <3>4. QED
      BY <3>2, <3>3 DEF Types
  <2>3. QED
    BY <2>1, <2>2
<1>14. ASSUME NEW p \in Procs, NEW n \in Name, Load(p, n) PROVE Types'
  <2>1. data[n] \in Data /\ n \in Name
    BY <1>14 DEF Load, Loadable, Types, DataType
  <2>2. mem' = [mem EXCEPT ![p] = Remember(@, n, Copy(data[n], job[p] = Idle))]
    BY <1>14 DEF Load
  <2>3. Copy(data[n], job[p] = Idle) \in Mem
    BY <2>1, CopyFacts
  <2>4. MemType(mem') /\ \A q \in Procs : DOMAIN mem[q] \subseteq DOMAIN mem'[q]
    <3>1. OnlyAt(mem, mem', p) /\ mem'[p] = Remember(mem[p], n, Copy(data[n], job[p] = Idle))
      BY <2>2 DEF Types, MemType, OnlyAt
    <3>2. QED
      BY <2>1, <2>3, <3>1, Remembered DEF Types, OnlyAt
  <2>5. QED
    BY <1>14, <2>4 DEF Types, Load
<1>15. ASSUME NEW p \in Procs, NEW n \in Name, AsMut(p, n) PROVE Types'
  BY <1>15 DEF Types, AsMut
<1>16. ASSUME NEW p \in Procs, NEW n \in Name, ExitMut(p, n) PROVE Types'
  <2>1. n \in DOMAIN mem[p] /\ mem[p][n].now \in Data /\ mem[p][n].early \in BOOLEAN
    BY <1>16 DEF ExitMut, CanSet, Types, MemType, Mem
  <2>2. mem' = [mem EXCEPT ![p] = Remember(@, n, Copy(mem[p][n].now, mem[p][n].early))]
    BY <1>16 DEF ExitMut
  <2>3. MemType(mem') /\ \A q \in Procs : DOMAIN mem'[q] = DOMAIN mem[q]
    <3>1. Copy(mem[p][n].now, mem[p][n].early) \in Mem
      BY <2>1, CopyFacts
    <3>2. OnlyAt(mem, mem', p) /\ mem'[p] = Remember(mem[p], n, Copy(mem[p][n].now, mem[p][n].early))
      BY <2>2 DEF Types, MemType, OnlyAt
    <3>3. QED
      <4>1. MemType(mem') /\ DOMAIN mem'[p] = DOMAIN mem[p] \cup {n}
        BY <1>0, <2>1, <3>1, <3>2, Remembered
      <4>2. DOMAIN mem'[p] = DOMAIN mem[p]
        BY <2>1, <4>1
      <4>3. QED
        BY <4>1, <4>2, <3>2 DEF OnlyAt
  <2>4. DataType(data')
    <3>1. CASE data' = Stored(n, mem[p][n].now)
      BY <1>0, <2>1, <3>1, StoredFacts
    <3>2. CASE data' = data
      BY <1>0, <3>2
    <3>3. QED
      BY <3>1, <3>2, <1>16 DEF ExitMut
  <2>5. PendType(pend') /\ \A e \in index' : IsEntry(e)
    BY <1>16, ChangeFacts DEF Types, ExitMut, Save, Apply, PendType, Change
  <2>6. QED
    BY <1>16, <2>3, <2>4, <2>5 DEF Types, ExitMut
<1>17. ASSUME NEW p \in Procs, NEW n \in Name, StartDelete(p, n) PROVE Types'
  <2>1. job' \in [Procs -> Job]
    <3>1. job' = [job EXCEPT ![p].op = "delete", ![p].name = n, ![p].step = "wpt"]
      BY <1>17 DEF StartDelete
    <3>2. "delete" \in Ops /\ "wpt" \in Steps
      BY DEF Ops, Steps, Repository
    <3>3. QED
      BY <1>0, <3>1, <3>2, JobFacts
  <2>2. QED
    BY <2>1, <1>17 DEF Types, StartDelete
<1>18. ASSUME NEW p \in Procs, NEW n \in Name, NEW s \in InUse, SetStatus(p, n, s) PROVE Types'
  <2>1. /\ n \in DOMAIN mem[p] /\ mem[p][n].now \in Data
        /\ [mem[p][n].now EXCEPT !.status = s] \in Data
    BY <1>18, DataFacts DEF SetStatus, CanSet, Types, MemType, Mem
  <2>2. MemType(mem') /\ \A q \in Procs : DOMAIN mem'[q] = DOMAIN mem[q]
    BY <1>18, <2>1, ChangedFacts DEF Types, SetStatus, MemType
  <2>3. PendType(pend')
    <3>1. OnlyAt(pend, pend', p)
      BY <1>18 DEF Types, SetStatus, OnlyAt, PendType
    <3>2. Change(pend'[p])
      BY <1>18, <2>1, EntryFacts, ChangeFacts DEF Types, SetStatus, PendType
    <3>3. QED
      BY <3>1, <3>2, PendFacts DEF Types
  <2>4. QED
    BY <1>18, <2>2, <2>3 DEF Types, SetStatus
<1>19. ASSUME NEW p \in Procs, NEW n \in Name, NEW b \in Bugs, SetBug(p, n, b) PROVE Types'
  <2>1. /\ n \in DOMAIN mem[p] /\ mem[p][n].now \in Data
        /\ [mem[p][n].now EXCEPT !.bug = b] \in Data
    BY <1>19, DataFacts DEF SetBug, CanSet, Types, MemType, Mem
  <2>2. MemType(mem') /\ \A q \in Procs : DOMAIN mem'[q] = DOMAIN mem[q]
    BY <1>19, <2>1, ChangedFacts DEF Types, SetBug, MemType
  <2>3. PendType(pend')
    <3>1. OnlyAt(pend, pend', p)
      BY <1>19 DEF Types, SetBug, OnlyAt, PendType
    <3>2. Change(pend'[p])
      BY <1>19, <2>1, EntryFacts, ChangeFacts DEF Types, SetBug, PendType
    <3>3. QED
      BY <3>1, <3>2, PendFacts DEF Types
  <2>4. QED
    BY <1>19, <2>2, <2>3 DEF Types, SetBug
<1>20. ASSUME NEW p \in Procs, NEW n \in Name, NEW pr \in Prs, SetPr(p, n, pr) PROVE Types'
  <2>1. /\ n \in DOMAIN mem[p] /\ mem[p][n].now \in Data
        /\ [mem[p][n].now EXCEPT !.pr = pr] \in Data
    BY <1>20, DataFacts DEF SetPr, CanSet, Types, MemType, Mem
  <2>2. MemType(mem') /\ \A q \in Procs : DOMAIN mem'[q] = DOMAIN mem[q]
    BY <1>20, <2>1, ChangedFacts DEF Types, SetPr, MemType
  <2>3. PendType(pend')
    <3>1. OnlyAt(pend, pend', p)
      BY <1>20 DEF Types, SetPr, OnlyAt, PendType
    <3>2. Change(pend'[p])
      BY <1>20, <2>1, EntryFacts, ChangeFacts DEF Types, SetPr, PendType
    <3>3. QED
      BY <3>1, <3>2, PendFacts DEF Types
  <2>4. QED
    BY <1>20, <2>2, <2>3 DEF Types, SetPr
<1>21. ASSUME UNCHANGED vars PROVE Types'
  BY <1>21 DEF Types, vars
<1>22. QED
  BY <1>1, <1>2, <1>3, <1>4, <1>5, <1>6, <1>7, <1>8, <1>9, <1>10, <1>11, <1>12, <1>13, <1>14, <1>15, <1>16, <1>17, <1>18, <1>19, <1>20, <1>21 DEF Next

(* Locks. *)

(***************************************************************************)
(* What a process that holds its lock relies on, when another one moves or *)
(* it changes only what it has in memory.                                  *)
(***************************************************************************)
SameData(n) == (n \in DOMAIN data' <=> n \in DOMAIN data) /\ (n \in DOMAIN data => data'[n] = data[n])
SameMem(q) ==
  /\ DOMAIN mem'[q] = DOMAIN mem[q]
  /\ \A n \in DOMAIN mem[q] : mem'[q][n].read = mem[q][n].read /\ mem'[q][n].early = mem[q][n].early
Apart(q) ==
  /\ job'[q].op = job[q].op /\ job'[q].group = job[q].group /\ job'[q].name = job[q].name
  /\ SameMem(q) /\ (job[q].op = "found" => mem'[q] = mem[q])
  /\ mutable'[q] = mutable[q] \/ job[q].op = "task"
  /\ \A g \in Groups : lock[g] = q => lock'[g] = q
  /\ \A pr \in Prs : author[pr] = "person" => author'[pr] = "person"
  /\ \A n \in Name : lock[Group(n)] = q => SameData(n)

LEMMA StaysWorking ==
  ASSUME Types, NEW q \in Procs, Works(q), Apart(q)
  PROVE  Works(q)'
<1>1. /\ job'[q].op = job[q].op /\ job'[q].group = job[q].group /\ job'[q].name = job[q].name
      /\ DOMAIN mem'[q] = DOMAIN mem[q] /\ (job[q].op # "task" => mutable'[q] = mutable[q])
      /\ Working(q)' <=> Working(q)
  BY DEF Apart, SameMem, Working
<1>2. \A n \in DOMAIN mem[q] : n \in Name
  BY DEF Types, MemType
<1>3. ASSUME NEW n \in DOMAIN mem'[q], ~mem'[q][n].early PROVE Working(q) /\ Fresh(q, n)'
  <2>1. n \in DOMAIN mem[q] /\ ~mem[q][n].early /\ mem'[q][n].read = mem[q][n].read
    BY <1>1, <1>3 DEF Apart, SameMem
  <2>2. Working(q) /\ Fresh(q, n) /\ lock[Group(n)] = q /\ n \in Name
    BY <1>2, <2>1 DEF Works
  <2>3. SameData(n)
    BY <2>2 DEF Apart
  <2>4. QED
    BY <2>1, <2>2, <2>3, <1>1 DEF Fresh, SameData
<1>4. job[q].op = "create" =>
        /\ job[q].name \notin DOMAIN data'
        /\ job[q].name.kind = "downstream" => author'[job[q].name.obj] = "person"
  <2>1. CASE job[q].op = "create"
    <3>1. /\ job[q].name \in Name /\ lock[Group(job[q].name)] = q /\ job[q].name \notin DOMAIN data
      BY <2>1 DEF Works, Working
    <3>2. SameData(job[q].name)
      BY <3>1 DEF Apart
    <3>3. QED
      BY <2>1, <3>1, <3>2, NameFacts DEF Works, SameData, Apart
  <2>2. QED
    BY <2>1
<1>5. Working(q) => job[q].group \in Groups /\ lock'[job[q].group] = q
  BY DEF Works, Apart
<1>6. job[q].op = "found" => job[q].group \in Prs /\ author'[job[q].group] = "person" /\ mem'[q] = <<>>
  BY DEF Works, Apart
<1>7. /\ ~Working(q) => mutable'[q] = {}
      /\ job[q].op = "create" => mutable'[q] = {}
      /\ job[q].op = "delete" => mutable'[q] = {job[q].name}
  BY <1>1 DEF Works, Working
<1>8. QED
  BY <1>1, <1>3, <1>4, <1>5, <1>6, <1>7 DEF Works

LEMMA Highest ==
  ASSUME NEW m \in Nat, NEW S, S \subseteq 0..m, S # {}
  PROVE  \E x \in S : \A y \in S : y <= x
<1> DEFINE T == {m - x : x \in S}
<1>1. T \subseteq Nat /\ T # {}
  <2>1. \A x \in S : m - x \in Nat
    OBVIOUS
  <2>2. QED
    BY <2>1
<1>2. PICK t \in T : \A u \in T : <<u, t>> \notin OpToRel(<, Nat)
  BY <1>1, NatLessThanWellFounded, WFMin
<1>3. PICK x \in S : t = m - x
  OBVIOUS
<1>4. ASSUME NEW y \in S PROVE y <= x
  <2>1. m - y \in T
    OBVIOUS
  <2>2. ~(m - y < m - x)
    BY <1>1, <1>2, <1>3, <2>1 DEF OpToRel
  <2>3. QED
    BY <2>2
<1>5. QED
  BY <1>4

\* with_seq_id does not return a name that is taken.
LEMMA NextIsNew ==
  ASSUME DataType(data), NEW kind, NEW obj, NextName(kind, obj) \in Name
  PROVE  /\ NextName(kind, obj) \notin DOMAIN data
         /\ NextName(kind, obj).kind = kind /\ NextName(kind, obj).obj = obj
<1> DEFINE seqs == {n.seq : n \in {m \in DOMAIN data : m.kind = kind /\ m.obj = obj}}
           P(s) == (s = 0 \/ s - 1 \in seqs) /\ \A t \in seqs : t < s
           s == CHOOSE x \in 0..(MaxSeq + 1) : P(x)
<1>1. seqs \subseteq 0..MaxSeq
  BY StoreAssumption DEF DataType, Name
<1>2. NextName(kind, obj) = [kind |-> kind, obj |-> obj, seq |-> s]
  BY DEF NextName
<1>3. \A n \in DOMAIN data : n.kind = kind /\ n.obj = obj => n.seq \in seqs
  OBVIOUS
<1> HIDE DEF seqs
<1>4. \E x \in 0..(MaxSeq + 1) : P(x)
  <2>1. CASE seqs = {}
    BY <2>1, StoreAssumption
  <2>2. CASE seqs # {}
    <3>1. PICK t \in seqs : \A u \in seqs : u <= t
      BY <2>2, <1>1, Highest, StoreAssumption
    <3>2. t + 1 \in 0..(MaxSeq + 1) /\ t + 1 - 1 = t
      BY <1>1, StoreAssumption
    <3>3. \A u \in seqs : u < t + 1
      BY <3>1, <1>1
    <3>4. P(t + 1)
      BY <1>1, <3>1, <3>2, <3>3, StoreAssumption
    <3>5. QED
      BY <3>2, <3>4
  <2>3. QED
    BY <2>1, <2>2
<1>5. P(s) /\ s \in 0..(MaxSeq + 1)
  BY <1>4
<1>6. s \notin seqs
  BY <1>1, <1>5
<1> HIDE DEF s
<1>7. NextName(kind, obj).seq = s /\ NextName(kind, obj).kind = kind /\ NextName(kind, obj).obj = obj
  BY <1>2
<1>8. QED
  BY <1>3, <1>6, <1>7

LEMMA HeldKept ==
  ASSUME Types, Held, Pending, [Next]_vars
  PROVE  Held'
<1>0. DataType(data) /\ MemType(mem)
  BY DEF Types
<1>1. ASSUME NEW pr \in Prs, Open(pr) PROVE Held'
  <2>1. \A q \in Procs : Apart(q)
    BY <1>1 DEF Apart, SameMem, SameData, Types, Job, Open
  <2>2. QED
    BY <2>1, StaysWorking DEF Held
<1>2. ASSUME NEW p \in Procs, NEW g \in Groups, Begin(p, g) PROVE Held'
  <2>1. ASSUME NEW q \in Procs, q # p PROVE Apart(q)
    BY <1>2, <2>1, StoreAssumption DEF Apart, SameMem, SameData, Types, Begin
  <2>2. /\ job'[p].op = "task" /\ job'[p].group = g /\ lock'[g] = p /\ mem'[p] = mem[p]
        /\ job[p].op = "idle" /\ \A n \in DOMAIN mem[p] : Group(n) = g
    BY <1>2 DEF Begin, Types, Idle
  <2>8. Works(p)'
    BY <2>2, <1>2 DEF Begin, Held, Works, Working, Fresh
  <2>9. QED
    BY <2>1, <2>8, StaysWorking DEF Held
<1>3. ASSUME NEW p \in Procs, ExitTryPush(p) PROVE Held'
  <2>1. \A q \in Procs : Apart(q)
    BY <1>3 DEF Apart, SameMem, SameData, Types, Job, ExitTryPush
  <2>2. QED
    BY <2>1, StaysWorking DEF Held
<1>4. ASSUME NEW p \in Procs, End(p) PROVE Held'
  <2>1. Forget(p)
    BY <1>4 DEF End
  <2>2. ASSUME NEW q \in Procs, q # p PROVE Apart(q)
    BY <1>4, <2>1, <2>2, Forgotten DEF Apart, SameMem, SameData, End
  <2>3. Works(p)'
    BY <2>1, Forgotten DEF Works, Working, Idle
  <2>4. QED
    BY <2>2, <2>3, StaysWorking DEF Held
<1>5. ASSUME NEW p \in Procs, Crash(p) PROVE Held'
  <2>1. Forget(p)
    BY <1>5 DEF Crash
  <2>2. ASSUME NEW q \in Procs, q # p PROVE Apart(q)
    BY <1>5, <2>1, <2>2, Forgotten DEF Apart, SameMem, SameData, Crash
  <2>3. Works(p)'
    BY <2>1, Forgotten DEF Works, Working, Idle
  <2>4. QED
    BY <2>2, <2>3, StaysWorking DEF Held
<1>6. ASSUME NEW p \in Procs, NewDownstream(p) PROVE Held'
  <2>1. CASE NextName("downstream", job[p].group) \notin Name
    <3>1. Forget(p) /\ UNCHANGED <<data, author>>
      BY <2>1, <1>6 DEF NewDownstream, Deleting
    <3>2. ASSUME NEW q \in Procs, q # p PROVE Apart(q)
      BY <3>1, <3>2, Forgotten DEF Apart, SameMem, SameData
    <3>3. Works(p)'
      BY <3>1, Forgotten DEF Works, Working, Idle
    <3>4. QED
      BY <3>2, <3>3, StaysWorking DEF Held
  <2>2. CASE ~(NextName("downstream", job[p].group) \notin Name)
    <3>1. /\ Create(p, NextName("downstream", job[p].group)) /\ lock' = [lock EXCEPT ![job[p].group] = p]
          /\ UNCHANGED <<data, author, mem, mutable>>
      BY <2>2, <1>6 DEF NewDownstream
    <3>2. ASSUME NEW q \in Procs, q # p PROVE Apart(q)
      BY <1>6, <3>1, <3>2, StoreAssumption DEF NewDownstream, Create, Apart, SameMem, SameData, Types, Job
    <3>3. /\ job'[p].op = "create" /\ job'[p].group = job[p].group
          /\ job'[p].name = NextName("downstream", job[p].group)
      BY <3>1 DEF Create, Types, Job
    <3>4. job[p].op = "found" /\ job[p].group \in Prs /\ mem[p] = <<>> /\ author[job[p].group] = "person"
      BY <1>6 DEF NewDownstream, Held, Works
    <3>5. /\ job'[p].name \in Name /\ job'[p].name.kind = "downstream" /\ job'[p].name \notin DOMAIN data
          /\ job'[p].name.obj = job[p].group
      BY <1>0, <2>2, <3>3, NextIsNew
    <3>6. Group(job'[p].name) = job[p].group /\ lock'[job[p].group] = p /\ job[p].group \in Groups
      BY <3>1, <3>4, <3>5, NameFacts DEF Types, Groups
    <3>7. mutable'[p] = {} /\ mem'[p] = <<>> /\ DOMAIN mem'[p] = {}
      BY <3>1, <3>4 DEF Held, Works, Working
    <3>8. Works(p)'
      BY <3>1, <3>3, <3>4, <3>5, <3>6, <3>7 DEF Works, Working
    <3>9. QED
      BY <3>2, <3>8, StaysWorking DEF Held
  <2>3. QED
    BY <2>1, <2>2
<1>7. ASSUME NEW p \in Procs, CreateData(p) PROVE Held'
  <2> DEFINE n == job[p].name
             d == IF n.kind = "upstream" THEN [status |-> "open", bug |-> n.obj, pr |-> None]
                  ELSE [status |-> "open", bug |-> None, pr |-> n.obj]
  <2>1. /\ n \in Name /\ d \in Data /\ n \notin DOMAIN data /\ job[p].op = "create"
        /\ lock[Group(n)] = p /\ Group(n) = job[p].group /\ job[p].group \in Groups
    BY <1>7, NameFacts, StoreAssumption DEF Held, Works, Working, CreateData, Data
  <2>2. /\ data' = Stored(n, d)
        /\ mem' = [mem EXCEPT ![p] = Remember(@, n, Copy(d, FALSE))]
        /\ UNCHANGED <<author, lock, mutable>>
    BY <1>7 DEF CreateData
  <2> HIDE DEF d, n
  <2>3. /\ n \in DOMAIN data' /\ data'[n] = d /\ \A k \in Name : k # n => SameData(k)
    <3>1. /\ DOMAIN data' = DOMAIN data \cup {n} /\ data'[n] = d
          /\ \A k \in DOMAIN data : k # n => data'[k] = data[k]
      BY <1>0, <2>1, <2>2, StoredFacts
    <3>2. QED
      BY <3>1 DEF SameData
  <2>4. Copy(d, FALSE) \in Mem /\ Copy(d, FALSE).read = d
    BY <2>1, CopyFacts
  <2>5. OnlyAt(mem, mem', p) /\ mem'[p] = Remember(mem[p], n, Copy(d, FALSE))
    BY <2>2 DEF Types, MemType, OnlyAt
  <2>6. /\ DOMAIN mem'[p] = DOMAIN mem[p] \cup {n} /\ mem'[p][n] = Copy(d, FALSE)
        /\ \A k \in DOMAIN mem[p] : k # n => mem'[p][k] = mem[p][k]
    <3>1. MemType(mem) /\ n \in Name
      BY <1>0, <2>1
    <3>2. QED
      BY <2>4, <2>5, <3>1, Remembered
  <2>7. job'[p].op = "task" /\ job'[p].group = job[p].group /\ \A q \in Procs : q # p => job'[q] = job[q]
    BY <1>7 DEF CreateData, Types, Job
  <2>8. ASSUME NEW q \in Procs, q # p PROVE Apart(q)
    BY <2>1, <2>2, <2>3, <2>5, <2>7, <2>8 DEF Apart, SameMem, OnlyAt
  <2>9. Works(p)'
    <3>1. ASSUME NEW k \in DOMAIN mem'[p] PROVE Group(k) = job[p].group /\ (~mem'[p][k].early => Fresh(p, k)')
      <4>1. CASE k = n
        BY <4>1, <2>1, <2>3, <2>4, <2>6 DEF Fresh
      <4>2. CASE k # n
        <5>1. k \in DOMAIN mem[p] /\ k \in Name /\ mem'[p][k] = mem[p][k] /\ SameData(k)
          BY <3>1, <4>2, <2>3, <2>6, <1>0 DEF MemType
        <5>2. QED
          BY <5>1, <2>1 DEF Held, Works, Working, Fresh, SameData
      <4>3. QED
        BY <4>1, <4>2
    <3>2. QED
      BY <3>1, <2>1, <2>2, <2>7 DEF Works, Working
  <2>10. QED
    BY <2>8, <2>9, StaysWorking DEF Held
<1>8. ASSUME NEW p \in Procs, DeleteEntry(p) PROVE Held'
  <2>1. CASE job[p].step = "bug" /\ mem[p][job[p].name].now.bug = None
    <3>1. Forget(p) /\ UNCHANGED <<data, author>>
      BY <2>1, <1>8 DEF DeleteEntry, Deleting
    <3>2. ASSUME NEW q \in Procs, q # p PROVE Apart(q)
      BY <3>1, <3>2, Forgotten DEF Apart, SameMem, SameData
    <3>3. Works(p)'
      BY <3>1, Forgotten DEF Works, Working, Idle
    <3>4. QED
      BY <3>2, <3>3, StaysWorking DEF Held
  <2>2. CASE ~(job[p].step = "bug" /\ mem[p][job[p].name].now.bug = None)
    <3>1. \A q \in Procs : Apart(q)
      BY <2>2, <1>8 DEF Apart, SameMem, SameData, Types, Job, DeleteEntry, Deleting
    <3>2. QED
      BY <3>1, StaysWorking DEF Held
  <2>3. QED
    BY <2>1, <2>2
<1>9. ASSUME NEW p \in Procs, DeleteData(p) PROVE Held'
  <2>1. /\ Forget(p) /\ lock[Group(job[p].name)] = p /\ job[p].name \in Name
        /\ \A n \in Name : n # job[p].name => SameData(n)
    BY <1>9 DEF DeleteData, Held, Works, Working, Restrict, SameData
  <2>2. ASSUME NEW q \in Procs, q # p PROVE Apart(q)
    BY <1>9, <2>1, <2>2, Forgotten, NameFacts DEF Apart, SameMem, DeleteData
  <2>3. Works(p)'
    BY <2>1, Forgotten DEF Works, Working, Idle
  <2>4. QED
    BY <2>2, <2>3, StaysWorking DEF Held
<1>10. ASSUME NEW p \in Procs, NEW pr \in Prs, FindPr(p, pr) PROVE Held'
  <2>1. ASSUME NEW q \in Procs, q # p PROVE Apart(q)
    BY <1>10, <2>1, StoreAssumption DEF Apart, SameMem, SameData, Types, FindPr
  <2>8. Works(p)'
    BY <1>10 DEF FindPr, Types, Held, Works, Working, Idle
  <2>9. QED
    BY <2>1, <2>8, StaysWorking DEF Held
<1>11. ASSUME NEW p \in Procs, NEW b \in Bugs, NewUpstream(p, b) PROVE Held'
  <2>1. ASSUME NEW q \in Procs, q # p PROVE Apart(q)
    BY <1>11, <2>1, StoreAssumption DEF Apart, SameMem, SameData, Types, NewUpstream, Create, Job
  <2>2. /\ job'[p].op = "create" /\ job'[p].group = "upstream" /\ job'[p].name = NextName("upstream", b)
        /\ job[p].op = "task" /\ job[p].group = "upstream"
    BY <1>11 DEF NewUpstream, Create, Types, Job
  <2>3. /\ job'[p].name \in Name /\ job'[p].name.kind = "upstream" /\ job'[p].name \notin DOMAIN data
    BY <1>11, <1>0, <2>2, NextIsNew DEF NewUpstream
  <2>8. Works(p)'
    BY <2>2, <2>3, <1>11 DEF NewUpstream, Group, Held, Works, Working, Fresh
  <2>9. QED
    BY <2>1, <2>8, StaysWorking DEF Held
<1>12. ASSUME NEW p \in Procs, NEW r \in Repository, CreateRef(p, r) PROVE Held'
  <2>1. \A q \in Procs : Apart(q)
    BY <1>12 DEF Apart, SameMem, SameData, Types, Job, CreateRef
  <2>2. QED
    BY <2>1, StaysWorking DEF Held
<1>13. ASSUME NEW p \in Procs, NEW r \in Repository, DeleteRef(p, r) PROVE Held'
  <2>1. CASE job[p].name \notin refs[r]
    <3>1. Forget(p) /\ UNCHANGED <<data, author>>
      BY <2>1, <1>13 DEF DeleteRef, Deleting
    <3>2. ASSUME NEW q \in Procs, q # p PROVE Apart(q)
      BY <3>1, <3>2, Forgotten DEF Apart, SameMem, SameData
    <3>3. Works(p)'
      BY <3>1, Forgotten DEF Works, Working, Idle
    <3>4. QED
      BY <3>2, <3>3, StaysWorking DEF Held
  <2>2. CASE ~(job[p].name \notin refs[r])
    <3>1. \A q \in Procs : Apart(q)
      BY <2>2, <1>13 DEF Apart, SameMem, SameData, Types, Job, DeleteRef, Deleting
    <3>2. QED
      BY <3>1, StaysWorking DEF Held
  <2>3. QED
    BY <2>1, <2>2
<1>14. ASSUME NEW p \in Procs, NEW n \in Name, Load(p, n) PROVE Held'
  <2>1. ASSUME NEW q \in Procs, q # p PROVE Apart(q)
    BY <1>14, <2>1, StoreAssumption DEF Apart, SameMem, SameData, Types, Load
  <2>2. n \in Name /\ data[n] \in Data /\ n \in DOMAIN data /\ n \notin DOMAIN mem[p]
    BY <1>14, <1>0 DEF Load, Loadable, DataType
  <2>3. Copy(data[n], job[p] = Idle) \in Mem
    BY <2>2, CopyFacts
  <2>4. OnlyAt(mem, mem', p) /\ mem'[p] = Remember(mem[p], n, Copy(data[n], job[p] = Idle))
    BY <1>14 DEF Load, Types, MemType, OnlyAt
  <2>5. /\ DOMAIN mem'[p] = DOMAIN mem[p] \cup {n} /\ mem'[p][n] = Copy(data[n], job[p] = Idle)
        /\ \A k \in DOMAIN mem[p] : k # n => mem'[p][k] = mem[p][k]
    BY <1>0, <2>2, <2>3, <2>4, Remembered
  <2>6. mem'[p][n].read = data[n] /\ (mem'[p][n].early <=> job[p] = Idle)
    BY <2>2, <2>5, CopyFacts
  <2>7. job' = job /\ data' = data /\ lock' = lock /\ author' = author /\ mutable' = mutable
    BY <1>14 DEF Load
  <2>8. Works(p)'
    <3>1. CASE job[p].op = "task" /\ Group(n) = job[p].group
      BY <3>1, <2>2, <2>5, <2>6, <2>7 DEF Held, Works, Working, Fresh
    <3>2. CASE job[p] = Idle
      BY <3>2, <2>2, <2>5, <2>6, <2>7 DEF Held, Works, Working, Fresh, Idle
    <3>3. QED
      BY <3>1, <3>2, <1>14 DEF Load
  <2>9. QED
    BY <2>1, <2>8, StaysWorking DEF Held
<1>15. ASSUME NEW p \in Procs, NEW n \in Name, AsMut(p, n) PROVE Held'
  <2>1. \A q \in Procs : Apart(q)
    BY <1>15 DEF Apart, SameMem, SameData, Types, Job, AsMut
  <2>2. QED
    BY <2>1, StaysWorking DEF Held
<1>16. ASSUME NEW p \in Procs, NEW n \in Name, ExitMut(p, n) PROVE Held'
  <2>1. /\ n \in DOMAIN mem[p] /\ mem[p][n].now \in Data /\ mem[p][n].early \in BOOLEAN /\ mem[p][n].read \in Data
        /\ n \in mutable[p] /\ job[p].op = "task" /\ lock[Group(n)] = p /\ Group(n) = job[p].group
    BY <1>16, <1>0 DEF ExitMut, CanSet, Types, MemType, Mem, Held, Works, Working
  <2>2. Copy(mem[p][n].now, mem[p][n].early) \in Mem
    BY <2>1, CopyFacts
  <2>3. OnlyAt(mem, mem', p) /\ mem'[p] = Remember(mem[p], n, Copy(mem[p][n].now, mem[p][n].early))
    BY <1>16 DEF ExitMut, Types, MemType, OnlyAt
  <2>4. /\ DOMAIN mem'[p] = DOMAIN mem[p] \cup {n} /\ mem'[p][n] = Copy(mem[p][n].now, mem[p][n].early)
        /\ \A k \in DOMAIN mem[p] : k # n => mem'[p][k] = mem[p][k]
    BY <1>0, <2>1, <2>2, <2>3, Remembered
  <2>5. mem'[p][n].read = mem[p][n].now /\ mem'[p][n].early = mem[p][n].early /\ DOMAIN mem'[p] = DOMAIN mem[p]
    <3>1. mem'[p][n].read = mem[p][n].now /\ mem'[p][n].early = mem[p][n].early
      BY <2>4 DEF Copy
    <3>2. QED
      BY <2>1, <2>4, <3>1
  <2>6. \/ ~mem[p][n].set /\ data' = data
        \/ /\ n \in DOMAIN data' /\ data'[n] = mem[p][n].now
           /\ \A k \in Name : k # n => SameData(k)
    <3>1. CASE data' = Stored(n, mem[p][n].now)
      <4>1. /\ DOMAIN data' = DOMAIN data \cup {n} /\ data'[n] = mem[p][n].now
            /\ \A k \in DOMAIN data : k # n => data'[k] = data[k]
        BY <1>0, <2>1, <3>1, StoredFacts
      <4>2. QED
        BY <4>1 DEF SameData
    <3>2. QED
      BY <3>1, <1>16 DEF ExitMut
  <2>7. ASSUME NEW q \in Procs, q # p PROVE Apart(q)
    BY <1>16, <2>1, <2>6, <2>7 DEF Apart, SameMem, SameData, Types, ExitMut
  <2>8. Works(p)'
    <3>1. job' = job /\ lock' = lock /\ author' = author
      BY <1>16 DEF ExitMut
    <3>2. ASSUME NEW k \in DOMAIN mem'[p], ~mem'[p][k].early PROVE Fresh(p, k)'
      <4>1. k \in DOMAIN mem[p] /\ k \in Name /\ ~mem[p][k].early /\ Fresh(p, k)
        BY <3>2, <2>4, <2>5, <1>0 DEF Held, Works, MemType
      <4>2. CASE k = n /\ ~mem[p][n].set /\ data' = data
        BY <4>1, <4>2, <2>1, <2>5 DEF Fresh, Held, Pending, Changes
      <4>3. CASE k = n /\ n \in DOMAIN data' /\ data'[n] = mem[p][n].now
        BY <4>3, <2>5 DEF Fresh
      <4>4. CASE k # n
        BY <4>1, <4>4, <2>4, <2>6 DEF Fresh, SameData
      <4>5. QED
        BY <4>2, <4>3, <4>4, <2>6
    <3>3. QED
      BY <3>1, <3>2, <2>1, <2>5 DEF Held, Works, Working
  <2>9. QED
    BY <2>7, <2>8, StaysWorking DEF Held
<1>17. ASSUME NEW p \in Procs, NEW n \in Name, StartDelete(p, n) PROVE Held'
  <2>1. ASSUME NEW q \in Procs, q # p PROVE Apart(q)
    BY <1>17, <2>1, StoreAssumption DEF Apart, SameMem, SameData, Types, StartDelete, Job
  <2>2. /\ job'[p].op = "delete" /\ job'[p].group = job[p].group /\ job'[p].name = n
        /\ job[p].op = "task" /\ mutable[p] = {n} /\ n \in DOMAIN mem[p]
    BY <1>17 DEF StartDelete, Types, Job, CanSet
  <2>8. Works(p)'
    BY <2>2, <1>17 DEF StartDelete, Held, Works, Working, Fresh
  <2>9. QED
    BY <2>1, <2>8, StaysWorking DEF Held
<1>18. ASSUME NEW p \in Procs, NEW n \in Name, NEW s \in InUse, SetStatus(p, n, s) PROVE Held'
  <2>1. /\ n \in DOMAIN mem[p] /\ mem[p][n].now \in Data /\ job[p].op = "task"
    BY <1>18, DataFacts DEF SetStatus, CanSet, Types, MemType, Mem
  <2>2. \A q \in Procs : SameMem(q) /\ (job[q].op = "found" => mem'[q] = mem[q])
    <3>1. CASE mem' = mem
      BY <3>1 DEF SameMem
    <3>2. CASE mem' = Changed(p, n, [mem[p][n].now EXCEPT !.status = s])
      <4>1. [mem[p][n].now EXCEPT !.status = s] \in Data
        BY <2>1, DataFacts
      <4>2. /\ DOMAIN mem'[p] = DOMAIN mem[p]
            /\ mem'[p][n].read = mem[p][n].read /\ mem'[p][n].early = mem[p][n].early
            /\ \A k \in DOMAIN mem[p] : k # n => mem'[p][k] = mem[p][k]
            /\ \A q \in Procs : q # p => mem'[q] = mem[q]
        BY <1>0, <2>1, <3>2, <4>1, ChangedFacts
      <4>3. QED
        BY <2>1, <4>2 DEF SameMem
    <3>3. QED
      BY <1>18, <3>1, <3>2 DEF SetStatus
  <2>3. \A q \in Procs : Apart(q)
    BY <1>18, <2>2 DEF Apart, SameData, Types, SetStatus
  <2>4. QED
    BY <2>3, StaysWorking DEF Held
<1>19. ASSUME NEW p \in Procs, NEW n \in Name, NEW b \in Bugs, SetBug(p, n, b) PROVE Held'
  <2>1. /\ n \in DOMAIN mem[p] /\ mem[p][n].now \in Data /\ job[p].op = "task"
    BY <1>19, DataFacts DEF SetBug, CanSet, Types, MemType, Mem
  <2>2. \A q \in Procs : SameMem(q) /\ (job[q].op = "found" => mem'[q] = mem[q])
    <3>1. [mem[p][n].now EXCEPT !.bug = b] \in Data
      BY <1>19, <2>1, DataFacts
    <3>2. mem' = Changed(p, n, [mem[p][n].now EXCEPT !.bug = b])
      BY <1>19 DEF SetBug
    <3>3. /\ DOMAIN mem'[p] = DOMAIN mem[p]
          /\ mem'[p][n].read = mem[p][n].read /\ mem'[p][n].early = mem[p][n].early
          /\ \A k \in DOMAIN mem[p] : k # n => mem'[p][k] = mem[p][k]
          /\ \A q \in Procs : q # p => mem'[q] = mem[q]
      BY <1>0, <2>1, <3>1, <3>2, ChangedFacts
    <3>4. QED
      BY <2>1, <3>3 DEF SameMem
  <2>3. \A q \in Procs : Apart(q)
    BY <1>19, <2>2 DEF Apart, SameData, Types, SetBug
  <2>4. QED
    BY <2>3, StaysWorking DEF Held
<1>20. ASSUME NEW p \in Procs, NEW n \in Name, NEW pr \in Prs, SetPr(p, n, pr) PROVE Held'
  <2>1. /\ n \in DOMAIN mem[p] /\ mem[p][n].now \in Data /\ job[p].op = "task"
    BY <1>20, DataFacts DEF SetPr, CanSet, Types, MemType, Mem
  <2>2. \A q \in Procs : SameMem(q) /\ (job[q].op = "found" => mem'[q] = mem[q])
    <3>1. [mem[p][n].now EXCEPT !.pr = pr] \in Data
      BY <1>20, <2>1, DataFacts
    <3>2. mem' = Changed(p, n, [mem[p][n].now EXCEPT !.pr = pr])
      BY <1>20 DEF SetPr
    <3>3. /\ DOMAIN mem'[p] = DOMAIN mem[p]
          /\ mem'[p][n].read = mem[p][n].read /\ mem'[p][n].early = mem[p][n].early
          /\ \A k \in DOMAIN mem[p] : k # n => mem'[p][k] = mem[p][k]
          /\ \A q \in Procs : q # p => mem'[q] = mem[q]
      BY <1>0, <2>1, <3>1, <3>2, ChangedFacts
    <3>4. QED
      BY <2>1, <3>3 DEF SameMem
  <2>3. \A q \in Procs : Apart(q)
    BY <1>20, <2>2 DEF Apart, SameData, Types, None, SetPr
  <2>4. QED
    BY <2>3, StaysWorking DEF Held
<1>21. ASSUME UNCHANGED vars PROVE Held'
  <2>1. \A q \in Procs : Apart(q)
    BY <1>21 DEF Apart, SameMem, SameData, Types, Job, vars
  <2>2. QED
    BY <2>1, StaysWorking DEF Held
<1>22. QED
  BY <1>1, <1>2, <1>3, <1>4, <1>5, <1>6, <1>7, <1>8, <1>9, <1>10, <1>11, <1>12, <1>13, <1>14, <1>15, <1>16, <1>17, <1>18, <1>19, <1>20, <1>21 DEF Next

(* Branches. *)

\* A sync that a process changes, makes or deletes is locked by it.
Claims(p, n) == n \in mutable[p] \/ (job[p].op \in {"create", "delete"} /\ job[p].name = n)
LEMMA Claimed ==
  ASSUME Types, Held, NEW p \in Procs, NEW n, Claims(p, n)
  PROVE  n \in Name /\ Group(n) = job[p].group /\ lock[Group(n)] = p /\ Working(p)
BY DEF Types, MemType, Held, Works, Working, Claims

LEMMA ClaimedOnce ==
  ASSUME Types, Held, NEW p \in Procs, NEW q \in Procs, NEW n, Claims(p, n), Claims(q, n)
  PROVE  p = q
BY Claimed

LEMMA BranchesKept ==
  ASSUME Types, Held, Branches, [Next]_vars
  PROVE  Branches'
<1>1. ASSUME NEW pr \in Prs, Open(pr) PROVE Branches'
  BY <1>1 DEF Branches, Types, Job, Open
<1>2. ASSUME NEW p \in Procs, NEW g \in Groups, Begin(p, g) PROVE Branches'
  BY <1>2 DEF Branches, Types, Job, Begin
<1>3. ASSUME NEW p \in Procs, ExitTryPush(p) PROVE Branches'
  BY <1>3 DEF Branches, Types, Job, ExitTryPush
<1>4. ASSUME NEW p \in Procs, End(p) PROVE Branches'
  BY <1>4, Forgotten DEF Branches, Types, Idle, End
<1>5. ASSUME NEW p \in Procs, Crash(p) PROVE Branches'
  BY <1>5, Forgotten DEF Branches, Types, Idle, Crash
<1>6. ASSUME NEW p \in Procs, NewDownstream(p) PROVE Branches'
  <2>1. CASE Forget(p) /\ refs' = refs
    BY <2>1, Forgotten DEF Branches, Idle
  <2>2. CASE Create(p, NextName("downstream", job[p].group)) /\ refs' = refs
    BY <2>2 DEF Branches, Types, Job, Create
  <2>3. QED
    BY <2>1, <2>2, <1>6 DEF NewDownstream
<1>7. ASSUME NEW p \in Procs, CreateData(p) PROVE Branches'
  BY <1>7 DEF Branches, Types, Job, CreateData
<1>8. ASSUME NEW p \in Procs, DeleteEntry(p) PROVE Branches'
  <2>1. CASE Forget(p) /\ refs' = refs
    BY <2>1, Forgotten DEF Branches, Idle
  <2>2. CASE \E next : job' = [job EXCEPT ![p].step = next] /\ next # "wpt" /\ refs' = refs /\ job[p].step # "wpt" /\ job[p].op = "delete"
    BY <2>2 DEF Branches, Types, Job
  <2>3. QED
    BY <2>1, <2>2, <1>8 DEF DeleteEntry, Deleting
<1>9. ASSUME NEW p \in Procs, DeleteData(p) PROVE Branches'
  BY <1>9, Forgotten DEF Branches, Types, Idle, DeleteData
<1>10. ASSUME NEW p \in Procs, NEW pr \in Prs, FindPr(p, pr) PROVE Branches'
  BY <1>10 DEF Branches, Types, Job, FindPr
<1>11. ASSUME NEW p \in Procs, NEW b \in Bugs, NewUpstream(p, b) PROVE Branches'
  BY <1>11 DEF Branches, Types, Job, Create, NewUpstream
<1>12. ASSUME NEW p \in Procs, NEW r \in Repository, CreateRef(p, r) PROVE Branches'
  <2>1. /\ job[p].op = "create" /\ job[p].step = r /\ refs' = [refs EXCEPT ![r] = @ \cup {job[p].name}]
        /\ job'[p].op = "create" /\ job'[p].name = job[p].name
        /\ job'[p].step = IF r = "gecko" THEN "wpt" ELSE "commit"
        /\ \A q \in Procs : q # p => job'[q] = job[q]
    BY <1>12 DEF CreateRef, Types, Job
  <2>2. \A q \in Procs : q # p /\ job[q].op \in {"create", "delete"} => job[q].name # job[p].name
    BY <2>1, ClaimedOnce DEF Claims
  <2>3. refs'["wpt"] \subseteq refs'["gecko"]
    BY <2>1 DEF Branches, Types, Repository
  <2>4. QED
    BY <2>1, <2>2, <2>3 DEF Branches, Types, Repository
<1>13. ASSUME NEW p \in Procs, NEW r \in Repository, DeleteRef(p, r) PROVE Branches'
  <2>1. CASE Forget(p) /\ refs' = refs
    BY <2>1, Forgotten DEF Branches, Idle
  <2>2. CASE refs' = [refs EXCEPT ![r] = @ \ {job[p].name}] /\ Deleting(p, r, IF r = "wpt" THEN "gecko" ELSE "status")
    <3>1. /\ job[p].op = "delete" /\ job[p].step = r
          /\ job'[p].op = "delete" /\ job'[p].name = job[p].name
          /\ \A q \in Procs : q # p => job'[q] = job[q]
      BY <2>2 DEF Deleting, Types, Job
    <3>2. \A q \in Procs : q # p /\ job[q].op \in {"create", "delete"} => job[q].name # job[p].name
      BY <3>1, ClaimedOnce DEF Claims
    <3>3. /\ refs'["wpt"] = IF r = "wpt" THEN refs["wpt"] \ {job[p].name} ELSE refs["wpt"]
          /\ refs'["gecko"] = IF r = "gecko" THEN refs["gecko"] \ {job[p].name} ELSE refs["gecko"]
      BY <2>2 DEF Types, Repository
    <3>4. r = "wpt" \/ r = "gecko"
      BY DEF Repository
    <3>5. refs'["wpt"] \subseteq refs'["gecko"] /\ job[p].name \notin refs'["wpt"]
      BY <3>1, <3>3, <3>4 DEF Branches
    <3>6. QED
      BY <3>1, <3>2, <3>3, <3>5 DEF Branches
  <2>3. QED
    BY <2>1, <2>2, <1>13 DEF DeleteRef
<1>14. ASSUME NEW p \in Procs, NEW n \in Name, Load(p, n) PROVE Branches'
  BY <1>14 DEF Branches, Types, Job, Load
<1>15. ASSUME NEW p \in Procs, NEW n \in Name, AsMut(p, n) PROVE Branches'
  BY <1>15 DEF Branches, Types, Job, AsMut
<1>16. ASSUME NEW p \in Procs, NEW n \in Name, ExitMut(p, n) PROVE Branches'
  BY <1>16 DEF Branches, Types, Job, ExitMut
<1>17. ASSUME NEW p \in Procs, NEW n \in Name, StartDelete(p, n) PROVE Branches'
  BY <1>17 DEF Branches, Types, Job, StartDelete
<1>18. ASSUME NEW p \in Procs, NEW n \in Name, NEW s \in InUse, SetStatus(p, n, s) PROVE Branches'
  BY <1>18 DEF Branches, Types, Job, SetStatus
<1>19. ASSUME NEW p \in Procs, NEW n \in Name, NEW b \in Bugs, SetBug(p, n, b) PROVE Branches'
  BY <1>19 DEF Branches, Types, Job, SetBug
<1>20. ASSUME NEW p \in Procs, NEW n \in Name, NEW pr \in Prs, SetPr(p, n, pr) PROVE Branches'
  BY <1>20 DEF Branches, Types, Job, SetPr
<1>21. ASSUME UNCHANGED vars PROVE Branches'
  BY <1>21 DEF Branches, vars
<1>22. QED
  BY <1>1, <1>2, <1>3, <1>4, <1>5, <1>6, <1>7, <1>8, <1>9, <1>10, <1>11, <1>12, <1>13, <1>14, <1>15, <1>16, <1>17, <1>18, <1>19, <1>20, <1>21 DEF Next

(* Unsaved changes. *)

LEMMA ChangesStay ==
  ASSUME NEW q \in Procs, Changes(q), job'[q].op = job[q].op \/ job'[q].op # "delete", job'[q].name = job[q].name \/ job'[q].op # "delete",
         mem'[q] = mem[q], mutable'[q] = mutable[q], pend'[q] = pend[q], spoiled \subseteq spoiled'
  PROVE  Changes(q)'
BY DEF Changes

LEMMA NothingChanged ==
  ASSUME NEW q \in Procs, mem'[q] = <<>>, DOMAIN mem'[q] = {}, mutable'[q] = {}, pend'[q] = Saved, job'[q].op # "delete"
  PROVE  Changes(q)'
BY DEF Changes, Saved

LEMMA PendingKept ==
  ASSUME Types, Held, Pending, [Next]_vars
  PROVE  Pending'
<1>0. DataType(data) /\ MemType(mem)
  BY DEF Types
<1>a. ASSUME NEW q \in Procs, mutable[q] = {} PROVE pend[q] = Saved
  <2>1. pend[q].ins = {} /\ pend[q].del = {} /\ pend[q] = [ins |-> pend[q].ins, del |-> pend[q].del]
    BY <1>a DEF Pending, Changes, Types, PendType, Change
  <2>2. QED
    BY <2>1 DEF Saved
<1>1. ASSUME NEW pr \in Prs, Open(pr) PROVE Pending'
  BY <1>1, ChangesStay DEF Pending, Types, Job, Open
<1>2. ASSUME NEW p \in Procs, NEW g \in Groups, Begin(p, g) PROVE Pending'
  BY <1>2, ChangesStay DEF Pending, Types, Job, Begin, Idle
<1>3. ASSUME NEW p \in Procs, ExitTryPush(p) PROVE Pending'
  <2>1. ASSUME NEW q \in Procs, q # p PROVE Changes(q)'
    BY <1>3, <2>1, ChangesStay DEF Pending, Types, MemType, PendType, ExitTryPush, Save
  <2>2. pend'[p] = Saved /\ UNCHANGED <<job, mem, mutable>> /\ spoiled \subseteq spoiled'
    BY <1>3 DEF ExitTryPush, Save, Types, PendType
  <2>8. Changes(p)'
    BY <2>2 DEF Pending, Changes, Saved
  <2>9. QED
    BY <2>1, <2>8 DEF Pending
<1>4. ASSUME NEW p \in Procs, End(p) PROVE Pending'
  <2>1. ASSUME NEW q \in Procs, q # p PROVE Changes(q)'
    BY <1>4, <2>1, Forgotten, ChangesStay DEF Pending, End, Mark
  <2>8. Changes(p)'
    BY <1>4, Forgotten, NothingChanged DEF End, Idle
  <2>9. QED
    BY <2>1, <2>8 DEF Pending
<1>5. ASSUME NEW p \in Procs, Crash(p) PROVE Pending'
  <2>1. ASSUME NEW q \in Procs, q # p PROVE Changes(q)'
    BY <1>5, <2>1, Forgotten, ChangesStay DEF Pending, Crash, Mark
  <2>8. Changes(p)'
    BY <1>5, Forgotten, NothingChanged DEF Crash, Idle
  <2>9. QED
    BY <2>1, <2>8 DEF Pending
<1>6. ASSUME NEW p \in Procs, NewDownstream(p) PROVE Pending'
  <2>1. CASE NextName("downstream", job[p].group) \notin Name
    <3>1. Forget(p) /\ spoiled' = spoiled
      BY <2>1, <1>6 DEF NewDownstream, Deleting
    <3>2. ASSUME NEW q \in Procs, q # p PROVE Changes(q)'
      BY <3>1, <3>2, Forgotten, ChangesStay DEF Pending
    <3>3. Changes(p)'
      BY <3>1, Forgotten, NothingChanged DEF Idle
    <3>4. QED
      BY <3>2, <3>3 DEF Pending
  <2>2. CASE ~(NextName("downstream", job[p].group) \notin Name)
    BY <2>2, <1>6, ChangesStay DEF Pending, Types, Job, NewDownstream, Create
  <2>3. QED
    BY <2>1, <2>2
<1>7. ASSUME NEW p \in Procs, CreateData(p) PROVE Pending'
  <2> DEFINE n == job[p].name
             d == IF n.kind = "upstream" THEN [status |-> "open", bug |-> n.obj, pr |-> None]
                  ELSE [status |-> "open", bug |-> None, pr |-> n.obj]
  <2>1. ASSUME NEW q \in Procs, q # p PROVE Changes(q)'
    BY <1>7, <2>1, ChangesStay DEF Pending, Types, MemType, PendType, CreateData
  <2>2. n \in Name /\ d \in Data /\ mutable[p] = {}
    BY <1>7, NameFacts, StoreAssumption DEF Held, Works, CreateData, Data
  <2>3. /\ mem' = [mem EXCEPT ![p] = Remember(@, n, Copy(d, FALSE))]
        /\ job'[p].op = "task" /\ mutable'[p] = mutable[p] /\ pend'[p] = pend[p]
    BY <1>7 DEF CreateData, Types, Job
  <2> HIDE DEF d, n
  <2>4. Copy(d, FALSE) \in Mem
    BY <2>2, CopyFacts
  <2>5. OnlyAt(mem, mem', p) /\ mem'[p] = Remember(mem[p], n, Copy(d, FALSE))
    BY <2>3 DEF Types, MemType, OnlyAt
  <2>6. /\ DOMAIN mem'[p] = DOMAIN mem[p] \cup {n} /\ mem'[p][n] = Copy(d, FALSE)
        /\ \A k \in DOMAIN mem[p] : k # n => mem'[p][k] = mem[p][k]
    <3>1. MemType(mem) /\ n \in Name
      BY <1>0, <2>2
    <3>2. QED
      BY <2>4, <2>5, <3>1, Remembered
  <2>7. mem'[p][n].read = mem'[p][n].now /\ mem'[p][n].set = FALSE
    BY <2>6 DEF Copy
  <2>8. Changes(p)'
    <3>1. mutable'[p] = {} /\ pend'[p] = pend[p] /\ job'[p].op # "delete" /\ Changes(p)
      BY <2>2, <2>3 DEF Pending
    <3>2. \A k \in DOMAIN mem'[p] : ~mem'[p][k].set /\ mem'[p][k].now = mem'[p][k].read
      BY <2>2, <2>6, <2>7, <3>1 DEF Changes
    <3>3. \A e \in pend'[p].ins \cup pend'[p].del : e.name \in mutable'[p]
      BY <2>2, <3>1 DEF Changes
    <3>4. QED
      BY <3>1, <3>2, <3>3 DEF Changes
  <2>9. QED
    BY <2>1, <2>8 DEF Pending
<1>8. ASSUME NEW p \in Procs, DeleteEntry(p) PROVE Pending'
  <2>1. CASE job[p].step = "bug" /\ mem[p][job[p].name].now.bug = None
    <3>1. Forget(p) /\ spoiled' = spoiled
      BY <2>1, <1>8 DEF DeleteEntry, Deleting
    <3>2. ASSUME NEW q \in Procs, q # p PROVE Changes(q)'
      BY <3>1, <3>2, Forgotten, ChangesStay DEF Pending
    <3>3. Changes(p)'
      BY <3>1, Forgotten, NothingChanged DEF Idle
    <3>4. QED
      BY <3>2, <3>3 DEF Pending
  <2>2. CASE ~(job[p].step = "bug" /\ mem[p][job[p].name].now.bug = None)
    BY <2>2, <1>8, ChangesStay DEF Pending, Types, Job, DeleteEntry, Deleting
  <2>3. QED
    BY <2>1, <2>2
<1>9. ASSUME NEW p \in Procs, DeleteData(p) PROVE Pending'
  <2>1. ASSUME NEW q \in Procs, q # p PROVE Changes(q)'
    BY <1>9, <2>1, Forgotten, ChangesStay DEF Pending, DeleteData, Mark
  <2>8. Changes(p)'
    BY <1>9, Forgotten, NothingChanged DEF DeleteData, Idle
  <2>9. QED
    BY <2>1, <2>8 DEF Pending
<1>10. ASSUME NEW p \in Procs, NEW pr \in Prs, FindPr(p, pr) PROVE Pending'
  BY <1>10, ChangesStay DEF Pending, Types, Job, FindPr, Idle
<1>11. ASSUME NEW p \in Procs, NEW b \in Bugs, NewUpstream(p, b) PROVE Pending'
  BY <1>11, ChangesStay DEF Pending, Types, Job, NewUpstream, Create
<1>12. ASSUME NEW p \in Procs, NEW r \in Repository, CreateRef(p, r) PROVE Pending'
  BY <1>12, ChangesStay DEF Pending, Types, Job, CreateRef
<1>13. ASSUME NEW p \in Procs, NEW r \in Repository, DeleteRef(p, r) PROVE Pending'
  <2>1. CASE job[p].name \notin refs[r]
    <3>1. Forget(p) /\ spoiled' = spoiled
      BY <2>1, <1>13 DEF DeleteRef, Deleting
    <3>2. ASSUME NEW q \in Procs, q # p PROVE Changes(q)'
      BY <3>1, <3>2, Forgotten, ChangesStay DEF Pending
    <3>3. Changes(p)'
      BY <3>1, Forgotten, NothingChanged DEF Idle
    <3>4. QED
      BY <3>2, <3>3 DEF Pending
  <2>2. CASE ~(job[p].name \notin refs[r])
    BY <2>2, <1>13, ChangesStay DEF Pending, Types, Job, DeleteRef, Deleting
  <2>3. QED
    BY <2>1, <2>2
<1>14. ASSUME NEW p \in Procs, NEW n \in Name, Load(p, n) PROVE Pending'
  <2>1. ASSUME NEW q \in Procs, q # p PROVE Changes(q)'
    BY <1>14, <2>1, ChangesStay DEF Pending, Types, MemType, PendType, Load
  <2>2. n \in Name /\ data[n] \in Data /\ n \notin DOMAIN mem[p] /\ job[p].op # "delete"
    BY <1>14, <1>0 DEF Load, Loadable, DataType, Idle
  <2>3. Copy(data[n], job[p] = Idle) \in Mem
    BY <2>2, CopyFacts
  <2>4. OnlyAt(mem, mem', p) /\ mem'[p] = Remember(mem[p], n, Copy(data[n], job[p] = Idle))
    BY <1>14 DEF Load, Types, MemType, OnlyAt
  <2>5. /\ DOMAIN mem'[p] = DOMAIN mem[p] \cup {n} /\ mem'[p][n] = Copy(data[n], job[p] = Idle)
        /\ \A k \in DOMAIN mem[p] : k # n => mem'[p][k] = mem[p][k]
    BY <1>0, <2>2, <2>3, <2>4, Remembered
  <2>6. /\ mem'[p][n].read = mem'[p][n].now /\ mem'[p][n].set = FALSE
    BY <2>5 DEF Copy
  <2>7. job' = job /\ pend' = pend /\ mutable' = mutable /\ spoiled' = spoiled /\ mutable[p] \subseteq DOMAIN mem[p]
    BY <1>14 DEF Load, Types
  <2>8. Changes(p)'
    BY <2>2, <2>5, <2>6, <2>7 DEF Pending, Changes
  <2>9. QED
    BY <2>1, <2>8 DEF Pending
<1>15. ASSUME NEW p \in Procs, NEW n \in Name, AsMut(p, n) PROVE Pending'
  <2>1. ASSUME NEW q \in Procs, q # p PROVE Changes(q)'
    BY <1>15, <2>1, ChangesStay DEF Pending, Types, MemType, PendType, AsMut
  <2>8. Changes(p)'
    <3>1. mutable'[p] = {n} /\ mutable[p] = {} /\ n \in DOMAIN mem[p] /\ job[p].op = "task"
      BY <1>15 DEF AsMut, Types
    <3>2. pend[p] = Saved
      BY <3>1, <1>a DEF Pending, Changes
    <3>3. UNCHANGED <<job, mem, pend>>
      BY <1>15 DEF AsMut
    <3>4. QED
      BY <3>1, <3>2, <3>3 DEF Pending, Changes, Saved
  <2>9. QED
    BY <2>1, <2>8 DEF Pending
<1>16. ASSUME NEW p \in Procs, NEW n \in Name, ExitMut(p, n) PROVE Pending'
  <2>1. ASSUME NEW q \in Procs, q # p PROVE Changes(q)'
    BY <1>16, <2>1, ChangesStay DEF Pending, Types, MemType, PendType, ExitMut, Save, Mark
  <2>2. /\ n \in DOMAIN mem[p] /\ n \in Name /\ mem[p][n].now \in Data /\ mem[p][n].early \in BOOLEAN
        /\ n \in mutable[p] /\ job[p].op = "task"
    BY <1>16, <1>0 DEF ExitMut, CanSet, Types, MemType, Mem
  <2>3. Copy(mem[p][n].now, mem[p][n].early) \in Mem
    BY <2>2, CopyFacts
  <2>4. OnlyAt(mem, mem', p) /\ mem'[p] = Remember(mem[p], n, Copy(mem[p][n].now, mem[p][n].early))
    BY <1>16 DEF ExitMut, Types, MemType, OnlyAt
  <2>5. /\ DOMAIN mem'[p] = DOMAIN mem[p] \cup {n} /\ mem'[p][n] = Copy(mem[p][n].now, mem[p][n].early)
        /\ \A k \in DOMAIN mem[p] : k # n => mem'[p][k] = mem[p][k]
    BY <1>0, <2>2, <2>3, <2>4, Remembered
  <2>6. /\ mem'[p][n].read = mem'[p][n].now /\ mem'[p][n].set = FALSE
    BY <2>5 DEF Copy
  <2>7. job' = job /\ pend'[p] = Saved /\ mutable'[p] = {}
    BY <1>16, <2>2 DEF ExitMut, Save, Types, PendType, Pending, Changes
  <2>8. Changes(p)'
    BY <2>2, <2>5, <2>6, <2>7 DEF Pending, Changes, Saved
  <2>9. QED
    BY <2>1, <2>8 DEF Pending
<1>17. ASSUME NEW p \in Procs, NEW n \in Name, StartDelete(p, n) PROVE Pending'
  <2>1. ASSUME NEW q \in Procs, q # p PROVE Changes(q)'
    BY <1>17, <2>1, ChangesStay DEF Pending, Types, MemType, PendType, StartDelete, Job
  <2>2. /\ job'[p].name = n /\ mutable[p] = {n} /\ pend[p] = Saved /\ ~mem[p][n].set
        /\ UNCHANGED <<mem, mutable, pend, spoiled>>
    BY <1>17 DEF StartDelete, Types, Job
  <2>8. Changes(p)'
    BY <2>2 DEF Pending, Changes
  <2>9. QED
    BY <2>1, <2>8 DEF Pending
<1>18. ASSUME NEW p \in Procs, NEW n \in Name, NEW s \in InUse, SetStatus(p, n, s) PROVE Pending'
  <2>1. ASSUME NEW q \in Procs, q # p PROVE Changes(q)'
    BY <1>18, <2>1, ChangesStay DEF Pending, Types, MemType, PendType, SetStatus, Changed
  <2>2. /\ n \in DOMAIN mem[p] /\ mem[p][n].now \in Data /\ [mem[p][n].now EXCEPT !.status = s] \in Data
        /\ n \in mutable[p] /\ job[p].op = "task" /\ n \in Name
    BY <1>18, <1>0, DataFacts DEF SetStatus, CanSet, Types, MemType, Mem
  <2>5. \A e \in pend'[p].ins \cup pend'[p].del : e.name \in mutable[p]
    BY <1>18, <2>2 DEF SetStatus, Pending, Changes, Types, PendType, Insert, Delete, StatusEntry, BugEntry
  <2>6. job' = job /\ mutable' = mutable
    BY <1>18 DEF SetStatus
  <2>7. CASE mem' = Changed(p, n, [mem[p][n].now EXCEPT !.status = s])
    <3>1. /\ DOMAIN mem'[p] = DOMAIN mem[p] /\ mem'[p][n].set = TRUE
          /\ \A k \in DOMAIN mem[p] : k # n => mem'[p][k] = mem[p][k]
      BY <1>0, <2>2, <2>7, ChangedFacts
    <3>2. Changes(p)'
      BY <2>2, <3>1, <2>5, <2>6 DEF Pending, Changes
    <3>3. QED
      BY <2>1, <3>2 DEF Pending
  <2>8. CASE mem' = mem /\ spoiled' = spoiled \cup {n}
    <3>2. Changes(p)'
      BY <2>2, <2>5, <2>6, <2>8 DEF Pending, Changes
    <3>3. QED
      BY <2>1, <3>2 DEF Pending
  <2>9. QED
    BY <2>7, <2>8, <1>18 DEF SetStatus
<1>19. ASSUME NEW p \in Procs, NEW n \in Name, NEW b \in Bugs, SetBug(p, n, b) PROVE Pending'
  <2>1. ASSUME NEW q \in Procs, q # p PROVE Changes(q)'
    BY <1>19, <2>1, ChangesStay DEF Pending, Types, MemType, PendType, SetBug, Changed
  <2>2. /\ n \in DOMAIN mem[p] /\ mem[p][n].now \in Data /\ [mem[p][n].now EXCEPT !.bug = b] \in Data
        /\ n \in mutable[p] /\ job[p].op = "task" /\ n \in Name
    BY <1>19, <1>0, DataFacts DEF SetBug, CanSet, Types, MemType, Mem
  <2>3. mem' = Changed(p, n, [mem[p][n].now EXCEPT !.bug = b])
    BY <1>19 DEF SetBug
  <2>4. /\ DOMAIN mem'[p] = DOMAIN mem[p] /\ mem'[p][n].set = TRUE
        /\ \A k \in DOMAIN mem[p] : k # n => mem'[p][k] = mem[p][k]
    BY <1>0, <2>2, <2>3, ChangedFacts
  <2>5. \A e \in pend'[p].ins \cup pend'[p].del : e.name \in mutable[p]
    BY <1>19, <2>2 DEF SetBug, Pending, Changes, Types, PendType, Insert, Delete, StatusEntry, BugEntry, PrEntry
  <2>6. job' = job /\ mutable' = mutable
    BY <1>19 DEF SetBug
  <2>8. Changes(p)'
    BY <2>2, <2>4, <2>5, <2>6 DEF Pending, Changes
  <2>9. QED
    BY <2>1, <2>8 DEF Pending
<1>20. ASSUME NEW p \in Procs, NEW n \in Name, NEW pr \in Prs, SetPr(p, n, pr) PROVE Pending'
  <2>1. ASSUME NEW q \in Procs, q # p PROVE Changes(q)'
    BY <1>20, <2>1, ChangesStay DEF Pending, Types, MemType, PendType, SetPr, Changed
  <2>2. /\ n \in DOMAIN mem[p] /\ mem[p][n].now \in Data /\ [mem[p][n].now EXCEPT !.pr = pr] \in Data
        /\ n \in mutable[p] /\ job[p].op = "task" /\ n \in Name
    BY <1>20, <1>0, DataFacts DEF SetPr, CanSet, Types, MemType, Mem
  <2>3. mem' = Changed(p, n, [mem[p][n].now EXCEPT !.pr = pr])
    BY <1>20 DEF SetPr
  <2>4. /\ DOMAIN mem'[p] = DOMAIN mem[p] /\ mem'[p][n].set = TRUE
        /\ \A k \in DOMAIN mem[p] : k # n => mem'[p][k] = mem[p][k]
    BY <1>0, <2>2, <2>3, ChangedFacts
  <2>5. \A e \in pend'[p].ins \cup pend'[p].del : e.name \in mutable[p]
    BY <1>20, <2>2 DEF SetPr, Pending, Changes, Types, PendType, Insert, Delete, StatusEntry, BugEntry, PrEntry
  <2>6. job' = job /\ mutable' = mutable
    BY <1>20 DEF SetPr
  <2>8. Changes(p)'
    BY <2>2, <2>4, <2>5, <2>6 DEF Pending, Changes
  <2>9. QED
    BY <2>1, <2>8 DEF Pending
<1>21. ASSUME UNCHANGED vars PROVE Pending'
  BY <1>21, ChangesStay DEF Pending, vars
<1>22. QED
  BY <1>1, <1>2, <1>3, <1>4, <1>5, <1>6, <1>7, <1>8, <1>9, <1>10, <1>11, <1>12, <1>13, <1>14, <1>15, <1>16, <1>17, <1>18, <1>19, <1>20, <1>21 DEF Next

(* Owners of PRs. *)

LEMMA OwnedStays ==
  ASSUME Owned, \A n \in Name, pr \in Prs : Has(n, pr)' => Has(n, pr),
         \A pr \in Prs : author[pr] # None => author'[pr] = author[pr]
  PROVE  Owned'
<1>1. ASSUME NEW pr \in Prs, NEW n \in Name, Has(n, pr)'
      PROVE  /\ n.kind = "downstream" => n.obj = pr /\ author'[pr] = "person"
             /\ n.kind = "upstream" => author'[pr] = "bot"
  BY <1>1 DEF Owned, None
<1>2. ASSUME NEW pr \in Prs, NEW m \in Name, NEW n \in Name, m.kind = "upstream", n.kind = "upstream",
             Has(m, pr)', Has(n, pr)'
      PROVE  m = n
  BY <1>2 DEF Owned
<1>3. QED
  BY <1>1, <1>2 DEF Owned

\* It is enough to look at the process that moves.
LEMMA HasLess ==
  ASSUME NEW p \in Procs, \A q \in Procs : q # p => mem'[q] = mem[q],
         \A n \in DOMAIN mem'[p] : Has(n, mem'[p][n].read.pr) /\ Has(n, mem'[p][n].now.pr),
         \A n \in DOMAIN data' : Has(n, data'[n].pr)
  PROVE  \A n \in Name, pr \in Prs : Has(n, pr)' => Has(n, pr)
<1> SUFFICES ASSUME NEW n \in Name, NEW pr \in Prs, Has(n, pr)' PROVE Has(n, pr)
  OBVIOUS
<1>1. CASE n \in DOMAIN data' /\ data'[n].pr = pr
  BY <1>1
<1>2. ASSUME NEW q \in Procs, n \in DOMAIN mem'[q], pr \in {mem'[q][n].read.pr, mem'[q][n].now.pr}
      PROVE  Has(n, pr)
  <2>1. CASE q = p
    BY <2>1, <1>2
  <2>2. CASE q # p
    BY <2>2, <1>2 DEF Has
  <2>3. QED
    BY <2>1, <2>2
<1>3. QED
  BY <1>1, <1>2 DEF Has

LEMMA HasFacts ==
  /\ \A n \in DOMAIN data : Has(n, data[n].pr)
  /\ \A p \in Procs : \A n \in DOMAIN mem[p] : Has(n, mem[p][n].read.pr) /\ Has(n, mem[p][n].now.pr)
BY DEF Has

LEMMA OwnedKept ==
  ASSUME Types, Held, Owned, [Next]_vars
  PROVE  Owned'
<1>0. DataType(data) /\ MemType(mem)
  BY DEF Types
<1>1. ASSUME NEW pr \in Prs, Open(pr) PROVE Owned'
  <2>1. mem' = mem /\ data' = data
    BY <1>1 DEF Open
  <2>2. \A k \in Name, r \in Prs : Has(k, r)' => Has(k, r)
    BY <2>1 DEF Has
  <2>3. \A r \in Prs : author[r] # None => author'[r] = author[r]
    BY <1>1 DEF Open, Types
  <2>4. QED
    BY <2>2, <2>3, OwnedStays
<1>2. ASSUME NEW p \in Procs, NEW g \in Groups, Begin(p, g) PROVE Owned'
  <2>1. mem' = mem /\ data' = data
    BY <1>2 DEF Begin
  <2>2. \A k \in Name, r \in Prs : Has(k, r)' => Has(k, r)
    BY <2>1 DEF Has
  <2>3. \A r \in Prs : author[r] # None => author'[r] = author[r]
    BY <1>2 DEF Begin, Types
  <2>4. QED
    BY <2>2, <2>3, OwnedStays
<1>3. ASSUME NEW p \in Procs, ExitTryPush(p) PROVE Owned'
  <2>1. mem' = mem /\ data' = data
    BY <1>3 DEF ExitTryPush
  <2>2. \A k \in Name, r \in Prs : Has(k, r)' => Has(k, r)
    BY <2>1 DEF Has
  <2>3. \A r \in Prs : author[r] # None => author'[r] = author[r]
    BY <1>3 DEF ExitTryPush, Types
  <2>4. QED
    BY <2>2, <2>3, OwnedStays
<1>4. ASSUME NEW p \in Procs, End(p) PROVE Owned'
  <2>1. Forget(p) /\ author' = author /\ \A n \in DOMAIN data' : n \in DOMAIN data /\ data'[n] = data[n]
    BY <1>4 DEF End, Restrict
  <2>2. mem'[p] = <<>> /\ DOMAIN mem'[p] = {} /\ \A q \in Procs : q # p => mem'[q] = mem[q]
    BY <2>1, Forgotten
  <2>3. \A k \in Name, pr \in Prs : Has(k, pr)' => Has(k, pr)
    BY <2>1, <2>2, HasLess, HasFacts
  <2>4. QED
    BY <2>1, <2>3, OwnedStays
<1>5. ASSUME NEW p \in Procs, Crash(p) PROVE Owned'
  <2>1. Forget(p) /\ author' = author /\ \A n \in DOMAIN data' : n \in DOMAIN data /\ data'[n] = data[n]
    BY <1>5 DEF Crash, Restrict
  <2>2. mem'[p] = <<>> /\ DOMAIN mem'[p] = {} /\ \A q \in Procs : q # p => mem'[q] = mem[q]
    BY <2>1, Forgotten
  <2>3. \A k \in Name, pr \in Prs : Has(k, pr)' => Has(k, pr)
    BY <2>1, <2>2, HasLess, HasFacts
  <2>4. QED
    BY <2>1, <2>3, OwnedStays
<1>6. ASSUME NEW p \in Procs, NewDownstream(p) PROVE Owned'
  <2>1. data' = data /\ author' = author /\ (mem' = mem \/ Forget(p))
    BY <1>6 DEF NewDownstream, Deleting
  <2>2. CASE mem' = mem
    <3>1. \A n \in Name, pr \in Prs : Has(n, pr)' => Has(n, pr)
      BY <2>1, <2>2 DEF Has
    <3>2. QED
      BY <2>1, <3>1, OwnedStays
  <2>3. CASE Forget(p)
    <3>1. mem'[p] = <<>> /\ DOMAIN mem'[p] = {} /\ \A q \in Procs : q # p => mem'[q] = mem[q]
      BY <2>3, Forgotten
    <3>2. \A n \in Name, pr \in Prs : Has(n, pr)' => Has(n, pr)
      BY <2>1, <3>1, HasLess, HasFacts
    <3>3. QED
      BY <2>1, <3>2, OwnedStays
  <2>4. QED
    BY <2>1, <2>2, <2>3
<1>7. ASSUME NEW p \in Procs, CreateData(p) PROVE Owned'
  <2> DEFINE n == job[p].name
             d == IF n.kind = "upstream" THEN [status |-> "open", bug |-> n.obj, pr |-> None]
                  ELSE [status |-> "open", bug |-> None, pr |-> n.obj]
  <2>1. /\ n \in Name /\ d \in Data /\ (n.kind = "upstream" => d.pr = None)
        /\ n.kind = "downstream" => d.pr = n.obj /\ author[n.obj] = "person"
    BY <1>7, NameFacts, StoreAssumption DEF Held, Works, CreateData, Data
  <2>2. /\ data' = Stored(n, d) /\ author' = author
        /\ mem' = [mem EXCEPT ![p] = Remember(@, n, Copy(d, FALSE))]
    BY <1>7 DEF CreateData
  <2> HIDE DEF d, n
  <2>3. Copy(d, FALSE) \in Mem
    BY <2>1, CopyFacts
  <2>4. OnlyAt(mem, mem', p) /\ mem'[p] = Remember(mem[p], n, Copy(d, FALSE))
    BY <2>2 DEF Types, MemType, OnlyAt
  <2>5. /\ DOMAIN mem'[p] = DOMAIN mem[p] \cup {n} /\ mem'[p][n] = Copy(d, FALSE)
        /\ \A k \in DOMAIN mem[p] : k # n => mem'[p][k] = mem[p][k]
    <3>1. MemType(mem) /\ n \in Name
      BY <1>0, <2>1
    <3>2. QED
      BY <2>3, <2>4, <3>1, Remembered
  <2>6. mem'[p][n].read = d /\ mem'[p][n].now = d
    BY <2>5 DEF Copy
  <2>7. /\ DOMAIN data' = DOMAIN data \cup {n} /\ data'[n] = d
        /\ \A k \in DOMAIN data : k # n => data'[k] = data[k]
    BY <1>0, <2>1, <2>2, StoredFacts
  <2>8. ASSUME NEW k \in Name, NEW r \in Prs, Has(k, r)' PROVE Has(k, r) \/ (k = n /\ r = d.pr)
    <3>1. CASE k \in DOMAIN data' /\ data'[k].pr = r
      BY <3>1, <2>7 DEF Has
    <3>2. ASSUME NEW q \in Procs, k \in DOMAIN mem'[q], r \in {mem'[q][k].read.pr, mem'[q][k].now.pr}
          PROVE  Has(k, r) \/ (k = n /\ r = d.pr)
      <4>1. CASE q = p /\ k = n
        BY <4>1, <3>2, <2>6
      <4>2. CASE q = p /\ k # n
        BY <4>2, <3>2, <2>5 DEF Has
      <4>3. CASE q # p
        BY <4>3, <3>2, <2>4 DEF Has, OnlyAt
      <4>4. QED
        BY <4>1, <4>2, <4>3
    <3>3. QED
      BY <2>8, <3>1, <3>2 DEF Has
  <2>9. ASSUME NEW r \in Prs, NEW k \in Name, Has(k, r)'
        PROVE  /\ k.kind = "downstream" => k.obj = r /\ author'[r] = "person"
               /\ k.kind = "upstream" => author'[r] = "bot" /\ Has(k, r)
    BY <2>1, <2>2, <2>8, <2>9, StoreAssumption DEF Owned
  <2>10. QED
    BY <2>9 DEF Owned
<1>8. ASSUME NEW p \in Procs, DeleteEntry(p) PROVE Owned'
  <2>1. data' = data /\ author' = author /\ (mem' = mem \/ Forget(p))
    BY <1>8 DEF DeleteEntry, Deleting
  <2>2. CASE mem' = mem
    <3>1. \A n \in Name, pr \in Prs : Has(n, pr)' => Has(n, pr)
      BY <2>1, <2>2 DEF Has
    <3>2. QED
      BY <2>1, <3>1, OwnedStays
  <2>3. CASE Forget(p)
    <3>1. mem'[p] = <<>> /\ DOMAIN mem'[p] = {} /\ \A q \in Procs : q # p => mem'[q] = mem[q]
      BY <2>3, Forgotten
    <3>2. \A n \in Name, pr \in Prs : Has(n, pr)' => Has(n, pr)
      BY <2>1, <3>1, HasLess, HasFacts
    <3>3. QED
      BY <2>1, <3>2, OwnedStays
  <2>4. QED
    BY <2>1, <2>2, <2>3
<1>9. ASSUME NEW p \in Procs, DeleteData(p) PROVE Owned'
  <2>1. Forget(p) /\ author' = author /\ \A n \in DOMAIN data' : n \in DOMAIN data /\ data'[n] = data[n]
    BY <1>9 DEF DeleteData, Restrict
  <2>2. mem'[p] = <<>> /\ DOMAIN mem'[p] = {} /\ \A q \in Procs : q # p => mem'[q] = mem[q]
    BY <2>1, Forgotten
  <2>3. \A k \in Name, pr \in Prs : Has(k, pr)' => Has(k, pr)
    BY <2>1, <2>2, HasLess, HasFacts
  <2>4. QED
    BY <2>1, <2>3, OwnedStays
<1>10. ASSUME NEW p \in Procs, NEW pr \in Prs, FindPr(p, pr) PROVE Owned'
  <2>1. mem' = mem /\ data' = data
    BY <1>10 DEF FindPr
  <2>2. \A k \in Name, r \in Prs : Has(k, r)' => Has(k, r)
    BY <2>1 DEF Has
  <2>3. \A r \in Prs : author[r] # None => author'[r] = author[r]
    BY <1>10 DEF FindPr, Types
  <2>4. QED
    BY <2>2, <2>3, OwnedStays
<1>11. ASSUME NEW p \in Procs, NEW b \in Bugs, NewUpstream(p, b) PROVE Owned'
  <2>1. mem' = mem /\ data' = data
    BY <1>11 DEF NewUpstream
  <2>2. \A k \in Name, q \in Prs : Has(k, q)' => Has(k, q)
    BY <2>1 DEF Has
  <2>3. \A q \in Prs : author[q] # None => author'[q] = author[q]
    BY <1>11 DEF NewUpstream, Types
  <2>4. QED
    BY <2>2, <2>3, OwnedStays
<1>12. ASSUME NEW p \in Procs, NEW r \in Repository, CreateRef(p, r) PROVE Owned'
  <2>1. mem' = mem /\ data' = data
    BY <1>12 DEF CreateRef
  <2>2. \A k \in Name, q \in Prs : Has(k, q)' => Has(k, q)
    BY <2>1 DEF Has
  <2>3. \A q \in Prs : author[q] # None => author'[q] = author[q]
    BY <1>12 DEF CreateRef, Types
  <2>4. QED
    BY <2>2, <2>3, OwnedStays
<1>13. ASSUME NEW p \in Procs, NEW r \in Repository, DeleteRef(p, r) PROVE Owned'
  <2>1. data' = data /\ author' = author /\ (mem' = mem \/ Forget(p))
    BY <1>13 DEF DeleteRef, Deleting
  <2>2. CASE mem' = mem
    <3>1. \A n \in Name, pr \in Prs : Has(n, pr)' => Has(n, pr)
      BY <2>1, <2>2 DEF Has
    <3>2. QED
      BY <2>1, <3>1, OwnedStays
  <2>3. CASE Forget(p)
    <3>1. mem'[p] = <<>> /\ DOMAIN mem'[p] = {} /\ \A q \in Procs : q # p => mem'[q] = mem[q]
      BY <2>3, Forgotten
    <3>2. \A n \in Name, pr \in Prs : Has(n, pr)' => Has(n, pr)
      BY <2>1, <3>1, HasLess, HasFacts
    <3>3. QED
      BY <2>1, <3>2, OwnedStays
  <2>4. QED
    BY <2>1, <2>2, <2>3
<1>14. ASSUME NEW p \in Procs, NEW n \in Name, Load(p, n) PROVE Owned'
  <2>1. n \in Name /\ n \in DOMAIN data /\ data[n] \in Data
    BY <1>14, <1>0 DEF Load, Loadable, DataType
  <2>2. Copy(data[n], job[p] = Idle) \in Mem
    BY <2>1, CopyFacts
  <2>3. OnlyAt(mem, mem', p) /\ mem'[p] = Remember(mem[p], n, Copy(data[n], job[p] = Idle))
    BY <1>14 DEF Load, Types, MemType, OnlyAt
  <2>4. /\ DOMAIN mem'[p] = DOMAIN mem[p] \cup {n} /\ mem'[p][n] = Copy(data[n], job[p] = Idle)
        /\ \A k \in DOMAIN mem[p] : k # n => mem'[p][k] = mem[p][k]
    BY <1>0, <2>1, <2>2, <2>3, Remembered
  <2>5. mem'[p][n].read = data[n] /\ mem'[p][n].now = data[n]
    BY <2>4 DEF Copy
  <2>6. \A k \in DOMAIN mem'[p] : Has(k, mem'[p][k].read.pr) /\ Has(k, mem'[p][k].now.pr)
    BY <2>1, <2>4, <2>5, HasFacts
  <2>7. data' = data /\ author' = author
    BY <1>14 DEF Load
  <2>8. \A k \in Name, pr \in Prs : Has(k, pr)' => Has(k, pr)
    BY <2>3, <2>6, <2>7, HasLess, HasFacts DEF OnlyAt
  <2>9. QED
    BY <2>7, <2>8, OwnedStays
<1>15. ASSUME NEW p \in Procs, NEW n \in Name, AsMut(p, n) PROVE Owned'
  <2>1. mem' = mem /\ data' = data
    BY <1>15 DEF AsMut
  <2>2. \A k \in Name, r \in Prs : Has(k, r)' => Has(k, r)
    BY <2>1 DEF Has
  <2>3. \A r \in Prs : author[r] # None => author'[r] = author[r]
    BY <1>15 DEF AsMut, Types
  <2>4. QED
    BY <2>2, <2>3, OwnedStays
<1>16. ASSUME NEW p \in Procs, NEW n \in Name, ExitMut(p, n) PROVE Owned'
  <2>1. n \in DOMAIN mem[p] /\ n \in Name /\ mem[p][n].now \in Data /\ mem[p][n].early \in BOOLEAN
    BY <1>16, <1>0 DEF ExitMut, CanSet, Types, MemType, Mem
  <2>2. Copy(mem[p][n].now, mem[p][n].early) \in Mem
    BY <2>1, CopyFacts
  <2>3. OnlyAt(mem, mem', p) /\ mem'[p] = Remember(mem[p], n, Copy(mem[p][n].now, mem[p][n].early))
    BY <1>16 DEF ExitMut, Types, MemType, OnlyAt
  <2>4. /\ DOMAIN mem'[p] = DOMAIN mem[p] \cup {n} /\ mem'[p][n] = Copy(mem[p][n].now, mem[p][n].early)
        /\ \A k \in DOMAIN mem[p] : k # n => mem'[p][k] = mem[p][k]
    BY <1>0, <2>1, <2>2, <2>3, Remembered
  <2>5. mem'[p][n].read = mem[p][n].now /\ mem'[p][n].now = mem[p][n].now
    BY <2>4 DEF Copy
  <2>6. \A k \in DOMAIN mem'[p] : Has(k, mem'[p][k].read.pr) /\ Has(k, mem'[p][k].now.pr)
    BY <2>1, <2>4, <2>5, HasFacts
  <2>7. author' = author /\ (data' = data \/ data' = Stored(n, mem[p][n].now))
    BY <1>16 DEF ExitMut
  <2>8. \A k \in DOMAIN data' : Has(k, data'[k].pr)
    <3>1. CASE data' = Stored(n, mem[p][n].now)
      <4>1. /\ DOMAIN data' = DOMAIN data \cup {n} /\ data'[n] = mem[p][n].now
            /\ \A k \in DOMAIN data : k # n => data'[k] = data[k]
        BY <1>0, <2>1, <3>1, StoredFacts
      <4>2. QED
        BY <4>1, <2>1, HasFacts
    <3>2. QED
      BY <3>1, <2>7, HasFacts
  <2>9. \A k \in Name, pr \in Prs : Has(k, pr)' => Has(k, pr)
    BY <2>3, <2>6, <2>8, HasLess DEF OnlyAt
  <2>10. QED
    BY <2>7, <2>9, OwnedStays
<1>17. ASSUME NEW p \in Procs, NEW n \in Name, StartDelete(p, n) PROVE Owned'
  <2>1. mem' = mem /\ data' = data
    BY <1>17 DEF StartDelete
  <2>2. \A k \in Name, r \in Prs : Has(k, r)' => Has(k, r)
    BY <2>1 DEF Has
  <2>3. \A r \in Prs : author[r] # None => author'[r] = author[r]
    BY <1>17 DEF StartDelete, Types
  <2>4. QED
    BY <2>2, <2>3, OwnedStays
<1>18. ASSUME NEW p \in Procs, NEW n \in Name, NEW s \in InUse, SetStatus(p, n, s) PROVE Owned'
  <2>1. /\ n \in DOMAIN mem[p] /\ mem[p][n].now \in Data /\ mem[p][n] \in Mem
        /\ [mem[p][n].now EXCEPT !.status = s] \in Data /\ [mem[p][n].now EXCEPT !.status = s].pr = mem[p][n].now.pr
    BY <1>18, <1>0, DataFacts DEF SetStatus, CanSet, Types, MemType, Mem, Data
  <2>2. CASE mem' = Changed(p, n, [mem[p][n].now EXCEPT !.status = s])
    <3>1. /\ DOMAIN mem'[p] = DOMAIN mem[p] /\ mem'[p][n].read = mem[p][n].read
          /\ mem'[p][n].now = [mem[p][n].now EXCEPT !.status = s]
          /\ \A k \in DOMAIN mem[p] : k # n => mem'[p][k] = mem[p][k]
          /\ \A q \in Procs : q # p => mem'[q] = mem[q]
      BY <1>0, <2>1, <2>2, ChangedFacts
    <3>2. data' = data
      BY <1>18 DEF SetStatus
    <3>3. \A k \in DOMAIN mem'[p] : Has(k, mem'[p][k].read.pr) /\ Has(k, mem'[p][k].now.pr)
      <4>1. mem'[p][n].now.pr = mem[p][n].now.pr
        BY <2>1, <3>1
      <4>2. QED
        BY <3>1, <4>1, HasFacts
    <3>4. \A k \in Name, pr \in Prs : Has(k, pr)' => Has(k, pr)
      BY <3>1, <3>2, <3>3, HasLess, HasFacts
    <3>5. QED
      BY <3>4, <1>18, OwnedStays DEF SetStatus
  <2>3. CASE mem' = mem
    <3>1. data' = data /\ author' = author
      BY <1>18 DEF SetStatus
    <3>2. \A k \in Name, pr \in Prs : Has(k, pr)' => Has(k, pr)
      BY <2>3, <3>1 DEF Has
    <3>3. QED
      BY <3>1, <3>2, OwnedStays
  <2>4. QED
    BY <2>2, <2>3, <1>18 DEF SetStatus
<1>19. ASSUME NEW p \in Procs, NEW n \in Name, NEW b \in Bugs, SetBug(p, n, b) PROVE Owned'
  <2>1. /\ n \in DOMAIN mem[p] /\ mem[p][n].now \in Data /\ mem[p][n] \in Mem
        /\ [mem[p][n].now EXCEPT !.bug = b] \in Data /\ [mem[p][n].now EXCEPT !.bug = b].pr = mem[p][n].now.pr
    BY <1>19, <1>0, DataFacts DEF SetBug, CanSet, Types, MemType, Mem, Data
  <2>2. CASE mem' = Changed(p, n, [mem[p][n].now EXCEPT !.bug = b])
    <3>1. /\ DOMAIN mem'[p] = DOMAIN mem[p] /\ mem'[p][n].read = mem[p][n].read
          /\ mem'[p][n].now = [mem[p][n].now EXCEPT !.bug = b]
          /\ \A k \in DOMAIN mem[p] : k # n => mem'[p][k] = mem[p][k]
          /\ \A q \in Procs : q # p => mem'[q] = mem[q]
      BY <1>0, <2>1, <2>2, ChangedFacts
    <3>2. data' = data
      BY <1>19 DEF SetBug
    <3>3. \A k \in DOMAIN mem'[p] : Has(k, mem'[p][k].read.pr) /\ Has(k, mem'[p][k].now.pr)
      <4>1. mem'[p][n].now.pr = mem[p][n].now.pr
        BY <2>1, <3>1
      <4>2. QED
        BY <3>1, <4>1, HasFacts
    <3>4. \A k \in Name, pr \in Prs : Has(k, pr)' => Has(k, pr)
      BY <3>1, <3>2, <3>3, HasLess, HasFacts
    <3>5. QED
      BY <3>4, <1>19, OwnedStays DEF SetBug
  <2>3. CASE mem' = mem
    <3>1. data' = data /\ author' = author
      BY <1>19 DEF SetBug
    <3>2. \A k \in Name, pr \in Prs : Has(k, pr)' => Has(k, pr)
      BY <2>3, <3>1 DEF Has
    <3>3. QED
      BY <3>1, <3>2, OwnedStays
  <2>4. QED
    BY <2>2, <2>3, <1>19 DEF SetBug
<1>20. ASSUME NEW p \in Procs, NEW n \in Name, NEW pr \in Prs, SetPr(p, n, pr) PROVE Owned'
  <2>1. /\ n \in DOMAIN mem[p] /\ mem[p][n].now \in Data /\ n \in Name /\ n.kind = "upstream"
        /\ [mem[p][n].now EXCEPT !.pr = pr] \in Data /\ [mem[p][n].now EXCEPT !.pr = pr].pr = pr
        /\ mem' = Changed(p, n, [mem[p][n].now EXCEPT !.pr = pr])
        /\ author[pr] = None /\ author' = [author EXCEPT ![pr] = "bot"] /\ data' = data
    BY <1>20, <1>0, DataFacts DEF SetPr, CanSet, Types, MemType, Mem, Data
  <2>2. /\ DOMAIN mem'[p] = DOMAIN mem[p] /\ mem'[p][n].read = mem[p][n].read
        /\ mem'[p][n].now = [mem[p][n].now EXCEPT !.pr = pr]
        /\ \A k \in DOMAIN mem[p] : k # n => mem'[p][k] = mem[p][k]
        /\ \A q \in Procs : q # p => mem'[q] = mem[q]
    <3>1. [mem[p][n].now EXCEPT !.pr = pr] \in Data /\ n \in DOMAIN mem[p]
      BY <2>1
    <3>2. mem' = Changed(p, n, [mem[p][n].now EXCEPT !.pr = pr])
      BY <2>1
    <3>3. QED
      BY <1>0, <3>1, <3>2, ChangedFacts
  <2>3. ASSUME NEW k \in Name, NEW r \in Prs, Has(k, r)' PROVE Has(k, r) \/ (k = n /\ r = pr)
    <3>1. CASE k \in DOMAIN data /\ data[k].pr = r
      BY <3>1 DEF Has
    <3>2. ASSUME NEW q \in Procs, k \in DOMAIN mem'[q], r \in {mem'[q][k].read.pr, mem'[q][k].now.pr}
          PROVE  Has(k, r) \/ (k = n /\ r = pr)
      <4>1. CASE q = p /\ k = n
        BY <4>1, <3>2, <2>1, <2>2 DEF Has
      <4>2. CASE q = p /\ k # n
        BY <4>2, <3>2, <2>2 DEF Has
      <4>3. CASE q # p
        BY <4>3, <3>2, <2>2 DEF Has
      <4>4. QED
        BY <4>1, <4>2, <4>3
    <3>3. QED
      BY <2>1, <2>3, <3>1, <3>2 DEF Has
  <2>4. \A k \in Name : ~Has(k, pr)
    BY <2>1, NameFacts DEF Owned, None
  <2>5. author'[pr] = "bot" /\ \A r \in Prs : r # pr => author'[r] = author[r]
    BY <2>1 DEF Types
  <2>6. ASSUME NEW r \in Prs, NEW k \in Name, Has(k, r)'
        PROVE  /\ k.kind = "downstream" => k.obj = r /\ author'[r] = "person"
               /\ k.kind = "upstream" => author'[r] = "bot"
    BY <2>1, <2>3, <2>4, <2>5, <2>6 DEF Owned
  <2>7. ASSUME NEW r \in Prs, NEW k \in Name, NEW m \in Name, k.kind = "upstream", m.kind = "upstream",
               Has(k, r)', Has(m, r)'
        PROVE  k = m
    BY <2>3, <2>4, <2>7 DEF Owned
  <2>8. QED
    BY <2>6, <2>7 DEF Owned
<1>21. ASSUME UNCHANGED vars PROVE Owned'
  <2>1. mem' = mem /\ data' = data
    BY <1>21 DEF vars
  <2>2. \A k \in Name, r \in Prs : Has(k, r)' => Has(k, r)
    BY <2>1 DEF Has
  <2>3. \A r \in Prs : author[r] # None => author'[r] = author[r]
    BY <1>21 DEF vars, Types
  <2>4. QED
    BY <2>2, <2>3, OwnedStays
<1>22. QED
  BY <1>1, <1>2, <1>3, <1>4, <1>5, <1>6, <1>7, <1>8, <1>9, <1>10, <1>11, <1>12, <1>13, <1>14, <1>15, <1>16, <1>17, <1>18, <1>19, <1>20, <1>21 DEF Next

(* Entries. *)

LEMMA OfApply ==
  ASSUME NEW I, NEW c, NEW n
  PROVE  Of(Apply(I, c), n) = (Of(I, n) \ c.del) \cup Of(c.ins, n)
BY DEF Of, Apply

LEMMA ApplyFacts ==
  ASSUME NEW I, NEW c, NEW D, NEW E
  PROVE  /\ Apply(I, Insert(Delete(c, D), E)) = (Apply(I, c) \ D) \cup E
         /\ Apply(I, Insert(c, E)) = Apply(I, c) \cup E
         /\ Apply(I, Saved) = I
BY DEF Apply, Insert, Delete, Saved

\* Nothing of this sync is changed, and who changes or deletes it does nothing.
Still(q) == job'[q] = job[q] /\ mem'[q] = mem[q] /\ mutable'[q] = mutable[q] /\ pend'[q] = pend[q]
Untouched(p, n) ==
  /\ ~Claims(p, n) /\ ~Claims(p, n)' /\ \A q \in Procs : q # p => Still(q)
  /\ SameData(n) /\ Of(index', n) = Of(index, n)
  /\ \A r \in Repository : n \in refs'[r] => n \in refs[r]

LEMMA EntriesStay ==
  ASSUME Types, Held, NEW p \in Procs, NEW n, EntriesOf(n), Untouched(p, n)
  PROVE  EntriesOf(n)'
<1>1. NoData(n)'
  BY DEF EntriesOf, Untouched, SameData, NoData
<1>2. ASSUME NEW q \in Procs, n \in mutable'[q]
      PROVE  q # p /\ n \in mutable[q] /\ (Outdated(q, n)' <=> Outdated(q, n))
  <2>1. q # p
    BY <1>2 DEF Untouched, Claims
  <2>2. mutable'[q] = mutable[q] /\ mem'[q] = mem[q]
    BY <2>1 DEF Untouched, Still
  <2>3. QED
    BY <2>1, <2>2, <1>2 DEF Outdated, Untouched, SameData
<1>3. Loadable(n)' => Loadable(n) /\ data'[n] = data[n]
  BY DEF Untouched, SameData, Loadable, Repository
<1>4. AtRest(n)'
  <2>1. ASSUME Loadable(n)', "nested" \notin Faults \/ \A q \in Procs : n \in mutable'[q] => Outdated(q, n)'
        PROVE  Of(index', n) = Entries(n, data'[n])
    <3>1. \A q \in Procs : n \in mutable[q] => n \in mutable'[q]
      BY DEF Untouched, Still, Claims
    <3>2. "nested" \notin Faults \/ \A q \in Procs : n \in mutable[q] => Outdated(q, n)
      BY <1>2, <2>1, <3>1
    <3>3. QED
      BY <1>3, <2>1, <3>2 DEF EntriesOf, AtRest, Untouched
  <2>2. QED
    BY <2>1 DEF AtRest
<1>5. ASSUME NEW q \in Procs PROVE InMemory(q, n)'
  <2>1. SUFFICES ASSUME n \in mutable'[q], ~Outdated(q, n)', Loadable(n)'
                 PROVE  Of(Apply(index', pend'[q]), n) = Entries(n, mem'[q][n].now)
    BY DEF InMemory
  <2>2. /\ n \in mutable[q] /\ ~Outdated(q, n) /\ Loadable(n)
        /\ mem'[q] = mem[q] /\ pend'[q] = pend[q] /\ Of(index', n) = Of(index, n)
    BY <1>2, <1>3, <2>1 DEF Untouched, Still
  <2>3. Of(Apply(index, pend[q]), n) = Entries(n, mem[q][n].now)
    BY <2>2 DEF EntriesOf, InMemory
  <2>4. Of(Apply(index', pend[q]), n) = Of(Apply(index, pend[q]), n)
    <3>1. Of(Apply(index', pend[q]), n) = (Of(index', n) \ pend[q].del) \cup Of(pend[q].ins, n)
      BY OfApply
    <3>2. Of(Apply(index, pend[q]), n) = (Of(index, n) \ pend[q].del) \cup Of(pend[q].ins, n)
      BY OfApply
    <3>3. QED
      BY <2>2, <3>1, <3>2
  <2>5. QED
    BY <2>2, <2>3, <2>4
<1>6. ASSUME NEW q \in Procs PROVE Doomed(q, n)'
  <2>1. SUFFICES ASSUME job'[q].op = "delete", job'[q].name = n, ~Outdated(q, n)',
                        job'[q].step = "wpt" => n \in refs'["wpt"]
                 PROVE  Of(index', n) \subseteq {e \in Entries(n, mem'[q][n].now) : e.in \notin Removed(job'[q].step)}
    BY DEF Doomed
  <2>2. q # p
    BY <2>1 DEF Untouched, Claims
  <2>3. Still(q)
    BY <2>2 DEF Untouched
  <2>4. ~Outdated(q, n) /\ (job[q].step = "wpt" => n \in refs["wpt"]) /\ job[q].op = "delete" /\ job[q].name = n
    BY <2>1, <2>3 DEF Still, Untouched, SameData, Outdated, Repository
  <2>5. Of(index, n) \subseteq {e \in Entries(n, mem[q][n].now) : e.in \notin Removed(job[q].step)}
    BY <2>4 DEF EntriesOf, Doomed
  <2>6. QED
    BY <2>3, <2>5 DEF Still, Untouched
<1>7. QED
  BY <1>1, <1>4, <1>5, <1>6 DEF EntriesOf

\* Nobody else changes or deletes what p has claimed.
LEMMA MineAlone ==
  ASSUME Types, Held, NEW p \in Procs, NEW n, Claims(p, n) \/ lock[Group(n)] = p,
         NEW q \in Procs, q # p
  PROVE  n \notin mutable[q] /\ ~(job[q].op = "delete" /\ job[q].name = n)
BY Claimed DEF Claims

\* The entries for what is in memory, after a change.
LEMMA StatusChanged ==
  ASSUME NEW n \in Name, NEW d \in Data, NEW s \in InUse, d.bug # None
  PROVE  LET e == [d EXCEPT !.status = s]
         IN  Entries(n, e) = (Entries(n, d) \ {StatusEntry(n, d), BugEntry(n, d)})
                               \cup {StatusEntry(n, e), BugEntry(n, e)}
<1> DEFINE e == [d EXCEPT !.status = s]
<1>1. e.bug = d.bug /\ e.pr = d.pr
  BY DEF Data
<1>2. PrEntry(n, e) = PrEntry(n, d)
  BY <1>1 DEF PrEntry
<1>3. PrEntry(n, d) # StatusEntry(n, d) /\ PrEntry(n, d) # BugEntry(n, d)
  BY DEF PrEntry, StatusEntry, BugEntry
<1> HIDE DEF e
<1>4. QED
  BY <1>1, <1>2, <1>3 DEF Entries, e

LEMMA BugChanged ==
  ASSUME NEW n \in Name, NEW d \in Data, NEW b \in Bugs
  PROVE  LET e == [d EXCEPT !.bug = b]
         IN  Entries(n, e) = (Entries(n, d) \ IF d.bug = None THEN {} ELSE {BugEntry(n, d)}) \cup {BugEntry(n, e)}
<1> DEFINE e == [d EXCEPT !.bug = b]
<1>1. e.bug = b /\ e.pr = d.pr /\ e.status = d.status /\ b # None
  BY StoreAssumption DEF Data
<1>2. PrEntry(n, e) = PrEntry(n, d) /\ StatusEntry(n, e) = StatusEntry(n, d)
  BY <1>1 DEF PrEntry, StatusEntry
<1>3. PrEntry(n, d) # BugEntry(n, d) /\ StatusEntry(n, d) # BugEntry(n, d)
  BY DEF PrEntry, StatusEntry, BugEntry
<1> HIDE DEF e
<1>4. QED
  BY <1>1, <1>2, <1>3 DEF Entries, e

LEMMA PrChanged ==
  ASSUME NEW n \in Name, NEW d \in Data, NEW pr \in Prs, d.pr = None
  PROVE  LET e == [d EXCEPT !.pr = pr]
         IN  Entries(n, e) = Entries(n, d) \cup {PrEntry(n, e)}
<1> DEFINE e == [d EXCEPT !.pr = pr]
<1>1. e.bug = d.bug /\ e.pr = pr /\ e.status = d.status /\ pr # None
  BY StoreAssumption DEF Data
<1>2. BugEntry(n, e) = BugEntry(n, d) /\ StatusEntry(n, e) = StatusEntry(n, d)
  BY <1>1 DEF BugEntry, StatusEntry
<1> HIDE DEF e
<1>3. QED
  BY <1>1, <1>2 DEF Entries, e

(* Entries, kept. *)

\* p changes nothing of any sync.
LEMMA NothingDone ==
  ASSUME Types, Held, Kept, NEW p \in Procs, \A q \in Procs : q # p => Still(q),
         mutable'[p] = mutable[p], pend'[p] = pend[p], job[p].op # "delete", job'[p].op # "delete",
         \A n \in mutable[p] : n \in DOMAIN mem[p] => mem'[p][n] = mem[p][n],
         UNCHANGED <<refs, data, index>>, spoiled \subseteq spoiled'
  PROVE  Kept'
<1> SUFFICES ASSUME NEW n \in Name \ spoiled' PROVE EntriesOf(n)'
  BY DEF Kept
<1>1. EntriesOf(n)
  BY DEF Kept
<1>2. ASSUME NEW q \in Procs
      PROVE  /\ mutable'[q] = mutable[q] /\ pend'[q] = pend[q]
             /\ n \in mutable[q] => mem'[q][n] = mem[q][n]
             /\ job'[q].op = "delete" => job'[q] = job[q] /\ mem'[q] = mem[q]
  BY DEF Still, Types
<1>3. \A q \in Procs : n \in mutable[q] => (Outdated(q, n)' <=> Outdated(q, n))
  BY <1>2 DEF Outdated
<1>4. NoData(n)'
  BY <1>1 DEF EntriesOf, NoData
<1>5. Loadable(n)' <=> Loadable(n)
  BY DEF Loadable
<1>6. AtRest(n)'
  BY <1>1, <1>2, <1>3, <1>5 DEF EntriesOf, AtRest
<1>7. ASSUME NEW q \in Procs PROVE InMemory(q, n)'
  BY <1>1, <1>2, <1>3, <1>5 DEF EntriesOf, InMemory
<1>8. ASSUME NEW q \in Procs PROVE Doomed(q, n)'
  <2>1. CASE job'[q].op = "delete"
    BY <2>1, <1>1, <1>2 DEF EntriesOf, Doomed, Outdated
  <2>2. QED
    BY <2>1 DEF Doomed
<1>9. QED
  BY <1>4, <1>6, <1>7, <1>8 DEF EntriesOf

\* p gives a sync up, whose entries are those of its data.
LEMMA GivenUp ==
  ASSUME Types, Held, NEW p \in Procs, NEW n \in Name, EntriesOf(n), Claims(p, n),
         mutable'[p] = {}, job'[p].op # "delete", \A q \in Procs : q # p => Still(q),
         UNCHANGED <<refs, data, index>>, Loadable(n) => Of(index, n) = Entries(n, data[n])
  PROVE  EntriesOf(n)'
<1>1. \A q \in Procs : n \notin mutable'[q] /\ ~(job'[q].op = "delete" /\ job'[q].name = n)
  BY MineAlone DEF Still
<1>2. Loadable(n)' <=> Loadable(n)
  BY DEF Loadable
<1>3. AtRest(n)'
  BY <1>2 DEF AtRest
<1>4. NoData(n)'
  BY DEF EntriesOf, NoData
<1>5. QED
  BY <1>1, <1>3, <1>4 DEF EntriesOf, InMemory, Doomed

\* A step after which the entries of n, and those of the others, are right.
LEMMA OneAndOthers ==
  ASSUME NEW n, n \notin spoiled' => EntriesOf(n)', \A k \in Name \ spoiled' : k # n => EntriesOf(k)'
  PROVE  Kept'
<1>1. ASSUME NEW k \in Name \ spoiled' PROVE EntriesOf(k)'
  BY Zenon
<1>2. QED
  BY <1>1 DEF Kept

LEMMA KeptKept ==
  ASSUME Types, Held, Branches, Pending, Kept, [Next]_vars
  PROVE  Kept'
<1>0. DataType(data) /\ MemType(mem)
  BY DEF Types
<1>a. ASSUME NEW q \in Procs, mutable[q] = {} PROVE pend[q] = Saved
  <2>1. pend[q].ins = {} /\ pend[q].del = {} /\ pend[q] = [ins |-> pend[q].ins, del |-> pend[q].del]
    BY <1>a DEF Pending, Changes, Types, PendType, Change
  <2>2. QED
    BY <2>1 DEF Saved
<1>1. ASSUME NEW pr \in Prs, Open(pr) PROVE Kept'
  BY <1>1 DEF Kept, EntriesOf, NoData, AtRest, InMemory, Doomed, Outdated, Loadable, Open
<1>2. ASSUME NEW p \in Procs, NEW g \in Groups, Begin(p, g) PROVE Kept'
  <2>1. \A q \in Procs : q # p => Still(q)
    BY <1>2 DEF Still, Types, MemType, PendType, Begin
  <2>2. QED
    BY <1>2, <2>1, NothingDone DEF Types, Job, Idle, Begin
<1>3. ASSUME NEW p \in Procs, ExitTryPush(p) PROVE Kept'
  <2>1. /\ index' = Apply(index, pend[p]) /\ pend'[p] = Saved /\ job[p].op = "task" /\ "nested" \in Faults
        /\ UNCHANGED <<refs, data, job, mem, mutable>>
        /\ spoiled' = spoiled \cup {k \in mutable[p] : Outdated(p, k)}
        /\ \A q \in Procs : q # p => Still(q)
    BY <1>3 DEF ExitTryPush, Save, Still, Types, PendType
  <2>2. ASSUME NEW k \in Name \ spoiled' PROVE EntriesOf(k)'
    <3>1. EntriesOf(k)
      BY <2>1 DEF Kept
    <3>2. CASE k \notin mutable[p]
      <4>1. Of(index', k) = Of(index, k)
        BY <2>1, <3>2 DEF Of, Apply, Pending, Changes
      <4>2. Untouched(p, k)
        BY <3>2, <4>1, <2>1 DEF Untouched, SameData, Claims
      <4>3. QED
        BY <3>1, <4>2, EntriesStay
    <3>3. CASE k \in mutable[p]
      <4>1. ~Outdated(p, k) /\ k \in DOMAIN data
        BY <3>3, <2>1 DEF Outdated
      <4>2. \A q \in Procs : q # p => k \notin mutable[q] /\ ~(job[q].op = "delete" /\ job[q].name = k)
        BY <3>3, MineAlone DEF Claims
      <4>3. NoData(k)' /\ AtRest(k)'
        BY <4>1, <3>3, <2>1 DEF NoData, AtRest, Outdated
      <4>4. InMemory(p, k)'
        <5>1. Apply(index', Saved) = index'
          BY ApplyFacts
        <5>2. Loadable(k)' => Of(index', k) = Entries(k, mem[p][k].now)
          BY <3>1, <3>3, <4>1, <2>1 DEF EntriesOf, InMemory, Loadable
        <5>3. QED
          BY <5>1, <5>2, <2>1 DEF InMemory
      <4>5. \A q \in Procs : q # p => InMemory(q, k)'
        BY <4>2, <2>1 DEF InMemory
      <4>6. \A q \in Procs : Doomed(q, k)'
        BY <4>2, <2>1 DEF Doomed
      <4>7. QED
        BY <4>3, <4>4, <4>5, <4>6 DEF EntriesOf
    <3>4. QED
      BY <3>2, <3>3
  <2>3. QED
    BY <2>2 DEF Kept
<1>4. ASSUME NEW p \in Procs, End(p) PROVE Kept'
  <2>1. Forget(p) /\ UNCHANGED <<refs, data, index>> /\ spoiled \subseteq spoiled'
    BY <1>4 DEF End
  <2>2. /\ \A q \in Procs : q # p => Still(q)
        /\ mutable'[p] = {} /\ pend'[p] = Saved /\ job'[p].op = "idle"
    BY <2>1, Forgotten DEF Still, Idle
  <2>3. mutable[p] = {} /\ job[p].op = "task" /\ pend[p] = Saved
    BY <1>4, <1>a DEF End
  <2>4. QED
    BY <2>1, <2>2, <2>3, NothingDone
<1>5. ASSUME NEW p \in Procs, Crash(p) PROVE Kept'
  <2>1. Forget(p) /\ UNCHANGED <<refs, data, index>> /\ spoiled \subseteq spoiled'
    BY <1>5 DEF Crash
  <2>2. /\ \A q \in Procs : q # p => Still(q)
        /\ mutable'[p] = {} /\ pend'[p] = Saved /\ job'[p].op = "idle"
    BY <2>1, Forgotten DEF Still, Idle
  <2>3. ASSUME NEW k \in Name \ spoiled' PROVE EntriesOf(k)'
    <3>1. EntriesOf(k)
      BY <2>1 DEF Kept
    <3>2. CASE Claims(p, k)
      <4>1. "nested" \notin Faults \/ k \notin mutable[p]
        BY <1>5 DEF Crash
      <4>2. \A q \in Procs : q # p => k \notin mutable[q]
        BY <3>2, MineAlone
      <4>3. Loadable(k) => Of(index, k) = Entries(k, data[k])
        BY <3>1, <4>1, <4>2 DEF EntriesOf, AtRest
      <4>4. QED
        BY <3>1, <3>2, <4>3, <2>1, <2>2, GivenUp
    <3>3. CASE ~Claims(p, k)
      <4>1. Untouched(p, k)
        BY <3>3, <2>1, <2>2 DEF Untouched, SameData, Claims
      <4>2. QED
        BY <3>1, <4>1, EntriesStay
    <3>4. QED
      BY <3>2, <3>3
  <2>4. QED
    BY <2>3 DEF Kept
<1>6. ASSUME NEW p \in Procs, NewDownstream(p) PROVE Kept'
  <2>1. UNCHANGED <<refs, data, index, spoiled>> /\ job[p].op = "found" /\ mutable[p] = {}
    BY <1>6 DEF NewDownstream, Held, Works, Working
  <2>2. pend[p] = Saved
    BY <2>1, <1>a
  <2>3. CASE Forget(p)
    <3>1. /\ \A q \in Procs : q # p => Still(q)
          /\ mutable'[p] = {} /\ pend'[p] = Saved /\ job'[p].op = "idle"
      BY <2>3, Forgotten DEF Still, Idle
    <3>2. QED
      BY <2>1, <2>2, <3>1, NothingDone
  <2>4. CASE Create(p, NextName("downstream", job[p].group)) /\ UNCHANGED <<mem, mutable, pend>>
    <3>1. (\A q \in Procs : q # p => Still(q)) /\ job'[p].op = "create"
      BY <2>4 DEF Create, Still, Types, Job
    <3>2. QED
      BY <2>1, <2>4, <3>1, NothingDone
  <2>5. QED
    BY <2>3, <2>4, <1>6 DEF NewDownstream
<1>7. ASSUME NEW p \in Procs, CreateData(p) PROVE Kept'
  <2>n. PICK n \in Name : n = job[p].name
    BY <1>7 DEF CreateData, Deleting, Held, Works
  <2> DEFINE d == IF n.kind = "upstream" THEN [status |-> "open", bug |-> n.obj, pr |-> None]
                  ELSE [status |-> "open", bug |-> None, pr |-> n.obj]
  <2>1. /\ n \in Name /\ d \in Data /\ n \notin DOMAIN data /\ job[p].op = "create" /\ mutable[p] = {}
    BY <1>7, <2>n, NameFacts, StoreAssumption DEF Held, Works, CreateData, Data
  <2>2. /\ data' = Stored(n, d) /\ index' = index \cup Entries(n, d)
        /\ UNCHANGED <<refs, mutable, pend, spoiled>>
    BY <1>7, <2>n DEF CreateData
  <2>3. job'[p].op = "task" /\ \A q \in Procs : q # p => Still(q)
    BY <1>7 DEF CreateData, Types, Job, MemType, Still
  <2>4. Claims(p, n)
    BY <2>1, <2>n DEF Claims
  <2> HIDE DEF d
  <2>5. /\ n \in DOMAIN data' /\ data'[n] = d /\ \A k \in Name : k # n => SameData(k)
    <3>1. /\ DOMAIN data' = DOMAIN data \cup {n} /\ data'[n] = d
          /\ \A k \in DOMAIN data : k # n => data'[k] = data[k]
      BY <1>0, <2>1, <2>2, StoredFacts
    <3>2. QED
      BY <3>1 DEF SameData
  <2>6. ASSUME NEW k \in Name \ spoiled', k # n PROVE EntriesOf(k)'
    <3>1. EntriesOf(k)
      BY <2>2, <2>6 DEF Kept
    <3>2. Of(index', k) = Of(index, k)
      BY <2>1, <2>2, <2>6, EntryFacts DEF Of
    <3>3. Untouched(p, k)
      BY <3>2, <2>1, <2>2, <2>3, <2>5, <2>6, <2>n DEF Untouched, Claims
    <3>4. QED
      BY <3>1, <3>3, EntriesStay
  <2>7. ASSUME n \notin spoiled' PROVE EntriesOf(n)'
    <3>1. Of(index, n) = {}
      BY <2>1, <2>2, <2>7 DEF Kept, EntriesOf, NoData
    <3>2. Of(index', n) = Entries(n, d)
      BY <3>1, <2>1, <2>2, EntryFacts DEF Of
    <3>3. \A q \in Procs : n \notin mutable'[q] /\ ~(job'[q].op = "delete" /\ job'[q].name = n)
      BY <2>1, <2>2, <2>3, <2>4, MineAlone DEF Still
    <3>4. QED
      BY <3>2, <3>3, <2>5 DEF EntriesOf, NoData, AtRest, InMemory, Doomed
  <2>8. QED
    BY <2>6, <2>7, OneAndOthers, Zenon
<1>8. ASSUME NEW p \in Procs, DeleteEntry(p) PROVE Kept'
  <2>n. PICK n \in Name : n = job[p].name
    BY <1>8 DEF DeleteEntry, Deleting, Held, Works
  <2>1. /\ n \in Name /\ job[p].op = "delete" /\ job[p].step \in {"status", "pr", "bug"} /\ mutable[p] = {n}
        /\ UNCHANGED <<refs, data, spoiled>> /\ ~Loadable(n)
    BY <1>8, <2>n DEF DeleteEntry, Deleting, Held, Works, Branches, Loadable
  <2>2. Claims(p, n) /\ \A k : Claims(p, k) => k = n
    BY <2>1, <2>n DEF Claims
  <2>3. CASE Forget(p) /\ index' = index
    <3>1. /\ mutable'[p] = {} /\ job'[p].op = "idle" /\ \A q \in Procs : q # p => Still(q)
      BY <2>3, Forgotten DEF Idle, Still
    <3>2. ASSUME NEW k \in Name \ spoiled' PROVE EntriesOf(k)'
      <4>1. EntriesOf(k)
        BY <2>1 DEF Kept
      <4>2. CASE k = n
        BY <4>1, <4>2, <2>1, <2>2, <2>3, <3>1, GivenUp
      <4>3. CASE k # n
        <5>1. Untouched(p, k)
          BY <4>3, <2>1, <2>2, <2>3, <3>1 DEF Untouched, SameData, Claims
        <5>2. QED
          BY <4>1, <5>1, EntriesStay
      <4>4. QED
        BY <4>2, <4>3
    <3>3. QED
      BY <3>2 DEF Kept
  <2>4. ASSUME NEW e, NEW next, index' = index \ {e}, job' = [job EXCEPT ![p].step = next],
               UNCHANGED <<mem, mutable, pend>>, e.name = n, next # "wpt",
               Removed(next) \subseteq Removed(job[p].step) \cup {e.in},
               \A x \in Entries(n, mem[p][n].now) : x.in = e.in => x = e
        PROVE  Kept'
    <3>1. /\ job'[p].op = "delete" /\ job'[p].name = n /\ job'[p].step = next
          /\ \A q \in Procs : q # p => Still(q)
      BY <2>1, <2>4, <2>n DEF Still, Types, Job
    <3>2. ASSUME NEW k \in Name \ spoiled', k # n PROVE EntriesOf(k)'
      <4>1. EntriesOf(k)
        BY <2>1, <3>2 DEF Kept
      <4>2. Of(index', k) = Of(index, k)
        BY <2>4, <3>2 DEF Of
      <4>3. Untouched(p, k)
        BY <4>2, <3>1, <3>2, <2>1, <2>2, <2>4 DEF Untouched, SameData, Claims
      <4>4. QED
        BY <4>1, <4>3, EntriesStay
    <3>3. ASSUME n \notin spoiled' PROVE EntriesOf(n)'
      <4>1. EntriesOf(n)
        BY <2>1, <3>3 DEF Kept
      <4>2. Of(index', n) = Of(index, n) \ {e}
        BY <2>4 DEF Of
      <4>3. NoData(n)'
        BY <4>1, <4>2, <2>1 DEF EntriesOf, NoData
      <4>4. AtRest(n)' /\ \A q \in Procs : InMemory(q, n)'
        BY <2>1 DEF AtRest, InMemory, Loadable
      <4>5. Doomed(p, n)'
        <5>1. ~Outdated(p, n) => Of(index, n) \subseteq {x \in Entries(n, mem[p][n].now) : x.in \notin Removed(job[p].step)}
          BY <4>1, <2>1, <2>n DEF EntriesOf, Doomed
        <5>2. ~Outdated(p, n) => Of(index', n) \subseteq {x \in Entries(n, mem[p][n].now) : x.in \notin Removed(next)}
          BY <5>1, <4>2, <2>4
        <5>3. QED
          BY <5>2, <3>1, <2>1, <2>4 DEF Doomed, Outdated
      <4>6. \A q \in Procs : q # p => Doomed(q, n)'
        BY <2>2, <3>1, MineAlone DEF Doomed, Still
      <4>7. QED
        BY <4>3, <4>4, <4>5, <4>6 DEF EntriesOf
    <3>4. QED
      BY <3>2, <3>3, OneAndOthers, Zenon
  <2>5. /\ \A x \in Entries(n, mem[p][n].now) :
             /\ x.in = "status" => x = StatusEntry(n, mem[p][n].now)
             /\ x.in = "pr" => x = PrEntry(n, mem[p][n].now)
             /\ x.in = "bug" => x = BugEntry(n, mem[p][n].now)
        /\ StatusEntry(n, mem[p][n].now).in = "status" /\ StatusEntry(n, mem[p][n].now).name = n
        /\ PrEntry(n, mem[p][n].now).in = "pr" /\ PrEntry(n, mem[p][n].now).name = n
        /\ BugEntry(n, mem[p][n].now).in = "bug" /\ BugEntry(n, mem[p][n].now).name = n
    BY DEF Entries, StatusEntry, PrEntry, BugEntry
  <2>6. CASE job[p].step = "status" /\ job' = [job EXCEPT ![p].step = "pr"]
             /\ index' = index \ {StatusEntry(n, mem[p][n].now)} /\ UNCHANGED <<mem, mutable, pend>>
    <3>1. Removed("pr") \subseteq Removed("status") \cup {"status"}
      BY DEF Removed
    <3>2. QED
      BY <2>4, <2>5, <2>6, <3>1
  <2>7. CASE job[p].step = "pr" /\ job' = [job EXCEPT ![p].step = "bug"]
             /\ index' = index \ {PrEntry(n, mem[p][n].now)} /\ UNCHANGED <<mem, mutable, pend>>
    <3>1. Removed("bug") \subseteq Removed("pr") \cup {"pr"}
      BY DEF Removed
    <3>2. QED
      BY <2>4, <2>5, <2>7, <3>1
  <2>8. CASE job[p].step = "bug" /\ job' = [job EXCEPT ![p].step = "data"]
             /\ index' = index \ {BugEntry(n, mem[p][n].now)} /\ UNCHANGED <<mem, mutable, pend>>
    <3>1. Removed("data") \subseteq Removed("bug") \cup {"bug"}
      BY DEF Removed
    <3>2. QED
      BY <2>4, <2>5, <2>8, <3>1
  <2>9. QED
    BY <1>8, <2>n, <2>3, <2>6, <2>7, <2>8 DEF DeleteEntry, Deleting
<1>9. ASSUME NEW p \in Procs, DeleteData(p) PROVE Kept'
  <2>n. PICK n \in Name : n = job[p].name
    BY <1>9 DEF DeleteData, Deleting, Held, Works
  <2>1. /\ n \in Name /\ job[p].op = "delete" /\ job[p].step = "data" /\ mutable[p] = {n} /\ Mark(p, n)
        /\ Forget(p) /\ UNCHANGED <<refs, index>>
        /\ n \notin DOMAIN data' /\ \A k \in Name : k # n => SameData(k)
    BY <1>9, <2>n DEF DeleteData, Held, Works, Restrict, SameData
  <2>2. /\ mutable'[p] = {} /\ job'[p].op = "idle" /\ \A q \in Procs : q # p => Still(q)
    BY <2>1, Forgotten DEF Idle, Still
  <2>3. Claims(p, n) /\ \A k : Claims(p, k) => k = n
    BY <2>1, <2>n DEF Claims
  <2>4. ASSUME NEW k \in Name \ spoiled', k # n PROVE EntriesOf(k)'
    <3>1. EntriesOf(k)
      BY <2>1, <2>4 DEF Kept, Mark
    <3>2. Untouched(p, k)
      BY <2>1, <2>2, <2>3, <2>4 DEF Untouched, Claims
    <3>3. QED
      BY <3>1, <3>2, EntriesStay
  <2>5. ASSUME n \notin spoiled' PROVE EntriesOf(n)'
    <3>1. EntriesOf(n) /\ ~Outdated(p, n)
      BY <2>1, <2>5 DEF Kept, Mark
    <3>2. Of(index, n) \subseteq {e \in Entries(n, mem[p][n].now) : e.in \notin Removed("data")}
      BY <3>1, <2>1, <2>n DEF EntriesOf, Doomed
    <3>3. \A e \in Entries(n, mem[p][n].now) : e.in \in Removed("data")
      BY DEF Entries, StatusEntry, BugEntry, PrEntry, Removed
    <3>4. Of(index, n) = {}
      BY <3>2, <3>3
    <3>5. \A q \in Procs : n \notin mutable'[q] /\ ~(job'[q].op = "delete" /\ job'[q].name = n)
      BY <2>2, <2>3, MineAlone DEF Still
    <3>6. QED
      BY <3>4, <3>5, <2>1 DEF EntriesOf, NoData, AtRest, InMemory, Doomed, Loadable
  <2>6. QED
    BY <2>4, <2>5, OneAndOthers, Zenon
<1>10. ASSUME NEW p \in Procs, NEW pr \in Prs, FindPr(p, pr) PROVE Kept'
  <2>1. \A q \in Procs : q # p => Still(q)
    BY <1>10 DEF Still, Types, MemType, PendType, FindPr
  <2>2. QED
    BY <1>10, <2>1, NothingDone DEF Types, Job, Idle, FindPr
<1>11. ASSUME NEW p \in Procs, NEW b \in Bugs, NewUpstream(p, b) PROVE Kept'
  <2>1. \A q \in Procs : q # p => Still(q)
    BY <1>11 DEF Still, Types, MemType, PendType, NewUpstream, Create
  <2>2. QED
    BY <1>11, <2>1, NothingDone DEF Types, Job, Idle, NewUpstream, Create
<1>12. ASSUME NEW p \in Procs, NEW r \in Repository, CreateRef(p, r) PROVE Kept'
  <2>n. PICK n \in Name : n = job[p].name
    BY <1>12 DEF CreateRef, Held, Works
  <2>1. /\ job[p].op = "create" /\ n \notin DOMAIN data /\ n \in Name
        /\ UNCHANGED <<data, index, mem, mutable, pend, spoiled>>
        /\ job'[p].op = "create" /\ job'[p].name = n /\ mutable[p] = {}
        /\ refs' = [refs EXCEPT ![r] = @ \cup {n}]
        /\ \A q \in Procs : q # p => Still(q)
    BY <1>12, <2>n DEF CreateRef, Held, Works, Types, Job, Still
  <2>2. ASSUME NEW k \in Name \ spoiled', k # n PROVE EntriesOf(k)'
    <3>1. EntriesOf(k)
      BY <2>1, <2>2 DEF Kept
    <3>2. Untouched(p, k)
      BY <2>1, <2>2, <2>n DEF Untouched, SameData, Claims, Types
    <3>3. QED
      BY <3>1, <3>2, EntriesStay
  <2>3. ASSUME n \notin spoiled' PROVE EntriesOf(n)'
    <3>1. EntriesOf(n)
      BY <2>1, <2>3 DEF Kept
    <3>2. \A q \in Procs : q # p => ~(job[q].op = "delete" /\ job[q].name = n)
      BY <2>1, <2>n, MineAlone DEF Claims
    <3>3. QED
      BY <3>1, <3>2, <2>1 DEF EntriesOf, NoData, AtRest, InMemory, Doomed, Loadable, Still
  <2>4. QED
    BY <2>2, <2>3, OneAndOthers, Zenon
<1>13. ASSUME NEW p \in Procs, NEW r \in Repository, DeleteRef(p, r) PROVE Kept'
  <2>n. PICK n \in Name : n = job[p].name
    BY <1>13 DEF DeleteRef, Deleting, Held, Works
  <2>1. /\ n \in Name /\ job[p].op = "delete" /\ job[p].step = r /\ mutable[p] = {n}
        /\ UNCHANGED <<data, index, spoiled>>
    BY <1>13, <2>n DEF DeleteRef, Deleting, Held, Works
  <2>2. Claims(p, n) /\ \A k : Claims(p, k) => k = n
    BY <2>1, <2>n DEF Claims
  <2>3. CASE Forget(p) /\ refs' = refs /\ n \notin refs[r]
    <3>1. /\ mutable'[p] = {} /\ job'[p].op = "idle" /\ \A q \in Procs : q # p => Still(q)
      BY <2>3, Forgotten DEF Idle, Still
    <3>2. ASSUME NEW k \in Name \ spoiled' PROVE EntriesOf(k)'
      <4>1. EntriesOf(k)
        BY <2>1 DEF Kept
      <4>2. CASE k = n
        <5>1. ~Loadable(n)
          BY <2>3 DEF Loadable, Repository
        <5>2. QED
          BY <5>1, <4>1, <4>2, <2>1, <2>2, <2>3, <3>1, GivenUp
      <4>3. CASE k # n
        <5>1. Untouched(p, k)
          BY <4>3, <2>1, <2>2, <2>3, <3>1 DEF Untouched, SameData, Claims
        <5>2. QED
          BY <4>1, <5>1, EntriesStay
      <4>4. QED
        BY <4>2, <4>3
    <3>3. QED
      BY <3>2 DEF Kept
  <2>4. CASE /\ Deleting(p, r, IF r = "wpt" THEN "gecko" ELSE "status") /\ n \in refs[r]
             /\ refs' = [refs EXCEPT ![r] = @ \ {n}] /\ UNCHANGED <<mem, mutable, pend>>
    <3>1. /\ job'[p].op = "delete" /\ job'[p].name = n
          /\ job'[p].step = IF r = "wpt" THEN "gecko" ELSE "status"
          /\ \A q \in Procs : q # p => Still(q)
      BY <2>1, <2>4, <2>n DEF Deleting, Still, Types, Job
    <3>2. ASSUME NEW k \in Name \ spoiled', k # n PROVE EntriesOf(k)'
      <4>1. EntriesOf(k)
        BY <2>1, <3>2 DEF Kept
      <4>2. Untouched(p, k)
        BY <3>1, <3>2, <2>1, <2>2, <2>4 DEF Untouched, SameData, Claims, Types
      <4>3. QED
        BY <4>1, <4>2, EntriesStay
    <3>3. ASSUME n \notin spoiled' PROVE EntriesOf(n)'
      <4>1. EntriesOf(n)
        BY <2>1, <3>3 DEF Kept
      <4>2. NoData(n)'
        BY <4>1, <2>1 DEF EntriesOf, NoData
      <4>3. ~Loadable(n)'
        BY <2>4 DEF Loadable, Repository, Types
      <4>4. AtRest(n)' /\ \A q \in Procs : InMemory(q, n)'
        BY <4>3 DEF AtRest, InMemory
      <4>5. Doomed(p, n)'
        <5>1. ~Outdated(p, n) => Of(index, n) \subseteq {x \in Entries(n, mem[p][n].now) : x.in \notin Removed(job[p].step)}
          BY <4>1, <2>1, <2>4, <2>n DEF EntriesOf, Doomed
        <5>2. Removed(job'[p].step) = {} /\ Removed(job[p].step) = {}
          BY <3>1, <2>1 DEF Removed, Repository
        <5>3. QED
          BY <5>1, <5>2, <2>1, <2>4 DEF Doomed, Outdated
      <4>6. \A q \in Procs : q # p => Doomed(q, n)'
        BY <2>2, <3>1, MineAlone DEF Doomed, Still
      <4>7. QED
        BY <4>2, <4>4, <4>5, <4>6 DEF EntriesOf
    <3>4. QED
      BY <3>2, <3>3, OneAndOthers, Zenon
  <2>5. QED
    BY <2>3, <2>4, <2>n, <1>13 DEF DeleteRef
<1>14. ASSUME NEW p \in Procs, NEW n \in Name, Load(p, n) PROVE Kept'
  <2>1. n \in Name /\ data[n] \in Data /\ n \notin DOMAIN mem[p] /\ job[p].op # "delete"
    BY <1>14, <1>0 DEF Load, Loadable, DataType, Idle
  <2>2. Copy(data[n], job[p] = Idle) \in Mem
    BY <2>1, CopyFacts
  <2>3. OnlyAt(mem, mem', p) /\ mem'[p] = Remember(mem[p], n, Copy(data[n], job[p] = Idle))
    BY <1>14 DEF Load, Types, MemType, OnlyAt
  <2>4. \A k \in DOMAIN mem[p] : k # n => mem'[p][k] = mem[p][k]
    BY <1>0, <2>1, <2>2, <2>3, Remembered
  <2>5. UNCHANGED <<refs, data, index, spoiled, job, mutable, pend>>
    BY <1>14 DEF Load
  <2>6. \A q \in Procs : q # p => Still(q)
    BY <2>3, <2>5 DEF Still, OnlyAt
  <2>7. QED
    BY <2>1, <2>4, <2>5, <2>6, NothingDone
<1>15. ASSUME NEW p \in Procs, NEW n \in Name, AsMut(p, n) PROVE Kept'
  <2>1. /\ n \in Name /\ n \in DOMAIN mem[p] /\ mutable[p] = {} /\ mutable'[p] = {n} /\ job[p].op = "task"
        /\ UNCHANGED <<refs, data, index, job, mem, pend, spoiled>> /\ lock[Group(n)] = p
        /\ \A q \in Procs : q # p => Still(q)
    BY <1>15 DEF AsMut, Types, Still, Held, Works, Working
  <2>2. pend[p] = Saved /\ mem[p][n].now = mem[p][n].read
    BY <2>1, <1>a DEF Pending, Changes
  <2>3. ASSUME NEW k \in Name \ spoiled', k # n PROVE EntriesOf(k)'
    <3>1. EntriesOf(k)
      BY <2>1, <2>3 DEF Kept
    <3>2. Untouched(p, k)
      BY <2>1, <2>3 DEF Untouched, SameData, Claims
    <3>3. QED
      BY <3>1, <3>2, EntriesStay
  <2>4. ASSUME n \notin spoiled' PROVE EntriesOf(n)'
    <3>1. EntriesOf(n)
      BY <2>1, <2>4 DEF Kept
    <3>2. \A q \in Procs : n \notin mutable[q] /\ ~(job[q].op = "delete" /\ job[q].name = n)
      BY <2>1, MineAlone
    <3>3. NoData(n)'
      BY <3>1, <2>1 DEF EntriesOf, NoData
    <3>4. Loadable(n) => Of(index, n) = Entries(n, data[n])
      BY <3>1, <3>2 DEF EntriesOf, AtRest
    <3>5. AtRest(n)'
      BY <3>4, <2>1 DEF AtRest, Loadable
    <3>6. InMemory(p, n)'
      <4>1. Apply(index, Saved) = index
        BY ApplyFacts
      <4>2. ~Outdated(p, n) => data[n] = mem[p][n].now
        BY <2>2 DEF Outdated
      <4>3. QED
        BY <4>1, <4>2, <3>4, <2>1, <2>2 DEF InMemory, Outdated, Loadable
    <3>7. \A q \in Procs : q # p => InMemory(q, n)'
      BY <3>2, <2>1 DEF InMemory, Still
    <3>8. \A q \in Procs : Doomed(q, n)'
      BY <3>2, <2>1 DEF Doomed
    <3>9. QED
      BY <3>3, <3>5, <3>6, <3>7, <3>8 DEF EntriesOf
  <2>5. QED
    BY <2>3, <2>4, OneAndOthers, Zenon
<1>16. ASSUME NEW p \in Procs, NEW n \in Name, ExitMut(p, n) PROVE Kept'
  <2>1. /\ index' = Apply(index, pend[p]) /\ job[p].op = "task" /\ n \in mutable[p] /\ n \in Name
        /\ mutable'[p] = {} /\ mem[p][n].now \in Data
        /\ UNCHANGED <<refs, job>> /\ spoiled \subseteq spoiled'
        /\ \A q \in Procs : q # p => Still(q)
    BY <1>16 DEF ExitMut, CanSet, Save, Mark, Still, Types, PendType, MemType, Mem, Pending, Changes
  <2>2. \/ ~mem[p][n].set /\ data' = data /\ spoiled' = spoiled
        \/ data' = Stored(n, mem[p][n].now) /\ Mark(p, n)
    BY <1>16 DEF ExitMut
  <2>3. \A k \in Name : k # n => SameData(k)
    <3>1. CASE data' = Stored(n, mem[p][n].now)
      <4>1. /\ DOMAIN data' = DOMAIN data \cup {n}
            /\ \A k \in DOMAIN data : k # n => data'[k] = data[k]
        BY <1>0, <2>1, <3>1, StoredFacts
      <4>2. QED
        BY <4>1 DEF SameData
    <3>2. QED
      BY <3>1, <2>2 DEF SameData
  <2>4. ASSUME NEW k \in Name \ spoiled', k # n PROVE EntriesOf(k)'
    <3>1. EntriesOf(k) /\ k \notin mutable[p]
      BY <2>1, <2>4 DEF Kept, Pending, Changes
    <3>2. Of(index', k) = Of(index, k)
      BY <2>1, <3>1 DEF Of, Apply, Pending, Changes
    <3>3. Untouched(p, k)
      BY <3>1, <3>2, <2>1, <2>3, <2>4 DEF Untouched, Claims
    <3>4. QED
      BY <3>1, <3>3, EntriesStay
  <2>5. ASSUME n \notin spoiled' PROVE EntriesOf(n)'
    <3>1. EntriesOf(n)
      BY <2>1, <2>5 DEF Kept
    <3>2. \A q \in Procs : q # p => n \notin mutable[q] /\ ~(job[q].op = "delete" /\ job[q].name = n)
      BY <2>1, MineAlone DEF Claims
    <3>3. \A q \in Procs : n \notin mutable'[q] /\ ~(job'[q].op = "delete" /\ job'[q].name = n)
      BY <3>2, <2>1 DEF Still
    <3>4. NoData(n)' /\ (Loadable(n)' => Of(index', n) = Entries(n, data'[n]))
      <4>1. CASE ~mem[p][n].set /\ data' = data
        <5>1. pend[p] = Saved /\ mem[p][n].now = mem[p][n].read
          BY <4>1, <2>1, <2>5 DEF Pending, Changes, Types
        <5>2. index' = index
          BY <5>1, <2>1, ApplyFacts
        <5>3. NoData(n)'
          BY <5>2, <4>1, <3>1 DEF EntriesOf, NoData
        <5>4. CASE Outdated(p, n)
          <6>1. \A q \in Procs : n \in mutable[q] => Outdated(q, n)
            BY <3>2, <5>4, Zenon
          <6>2. Loadable(n) => Of(index, n) = Entries(n, data[n])
            BY <6>1, <3>1 DEF EntriesOf, AtRest
          <6>3. QED
            BY <6>2, <5>2, <5>3, <4>1, <2>1 DEF Loadable
        <5>5. CASE ~Outdated(p, n)
          <6>1. data[n] = mem[p][n].now
            BY <5>1, <5>5 DEF Outdated
          <6>2. Loadable(n) => Of(index', n) = Entries(n, mem[p][n].now)
            BY <5>5, <3>1, <2>1 DEF EntriesOf, InMemory
          <6>3. QED
            BY <6>1, <6>2, <5>3, <4>1, <2>1 DEF Loadable
        <5>6. QED
          BY <5>3, <5>4, <5>5
      <4>2. CASE data' = Stored(n, mem[p][n].now) /\ Mark(p, n)
        <5>1. ~Outdated(p, n) /\ n \in DOMAIN data
          BY <4>2, <2>5 DEF Mark, Outdated
        <5>2. n \in DOMAIN data' /\ data'[n] = mem[p][n].now
          BY <4>2, <1>0, <2>1, StoredFacts
        <5>3. Loadable(n) => Of(index', n) = Entries(n, mem[p][n].now)
          BY <5>1, <3>1, <2>1 DEF EntriesOf, InMemory
        <5>4. QED
          BY <5>1, <5>2, <5>3, <2>1 DEF NoData, Loadable
      <4>3. QED
        BY <4>1, <4>2, <2>2
    <3>5. QED
      BY <3>3, <3>4 DEF EntriesOf, AtRest, InMemory, Doomed
  <2>6. QED
    BY <2>4, <2>5, OneAndOthers, Zenon
<1>17. ASSUME NEW p \in Procs, NEW n \in Name, StartDelete(p, n) PROVE Kept'
  <2>1. /\ n \in Name /\ mutable[p] = {n} /\ pend[p] = Saved /\ job[p].op = "task"
        /\ UNCHANGED <<refs, data, index, mem, mutable, pend, spoiled>>
        /\ job'[p].op = "delete" /\ job'[p].name = n /\ job'[p].step = "wpt"
        /\ \A q \in Procs : q # p => Still(q)
    BY <1>17 DEF StartDelete, CanSet, Types, Job, Still
  <2>2. ASSUME NEW k \in Name \ spoiled', k # n PROVE EntriesOf(k)'
    <3>1. EntriesOf(k)
      BY <2>1, <2>2 DEF Kept
    <3>2. Untouched(p, k)
      BY <2>1, <2>2 DEF Untouched, SameData, Claims
    <3>3. QED
      BY <3>1, <3>2, EntriesStay
  <2>3. ASSUME n \notin spoiled' PROVE EntriesOf(n)'
    <3>1. EntriesOf(n)
      BY <2>1, <2>3 DEF Kept
    <3>2. \A q \in Procs : q # p => n \notin mutable[q] /\ ~(job[q].op = "delete" /\ job[q].name = n)
      BY <2>1, MineAlone DEF Claims
    <3>3. NoData(n)' /\ AtRest(n)'
      BY <3>1, <2>1 DEF EntriesOf, NoData, AtRest, Outdated, Loadable
    <3>4. \A q \in Procs : InMemory(q, n)'
      BY <3>1, <2>1 DEF EntriesOf, InMemory, Outdated, Loadable
    <3>5. Doomed(p, n)'
      <4>1. ~Outdated(p, n) /\ n \in refs["wpt"] => Loadable(n)
        BY DEF Outdated, Loadable, Branches
      <4>2. Apply(index, Saved) = index
        BY ApplyFacts
      <4>3. ~Outdated(p, n) /\ n \in refs["wpt"] => Of(index, n) = Entries(n, mem[p][n].now)
        BY <3>1, <4>1, <4>2, <2>1 DEF EntriesOf, InMemory
      <4>4. Removed("wpt") = {}
        BY DEF Removed
      <4>5. QED
        BY <4>3, <4>4, <2>1 DEF Doomed, Outdated
    <3>6. \A q \in Procs : q # p => Doomed(q, n)'
      BY <3>2, <2>1 DEF Doomed, Still
    <3>7. QED
      BY <3>3, <3>4, <3>5, <3>6 DEF EntriesOf
  <2>4. QED
    BY <2>2, <2>3 DEF Kept
<1>18. ASSUME NEW p \in Procs, NEW n \in Name, NEW s \in InUse, SetStatus(p, n, s) PROVE Kept'
  <2>1. /\ n \in Name /\ n \in mutable[p] /\ n \in DOMAIN mem[p] /\ job[p].op = "task" /\ mem[p][n].now \in Data
        /\ UNCHANGED <<refs, data, index, job, mutable>> /\ spoiled \subseteq spoiled'
        /\ [mem[p][n].now EXCEPT !.status = s] \in Data
    BY <1>18, <1>0, DataFacts DEF SetStatus, CanSet, Types, MemType, Mem
  <2>2. \A q \in Procs : q # p => Still(q)
    BY <1>18 DEF SetStatus, Changed, Types, MemType, PendType, Still
  <2>3. ASSUME NEW k \in Name \ spoiled', k # n PROVE EntriesOf(k)'
    <3>1. EntriesOf(k) /\ k \notin mutable[p]
      BY <2>1, <2>3 DEF Kept, Pending, Changes
    <3>2. Untouched(p, k)
      BY <3>1, <2>1, <2>2 DEF Untouched, SameData, Claims
    <3>3. QED
      BY <3>1, <3>2, EntriesStay
  <2>4. ASSUME n \notin spoiled' PROVE EntriesOf(n)'
    <3> DEFINE d == mem[p][n].now
               e == [mem[p][n].now EXCEPT !.status = s]
    <3>1. EntriesOf(n)
      BY <2>1, <2>4 DEF Kept
    <3>2. \A q \in Procs : q # p => n \notin mutable[q] /\ ~(job[q].op = "delete" /\ job[q].name = n)
      BY <2>1, MineAlone DEF Claims
    <3>3. mem' = Changed(p, n, e) /\ mem[p][n].now.bug # None
      BY <1>18, <2>4 DEF SetStatus
    <3>4. mem'[p][n].read = mem[p][n].read /\ mem'[p][n].now = e
      <4>1. e \in Data /\ n \in DOMAIN mem[p]
        BY <2>1
      <4>2. QED
        BY <1>0, <3>3, <4>1, ChangedFacts
    <3>5. NoData(n)'
      BY <3>1, <2>1 DEF EntriesOf, NoData
    <3>6. AtRest(n)'
      <4>1. \A q \in Procs : n \in mutable[q] => q = p /\ (Outdated(p, n)' <=> Outdated(p, n))
        BY <3>2, <3>4, <2>1 DEF Outdated
      <4>2. QED
        BY <4>1, <3>1, <2>1 DEF EntriesOf, AtRest, Loadable
    <3> DEFINE E == {StatusEntry(n, e), BugEntry(n, e)}
               D == {StatusEntry(n, d), BugEntry(n, d)}
    <3>7. pend'[p] = Insert(Delete(pend[p], D), E)
      BY <1>18, <3>3, <2>4 DEF SetStatus, Types, PendType
    <3> HIDE DEF d, e
    <3>a. Entries(n, e) = (Entries(n, d) \ D) \cup E /\ \A x \in E : x.name = n
      BY <2>1, <3>3, <1>18, StatusChanged DEF d, e, StatusEntry, BugEntry
    <3> HIDE DEF D, E
    <3>b. Apply(index, pend'[p]) = (Apply(index, pend[p]) \ D) \cup E
      BY <3>7, ApplyFacts DEF Insert, Delete, Apply
    <3>8. InMemory(p, n)'
      <4>1. SUFFICES ASSUME ~Outdated(p, n)', Loadable(n)' PROVE Of(Apply(index, pend'[p]), n) = Entries(n, e)
        BY <3>4, <2>1 DEF InMemory
      <4>2. Of(Apply(index, pend[p]), n) = Entries(n, d)
        BY <3>1, <3>4, <2>1, <4>1 DEF EntriesOf, InMemory, Outdated, Loadable, d
      <4>3. Of((Apply(index, pend[p]) \ D) \cup E, n) = (Of(Apply(index, pend[p]), n) \ D) \cup E
        BY <3>a DEF Of
      <4>4. QED
        BY <4>2, <4>3, <3>a, <3>b
    <3>9. \A q \in Procs : q # p => InMemory(q, n)'
      BY <3>2, <2>1 DEF InMemory
    <3>10. \A q \in Procs : Doomed(q, n)'
      BY <3>2, <2>1 DEF Doomed
    <3>11. QED
      BY <3>5, <3>6, <3>8, <3>9, <3>10 DEF EntriesOf
  <2>5. QED
    BY <2>3, <2>4, OneAndOthers, Zenon
<1>19. ASSUME NEW p \in Procs, NEW n \in Name, NEW b \in Bugs, SetBug(p, n, b) PROVE Kept'
  <2>1. /\ n \in Name /\ n \in mutable[p] /\ n \in DOMAIN mem[p] /\ job[p].op = "task" /\ mem[p][n].now \in Data
        /\ UNCHANGED <<refs, data, index, job, mutable>> /\ spoiled \subseteq spoiled'
        /\ [mem[p][n].now EXCEPT !.bug = b] \in Data
    BY <1>19, <1>0, DataFacts DEF SetBug, CanSet, Types, MemType, Mem
  <2>2. \A q \in Procs : q # p => Still(q)
    BY <1>19 DEF SetBug, Changed, Types, MemType, PendType, Still
  <2>3. ASSUME NEW k \in Name \ spoiled', k # n PROVE EntriesOf(k)'
    <3>1. EntriesOf(k) /\ k \notin mutable[p]
      BY <2>1, <2>3 DEF Kept, Pending, Changes
    <3>2. Untouched(p, k)
      BY <3>1, <2>1, <2>2 DEF Untouched, SameData, Claims
    <3>3. QED
      BY <3>1, <3>2, EntriesStay
  <2>4. ASSUME n \notin spoiled' PROVE EntriesOf(n)'
    <3> DEFINE d == mem[p][n].now
               e == [mem[p][n].now EXCEPT !.bug = b]
    <3>1. EntriesOf(n)
      BY <2>1, <2>4 DEF Kept
    <3>2. \A q \in Procs : q # p => n \notin mutable[q] /\ ~(job[q].op = "delete" /\ job[q].name = n)
      BY <2>1, MineAlone DEF Claims
    <3>3. mem' = Changed(p, n, e)
      BY <1>19, <2>4 DEF SetBug
    <3>4. mem'[p][n].read = mem[p][n].read /\ mem'[p][n].now = e
      <4>1. e \in Data /\ n \in DOMAIN mem[p]
        BY <2>1
      <4>2. QED
        BY <1>0, <3>3, <4>1, ChangedFacts
    <3>5. NoData(n)'
      BY <3>1, <2>1 DEF EntriesOf, NoData
    <3>6. AtRest(n)'
      <4>1. \A q \in Procs : n \in mutable[q] => q = p /\ (Outdated(p, n)' <=> Outdated(p, n))
        BY <3>2, <3>4, <2>1 DEF Outdated
      <4>2. QED
        BY <4>1, <3>1, <2>1 DEF EntriesOf, AtRest, Loadable
    <3> DEFINE E == {BugEntry(n, e)}
               D == IF d.bug = None THEN {} ELSE {BugEntry(n, d)}
    <3>7. pend'[p] = Insert(IF d.bug = None THEN pend[p] ELSE Delete(pend[p], {BugEntry(n, d)}), E)
      BY <1>19, <3>3, <2>4 DEF SetBug, Types, PendType
    <3> HIDE DEF d, e
    <3>a. Entries(n, e) = (Entries(n, d) \ D) \cup E /\ \A x \in E : x.name = n
      BY <2>1, <3>3, <1>19, BugChanged DEF d, e, BugEntry
    <3> HIDE DEF D, E
    <3>b. Apply(index, pend'[p]) = (Apply(index, pend[p]) \ D) \cup E
      <4>1. CASE d.bug = None
        <5>1. pend'[p] = Insert(pend[p], E) /\ D = {}
          BY <4>1, <3>7 DEF D
        <5>2. QED
          BY <5>1 DEF Insert, Apply
      <4>2. CASE d.bug # None
        <5>1. pend'[p] = Insert(Delete(pend[p], D), E)
          BY <4>2, <3>7 DEF D
        <5>2. QED
          BY <5>1 DEF Insert, Delete, Apply
      <4>3. QED
        BY <4>1, <4>2
    <3>8. InMemory(p, n)'
      <4>1. SUFFICES ASSUME ~Outdated(p, n)', Loadable(n)' PROVE Of(Apply(index, pend'[p]), n) = Entries(n, e)
        BY <3>4, <2>1 DEF InMemory
      <4>2. Of(Apply(index, pend[p]), n) = Entries(n, d)
        BY <3>1, <3>4, <2>1, <4>1 DEF EntriesOf, InMemory, Outdated, Loadable, d
      <4>3. Of((Apply(index, pend[p]) \ D) \cup E, n) = (Of(Apply(index, pend[p]), n) \ D) \cup E
        BY <3>a DEF Of
      <4>4. QED
        BY <4>2, <4>3, <3>a, <3>b
    <3>9. \A q \in Procs : q # p => InMemory(q, n)'
      BY <3>2, <2>1 DEF InMemory
    <3>10. \A q \in Procs : Doomed(q, n)'
      BY <3>2, <2>1 DEF Doomed
    <3>11. QED
      BY <3>5, <3>6, <3>8, <3>9, <3>10 DEF EntriesOf
  <2>5. QED
    BY <2>3, <2>4, OneAndOthers, Zenon
<1>20. ASSUME NEW p \in Procs, NEW n \in Name, NEW pr \in Prs, SetPr(p, n, pr) PROVE Kept'
  <2>1. /\ n \in Name /\ n \in mutable[p] /\ n \in DOMAIN mem[p] /\ job[p].op = "task" /\ mem[p][n].now \in Data
        /\ UNCHANGED <<refs, data, index, job, mutable>> /\ spoiled \subseteq spoiled'
        /\ [mem[p][n].now EXCEPT !.pr = pr] \in Data
    BY <1>20, <1>0, DataFacts DEF SetPr, CanSet, Types, MemType, Mem
  <2>2. \A q \in Procs : q # p => Still(q)
    BY <1>20 DEF SetPr, Changed, Types, MemType, PendType, Still
  <2>3. ASSUME NEW k \in Name \ spoiled', k # n PROVE EntriesOf(k)'
    <3>1. EntriesOf(k) /\ k \notin mutable[p]
      BY <2>1, <2>3 DEF Kept, Pending, Changes
    <3>2. Untouched(p, k)
      BY <3>1, <2>1, <2>2 DEF Untouched, SameData, Claims
    <3>3. QED
      BY <3>1, <3>2, EntriesStay
  <2>4. ASSUME n \notin spoiled' PROVE EntriesOf(n)'
    <3> DEFINE d == mem[p][n].now
               e == [mem[p][n].now EXCEPT !.pr = pr]
    <3>1. EntriesOf(n)
      BY <2>1, <2>4 DEF Kept
    <3>2. \A q \in Procs : q # p => n \notin mutable[q] /\ ~(job[q].op = "delete" /\ job[q].name = n)
      BY <2>1, MineAlone DEF Claims
    <3>3. mem' = Changed(p, n, e)
      BY <1>20, <2>4 DEF SetPr
    <3>4. mem'[p][n].read = mem[p][n].read /\ mem'[p][n].now = e
      <4>1. e \in Data /\ n \in DOMAIN mem[p]
        BY <2>1
      <4>2. QED
        BY <1>0, <3>3, <4>1, ChangedFacts
    <3>5. NoData(n)'
      BY <3>1, <2>1 DEF EntriesOf, NoData
    <3>6. AtRest(n)'
      <4>1. \A q \in Procs : n \in mutable[q] => q = p /\ (Outdated(p, n)' <=> Outdated(p, n))
        BY <3>2, <3>4, <2>1 DEF Outdated
      <4>2. QED
        BY <4>1, <3>1, <2>1 DEF EntriesOf, AtRest, Loadable
    <3> DEFINE E == {PrEntry(n, e)}
               D == {}
    <3>7. pend'[p] = Insert(pend[p], E)
      BY <1>20, <3>3, <2>4 DEF SetPr, Types, PendType
    <3> HIDE DEF d, e
    <3>a. Entries(n, e) = (Entries(n, d) \ D) \cup E /\ \A x \in E : x.name = n
      BY <2>1, <3>3, <1>20, PrChanged DEF d, e, PrEntry, SetPr
    <3> HIDE DEF D, E
    <3>b. Apply(index, pend'[p]) = (Apply(index, pend[p]) \ D) \cup E
      BY <3>7 DEF D, Insert, Apply
    <3>8. InMemory(p, n)'
      <4>1. SUFFICES ASSUME ~Outdated(p, n)', Loadable(n)' PROVE Of(Apply(index, pend'[p]), n) = Entries(n, e)
        BY <3>4, <2>1 DEF InMemory
      <4>2. Of(Apply(index, pend[p]), n) = Entries(n, d)
        BY <3>1, <3>4, <2>1, <4>1 DEF EntriesOf, InMemory, Outdated, Loadable, d
      <4>3. Of((Apply(index, pend[p]) \ D) \cup E, n) = (Of(Apply(index, pend[p]), n) \ D) \cup E
        BY <3>a DEF Of
      <4>4. QED
        BY <4>2, <4>3, <3>a, <3>b
    <3>9. \A q \in Procs : q # p => InMemory(q, n)'
      BY <3>2, <2>1 DEF InMemory
    <3>10. \A q \in Procs : Doomed(q, n)'
      BY <3>2, <2>1 DEF Doomed
    <3>11. QED
      BY <3>5, <3>6, <3>8, <3>9, <3>10 DEF EntriesOf
  <2>5. QED
    BY <2>3, <2>4, OneAndOthers, Zenon
<1>21. ASSUME UNCHANGED vars PROVE Kept'
  BY <1>21 DEF Kept, EntriesOf, NoData, AtRest, InMemory, Doomed, Outdated, Loadable, vars
<1>22. QED
  BY <1>1, <1>2, <1>3, <1>4, <1>5, <1>6, <1>7, <1>8, <1>9, <1>10, <1>11, <1>12, <1>13, <1>14, <1>15, <1>16, <1>17, <1>18, <1>19, <1>20, <1>21 DEF Next

-----------------------------------------------------------------------------
(* The invariant. *)

LEMMA InitInv == Init => StoreInv
<1> SUFFICES ASSUME Init PROVE StoreInv
  OBVIOUS
<1>1. Types
  BY ChangeFacts DEF Init, Types, DataType, MemType, PendType, Job, Idle, Ops, Steps, Repository, Groups
<1>2. Held /\ Branches /\ Pending
  BY DEF Init, Held, Works, Working, Branches, Pending, Changes, Idle, Repository, Saved
<1>3. Owned
  BY DEF Init, Owned, Has
<1>4. Kept
  BY DEF Init, Kept, EntriesOf, NoData, AtRest, InMemory, Doomed, Of, Loadable, Idle
<1>5. QED
  BY <1>1, <1>2, <1>3, <1>4 DEF StoreInv

LEMMA NextInv == StoreInv /\ [Next]_vars => StoreInv'
BY TypesKept, HeldKept, BranchesKept, PendingKept, OwnedKept, KeptKept DEF StoreInv

LEMMA SpecInv == Spec => []StoreInv
BY InitInv, NextInv, PTL DEF Spec

LEMMA TypesOfStore == StoreInv => TypeOK
BY DEF StoreInv, Types, TypeOK, DataType, MemType, Mem, IsEntry, Job, Ops, Steps

(***************************************************************************)
(* Files, branches, entries, locks, tasks and what is in memory have the   *)
(* shapes that the code gives them; what is changed is in memory.          *)
(***************************************************************************)
THEOREM TypesCorrect == Spec => []TypeOK
BY TypesOfStore, SpecInv, PTL

(***************************************************************************)
(* A PR has one sync: the one named for it, if a person made the PR; the   *)
(* one that the code made the PR for, if the code did (sync.py,            *)
(* get_pr_sync).  However many processes there are, the lock of the PR and *)
(* the lock that upstream syncs share are held by one of them.             *)
(***************************************************************************)
THEOREM OneSyncPerPr == Spec => []OnePerPr
<1>1. ASSUME Types, Owned, NEW m \in DOMAIN data, NEW n \in DOMAIN data,
             data[m].pr = data[n].pr, data[n].pr # None
      PROVE  m = n
  <2>1. PICK pr \in Prs : pr = data[n].pr
    BY <1>1 DEF Types, DataType, Data
  <2>2. m \in Name /\ n \in Name /\ Has(m, pr) /\ Has(n, pr)
    BY <1>1, <2>1 DEF Types, DataType, Has
  <2>3. /\ m.kind = "downstream" => m.obj = pr /\ author[pr] = "person"
        /\ n.kind = "downstream" => n.obj = pr /\ author[pr] = "person"
        /\ m.kind = "upstream" => author[pr] = "bot"
        /\ n.kind = "upstream" => author[pr] = "bot"
        /\ m.kind = "upstream" /\ n.kind = "upstream" => m = n
    BY <1>1, <2>2 DEF Owned
  <2>4. QED
    BY <2>2, <2>3, NameFacts
<1>2. StoreInv => OnePerPr
  BY <1>1 DEF StoreInv, OnePerPr
<1>3. QED
  BY <1>2, SpecInv, PTL

(***************************************************************************)
(* The entries of a sync that no process is in the middle of are those of  *)
(* its data, and no entry is for a sync without data (index.py, base.py).  *)
(***************************************************************************)
THEOREM IndexesMatchData == Spec => []Indexed
<1>1. ASSUME Types, Kept, NEW n \in DOMAIN data \ spoiled, Loadable(n), Settled(n)
      PROVE  Of(index, n) = Entries(n, data[n])
  BY <1>1 DEF Types, DataType, Kept, EntriesOf, AtRest, Settled
<1>2. ASSUME Types, Kept, NEW e \in index PROVE e.name \in DOMAIN data \cup spoiled
  <2>1. e.name \in Name /\ e \in Of(index, e.name)
    BY <1>2 DEF Types, IsEntry, Of
  <2>2. QED
    BY <1>2, <2>1 DEF Kept, EntriesOf, NoData
<1>3. StoreInv => Indexed
  BY <1>1, <1>2 DEF StoreInv, Indexed, Of
<1>4. QED
  BY <1>3, SpecInv, PTL

(***************************************************************************)
(* What a process that read a sync under the lock writes or deletes is     *)
(* what it read, and changed since: no update is lost (base.py, as_mut).   *)
(***************************************************************************)
THEOREM NoUpdateLost == Spec => NotLost
<1>1. ASSUME Types, Held, NEW p \in Procs, NEW n \in Name, n \in mutable[p], ~mem[p][n].early
      PROVE  ~Outdated(p, n)
  BY <1>1 DEF Types, Held, Works, Fresh, Outdated
<1>2. StoreInv => \A p \in Procs, n \in Name : n \in mutable[p] \ mutable'[p] /\ data' # data /\ ~mem[p][n].early
                                                => ~Outdated(p, n)
  BY <1>1 DEF StoreInv
<1>3. QED
  BY <1>2, SpecInv, PTL DEF NotLost

-----------------------------------------------------------------------------
(* MetadataRepo. *)

WriterStep == {"idle", "reading", "retrying", "fetched"}
Retries == 0 .. MaxRetry - 1
Writer == [step : WriterStep, rev : SUBSET Link, base : Nat, loaded : SUBSET Files,
           items : SUBSET Item, gone : SUBSET Link, retry : Retries]

HistoryType == history \in Seq(SUBSET Link) /\ Len(history) \in 1..MaxHistory
PullsType == \A p \in pulls : p.from \subseteq Link /\ p.to \subseteq Link

(***************************************************************************)
(* A writer builds on a commit that is on master, and what it changed is   *)
(* in files that it read.                                                  *)
(***************************************************************************)
Grounded(w) ==
  /\ writer[w].base <= Len(history) /\ (writer[w].step = "fetched" => writer[w].base >= 1)
  /\ \A i \in writer[w].items : i.now.file \in writer[w].loaded
  /\ \A l \in writer[w].gone : l.file \in writer[w].loaded

MetadataInv ==
  /\ HistoryType /\ PullsType /\ writer \in [Writers -> Writer]
  /\ \A w \in Writers : Grounded(w)

-----------------------------------------------------------------------------
(* Lemmas on the operators. *)

LEMMA LinkFacts ==
  /\ \A l \in Link : l.file \in Files /\ l.url \in Urls
  /\ \A i \in Item : i.now \in Link
  /\ \A i \in Item, v \in Urls : [i EXCEPT !.now.url = v] \in Item
                                 /\ [i EXCEPT !.now.url = v].now.file = i.now.file
BY DEF Link, Item

LEMMA MasterFacts ==
  ASSUME HistoryType
  PROVE  /\ Len(history) \in Nat \ {0} /\ Master = history[Len(history)] /\ Master \subseteq Link
         /\ \A b \in 1..Len(history) : history[b] \subseteq Link
BY MetadataAssumption DEF HistoryType, Master, Last

LEMMA LongerHistory ==
  ASSUME HistoryType, Len(history) < MaxHistory, NEW S \in SUBSET Link, history' = Append(history, S)
  PROVE  HistoryType' /\ Len(history') = Len(history) + 1 /\ Master' = S /\ Len(history) \in Nat
BY MetadataAssumption DEF HistoryType, Master, Last

LEMMA LoadedFacts ==
  ASSUME NEW S \in SUBSET Link, NEW files
  PROVE  /\ Loaded(S, files) \subseteq Item
         /\ \A i \in Loaded(S, files) : i.now.file \in files
BY DEF Loaded, In, Item

LEMMA WrittenFacts ==
  ASSUME MetadataInv, NEW w \in Writers, writer[w].step = "fetched"
  PROVE  /\ history[writer[w].base] \subseteq Link /\ Written(w) \subseteq Link
         /\ Delivers(w, history[writer[w].base], Written(w))
<1> DEFINE W == writer[w]
           now == {i.now : i \in W.items}
           base == history[W.base]
           old == In(W.rev, W.loaded)
<1>1. /\ W.rev \subseteq Link /\ W.items \subseteq Item /\ W.base \in Nat /\ W.base <= Len(history) /\ W.base >= 1
      /\ \A i \in W.items : i.now.file \in W.loaded
      /\ \A l \in W.gone : l.file \in W.loaded
  BY DEF MetadataInv, Writer, Grounded
<1>2. base \subseteq Link
  BY <1>1, MasterFacts DEF MetadataInv
<1>3. now \subseteq Link /\ \A l \in now : l.file \in W.loaded
  BY <1>1, LinkFacts
<1>4. Written(w) = (base \ In(base, W.loaded))
                     \cup (old \ (W.gone \cup {i.was : i \in W.items})) \cup now
  BY DEF Written, UpdateData
<1>5. Written(w) \subseteq Link
  BY <1>1, <1>2, <1>3, <1>4 DEF In
<1>6. \A l \in (base \ Written(w)) \cup (Written(w) \ base) : l.file \in W.loaded
  BY <1>3, <1>4 DEF In
<1>7. now \subseteq Written(w)
  BY <1>4
<1>8. Written(w) \cap W.gone \subseteq now
  BY <1>1, <1>4 DEF In
<1>9. QED
  BY <1>2, <1>5, <1>6, <1>7, <1>8 DEF Delivers

LEMMA RestingFacts ==
  /\ Resting \in Writer /\ Resting.items = {} /\ Resting.gone = {} /\ Resting.base = 0
  /\ Resting.step = "idle" /\ Resting.retry = 0
BY MetadataAssumption DEF Resting, Writer, WriterStep, Retries

(* A writer moves, the others do not. *)
LEMMA WriterMoves ==
  ASSUME MetadataInv, NEW w \in Writers, NEW x \in Writer,
         writer' = [writer EXCEPT ![w] = x], history' = history, PullsType',
         x.base <= Len(history), x.step = "fetched" => x.base >= 1,
         \A i \in x.items : i.now.file \in x.loaded, \A l \in x.gone : l.file \in x.loaded
  PROVE  MetadataInv'
<1>1. ASSUME NEW v \in Writers PROVE Grounded(v)'
  BY DEF MetadataInv, Grounded
<1>2. QED
  BY <1>1 DEF MetadataInv, HistoryType

LEMMA WriterRests ==
  ASSUME MetadataInv, NEW w \in Writers, writer' = [writer EXCEPT ![w] = Resting], history' = history, PullsType'
  PROVE  MetadataInv'
<1>1. 0 <= Len(history)
  BY MasterFacts DEF MetadataInv
<1>2. QED
  BY <1>1, RestingFacts, WriterMoves

-----------------------------------------------------------------------------
(* The invariant. *)

LEMMA MetadataInitInv == MetadataInit => MetadataInv
<1> SUFFICES ASSUME MetadataInit PROVE MetadataInv
  OBVIOUS
<1>1. PICK l \in Link : history = <<{l}>>
  BY DEF MetadataInit
<1>2. HistoryType /\ Len(history) = 1
  BY <1>1, MetadataAssumption DEF HistoryType
<1>3. QED
  BY <1>2, RestingFacts DEF MetadataInit, MetadataInv, PullsType, Grounded

LEMMA MetadataNextInv == MetadataInv /\ [MetadataNext]_mvars => MetadataInv'
<1> SUFFICES ASSUME MetadataInv, [MetadataNext]_mvars PROVE MetadataInv'
  OBVIOUS
<1>0. /\ HistoryType /\ PullsType /\ \A w \in Writers : writer[w] \in Writer /\ Grounded(w)
      /\ DOMAIN writer = Writers
  BY DEF MetadataInv
<1>1. ASSUME NEW w \in Writers, ReadHead(w) PROVE MetadataInv'
  <2>1. PICK files \in SUBSET Files :
          writer' = [writer EXCEPT ![w] = [Resting EXCEPT
            !.step = "reading", !.rev = Master, !.loaded = files, !.items = Loaded(Master, files)]]
    BY <1>0, <1>1, MasterFacts, LinkFacts DEF ReadHead, Existing
  <2> DEFINE x == [Resting EXCEPT !.step = "reading", !.rev = Master, !.loaded = files, !.items = Loaded(Master, files)]
  <2>2. /\ x \in Writer /\ x.base = 0 /\ x.step = "reading" /\ x.items = Loaded(Master, files)
        /\ x.loaded = files /\ x.gone = {}
    <3>1. Master \in SUBSET Link /\ Loaded(Master, files) \in SUBSET Item /\ Resting \in Writer
      BY <1>0, MasterFacts, LoadedFacts, RestingFacts
    <3>2. QED
      BY <3>1, RestingFacts DEF Resting, Writer, WriterStep
  <2>3. \A i \in x.items : i.now.file \in x.loaded
    BY <1>0, <2>2, MasterFacts, LoadedFacts
  <2>4. PullsType' /\ history' = history /\ 0 <= Len(history)
    BY <1>0, <1>1, MasterFacts DEF ReadHead, PullsType
  <2> HIDE DEF x
  <2>5. QED
    BY <2>1, <2>2, <2>3, <2>4, WriterMoves DEF x
<1>2. ASSUME NEW w \in Writers, NEW u \in Urls, ResolveBug(w, u) PROVE MetadataInv'
  <2>1. /\ LinksTo(w, u) \subseteq writer[w].items /\ \A i \in LinksTo(w, u) : i.now = i.was
        /\ history' = history /\ PullsType' /\ writer[w].step = "reading"
    BY <1>0, <1>2 DEF ResolveBug, LinksTo, PullsType
  <2>2. ASSUME NEW items \in SUBSET Item, NEW gone \in SUBSET Link,
               writer' = [writer EXCEPT ![w] = [writer[w] EXCEPT !.items = items, !.gone = gone]],
               \A i \in items : i.now.file \in writer[w].loaded,
               \A l \in gone : l.file \in writer[w].loaded
        PROVE  MetadataInv'
    <3> DEFINE x == [writer[w] EXCEPT !.items = items, !.gone = gone]
    <3>1. /\ x \in Writer /\ x.base = writer[w].base /\ x.step = "reading" /\ x.items = items /\ x.gone = gone
          /\ x.loaded = writer[w].loaded
      BY <1>0, <2>1, <2>2 DEF Writer
    <3>2. writer' = [writer EXCEPT ![w] = x]
      BY <2>2
    <3>3. x.base <= Len(history)
      BY <1>0, <3>1 DEF Grounded
    <3> HIDE DEF x
    <3>4. QED
      BY <2>1, <2>2, <3>1, <3>2, <3>3, WriterMoves
  <2>3. CASE writer' = [writer EXCEPT ![w].items = @ \ LinksTo(w, u),
                                      ![w].gone = @ \cup {i.was : i \in LinksTo(w, u)}]
    <3> DEFINE items == writer[w].items \ LinksTo(w, u)
               gone  == writer[w].gone \cup {i.was : i \in LinksTo(w, u)}
    <3>1. /\ items \in SUBSET Item /\ gone \in SUBSET Link
          /\ \A i \in items : i.now.file \in writer[w].loaded
          /\ \A l \in gone : l.file \in writer[w].loaded
      <4>1. writer[w].items \subseteq Item /\ writer[w].gone \subseteq Link
        BY <1>0 DEF Writer
      <4>2. \A i \in LinksTo(w, u) : i.was \in Link /\ i.was.file \in writer[w].loaded
        BY <1>0, <2>1, <4>1, LinkFacts DEF Grounded
      <4>3. QED
        BY <1>0, <4>1, <4>2 DEF Grounded
    <3>2. writer' = [writer EXCEPT ![w] = [writer[w] EXCEPT !.items = items, !.gone = gone]]
      BY <1>0, <2>3 DEF Writer
    <3> HIDE DEF items, gone
    <3>3. QED
      BY <2>2, <3>1, <3>2
  <2>4. ASSUME NEW v \in Urls, writer' = [writer EXCEPT ![w].items =
                 (@ \ LinksTo(w, u)) \cup {[i EXCEPT !.now.url = v] : i \in LinksTo(w, u)}]
        PROVE  MetadataInv'
    <3> DEFINE items == (writer[w].items \ LinksTo(w, u)) \cup {[i EXCEPT !.now.url = v] : i \in LinksTo(w, u)}
    <3>1. /\ items \in SUBSET Item /\ writer[w].gone \in SUBSET Link
          /\ \A i \in items : i.now.file \in writer[w].loaded
          /\ \A l \in writer[w].gone : l.file \in writer[w].loaded
      <4>1. writer[w].items \subseteq Item /\ writer[w].gone \subseteq Link
        BY <1>0 DEF Writer
      <4>2. \A i \in LinksTo(w, u) : /\ [i EXCEPT !.now.url = v] \in Item
                                     /\ [i EXCEPT !.now.url = v].now.file \in writer[w].loaded
        BY <1>0, <2>1, <4>1, LinkFacts DEF Grounded
      <4>3. QED
        BY <1>0, <4>1, <4>2 DEF Grounded
    <3>2. writer' = [writer EXCEPT ![w] = [writer[w] EXCEPT !.items = items, !.gone = writer[w].gone]]
      BY <1>0, <2>4 DEF Writer
    <3> HIDE DEF items
    <3>3. QED
      BY <2>2, <3>1, <3>2
  <2>5. QED
    BY <1>2, <2>3, <2>4 DEF ResolveBug
<1>3. ASSUME NEW w \in Writers, NEW l \in Link, LinkBug(w, l) PROVE MetadataInv'
  <2> DEFINE loads == {l.file} \ writer[w].loaded
             items == writer[w].items \cup Loaded(writer[w].rev, loads) \cup {[was |-> NoLink, now |-> l]}
             x == [writer[w] EXCEPT !.loaded = @ \cup loads, !.items = items]
  <2>1. Loaded(writer[w].rev, loads) \subseteq Item /\ \A i \in Loaded(writer[w].rev, loads) : i.now.file \in loads
    BY <1>0, LoadedFacts DEF Writer
  <2>2. items \subseteq Item /\ \A i \in items : i.now.file \in writer[w].loaded \cup loads
    <3>1. writer[w].items \subseteq Item /\ [was |-> NoLink, now |-> l] \in Item
      BY <1>0 DEF Writer, Item
    <3>2. l.file \in writer[w].loaded \cup loads /\ [was |-> NoLink, now |-> l].now.file = l.file
      OBVIOUS
    <3>3. QED
      BY <1>0, <2>1, <3>1, <3>2 DEF Grounded
  <2>3. loads \subseteq Files
    BY LinkFacts
  <2>4. writer' = [writer EXCEPT ![w] = x] /\ history' = history /\ PullsType'
    BY <1>0, <1>3 DEF LinkBug, Writer, PullsType
  <2> HIDE DEF loads, items
  <2>5. /\ x \in Writer /\ x.base = writer[w].base /\ x.step = "reading" /\ x.items = items
        /\ x.gone = writer[w].gone /\ x.loaded = writer[w].loaded \cup loads
    BY <1>0, <1>3, <2>2, <2>3 DEF Writer, LinkBug
  <2>6. x.base <= Len(history) /\ \A g \in x.gone : g.file \in x.loaded
    BY <1>0, <2>5 DEF Grounded
  <2> HIDE DEF x
  <2>7. QED
    BY <2>2, <2>4, <2>5, <2>6, WriterMoves
<1>4. ASSUME NEW w \in Writers, Fetch(w) PROVE MetadataInv'
  <2> DEFINE x == [writer[w] EXCEPT !.step = "fetched", !.base = Len(history)]
  <2>1. /\ x \in Writer /\ x.base = Len(history) /\ x.items = writer[w].items /\ x.gone = writer[w].gone
        /\ x.loaded = writer[w].loaded /\ x.base >= 1 /\ x.base <= Len(history)
    <3>1. /\ writer[w] \in Writer /\ Len(history) \in Nat /\ "fetched" \in WriterStep
          /\ Len(history) >= 1 /\ Len(history) <= Len(history)
      BY <1>0, MasterFacts DEF WriterStep
    <3>2. QED
      <4>1. x \in Writer
        BY <3>1 DEF Writer
      <4>2. x.base = Len(history) /\ x.items = writer[w].items /\ x.gone = writer[w].gone /\ x.loaded = writer[w].loaded
        BY <3>1 DEF Writer
      <4> HIDE DEF x
      <4>3. QED
        BY <3>1, <4>1, <4>2
  <2>2. writer' = [writer EXCEPT ![w] = x] /\ history' = history /\ PullsType'
    BY <1>0, <1>4 DEF Fetch, Writer, PullsType
  <2> HIDE DEF x
  <2>3. QED
    BY <1>0, <2>1, <2>2, WriterMoves DEF Grounded
<1>5. ASSUME NEW w \in Writers, PushMetadata(w) PROVE MetadataInv'
  <2> DEFINE base == history[writer[w].base]
  <2>1. /\ writer[w].step = "fetched" /\ base \subseteq Link /\ Written(w) \subseteq Link
    BY <1>5, WrittenFacts DEF PushMetadata
  <2>2. CASE writer' = [writer EXCEPT ![w] = Resting] /\ history' = history /\ PullsType'
    BY <2>2, WriterRests
  <2>3. CASE writer' = [writer EXCEPT ![w] = Resting] /\ UNCHANGED pulls
             /\ Len(history) < MaxHistory /\ history' = Append(history, Written(w))
    <3>1. HistoryType' /\ Len(history') = Len(history) + 1 /\ Len(history) \in Nat
      BY <1>0, <2>1, <2>3, LongerHistory
    <3>2. writer' \in [Writers -> Writer] /\ \A v \in Writers : writer'[v] = Resting \/ writer'[v] = writer[v]
      BY <1>0, <2>3, RestingFacts DEF MetadataInv
    <3>3. ASSUME NEW v \in Writers PROVE Grounded(v)'
      BY <1>0, <3>1, <3>2, RestingFacts DEF Grounded, Writer
    <3>4. QED
      BY <1>0, <2>3, <3>1, <3>2, <3>3 DEF MetadataInv, PullsType
  <2>4. CASE writer' = [writer EXCEPT ![w] = Again(w)] /\ UNCHANGED <<history, pulls>>
    <3>1. CASE Again(w) = Resting
      BY <1>0, <2>4, <3>1, WriterRests DEF PullsType
    <3>2. CASE Again(w) # Resting
      <4> DEFINE items == {[was |-> i.now, now |-> i.now] : i \in writer[w].items}
                 x == [writer[w] EXCEPT !.step = "retrying", !.retry = @ + 1, !.gone = {}, !.items = items]
      <4>1. Again(w) = x /\ writer[w].retry + 1 # MaxRetry
        BY <3>2 DEF Again
      <4>2. items \subseteq Item /\ \A i \in items : i.now.file \in writer[w].loaded
        BY <1>0 DEF Writer, Item, Grounded
      <4> HIDE DEF items
      <4>3. /\ x \in Writer /\ x.base = writer[w].base /\ x.step = "retrying" /\ x.items = items /\ x.gone = {}
            /\ x.loaded = writer[w].loaded
        <5>1. writer[w] \in Writer /\ writer[w].retry + 1 \in Retries /\ "retrying" \in WriterStep
          BY <1>0, <4>1, MetadataAssumption DEF Writer, WriterStep, Retries
        <5>2. QED
          BY <5>1, <4>2 DEF Writer
      <4>4. x.base <= Len(history) /\ PullsType'
        BY <1>0, <4>3, <2>4 DEF Grounded, PullsType
      <4> HIDE DEF x
      <4>5. QED
        BY <2>4, <4>1, <4>2, <4>3, <4>4, WriterMoves
    <3>3. QED
      BY <3>1, <3>2
  <2>5. QED
    <3>1. pulls' = pulls \/ pulls' = pulls \cup {[from |-> base, to |-> Written(w)]}
      BY <1>5 DEF PushMetadata
    <3>2. PullsType'
      BY <1>0, <2>1, <3>1 DEF PullsType
    <3>3. QED
      BY <1>5, <2>2, <2>3, <2>4, <3>2 DEF PushMetadata
<1>6. ASSUME NEW S \in SUBSET Link, Len(history) < MaxHistory, history' = Append(history, S),
             writer' = writer, PullsType'
      PROVE  MetadataInv'
  <2>1. HistoryType' /\ Len(history') = Len(history) + 1 /\ Len(history) \in Nat
    BY <1>0, <1>6, LongerHistory
  <2>2. ASSUME NEW v \in Writers PROVE Grounded(v)'
    BY <1>0, <1>6, <2>1 DEF Grounded, Writer
  <2>3. QED
    BY <1>6, <2>1, <2>2 DEF MetadataInv
<1>7. ASSUME NEW l \in Link, PushLink(l) PROVE MetadataInv'
  <2>1. (IF l \in Master THEN Master \ {l} ELSE Master \cup {l}) \in SUBSET Link
    BY <1>0, MasterFacts
  <2>2. QED
    BY <1>0, <1>6, <1>7, <2>1 DEF PushLink, PullsType
<1>8. ASSUME NEW p \in pulls, MergePull(p) PROVE MetadataInv'
  <2>1. ((Master \ (p.from \ p.to)) \cup (p.to \ p.from)) \in SUBSET Link /\ PullsType'
    BY <1>0, <1>8, MasterFacts DEF PullsType, MergePull
  <2>2. QED
    BY <1>6, <1>8, <2>1 DEF MergePull
<1>9. CASE UNCHANGED mvars
  BY <1>9 DEF mvars, MetadataInv, HistoryType, PullsType, Grounded
<1>10. QED
  BY <1>1, <1>2, <1>3, <1>4, <1>5, <1>7, <1>8, <1>9 DEF MetadataNext

LEMMA MetadataSpecInv == MetadataSpec => []MetadataInv
BY MetadataInitInv, MetadataNextInv, PTL DEF MetadataSpec

LEMMA MetadataTypes == MetadataInv => MetadataTypeOK
<1> SUFFICES ASSUME MetadataInv PROVE MetadataTypeOK
  OBVIOUS
<1>1. \A w \in Writers : writer[w] \in Writer /\ writer[w].base <= Len(history)
  BY DEF MetadataInv, Grounded
<1>2. QED
  BY <1>1, MasterFacts DEF MetadataInv, MetadataTypeOK, HistoryType, PullsType, Writer, WriterStep, Retries

(***************************************************************************)
(* What the sync pushes to the metadata repository, however often it was   *)
(* rejected and whatever others pushed meanwhile: it touches the files     *)
(* that it read and no other, and what it changed or added is in it.  What *)
(* it removed is not in what it pushes first; after a rejected push it may *)
(* come back (meta.py, exit_mut; wptmeta, MetaFile.write).                 *)
(***************************************************************************)
THEOREM PushesKeepChanges == MetadataSpec => PushKeeps
<1>1. ASSUME MetadataInv, [MetadataNext]_mvars, NEW w \in Writers,
             writer[w].step = "fetched", writer'[w].step = "idle"
      PROVE  /\ history' # history => Delivers(w, Master, Master')
             /\ \A p \in pulls' \ pulls : Delivers(w, p.from, p.to)
  <2>1. PushMetadata(w)
    <3>0. DOMAIN writer = Writers
      BY <1>1 DEF MetadataInv
    <3>1. ASSUME NEW v \in Writers, v # w, writer'[w] # writer[w]
          PROVE  ~(ReadHead(v) \/ Fetch(v) \/ PushMetadata(v) \/ (\E u \in Urls : ResolveBug(v, u)) \/ \E l \in Link : LinkBug(v, l))
      BY <3>0, <3>1 DEF ReadHead, Fetch, ResolveBug, LinkBug, PushMetadata
    <3>2. ~(ReadHead(w) \/ Fetch(w) \/ (\E u \in Urls : ResolveBug(w, u)) \/ \E l \in Link : LinkBug(w, l))
      BY <1>1 DEF ReadHead, Fetch, ResolveBug, LinkBug
    <3>3. writer' # writer
      BY <1>1
    <3>4. QED
      BY <1>1, <3>1, <3>2, <3>3 DEF MetadataNext, PushLink, MergePull, mvars
  <2>2. Delivers(w, history[writer[w].base], Written(w)) /\ Written(w) \subseteq Link
    BY <1>1, WrittenFacts
  <2>3. history' # history => /\ writer[w].base = Len(history) /\ Len(history) < MaxHistory
                              /\ history' = Append(history, Written(w))
    BY <2>1 DEF PushMetadata
  <2>4. history' # history => Delivers(w, Master, Master')
    BY <1>1, <2>2, <2>3, MasterFacts, LongerHistory DEF MetadataInv
  <2>5. \A p \in pulls' \ pulls : p = [from |-> history[writer[w].base], to |-> Written(w)]
    BY <2>1 DEF PushMetadata
  <2>6. QED
    BY <2>2, <2>4, <2>5
<1>2. MetadataInv /\ [MetadataNext]_mvars =>
        \A w \in Writers : writer[w].step = "fetched" /\ writer'[w].step = "idle" =>
          /\ history' # history => Delivers(w, Master, Master')
          /\ \A p \in pulls' \ pulls : Delivers(w, p.from, p.to)
  BY <1>1
<1>3. QED
  BY <1>2, MetadataSpecInv, PTL DEF MetadataSpec, PushKeeps

(***************************************************************************)
(* Stored syncs and the metadata repository keep their types: what is      *)
(* pushed, stored, indexed and in memory has the shape the code gives it.  *)
(***************************************************************************)
THEOREM StoresTypesCorrect == StoresSpec => []StoresTypeOK
<1>1. StoresInit => StoreInv /\ MetadataInv
  BY InitInv, MetadataInitInv DEF StoresInit
<1>2. StoreInv /\ MetadataInv /\ [StoresNext]_<<vars, mvars>> => StoreInv' /\ MetadataInv'
  BY NextInv, MetadataNextInv DEF StoresNext
<1>3. StoreInv /\ MetadataInv => StoresTypeOK
  BY MetadataTypes, TypesOfStore DEF StoresTypeOK
<1>4. QED
  BY <1>1, <1>2, <1>3, PTL DEF StoresSpec
=============================================================================
