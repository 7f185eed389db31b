---------------------------- MODULE MetadataRepo -----------------------------
(***************************************************************************)
(* The wpt-metadata repository on GitHub and the two tasks that write to   *)
(* it: sync/meta.py, sync/wptmeta and their callers in sync/notify.  The   *)
(* triage task changes or removes the links to bugs that were resolved,    *)
(* and pushes to master; the notification of a sync adds links to new bugs *)
(* in a pull request.  People push to master too.                          *)
(*                                                                         *)
(* A Metadata object reads files of the commit that was the head when it   *)
(* was made.  It writes when its guard is left: in a loop, master is       *)
(* fetched, the files are read again with the changes applied, a commit on *)
(* top of master is made of them and pushed.                               *)
(***************************************************************************)
EXTENDS Integers, Sequences, FiniteSets, SequencesExt

CONSTANTS
  Files,       \* META.yml files
  Urls,        \* bugs that links go to
  Triage,      \* writers that resolve bugs and push to master
  Notifiers,   \* writers that add links in a pull request
  MaxRetry,    \* pushes that are tried (MAX_RETRY)
  MaxLinks,    \* bound: links that one notification adds
  MaxPulls,    \* bound: pull requests that are open
  MaxHistory   \* bound: commits on master

ASSUME MetadataAssumption ==
  Triage \cap Notifiers = {} /\ MaxRetry \in Nat \ {0} /\ MaxHistory \in Nat \ {0}

VARIABLES
  history,   \* the trees of the commits on master
  pulls,     \* the pull requests that are open
  writer     \* what each writer does

mvars == <<history, pulls, writer>>

Writers == Triage \cup Notifiers
Link    == [file : Files, url : Urls]
NoLink  == [file |-> "none", url |-> "none"]
Master  == Last(history)

\* The links in memory: as they were in the file (NoLink if they are new), and are now.
Item    == [was : Link \cup {NoLink}, now : Link]
Resting == [step |-> "idle", rev |-> {}, base |-> 0, loaded |-> {}, items |-> {}, gone |-> {}, retry |-> 0]

MetadataTypeOK ==
  /\ history \in Seq(SUBSET Link) /\ Len(history) \in 1..MaxHistory
  /\ \A p \in pulls : p.from \subseteq Link /\ p.to \subseteq Link
  /\ \A w \in Writers :
       /\ writer[w].step \in {"idle", "reading", "retrying", "fetched"}
       /\ writer[w].rev \subseteq Link /\ writer[w].base \in 0..Len(history)
       /\ writer[w].loaded \subseteq Files /\ writer[w].items \subseteq Item
       /\ writer[w].gone \subseteq Link /\ writer[w].retry \in 0 .. MaxRetry - 1

MetadataInit ==
  /\ \E l \in Link : history = <<{l}>>
  /\ pulls = {} /\ writer = [w \in Writers |-> Resting]

In(S, files) == {l \in S : l.file \in files}
Existing(S)  == {l.file : l \in S}
Loaded(S, files) == {[was |-> l, now |-> l] : l \in In(S, files)}

-----------------------------------------------------------------------------
(* Metadata, GitReader: master is fetched, and its head is what will be read. The triage *)
(* task looks at every file.                                                             *)
ReadHead(w) ==
  /\ writer[w].step = "idle"
  /\ LET files == IF w \in Triage THEN Existing(Master) ELSE {}
     IN  writer' = [writer EXCEPT ![w] = [Resting EXCEPT
           !.step = "reading", !.rev = Master, !.loaded = files, !.items = Loaded(Master, files)]]
  /\ UNCHANGED <<history, pulls>>

(* update_triage_bugs: bug u was invalid, and its links go, or a duplicate of v. *)
LinksTo(w, u) == {i \in writer[w].items : i.was.url = u}
ResolveBug(w, u) ==
  /\ w \in Triage /\ writer[w].step = "reading"
  /\ LinksTo(w, u) # {} /\ \A i \in LinksTo(w, u) : i.now = i.was
  /\ \/ writer' = [writer EXCEPT ![w].items = @ \ LinksTo(w, u),
                                 ![w].gone = @ \cup {i.was : i \in LinksTo(w, u)}]
     \/ \E v \in Urls \ {u} :
          writer' = [writer EXCEPT ![w].items =
            (@ \ LinksTo(w, u)) \cup {[i EXCEPT !.now.url = v] : i \in LinksTo(w, u)}]
  /\ UNCHANGED <<history, pulls>>

(* link_bug: the bug was filed for this, so nobody has the link.  Its file is loaded. *)
LinkBug(w, l) ==
  /\ w \in Notifiers /\ writer[w].step = "reading"
  /\ l \notin UNION ToSet(history) /\ \A i \in writer[w].items : i.now # l
  /\ Cardinality({i \in writer[w].items : i.was = NoLink}) < MaxLinks
  /\ LET loads == {l.file} \ writer[w].loaded
     IN  writer' = [writer EXCEPT ![w].loaded = @ \cup loads,
           ![w].items = @ \cup Loaded(writer[w].rev, loads) \cup {[was |-> NoLink, now |-> l]}]
  /\ UNCHANGED <<history, pulls>>

-----------------------------------------------------------------------------
(* exit_mut. *)

Fetch(w) ==
  /\ writer[w].step \in {"reading", "retrying"}
  /\ w \in Notifiers => writer[w].items # {}
  /\ writer' = [writer EXCEPT ![w].step = "fetched", ![w].base = Len(history)]
  /\ UNCHANGED <<history, pulls>>

(***************************************************************************)
(* MetaFile.write: the links of the file, read again, without those that   *)
(* were removed or are changed, and with those in memory.                  *)
(***************************************************************************)
UpdateData(w, S) ==
  (S \ (writer[w].gone \cup {i.was : i \in writer[w].items})) \cup {i.now : i \in writer[w].items}

(* The new tree: what is read again is read from the head that the reader began with. *)
MutantWritten(w) ==   \* what is in memory is not written where the file has no link
  LET base == history[writer[w].base]
      old  == In(writer[w].rev, writer[w].loaded)
  IN  (base \ In(base, writer[w].loaded)) \cup In(UpdateData(w, old), Existing(old))
Written(w) ==
  LET base == history[writer[w].base]
  IN  (base \ In(base, writer[w].loaded)) \cup UpdateData(w, In(writer[w].rev, writer[w].loaded))

(* The push is rejected: the changes count as written. *)
Again(w) ==
  IF writer[w].retry + 1 = MaxRetry THEN Resting
  ELSE [writer[w] EXCEPT !.step = "retrying", !.retry = @ + 1, !.gone = {},
                         !.items = {[was |-> i.now, now |-> i.now] : i \in @}]

PushMetadata(w) ==
  LET base    == history[writer[w].base]
      tree    == Written(w)
      changed == writer[w].step = "fetched" /\ tree # base
  IN  \/ /\ writer[w].step = "fetched" /\ tree = base
         /\ writer' = [writer EXCEPT ![w] = Resting]
         /\ UNCHANGED <<history, pulls>>
      \/ /\ changed /\ w \in Notifiers /\ Cardinality(pulls) < MaxPulls
         /\ pulls' = pulls \cup {[from |-> base, to |-> tree]}
         /\ writer' = [writer EXCEPT ![w] = Resting]
         /\ UNCHANGED history
      \/ /\ changed /\ w \in Triage /\ writer[w].base = Len(history) /\ Len(history) < MaxHistory
         /\ history' = Append(history, tree)
         /\ writer' = [writer EXCEPT ![w] = Resting]
         /\ UNCHANGED pulls
      \/ /\ changed   \* somebody pushed first, or the network failed
         /\ writer' = [writer EXCEPT ![w] = Again(w)]
         /\ UNCHANGED <<history, pulls>>

-----------------------------------------------------------------------------
(* Other people. *)

PushLink(l) ==
  /\ Len(history) < MaxHistory
  /\ history' = Append(history, IF l \in Master THEN Master \ {l} ELSE Master \cup {l})
  /\ UNCHANGED <<pulls, writer>>

MergePull(p) ==
  /\ Len(history) < MaxHistory
  /\ history' = Append(history, (Master \ (p.from \ p.to)) \cup (p.to \ p.from))
  /\ pulls' = pulls \ {p}
  /\ UNCHANGED writer

MetadataNext ==
  \/ \E w \in Writers :
       \/ ReadHead(w) \/ Fetch(w) \/ PushMetadata(w)
       \/ \E u \in Urls : ResolveBug(w, u)
       \/ \E l \in Link : LinkBug(w, l)
  \/ \E l \in Link : PushLink(l)
  \/ \E p \in pulls : MergePull(p)

MetadataSpec == MetadataInit /\ [][MetadataNext]_mvars

-----------------------------------------------------------------------------
(***************************************************************************)
(* What the sync pushes, however often it is rejected and whatever others  *)
(* pushed meanwhile: it touches the files that it read and no other, every *)
(* link that it changed or added is in it, and, if it was not rejected     *)
(* before, no link that it removed.  (More is not kept: see the README.)   *)
(***************************************************************************)
Delivers(w, from, to) ==
  LET now == {i.now : i \in writer[w].items}
  IN  /\ \A l \in (from \ to) \cup (to \ from) : l.file \in writer[w].loaded
      /\ now \subseteq to
      /\ writer[w].retry = 0 => to \cap writer[w].gone \subseteq now
PushKeeps ==
  [][\A w \in Writers : writer[w].step = "fetched" /\ writer'[w].step = "idle" =>
       /\ history' # history => Delivers(w, Master, Master')
       /\ \A p \in pulls' \ pulls : Delivers(w, p.from, p.to)]_mvars
=============================================================================
