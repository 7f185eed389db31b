# A TLA+ model of wpt-sync

wpt-sync keeps the copy of web-platform-tests in mozilla-central and the
upstream wpt repository in step. This directory models the part of it that
keeps state and decides: locks, landings, downstream and upstream syncs, the
tasks of try pushes, the stored data and the metadata repository. Every definition is translated from the source; `PROJECT.json` names the
lines each one stands for.

    tlc -config landing.cfg MCLanding.tla       # a run; PROJECT.json lists them all
    tlapm Landing_proofs.tla                    # the proofs of a module

## 1. The system

A single Celery worker (`--concurrency=1`, docker/start_wptsync.sh) takes tasks
from a queue: GitHub and Pulse messages that `listen.py` forwards, `land`,
`retrigger` and some periodic ones. Each task runs under one task lock
(`tasks.py`), loads objects that are stored as JSON in a git ref, runs a handler
(`handlers.py`), and stores the objects back. Operators run `wptsync` commands
beside it (`command.py`): the same code in another process, without the task lock.

| part | state it keeps | operations | what makes it correct |
|------|----------------|------------|-----------------------|
| locks: lock.py, tasks.py, CommitBuilder of base.py | lock files, `Lock.locks` of each process, nested `with` blocks and guards | enter, acquire, exit, as_mut, exit_mut | one process mutates an object or commits; everything is given back; nobody waits in a circle |
| landing: landing.py | landing sync (wpt range, gecko commits, error, status), its try pushes, sync point in the tree | update_landing, try_push_complete, push_to_gecko, gecko_push | one landing at a time; what is pushed was tested; no PR is skipped or landed twice; downstream syncs finish only for what was pushed |
| downstream: downstream.py | sync of a PR: wpt commits, gecko commits, metadata commit, bug, skip, error | new_wpt_pr, update_pr, next_try_push, try_push_complete, update_commits | what lands was tested; metadata is not lost; expensive try pushes are not repeated; a merged PR is settled |
| try pushes: trypush.py, tc.py | status, revision, task group, infrastructure failure | create, poll_try_rev, completion | complete exactly once; its tasks are complete when it is |
| upstream: upstream.py | sync of a bug: gecko and wpt commits, PR, status | gecko_push, create and update syncs, update_github, try_land_pr, update_pr | a PR is merged only when its commits are in gecko, backouts close it and relandings reopen it |
| store: base.py, index.py, sync.py | JSON per process name, indexes by status, PR and bug, an identity map in memory | create, load, status, finish, delete, index save | an index agrees with the data; nothing is overwritten from a stale object |
| update: update.py, handlers.py | none of its own | update_pr, update_push, retrigger, update_taskgroup_ids | a lost message is made up for |
| commits: commit.py, gitutils.py | ranges, notes | move_commits, cherry_pick | content; outcomes are inputs here |
| metadata: meta.py, wptmeta | a repository others push to | exit_mut: commit, push, retry | no update is lost |
| clients: gh.py, bug.py, lando.py, wptfyi.py, notify/ | caches for one task | calls | pure I/O |

The parts meet in five places. Messages: an event is one task, which is
retried on a RetryableError (six times at most) and otherwise lost when it
raises. Callbacks: update.py queues tasks that look like GitHub events. Shared
state: handlers and commands load the same stored objects, under process locks.
Landability: a landing asks each sync of a PR whether it is landable, and
finishes it when it has pushed it. Git: local refs are as old as the last
`update_repositories`.

What is hard in this code: commands against the worker; state that is read
before a lock is waited for or a fetch; a step that fails half-way in a guard
that saves what it has all the same (`MutGuard.__exit__`); events that are lost,
late or retried; try pushes that end in a dozen ways; backouts.

## 2. The modules

| module | models | composes |
|--------|--------|----------|
| `SyncLocks` | lock.py, with_lock, CommitBuilder's lock | - |
| `Landing` | landing.py with handlers, the land task and `wptsync landing` | the landing lock of `SyncLocks` as a mutual exclusion (`LockFree`) |
| `LandingCommits` | landable_commits, apply_prs, retrigger, `set-pr` | the commits that `Landing` takes as one input (`LandableHead`, `Out`) |
| `TaskGroup` | tc.py, TryPushTasks, the handlers of finished tasks | the results that are inputs of `Landing` and `Downstream` (`TryEnds`) |
| `Downstream` | downstream.py with PR, try push and retrigger handlers | `Landing` as the step `Land` |
| `Upstream` | upstream.py with push, PR and check run handlers and commands | implements `ChangeFlow` |
| `ChangeFlow` | what upstreaming promises | - |
| `SyncStore` | base.py, index.py, sync.py: stored data, branches, indexes, the identity map | the locks of `SyncLocks`, one for a group of syncs |
| `MetadataRepo` | meta.py, wptmeta, the callers in notify | - |
| `SyncLocks_proofs`, `Landing_proofs`, `Downstream_proofs`, `Upstream_proofs`, `TaskGroup_proofs` | theorems of the module of that name | |
| `UpstreamFlow_proofs` | theorems of `Upstream` about what reaches wpt, with the refinement | |
| `Stores_proofs` | theorems of `SyncStore`, of `MetadataRepo` and of `MCSyncStore` | |
| `LandingCommits_proofs` | theorems of `LandingCommits` and of `MCLandingParts` | |
| `MCSyncLocks`, `MCLanding`, `MCLandingParts`, `MCUpstream`, `MCSyncStore`, `MCDownstream` | sets the .cfg files cannot write | `MCLandingParts`: `TaskGroup` and `LandingCommits`; `MCSyncStore`: `SyncStore` and `MetadataRepo` |

The two composed MC modules only save a run: their parts do not act on each other, so
one moves while the other is in an initial state.

Mutated definitions (`Mutant...`) stand before what they replace. They are not
used by the specifications; each shows that a property can fail.

### SyncLocks

`stack[p]` is the nesting of `with` blocks of process p, `locks[p]` the class
dictionary `Lock.locks`, `file[l]` who holds the lock file, `waiting[p]` where a
process blocks in `acquire`. `MayEnter` collects the places of the code that take
a lock, by what may be held there. `Failures` lets acquire or create_commit raise.
`MaxDepth` bounds the nesting (the code's is at most task, landing, upstream,
downstream, repository).

### Landing

PR n is the n-th commit of wpt master. A landing sync holds its range, whether its
commits are `built`, the `tree` (sync point) it is based on, its error and its try
pushes. `autoland` is the history of landings and backouts, `central` how much of
it is merged, `local` what the local refs have, `seen` what gecko_push processed.
`update_landing` is two steps: `ReadCurrent` reads the current landing and the sync
point before the lock, `NewLanding` and `UpdateLanding` are the rest;
`NotifyDownstream` is the third, since the process may die in between. Any other
handler is one step. Outcomes of a call are a set of records (`Out`), so that
failure is one more element and its order in the code is kept. `queued` counts the
retries of the land task that waits or runs; start_next_landing alone queues it, a
RetryableError (the try tree is closed) brings it back `MaxRetries` times at most, and any
other error of it ends it (`Gone`). `accept` of a try push is its accept_failures; `waived`
is a history variable that says that update_landing went on from it because the call had
--accept-failures, which the code does not record.

Abstractions: commits are numbers; landings are backed out newest first and the
backout restores `mozilla-sync`; lando keeps the identity of what it lands; a PR
once landable stays so; CommandStart and DoLanding read fresh refs;
`--prev-wpt-head`, `--wpt-head`, `--include-incomplete`, the rebase for an old mach
and wpt_push are left out. A try push has one result for all its tasks. Bounds: `N`
PRs, `MaxLandings`, `MaxTries`, `MaxBackouts`; two of each (three try pushes: ordinary,
stability, one retry) are the least at which landings follow each other, a
backout meets the next landing, and a retry replaces a try push. `MaxRetries` is 6 in the
code and 2 or 1 in the runs: a delivery that is retried, and one that is the last.

### Downstream

`gh` and `head` are the PR on GitHub, `ref` its head in the local repository,
`events` the webhook events that are not handled. A sync keeps the version its gecko
commits come from (`of`), what they are based on, its metadata commit (`meta`) and the
stashed one (`stash`), the two flags error and skip and whether it has a bug. A try
push records the commits it tested. A handler is one step: the worker is alone, and
commands that interleave with it are left to `SyncLocks` and `Landing`. The chain of
calls is kept: `HandlePr` is handle_pr, which calls `NewWptPr` and `UpdatePr`, which call
`NextTryPush`, which calls `UpdateCommits`, `AffectedTests`, `NextAction`, `TryRebase` and
`CreateTry`; each returns the set of its outcomes with what it raised. `Land` is the
step of a landing that takes the PR.

Abstractions: events of one PR arrive in order, those of different PRs and of try
pushes in any; a retried event stays where it was; contents are versions; whether a
version affects tests, renames tests or applies to nothing is a constant; a metadata
commit is a number that grows when it changes; the order of PRs in a landing, the
limit of five busted try pushes, try_notify, the GitHub check (but for its assertion)
and `force-metadata-ready` are left out. Bounds: `MaxHeads` = 2 (a push that makes the earlier
try push, metadata and commits stale), `MaxTries` = 3 (an ordinary or failed one, a
repeated one, one more), `MaxEvents`, `MaxMeta`, `MaxBase`.

### Upstream and ChangeFlow

Commit n is the n-th commit of autoland that touches wpt: a change for a bug, or a
backout. `log` are the commits, `central` how many of them are on central and `known`
how many the local ref has, `point` the sync point of each branch, `noted` the commits
with an upstream-sync note, `master` the changes on wpt master. A sync has the range of
its gecko commits (`base`, `head`), the commits its local branch has wpt commits for
(`wpt`), what the branch forks from (`on`), its PR and the branch on GitHub (`sent`).
`gecko_push` is `GeckoPush` (the sync point, `Take`: updated_syncs_for_push,
create_syncs, update_sync_heads), then `Update` for each sync it touched, `Land` for each
open one, and `Done`: every step writes to GitHub and may fail, and the worker may die
between them. The other entries, which are one sync's work under the lock, are one
action each: `UpdateSync` (the command), `RefreshPr`, `PrMerged`, `CheckRun`.
An AbortError of update_wpt_commits ends `UpdateModifiedSync` only for a sync without a PR; with
one, `UpdateGithub` goes on with the part that was applied and the error is cleared.

`ChangeFlow` says for each bug: when all its changes that gecko is known to have are on
central, wpt master may be brought to exactly these. The refinement mapping takes for
"known" what gecko_push has processed or is processing (`Seen`), so that every merge of a
PR has to be a whole delivery of the bug.

Abstractions: a patch is the set of the changes it makes and of those it undoes, and
applies where they are not, or are; pr_status, comments, the merge style, git notes of the
canonical hash, empty patches, the retry on the landing's sync point after AbortError,
from_pr, and what happens to a sync without a bug after its bug is filed (`filed`) are left
out. Bounds: `MaxCommits` = 4 is two bugs with two commits each or a change, its backout and
two more; at most one backout of a bug is not handled yet unless "two" is in
`Backouts`.

### TaskGroup

`group` is the task group on Taskcluster, from tasks to their states; `<<t, n>>` is the
n-th copy of task t. `decision` tells if the decision task has created all of them, `known` if the
try push has the group's id, `woken` if an event is to be handled, `push` the try push with
the verdict on it. `Incomplete` is task_is_incomplete as a recursive function; `Failures`,
`Retriggered` and `Copies` are retriggering; `LandingJudges` and `DownstreamJudges` are the
two try_push_complete with the results they can have. The environment creates, schedules, runs and
expires tasks, as Taskcluster does.

Abstractions: pending is running; Taskcluster's own reruns are left out; exceptions come
from the deadline only (`Ends`). Bounds: a build with an image, its test, and four tests
that need a signing task: the least where an unscheduled task waits for another
unscheduled one, and where more than half of the tests can fail. RetriggerCount is 4 (the code's
is 6), so that a round in which createTask failed in part is still retriggered once more.

### LandingCommits

`master` gives the PR of each upstream commit, `base` the sync point, `status` what the sync of
a PR is, `landing` the landing with its gecko commits. `LandableCommits` is the loop over the
groups of `Groups`; `ApplyPrs` the set of the outcomes of apply_prs, which may fail before any PR
(`Steps`), and goes on from `LastApplied`. `Again` is the recomputation of the commits by
update_landing for a landing that exists, and `Goes` its checks.

Abstractions: a commit's content is its number; master is linear; a PR's status does not go
back once it is landable. Bounds: three PRs and four commits, so that PRs interleave, and
one lies between two others.

### SyncStore

`refs` are the branches, `data` the stored JSON, `index` the entries of the three indexes,
`lock` the process locks, `mem` the identity map of each process (what it read or saved last, and
what it has now), `mutable` its open guards and `pend` its index changes, which the code keeps
on the class. A process begins a task by taking the lock, or, with "early", by loading
a sync before that. Creation and deletion are several steps, in the order of the code; a guard
writes data and indexes in one commit.

Abstractions: one process mutates syncs of one group at a time; landing syncs are stored as
upstream syncs are; the indexes of try pushes, index builds, a commit that fails and a
creation that fails are left out. Bounds: one PR, one bug, two statuses, four tasks of two
processes: the third task sees what two have left, the fourth what is left of a crash. With
two syncs of the bug (MaxSeq = 1, MaxTasks = 3) the run has 3.0M states and passes.

### MetadataRepo

`history` are the trees of wpt-metadata's master, `pulls` the open pull requests, `writer` what
a writer does: the commit its reader keeps (`rev`), the links in memory with what they were in
the file, those that were deleted (`gone`), the files that were loaded, and the head it
fetched (`base`). `ReadHead`, `ResolveBug` and `LinkBug` happen before the guard is left; `Fetch`
and `PushMetadata` are the loop of exit_mut, with a rejected push between them.

Abstractions: a link is a file and a bug; labels, products and statuses are data. A push that
fails raises GitCommandError, as exit_mut expects. Bounds: two files, two bugs, two
retries, three commits on master, one link that a notification adds, one open pull request.

## 3. The runs

| run | states | what it shows |
|-----|--------|---------------|
| `locks` | 255,281 | TypeOK, MutationExclusive, CommitExclusive, IdleHoldsNothing, NoCyclicWait for a worker and a command that nest locks five deep and may be killed |
| `locks_failures` | 588,560 | MutableHeld also when acquire and create_commit raise |
| `landing` | 86,809 | the worker alone, two PRs in two landings, every failure: TypeOK, OneOpenLanding, TreeMatchesSyncPoint, DoneWasPushed, CompleteWasNotified, and LandingFinishes under FairSpec |
| `landing_command` | 714,588 | an operator's command with --retry and --accept-failures against the worker, either may die: OlderTriesComplete, and PushedWasTested, where every try push that counts has passed or was itself one whose failures the operator accepted |
| `landing_parts` | 740,651 | a try push is judged when it is over and not before, and retriggered once (JudgedWhenOver, JudgedAtRest, RetriggersBounded); whole PRs land, in order, once, wherever a landing failed (LandsPrefix, Resumable, AppliedOnce) |
| `downstream` | 21,753 | one PR, two pushes, events queued three deep, faults of every call: TypeOK, NotRetested, LandedWasTested, MetadataKept, MergedIsSettled |
| `downstream_reverts` | 264,429 | a PR and one that reverts it: LandedWasTested |
| `upstream` | 583,699 | two bugs, autoland's pushes, backouts and relandings, PRs closed and reopened by others, bugs and needinfos that fail: Covered, MergedWhole, and FlowSpec, the refinement of `ChangeFlow` |
| `upstream_faults` | 1,030,570 | one bug, both branches, every kind of backout, commands, other people's edits, every failure and the death of the worker: TypeOK, OneOpenSync, FinishedMerged, ClosedUntouched |
| `upstream_live` | 42,333 | Delivered under FairSpec, pushes to both branches in any order |
| `store` | 1,155,620 | two processes create, change and delete syncs and die between any two writes: Indexed, OnePerPr, NotLost; two writers of the metadata repository among others: PushKeeps; StoresTypeOK for both |
| `first_backout` | violation | MergedWhole: a backout of the first of two changes merges the wrong one |

Deadlock is checked for the locks. The other models may stop: the bounds are used up,
or an operator is needed. The longest run takes about three minutes with two workers.

Which faults a passing run includes decides what it claims, so here they are.
`landing` has no command and no backout after the merge to central; `landing_command` has
no backout, and CompleteWasNotified is not claimed there, since a process that dies
after the push, or a lost answer of lando, leaves syncs unfinished. LandingFinishes asks
that a landing is finished, or waits for an operator and shows it (`NeedsOperator`: an error, or
a complete last try push, also one that passed, section 5, "try closed"), or is `Unnoticed`:
it stopped before its first try push, and neither it nor the queue has a trace of that (section 5,
"silent stop"). A landing with a try push never stops without showing it. `downstream` leaves
out the faults `conflict`, `rebase`, `refused`, `lost`, `stale`, `late` and `abandon`;
section 5 says what happens with each that breaks a property. `NoBug` is empty in the
runs of Landing: with a bugless sync the loop of NotifyDownstream stops. `upstream` has
autoland only, whole backouts or those of the last change, and of the failures those that stop
no push half-way: `Calm`, under which its properties are proved; `upstream_live` has no relandings; what
breaks with more is in section 5. `store` has all its faults, and the properties exempt what
`spoiled` collects and a sync that was read before the lock. JudgedWhenOver exempts the race that
the TODO in task_is_incomplete names (`early`); JudgedAtRest exempts a task that depends on nothing but its image and
copies of a task that cannot run; Resumable and AppliedOnce are for PRs that are not interleaved.

### Fairness

`FairSpec` of Landing: the worker handles its queue, tasks end, autoland is merged,
PRs are tested. Weak fairness suffices because a message waits until it is handled.
The land task is handled each time it is delivered, and delivered `MaxRetries` more times at
most. Nothing is assumed of commands, backouts or crashes. `FairSpec` of Downstream: the
worker handles each PR's events, fetches, and runs the retrigger task, which Celery's
beat schedules (worker.py); decision tasks and tasks end. Nobody must merge, push or
land. `FairSpec` of Upstream: the steps of a running push (`Work`); the push event of the
last commit of each branch, which pulse keeps in its queue until it is read, and which
covers those before; and the check run that finds the PR ready to be merged
(`Merges`). Gecko need not become quiet: `Delivered` speaks of the runs where it does.

## 4. What is proved

Every theorem is about the specification of its module, for every value of the constants that
the named ASSUMEs of the modules allow. A condition in the second column is one on the constants
that say which failures occur; every other failure may occur.

| theorem (property) | if | argument |
|---------|-----------|----------|
| **SyncLocks_proofs** LockInvHolds, TypeCorrect | | `LockInv`: a block that owns its file holds it and is the outermost for its lock, a holder is inside such a block |
| MutationIsExclusive (MutationExclusive), MutableIsHeld (MutableHeld) | | a guard is inside a block of a lock whose file the process holds |
| CommitIsExclusive (CommitExclusive) | acquire never raises | what is registered in Lock.locks is held |
| LocksGivenBack (IdleHoldsNothing) | create_commit never raises | a holder is inside the block that owns the file |
| NobodyWaitsInACircle (NoCyclicWait) | create_commit never raises | locks have ranks (task, landing, upstream, downstream by descending PR, repository): who waits holds only locks of a lower rank |
| **Landing_proofs** LandingInvHolds, TypeCorrect | | `LandingInv` |
| WorkerHasOneLanding (OneOpenLanding) | no commands | a worker that creates a landing found none (`Alone`) |
| FinishedSyncsWerePushed (DoneWasPushed) | no command with --no-push | who is about to notify has pushed its landing (`NotifyPushed`), and what is pushed stays in the history of autoland |
| CompleteReachedCentral (CompleteIsOnCentral) | every sync has a bug | local refs are behind the remote (`RefsBehind`) and only a commit on central finishes a landing |
| OnlyLatestTryOpen (OlderTriesComplete) | | a try push is created only after the last one is complete (`AllOrderly`) |
| PushesWereTested (PushedWasTested) | | the tries of a landing are in an order (`AllOrderly`) in which an ordinary one that passed, or whose failures were accepted, comes before a stability one |
| SyncPointIsWhatIsThere (TreeMatchesSyncPoint) | no commands, no late backouts, every sync has a bug | what is on autoland is a stack of ranges (`Stacked`), an open landing starts at its top (`Based`), and what the worker read before the lock is still so (`ReadIsRight`) |
| CompleteSyncsWereFinished (CompleteWasNotified) | every sync has a bug, no lost answer of lando, no crash | a pushed landing has told its syncs, or a process is about to (`Informed`) |
| **Downstream_proofs** DownstreamInvHolds, TypesCorrect (TypeOK) | | `DownstreamInv`, below |
| TestedOnce (NotRetested) | | of two complete try pushes of the same commits, the first gave no results (`Ordered`) |
| MetadataStays (MetadataKept) | the cherry-pick of the stashed commit does not fail | a step leads to a `Later` sync, whose metadata or stash is at least as new |
| LandsOnlyTested (LandedWasTested) | no event is lost, early or late, and no revert is given up | `Calm` and `Quiet` of `DownstreamInv` |
| **Upstream_proofs** UpstreamInvHolds, TypesCorrect (TypeOK) | | `UpstreamInv`: syncs fit their refs and PRs (`AllFit`), what a job has still to do are syncs that exist (`TodoOpen`) |
| OneSyncPerBug (OneOpenSync) | | `OneOpen`: no step opens a sync again, and create_syncs makes one only for a bug that has none |
| FinishedWasMerged (FinishedMerged) | | `AllMerged`; each call gives a sync that `Follows` the one before, also the one that goes on after a failed apply |
| ClosedBranchesKept (ClosedUntouched) | | the last conjunct of `Follows`: who pushes has reopened the PR |
| **UpstreamFlow_proofs** FlowInvHolds | `Calm`, below | `FlowInv`, below |
| EverythingCovered (Covered) | `Calm` | `Headed`: an open sync has all commits of its bug from its base on; `MasterFlows`: without one wpt master has what gecko has |
| MergesAreWhole (MergedWhole) | `Calm` | a step is `Quiet`, or `Lands` one sync that is `Settled` |
| ImplementsChangeFlow (FlowSpec) | `Calm` | the same: quiet steps are steps of gecko or stutter, and what lands is a delivery of the bug |
| **Stores_proofs** TypesCorrect | | `StoreInv`, below |
| OneSyncPerPr (OnePerPr) | | `Owned`: a PR made by a person has a downstream sync only, one that wptsync made belongs to the sync that made it |
| IndexesMatchData (Indexed) | | `Pending` and `Kept`: entries are those of the data, or become those of the memory of a guard once its `pend` is applied, or are on their way in or out |
| NoUpdateLost (NotLost) | | `Held`: what a process read under the lock is still what is stored |
| PushesKeepChanges (PushKeeps) | | `MetadataInv`: what a writer changed, added or removed is in files that it loaded. Removals are claimed for the first attempt only (section 5) |
| StoresTypesCorrect (StoresTypeOK) | | the invariants of both parts, of which a step moves one |
| **TaskGroup_proofs** TaskInvHolds, TypeCorrect | | `TaskInv`: the tasks of a name are numbered without a gap |
| RetriggersOnce (RetriggersBounded) | | a name gets copies only while it has fewer tasks than count as retriggered, at most one round of them: twice their number is at most Max({2, RetriggerCount}) + 2 * RetriggerCount |
| GroupInvHolds | | `GroupInv`: a task that began has its dependencies completed (`InOrder`), a task exists after those it needs (`Ordered`), a verdict is one on a whole group (`Looked`) |
| NobodyWaits (JudgedAtRest) | there is a task | below |
| OverWhenJudged (JudgedWhenOver) | `ImagesFirst`, `NoTestBuilds` | below |
| **LandingCommits_proofs** PartsAreBoth | | the run of `MCLandingParts` is a behaviour of `TaskGroup` and of `LandingCommits` |
| LandingTypesHold, PartsTypesHold (PartsTypeOK) | | types, which include what apply_prs adds |
| PrefixLands (LandsPrefix) | | from the types: what the folds compute, below |
| CommitsInvHolds | `NoEmpty` | `CommitsInv`, below |
| AlwaysResumable (Resumable) | `NoEmpty` | the last gecko commit tells the work that is done (`Applying`), and what was pushed since does not change the groups taken (`OneGrouping`) |
| PrsAppliedOnce (AppliedOnce) | `NoEmpty` | of the same work there is one sequence of commits (`ProgressSame`), the one that AppliedInOrder writes down |

No property above but the types is inductive, and JudgedAtRest, given `GroupInv`. Five of the
invariants are more than a strengthening by a fact or two, and two arguments are about what
recursion computes:

- `LandingInv` has to follow a worker over three steps between which autoland, central, commands and other
  processes move. Each step lemma shows `Keeps`, a small set of facts from which `KeepsInv` gets
  the invariant once.
- `StoreInv` describes every half-done creation and deletion, also of a process that died: a branch
  without data, data without entries, entries without data. What a dead process left is in
  `spoiled`, as Indexed says.
- `DownstreamInv` is `Good` (a sync fits the ref of its PR, its try pushes fit the sync), `World` (GitHub, the
  refs and the events agree) and, if no event is lost, early or late and no revert is given
  up, `Calm` (a try push of a merged PR is of its last commits, a skipped sync is excused
  by its revert, known results are of the commits of the sync) and `Quiet`
  (`Told`, `First`, `Due`: events that wait make up for a sync that is missing, open
  or outdated). Each of the handlers' calls is `Sound`: from a good state it leads to a good one
  in which the other syncs change as it may change them; `Sound` composes, as the handlers do. TLC checked it on the
  instances of the runs, and with every fault, before it was proved.
- `FlowInv` relates three histories of a bug: gecko's log, the range of the sync, and wpt master.
  A patch is a set of changes and of those it undoes, so that what is compared are sets:
  the commits of a range (`Span`) without those that cancel (`Unpaired`), and what a
  patch makes of a set of changes (`After`). `Rooted` says that master has what gecko had where the sync
  begins, `Headed` that the branch begins as the gecko commits do, `Settled` that
  after its update it has them all. LiveGrows, HeadSuffices and PushAgrees carry it over a
  push; everything else keeps it.
- `CommitsInv` finds the state of apply_prs in the gecko commits alone, as the code does. The work on
  group g is numbered 2g and 2g + 1 (its PR, its metadata); `Progress` says that the commits are
  those of all the work up to a number, and `Found` reads the number off the last commit. It holds while the
  PRs of the landing are not interleaved with others (`Alone`); master and the
  statuses of syncs may change meanwhile.
- JudgedAtRest and JudgedWhenOver are about task_is_incomplete, a recursive function over the graph of
  tasks. `Incomplete` is characterised without recursion, as the least set of tasks that contains
  what runs and what waits for it. If something waits when nothing runs, a
  minimal such task exists, of which all dependencies are resolved; it could run. For the
  other, the tests that are left when nothing is incomplete are a set of which each has ended
  badly or waits for one in the set (`Blocked`), which no step can leave.
- LandsPrefix is about folds over the commits. A fold is a function on the numbers up to n whose value at a
  step follows from the one before (FoldNext), and what holds at every step is the
  set of numbers at which it holds, to which well-founded induction applies. `GroupsOf` says
  what groups are: whole PRs, in the order of their last commits; there is only one such
  sequence (`OneGrouping`).

`Calm` of Upstream: one branch is handled; backouts are whole or of the last change; others only
close and reopen PRs; of the failures there are those of filing a bug and of a needinfo. `ImagesFirst`: the
images of a task are needed by the other tasks it depends on. `NoTestBuilds`: no test is a
build, or there are no stability try pushes. `NoEmpty`: no downstream PR is without a change.

The conditions are needed. TLC finds the properties violated without any part of `Calm`, and without any of
the other three; section 5 says what happens where they fail. A cherry-pick that conflicts loses the metadata commit; a lost, stale or late event, or a revert that is given up,
lands commits that were not tested; a late backout, or a command beside the worker, leaves
autoland and its sync point apart; a lost answer of lando or a crash leaves a complete
landing whose syncs were not told.

CompleteIsOnCentral is proved only. Only model-checked is liveness, which needs
ENABLED: LandingFinishes, MergedIsSettled, Delivered. Every other property of a passing run
is stated by a theorem.

## 5. Disagreements between code and documents

One has a run (`first_backout`, `findings` in PROJECT.json). The others were found while
modelling, most by running a configuration with the constant or fault named, and have none:

Locks
- `Lock.__enter__` registers the path before `acquire`; if acquire raises, the entry stays
  and later CommitBuilders commit without the lock (CommitExclusive fails with
  Failures = {"acquire"}).
- `CommitBuilder.__exit__` releases its lock only after create_commit; if that raises, the
  lock is held until the process ends (IdleHoldsNothing fails with {"commit"}).
- docs/user-guide.md:41 says only one task may run at a time; commands do not take the
  task lock.

Landing
- Two landings: current() is read before the landing lock is waited for (landing.py:1157); a command
  and the worker then both create one, and current() raises from then on, against "the
  invariant that there is only one" (landing.py:1537). OneOpenLanding fails with a command in the
  configuration of `landing`.
- Stale sync point: the sync point is read before update_repositories (landing.py:1158). If a landing
  is backed out after its merge to central (`LateBackouts`), the next one starts at the old sync
  point on a tree without it: the PRs of the backed out landing are in neither, against "prevent
  divergence from upstream" (landing.py:610). TreeMatchesSyncPoint fails.
- `--no-push` finishes: landing.py:1260 notes a push whether or not allow_push is set (1155), so that
  the downstream syncs are finished for a landing that was not pushed. DoneWasPushed fails.
- Try closed: the try tree is closed when the stability try push is due (trypush.py:378). The retried
  event finds the passed try push complete (landing.py:1309) and returns; nobody creates the next
  one, against "Trees are closed. - Retry." (docs/behaviour.md:163).
- Silent stop: when a PR of a new landing does not apply, the AbortError of apply_prs leaves
  update_landing (landing.py:1230-1238) and nothing sets the error of the landing, as
  record_rebase_failure does at 1244 and 1256. The same is left when the try tree is closed at the last of
  the six retries of the land task (tasks.py:109). The landing is open, without error and try push,
  nothing is queued for it, and it keeps others from starting: only start_next_landing queues the
  task, when a landing is finished. LandingFinishes fails without `Unnoticed`.
- `do_landing` does not give --no-push to the inner update_landing (command.py:428).
- A stability try push with too many failures is marked complete (landing.py:1346)
  against the docstring (1303).
- A PR commit without a bug names the landing's, and finishes it on autoland
  (landing.py:1546).
- No timer queues the land task (docs/behaviour.md:109 reads as if one did).

Commits of a landing
- A PR whose commits are interleaved with another's moves to its last place in
  `unlanded_wpt_commits_by_pr`: in A1 B1 A2, with B not landable, the head is A2 and B1 lands with A
  (docs/behaviour.md:115), and the landing cannot be continued. Hence `Contiguous` in LandsAll,
  Resumable and AppliedOnce.
- Commits without a PR are lost before an unchanged upstream PR, and when a landing is
  resumed with no PR applied yet, against the docstring of apply_prs (landing.py:605-618).
- A landing created with --include-incomplete cannot be continued by the worker, which
  computes fewer commits (landing.py:1215).
- A downstream PR without a change makes no gecko commit; resuming after it raises "Expected
  an existing gecko commit" every time.
- wpt_commit is overwritten in the loop over a merge (landing.py:993), so that the group ends with
  the last commit merged in and the merge would land again; first_non_merge raises where it is
  meant to give None (landing.py:1041).
- unlanded_with_type calls a commit without a PR "no_sync", so that retrigger asks GitHub for
  PR 0; has_metadata_for_sync compares a string with a number (landing.py:241).

Tasks of a try push
- A task that depends on nothing but its image keeps the group incomplete until the
  deadline if the image fails, against the comment at handlers.py:309; so do copies of a task that
  cannot run.
- An event that comes before the decision task is done is retried six times in 18 minutes at
  most, and is lost when the decision task takes longer.
- A test that depends on its build and on an image that the build does not need counts as complete while the
  image runs, and a downstream try push is judged a success without it, though "it's OK to ignore this
  for our purposes" (tc.py:316). JudgedWhenOver fails with such a task.
- failed_builds looks for builds among the tasks of the wpt suite, of which there are none, so that the
  verdict "infra failure because of builds" is out of reach (trypush.py:785, tc.py:196).

Downstream
- `refused`: lando refuses a try push; next_action says try_rebase, update_pr returns
  at update.py:226, nobody calls next_try_push, and landings stop there.
- `stale`: a closed event handled before its commits are fetched tests the older head,
  and that try push counts as valid; LandedWasTested fails.
- `late`: a PR that is merged while its bug could not be filed has no gecko commits, which
  landable_status takes for a PR without a change (downstream.py:212): a landing that runs before the
  event lands it untested. LandedWasTested fails.
- `lost`: with a bug that was not filed, a lost closed event leaves a sync without gecko
  commits, which is landable. A lost reopened event leaves a finished sync.
- `abandon`: a revert that is opened and never merged leaves the first PR skipped,
  and it lands untested.
- `conflict`: gitutils.cherry_pick returns False, ensure_metadata_commit does not look,
  and deletes its only record of the metadata commit.
- The base of a rebase is a name that each handler resolves again, so tried_to_rebase is
  recorded only in a handler that first had the integration branch for a base: rebases
  are not limited to one.
- If update_commits fails after the commits are applied, its rest (moved metadata, bug
  component) is never done: the next call finds that the commits did not change.
- A stability try push is repeated for the same commits if a metadata commit existed
  before it, because latest_valid_try_push accepts the present metadata commit or none.
- The setter of status asserts that the sync has a bug, after it removed the sync from
  the status index: a PR without a bug that is closed unmerged never finishes, and in
  try_notify_downstream it stops the loop for the PRs after it.

Upstream
- The first of two backouts in one push is lost: update replaces the endpoints of a sync
  (upstream.py:803), where the comment at 751 expects a list. Covered fails with "two".
- Pushes of the two branches out of order: when the push of central is handled before that of
  autoland for an older revision, or a push is handled again, a backout is processed twice and the
  head moves back over a relanding. Covered fails with Repos = {"autoland", "central"} and Relands.
- The same in order: an autoland push whose change and backout cancel leaves the change
  without a note; a later push of central that has the change but not yet the backout makes a
  sync for it, and merges it, until the next push of central. Hence `upstream` has autoland only.
- A backout of a merged and an unmerged change that comes in one push with the unmerged one: the new
  sync begins at the backout, and its patch cannot apply. Delivered fails with "whole".
- update_modified_sync raises an AbortError again only for a sync without a PR (upstream.py:927-960).
  With one, update_github goes on: it reopens a closed PR, pushes the part of the commits that
  applied, and update_sync_prs clears the error (991), so that try_land_syncs may merge the part in
  the same push. MergedWhole fails with "apply".
- The error of a sync is cleared by the first call that succeeds (update_sync_prs); after a failed
  push of the branch, a successful check run merges the PR as it was. MergedWhole fails with that fault.
- Others merge the PR before a further change of its bug is handled: the change joins the sync,
  which is then finished if its local branch has as many commits as gecko (upstream.py:430), merged
  or not. A backout instead leaves the sync incomplete. Covered fails with "merge" in Others.
- A backout of two bugs at once ("shared") is complete in neither sync: MergedWhole fails.
- A worker that dies between the notes and the update leaves a sync that only `wptsync bug` updates.
- A PR that others merged and that got more commits, an incomplete sync with a merged PR, and a
  second closed event raise.
- `UpstreamSync.from_pr` gives pr_id in the place of status (upstream.py:175).
- updated_syncs_for_push picks the newest open sync of a bug, and then replaces it by
  the first of the list (upstream.py:830).

Stored data
- handle_pr, do_delete and do_status load a sync before they take its lock (handlers.py:34-72,
  command.py:568-592, 626-669), and as_mut does not read it again: what another process saved in
  between is overwritten, though locks are to "ensure that we don't have data races" (lock.py).
  NotLost is claimed for the others.
- Index changes are kept on the class (index.py:38): the guard of a try push that is left before that of
  its sync (handlers.py:332-345) saves the sync's index changes without its data, and a process
  that dies then leaves them so.
- The setter of status removes the sync from the index and then asserts that it has a bug
  (sync.py:567-572): the removal is saved.
- A process that dies in SyncProcess.delete leaves index entries without branches: load_by_status
  raises, and a sync of that PR can never be created again. A downstream sync without a bug cannot be
  deleted at all: BugIdIndex.make_key raises after the branches are gone.
- CommitBuilder.__exit__ commits what there is when its block raised.
- TryPush.delete passes the key in the place of the value to its indexes (trypush.py:777), and the setter
  of taskgroup_id leaves the old entry (584-588).

Metadata repository
- GitReader keeps the commit that was the head when it was made (meta.py:38), so that a file that is
  "reread" is the old one: what others pushed since to a file that the sync loaded, and the
  triage task loads all files, is overwritten, also if nothing in it was changed. MetaFile's docstring
  promises that changes are applied "in the face of multiple writers without locking"
  (wptmeta/__init__.py:251), Metadata's that "conflicts are automatically handled with a retry
  algorithm" (meta.py:77-78).
- MetaFile.write counts its changes as written before the push. After a rejected push links that were
  deleted come back, and links that were changed stand beside the old ones.
- After the last rejected push exit_mut returns as if it had succeeded, and the bugs are commented on.
- TriageBugs.last_update looks for the key "last_update" and reads "last-update"
  (bugupdate.py:49): it is always None, and every resolved bug is handled each time.

## 6. The plan

What is left, the most useful first:

1. `LandingQueue`: an abstract landing (an append-only sequence of PRs, each tested before
   it is there) with `Landing` shown to implement it.
2. The indexes of try pushes in `SyncStore`, and landing syncs with their own transitions.
3. update_from_github and update_taskgroup_ids, which make up for lost messages.

## 7. Not modelled

The clients of GitHub, Bugzilla, lando and Taskcluster, worktrees and configuration are
I/O; their failures are inputs. Notifications change nothing that another part reads, but for the
links in the metadata repository. The commands that have no model print, or repair data by hand.
Celery, the listeners, and the timing of periodic tasks are taken as a queue. Merge commits on wpt
master, conflicts in the content of patches and the parser of META.yml files are data.
Out of the prover's reach, and left to TLC: liveness under fairness.
