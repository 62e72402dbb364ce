# backup-server in TLA+

A verification project for `beclab/backup-server`: TLA+ models of the parts of
the server where concurrency, failure and ordering decide whether it is correct,
TLC configurations that check them on small instances, and TLAPS proofs of the
most important results for every size.

## The system

Two processes share nothing but three custom resources in the Kubernetes API
store: `Backup` (a plan), `Snapshot` (one run of a plan) and `Restore`.

| part | state it keeps | operations | interacts with |
|---|---|---|---|
| API server (`pkg/modules/backup/v1`) | none (the store) | add, update, pause, delete a plan; add and cancel snapshots and restores; listings | writes objects; the controller reacts to the watch events |
| backup controller and handler (`controllers/backup_controller.go`, `handlers/handler_backup.go`) | the work queue; cron entries (via the snapshot handler) | announce a plan to the cloud, apply policy changes, delete a plan with its snapshots | cron, worker pools (`CancelBackup`), cloud |
| snapshot controller (`controllers/snapshot_controller.go`) | `controllerStartTime`, the work queue | Reconcile by phase: add to the worker, fail what a restart interrupted, cancel, report results | worker pools, store, cloud |
| snapshot handler (`handlers/handler_snapshot.go`) | cron | create, read, update with conflict retry, schedule, delete | store |
| worker pools (`pkg/worker`) | `userPools`, per owner a task table, a pond queue, `activeTask`; per task a flag and a context | add, exists, cancel by snapshot, plan or restore; run tasks one by one | called by all three controllers |
| backup execution (`storage/storage_backup.go`) | the run's local state | preconditions, Running, app preparation, restic, progress, result | store, app, space tokens |
| restore controller, handler, execution (`controllers/restore_controller.go`, `handlers/handler_restore.go`, `storage/storage_restore.go`) | `controllerStartTime`, the informer's undelivered events | add, fail after a restart, cancel, delete, run, result | worker pools, store, app |
| schedule arithmetic, paging (`util/util.go`, `handlers/helper.go`) | none | cron expression, next backup time, pages | API |
| integration tokens (`pkg/integration`) | `OlaresTokens`, a map without a lock | get a token of Olares Space, list and fetch bucket accounts, choose one for an address | account service; called by runs, controllers and the API |
| repository addresses (`util/repo`) | none | region, bucket and folder of an endpoint | integration, API |
| system environment watcher (`pkg/watchers`) | a work queue; `OlaresRemoteService`, `SyncServerURL` | follow the address of the cloud | whoever calls the cloud |
| nightly job (`watchers/crontab.go`) | none | delete restores older than 15 days | store |
| notifications to clients | none | push events | NATS |

Hard behaviours: three controller goroutines and the pool workers share the
pools' memory without a common lock; the API server and the controller race on
one object, with optimistic concurrency and retries that reuse the copy that
conflicted; the controller may die between any two steps and must recognise on
restart what the old process left behind; a cancel request travels through the
store, a work queue and an in-memory flag while the run goes on; what a plan asks
for (its policy in the store) and what will happen (cron entries in memory, the
cloud's record) are kept in step by events, of which the predicates drop many;
runs share the account's token and its quota, both of which are stale when used;
accounts are edited while the code lists them, fetches them and picks one.

What makes the parts correct: a task table that is exact (a leaked entry blocks
its plan for ever); at most one live task per plan, and one running task per
owner; `activeTask` is the task that runs; a cancelled task that waits does not
run; a snapshot recorded as Completed has its data; a finished snapshot stays
finished; every snapshot ends, and its result is reported to the cloud and
recorded as reported, across restarts; a restore writes into the user's files at
most once, and a delete the controller has seen is carried out; the schedule in
memory is the stored one once the queue is empty, a deleted plan stays deleted,
goes away and is not announced again; a user who has reconnected an account is not
told to; file backups that check the quota together overrun it by a bounded
amount; a plan stays with its repository; the shown next backup time is the next firing of the cron line.
PROJECT.json lists the hazards line by line.

## Modules

**WorkerPool** models `pkg/worker/worker.go`. One action per access to memory
shared between goroutines: `GetOrCreateUserPool` is `LoadPool` and `CreatePool`,
`addTask` is `StoreTask` and `Submit` or `SubmitRefused`, `taskFn` is `Dequeue`,
`CheckCanceled`, `Activate`, `RunReturns`, `DeferDelete`, `DeferClear`, and each
cancel call is `CancelMark` (flag the matching tasks of the table) and
`CancelActive` (load `activeTask`, assert its type, cancel its context), with
`CancelPanic` for a failed assertion. `pc`, `arg` and `loc` are the program
counter and locals of the three callers; each controller has one goroutine, so a
caller runs one call at a time. The owner of a plan never changes. `Dequeue` and
the choice between `Submit` and `SubmitRefused` are pond's (external): pond may
refuse, and the code handles it. A pool is named by its owner and the caller that
created it, because a caller that once found or created a pool for an owner never
creates another.

**SnapshotLifecycle** models a snapshot from its creation to its reported result:
`addSnapshot`/`Create`, `cancelSnapshot` as check, read and write, the event
predicates, `Reconcile` with its calls one by one, `taskFn` and `RunBackup` with
every write of the object and every context check, and the death and restart of
the controller. An object's resource version is abstracted to the set `fresh` of
copies that are current: a write makes every copy stale, a write with a stale copy
fails after its retries. `new` are the snapshots whose creation time is after the
controller's start; because the stored time has whole seconds, one made in the
first second (`firstSec`) is not. The cloud is the last status it was told.

A plan's location decides two things: the cloud is told only about plans in
Olares Space, and runs that go to a bucket ask for an integration token, whose
absence ends some of them in a panic (`TokenPanic`). What a run writes to the
`Backup` object (its total size) and the deletion of snapshots with their plan are
BackupPlan's subject. An application's preparation is one step with both outcomes.

The snapshots of this module share an owner, whose pool is taken as created: the
interleavings inside the pool are WorkerPool's subject, and here each pool call is
one step.

**SnapshotRecord** is the abstract specification: what the store and the cloud
may go through, without processes, queues or copies. `SnapshotLifecycle` is
checked to implement it (`ImplementsRecord`).

**RestoreLifecycle** models a restore from `addRestore` to its result or deletion.
The restore controller's `Reconcile` is empty: its predicates do the work, on the
informer's goroutine and with the object of the event, so `events` keeps what they
have not seen (only the updates `UpdateFunc` acts on), in order for each restore
and in any order between restores. `CreateFunc` and `HandleUpdate` are the two
predicates, `FailRead`/`FailWrite` are `SetRestorePhase`. `RestoreHandler.Update`
differs from the snapshot handler's: it reads the object a second time and puts
the caller's Spec over it, so the phase of an update is the writer's whatever was
there; a write that comes after the second read makes it conflict, and it is
repeated with the same copy without a deadline. In the model the worker then
waits at `StartWrite` or `ResultWrite` until its context is cancelled or the
object is gone. `data` is what a run has brought back, `starts` counts how often
the restore began. `Requests` are the calls of `cancelRestore`, each a goroutine with
a restore and an event of its own; nothing locks a restore, so any number of them are
under way for it at once. A cancel that read Running is therefore still written after
another request's Deleted, and a restart then finds Canceled and forgets the delete.
`SetRestorePhase` has `Attempts` tries, and a conflict uses one up.
Restores come from a backup URL: the branch of `addRestore` for a snapshot id
dereferences `urlInfo` and `getSnapshot`, which are nil there, and creates nothing.
`ClearHistoryRestores` is the controller's nightly job; the model has no age, so it
may delete any restore.

**RestoreRecord** is its abstract specification: the changes of a restore's phase,
what has been brought back, and that it begins once. A request does not stop what
the worker has in hand, so a restore that is Canceled or Deleted may still begin,
complete or fail; a request's Canceled may come over anything that exists, another
request's Deleted too. One that has ended never runs again, one that has not begun is
never Completed, and one that is Pending is cancelled before it is marked Deleted.
`RestoreLifecycle` is checked to implement it (`ImplementsRecord`);
`FinishedNeverReopens` is a part of that.

**BackupPlan** models plans from `addBackup` to their removal. The store keeps a
plan's `Spec` (deleted, policy, enabled, notified, and one bit for `size_updated`);
`copy` and `fresh` are the copies that requests, runs and `UpdateNotifyState` hold
and whether they are current. A user's request is a read (`Request`) and a write
(`RequestWrite`, or `RequestFails` when the copy is stale or the call fails).
`UpdateFunc` decides which writes reach the work queue. `Reconcile` is one action
per call: `Get`, then `CancelBackup`, `DeleteSnapshots`, `NotifyStopBackup`,
`Remove` for a deleted plan, or `Notify`, `MarkRead`, `MarkWrite` for one that is
not announced, and the schedule. The cron table (`entries`), the jobs under way and
the runs live in the controller's memory and go with it. `BadPolicies` are those
whose cron line the library refuses. The reconciler reads the API store itself, no
cache lies in between.

**BackupSchedule** has the policy of a request, the cron line that `ParseToCron`
makes of it, what the cron library does with the line (external), and the four
cases of `GetNextBackupTime`. Time is counted in half minutes. The calendar is the
constant `MonthStart`, the day on which each month begins: what Go's `AddDate`,
`time.ParseInLocation` and the cron library agree about. TLC has a common year and
a leap year.

**Listing** has `GenericPager` and a client that walks through the pages of a
listing while items are created and deleted. The items are in the order of their
creation: which of two items of one second comes first is left to the sort, and the
model takes it to be the same in every answer.

**SystemEnv** has the work queue of the watcher with its delayed retries, and `Do`
of the system environment subscriber, which sets `OlaresRemoteService` and derives
`SyncServerURL`.

**BucketAccounts** has the account service's list of bucket accounts, edited at any
time, and the operations that choose one: adding a plan, a backup
(`StorageBackup.getIntegrationCloud`, which may move the plan to another account
with its endpoint), the check in `addRestore` (`GetIntegrationCloudAccount`) and
the restore (`GetIntegrationNameByLocation`). Each list and each fetch is a step. An
endpoint is a spelling, a bucket and a folder; `RepositoryInfo` is what the two
parsers make of it.

**CloudSession** has the runs to and from Olares Space as clients of the cloud:
`GetIntegrationSpaceToken` as a look in the cache, a query and a store into the
cache; the quota check with its unsigned subtraction; the SDK call; the loop on a
refused token; `getStats`. Users reconnect the account, tokens are revoked or
expire, and space is given free. The size that is checked and the size that is added
are two things: `BackupSize` is what `checkDiskSize` measured, which is nothing for the
backup of an application, and `Upload` adds what the SDK stores, up to `MaxUpload`. Of
the service's answer the code uses the sizes and two permissions (`PlanLevel`,
`CanBackup`); the permissions are the service's own and free in the model.
`overdrawn` records that a file backup has passed the check on an account that was
over its quota, where the difference has wrapped around.

**MCWorkerPool**, **MCSnapshotLifecycle**, **MCRestoreLifecycle** and
**MCBackupPlan** give the constants that a `.cfg` cannot write down. **MCParts**
puts BackupSchedule, Listing, SystemEnv and BucketAccounts, which share no state,
side by side: a behaviour follows one of them. **WorkerPoolProofs**,
**SnapshotLifecycleProofs**, **RestoreLifecycleProofs**, **BackupPlanProofs**,
**CloudSessionProofs**, **SystemEnvProofs** and **BucketAccountsProofs** hold the
proofs about the module they are named for, **ApiAnswerProofs** those about Listing
and BackupSchedule.

Operators marked "Mutant" are deliberate errors; they take the place of the
operator below them to show that the property can fail.

## Runs

| run | instance | shows |
|---|---|---|
| `worker_pool` | one owner, two snapshots of one plan, one restore | `TypeOK`, `TableIsExact`, `OneLiveTaskPerPlan`, `ActiveIsTheRun` under every interleaving of adds, the three cancels, runs, panics and restarts |
| `worker_pool_progress` | two snapshots of two plans, fair | `FlaggedInQueueNeverRuns`, `TableDrains` |
| `worker_type_assertion` | violation | `ActiveTypeAsserted` fails: a restore is cancelled behind a running backup |
| `snapshot_lifecycle` | two plans, an app in Olares Space and files in an AWS bucket; one restart, one fault, one cancel | `TypeOK`, `CompletedHasData`, `PushedWasReported`, and the refinement of SnapshotRecord, with runs that panic |
| `snapshot_progress` | two snapshots of one plan, one restart, no faults or cancels, fair | `FinishedNeverReopens`, `EverySnapshotEnds`, `EveryResultIsPushed` |
| `snapshot_cancel_stuck` | violation, fair | `EverySnapshotEnds` fails with one cancel: Running for ever |
| `restore_lifecycle` | a restore from an AWS bucket and three requests that race for it; two restarts, two faults, the nightly job | `TypeOK`, `CompletedHasData`, and the refinement of RestoreRecord |
| `restore_progress` | a restore of files and one of an app from Olares Space, one request, one restart, the nightly job, no faults, fair | `StartedOnce`, `EveryRestoreEnds`, `WorkerLeavesEveryTask`, `DeleteSeenIsDone` |
| `backup_plan` | two plans under one name, one in Olares Space; a policy that cron takes and one that it refuses; one request, run, fault and restart each, fair | `TypeOK`, `ScheduleIsCurrent`, `NotifiedWasAnnounced`, `RemovedPlanIsQuiet`, `DeleteIsFinal`, `StoppedStaysStopped`, `DeletedIsRemoved`, `ScheduleSettles` |
| `parts` | see Bounds | `ShownIsNextFiring`, `TimestampIsScheduled` (BackupSchedule), `WalkMissesFew`, `PagesMatchItems` (Listing), `AddressIsNotStale` (SystemEnv), `RestoreUsesItsAccount`, `RestoreFindsItsAccount`, `RepositoryIsKept` (BucketAccounts) |
| `cloud_session` | two backups of files, one of an application and a restore of one account, two runs, fair | `TypeOK`, `ToldToReconnect`, `OverrunIsBounded`, `EverySessionEnds` |
| `system_env_default` | violation | `EffectiveValueApplies` fails: the address stays empty when the value is the default |

Bounds. Two snapshots of one plan are what `ExistsTask` tells apart, one restore
is what makes the second caller and the second pool; one owner suffices because
pools of different owners share nothing (the proofs cover any number). In the
snapshot lifecycle, one cancel, one fault and one restart can each fall between any
two steps of two snapshots, and the second is refused, queued behind the first or
started after the restart. For a restore three requests are enough for a cancel and a
delete to race and for a third to come after both, and `restore_lifecycle` takes the
requests as interchangeable (`Symmetry`), which is sound because it checks safety only
and nothing tells requests apart but their names. In `restore_progress` two restores
share the worker and the informer's goroutine. Two attempts stand for the five of
`SetRestorePhase`: one that conflicts and the last. Two restores with two requests and
a restart, and the liveness of one restore with two requests, were run as well, without
an error. In `backup_plan` the request, the run of a
snapshot and the reconciler are the three writers that a plan can have at a time,
and the second plan waits in the queue behind the first; the safety results are
proved for any number of them. `parts` takes the policies at the edges (every
minute of an hourly plan, hours 0, 7, 15, 16, 23 and 24, every weekday, the dates
28 to 32, times in milliseconds at the ends of a day) and asks at the ends of
hours, days, weeks, short months and years, the leap day among them; four items, pages of one to three;
three good addresses and one that cannot be parsed, with four changes; two account
names, two spellings of one endpoint, another folder, another bucket, one without
region and one of another service, with four edits and three operations. In
`cloud_session` two backups of files that measure 1 and add up to 2 share a quota of
2, so that both can pass the check and overrun it, as the application does alone, and
the next check meets the wrapped difference; a token lives two steps and is refused by
the code one step before its end. Deadlock is not checked where the system
may stop: when everything is over and reported, nothing is left to do.

Fairness. Weak fairness for each caller and each pool worker (goroutines are
scheduled), for the reconcilers or the restore predicates and the worker (what they
call answers: Kubernetes and cloud calls have deadlines; a run of restic and an
app's preparation are assumed to end, which the code does not enforce), for the API
request, and for `Start` (Kubernetes restarts a dead controller). `BackupPlan` has
strong fairness for taking each plan from the queue: the queue is first in, first
out, and the model keeps it as a set; without it one plan whose policy is refused
again and again could keep the other waiting, which the queue does not allow.
`CloudSession` has weak fairness for the clock and for each task. No fairness for
user requests, progress reports, cron firings, crashes or faults. Faults and
restarts are finitely many in every run; reconnects are, because tokens run out
before `MaxTime`.

## Findings

1. `worker_type_assertion`: cancelling a restore while a backup of the same owner
   runs (or the reverse) panics in the controller.
2. `snapshot_cancel_stuck`: a cancel that lands between the precondition check and
   the write of Running is overwritten, then stops the run without a result: the
   snapshot stays Running until the controller restarts.
3. `system_env_default`: "effective value can be from value or default", but when
   the value is the default `Do` returns before the address is derived from it.

The models also contain these behaviours of the code, which bound what the
properties can say; no run is spent on them:

Workers and snapshots

- `GetOrCreateUserPool` (worker.go:98) is a load and a store: when a backup and a
  restore are the first of an owner at the same time, two pools exist and two tasks
  of the owner run together. `OneLiveTaskPerPlan` holds all the same.
- `cancelSnapshot` checks the phase on one read and writes on another, so a
  snapshot that ends in between becomes Canceled. `FinishedNeverReopens` therefore
  speaks of Pending and Running only.
- `execute` reads the type of a nil token in its error path (the AWS branch for
  snapshots, both bucket branches for restores). The panic is recovered by `taskFn`
  and the object stays Running until the controller restarts. The progress runs
  therefore use Olares Space.

Restores

- `RunRestore` does not look at the phase and `prepareForRun` writes Running over
  Canceled: a cancel that is handled just before the task becomes the active one
  has no effect. `EveryRestoreEnds` therefore speaks of restores without requests.
- A cancel request that read Running or Pending writes Canceled over the Deleted of a
  request that came after it (handler.go:857). The controller carries the delete out
  if it sees its event; if it restarts first, it finds a restore that is Canceled.
- Nothing carries out a delete that the controller did not see as an update event:
  the restore stays listed in phase Deleted until the nightly job removes it.
  `DeleteSeenIsDone` therefore starts at the event and ends at a restart.
- `readyForRestoreApp` (storage_restore.go:656) compares the wrong error variable
  when its context ends, so an application that needs more than 15 seconds, or
  whose restore is cancelled, counts as restored: `CompletedHasData` speaks of the
  data that restic brought back.
- A failing rename (storage_restore.go:599) is only logged: a restore of files is
  Completed with its data in the temporary directory.
- The nightly job deletes restores older than 15 days whatever their phase.

Plans and their schedule

- Two requests that add a plan under one name both pass the check; the check
  compares labels, which are made of the trimmed name, with the name as it came.
- A job or an `addSnapshot` that was under way when its plan was removed leaves a
  snapshot without a plan. `RemovedPlanIsQuiet` bounds it to that one.
- The error of `NotifyStopBackup` is dropped: the cloud may keep a removed plan.
  The error of `GetIntegrationSpaceToken` before it is not: as long as the account
  is disconnected, a deleted plan in Olares Space is not removed.
- `BackupPlan.Update` drops the error of the write (backup_schedule.go:64) and the
  request is logged as a success (handler.go:218).
- An hourly plan at minute 0 becomes `*/0`, which cron refuses; the shown time then
  divides by zero (helper.go:428). Hour 24 is let pass, and so is any hour of a time
  with a colon when it is stored; cron refuses both, and for a monthly plan the
  search for the shown time does not end. `TimestampIsScheduled` says which requests
  are safe.
- The shown time of a weekly plan before 16:00 is a day late, that of a monthly
  plan from 16:00 on a day early; a weekly plan on Sunday shows a time that has
  passed after Sunday's firing; an hourly plan whose minutes do not divide 60 skips
  the full hour. `ShownIsNextFiring` speaks of the others (`Aligned`).
- `checkBackupUrl` answers the current page as the total count (handler.go:586).

Accounts and the cloud

- The size of an application's backup is never compared with the quota: `checkDiskSize`
  returns before it measures (storage_backup.go:299), and 0 always fits.
- The free space is the difference of two unsigned numbers (storage_backup.go:581): on
  an account over its quota it wraps around and everything fits. Only the service's
  permissions can stop a backup there. `OverrunIsBounded` therefore speaks of file
  backups, until one of them has passed such a check.
- A token that the cloud refuses comes from the cache again until it is near its
  expiry, and the loop has no pause: `EverySessionEnds` holds because tokens expire.
- `getStats` does not see the error of its token, which a shadowed variable keeps.
- `GetIntegrationCloudAccount` uses the last account's token when none has the
  endpoint, and one account with an endpoint that cannot be parsed ends the walk for
  all that follow it. `RestoreUsesItsAccount` and `RestoreFindsItsAccount` say what
  is left.
- A host without a region (`bucket.s3.amazonaws.com`) is parsed with the region
  `s3`; a backup compares endpoints as they are spelled, a restore as parsed.
- An address that `url.JoinPath` refuses empties `SyncServerURL`, and its retry
  finds the value unchanged and does nothing.

## Proofs

`WorkerPoolProofs` proves, for every set of owners, plans and tasks, from the one
assumption `TaskAssumption` (backups and restores are different tasks, each has an
owner, the tasks of a plan share it):

- `TypeCorrect`: `Spec => []TypeOK`. `TypeOK` alone is not inductive: `StoreTask`
  indexes `tasks` with the call's pool. `CallsOK` types the locals of a call by
  the line it is at.
- `ActiveCorrect`: `Spec => []ActiveIsTheRun`, inductive over the worker's steps.
- `TableCorrect`: `Spec => []TableIsExact`. Removing a task from the table is only
  right if it is nowhere else in the pool. `Unique` says so: queues have no
  duplicates, the worker's task is not queued, and a task being added is in no
  pool yet, which in turn needs that everything in a pool is in `submitted`.
- `OneLiveCorrect`: `Spec => []OneLiveTaskPerPlan`. `PlanGuard` carries the
  answer of `ExistsTask` from the check to the store: meanwhile only restores are
  stored and flags are only set. `PoolGuard` covers the case that the pool is
  created in between: a pool is untouched until it is registered, so the new one
  is empty.

- `FlaggedCorrect`: `Spec => FlaggedInQueueNeverRuns`. The property looks from one
  state at all later ones, so the proof has two invariants: `RanOnce`, that a task
  which has run is nowhere in the pipeline, and, from the moment a flagged task
  waits, `Doomed`, that every way to its run still leads past its flag.

`StepCases` splits `Next`; `PoolGuardFrame` and `OneLiveFrame` dispose of the
steps that cannot disturb the invariant. The strengthenings were checked with TLC
on the instance of `worker_pool` before they were proved.

`SnapshotLifecycleProofs` proves, from `SnapshotAssumption` (types of the
constants; the bounds are any naturals), so for any number of snapshots, plans,
restarts, failing calls and cancel requests:

- `TypeCorrect`: `Spec => []TypeOK`, which is inductive because it ties the
  reconciler's key and the worker's task to their program counters.
- `CompletedCorrect`: `Spec => []CompletedHasData`. The strengthening
  `ResultHasData` says that a run on its way to write a result without an error
  has saved its data; `DataFrame` disposes of every step that completes nothing.
- `RecordImplemented`: `Spec => ImplementsRecord`, step by step: each action is an
  action of SnapshotRecord or leaves its variables alone. That `prepareForRun` begins
  only what is Pending or Canceled, and that a result is written only over Running
  or Canceled (or, for a failure, Pending), is not what these writes check: it
  follows from `RecordInv`. Its part `PlaceInv` says where a snapshot is:
  what waits for the worker was created under this controller, is queued once and is
  Pending or Canceled, what `Reconcile` adds or fails is not with the worker, what it
  reports is final, and a dead controller holds nothing; `RunPhase` ties the phase to the
  line the worker is at.
- `ReopenCorrect`, `PushedCorrect`: `FinishedNeverReopens` and `PushedWasReported`,
  from the same invariant and the steps of the refinement.

`RestoreLifecycleProofs` proves, from `RestoreAssumption`, for any number of
restores, restarts, failing calls and requests:

- `TypeCorrect`: `Spec => []TypeOK`.
- `CompletedCorrect`: `Spec => []CompletedHasData`, as for snapshots; the data is
  there from the step that leaves `Execute` on.
- `StartedOnceCorrect`: `Spec => []StartedOnce`. `OnceInv` follows a restore that
  has not started: it is not created, in a create event of a new restore, in the
  queue, or with the worker before `StartWrite`, and in one of these places only.
  It needs that a create event is the first undelivered event of its restore
  (`CreateIsFirst`), so that `CreateFunc` sees it once in a process, and that a
  restart forgets `new`, so that the next process adds nothing it finds.
  `OnceFrame` disposes of the steps that create, add, dequeue and start nothing.
- `ReopenCorrect`: `Spec => FinishedNeverReopens`. The write of Running does not look
  at the phase that is stored, so `FinishInv` has to say that a restore which waits
  for it is not over: only what this controller saw created is with the worker
  (`HeldIsNew`), and what `SetRestorePhase` fails after a restart is not and will
  not be (`FailsUnheld`).
- `RecordImplemented`: `Spec => ImplementsRecord`. What the writes do not check is
  in `RecordInv`: a request that is going to mark its restore Deleted finds no Pending
  one, whatever the other requests for it do (`RequestKnows`), what `SetRestorePhase`
  fails has not ended (`FailsOpen`), nothing is brought back before the start
  (`NotBegun`), and the line that the worker is at ties the phase, the start and the
  data of its restore together (`RunKnows`).

`BackupPlanProofs` proves, from `PlanAssumption` and `SpecAssumption` (the names of
plans, requests and the reconciler differ; bounds are any naturals), for any number
of plans, policies, requests, runs, failing calls and restarts:

- `TypeCorrect`: `Spec => []TypeOK`. A write stores what its actor holds, so types
  need `CopyInv` (a current copy is what the store holds, and its holder is between
  its read and its write) and `RequestInv`.
- `ScheduleCorrect`: `Spec => []ScheduleIsCurrent`. `RecInv` says what `Reconcile`
  may rely on: as long as its plan is not queued again, its copy has the stored
  policy. It holds because a write that `UpdateFunc` keeps from the queue changes
  neither policy, nor enabled, nor deleted (`Silent`, `WriteEffect`).
- `NotifiedCorrect`, `StopCorrect`: `NotifiedWasAnnounced` and
  `StoppedStaysStopped`, from `CloudInv`: a plan that the cloud was told to stop is
  deleted or gone, and the branch that announces holds a plan that is not.
- `DeleteCorrect`: `DeleteIsFinal`, from `CopyInv`: who writes has read the flag.
- `RemovedCorrect`: `RemovedPlanIsQuiet`, from `EntryInv`, that a plan which is not
  stored has no cron entry, and `AddInv`.

`CloudSessionProofs` proves, from `SessionAssumption` (the backups of files are
finitely many, sizes and times are naturals, the quota is below the wrap of the word),
for any number of tasks and runs:

- `TypeCorrect`: `Spec => []TypeOK`.
- `ReconnectCorrect`: `Spec => []ToldToReconnect`. `TokenInv`: an answer that is
  about to be kept is not older than the token that its task began with. The cache
  may hold an older one, but a task is told to reconnect only after a query.
- `OverrunCorrect`: `Spec => []OverrunIsBounded`. `QuotaInv` counts the file backups
  that have passed the check and not yet returned (`Admitted`): what files take or
  are promised never exceeds the bound, because at a check on an account within its
  quota the difference does not wrap, and the measured size fits beside all that is
  there (`FitsMeans`). Nothing is assumed of the service's permissions or of what
  applications add.

`SystemEnvProofs` proves, from `AddressAssumption` (the empty address is not one, the
default is), for any addresses, changes, retries and restarts:

- `AddressCorrect`: `EnvSpec => []AddressIsNotStale`. The queue may hold older
  addresses and objects that were put back after an error. `PendingInv` says that
  the present value is in the queue with nothing behind it but objects that were put
  back, or was handled; and what was put back cannot be parsed, so it sets no
  address.

`BucketAccountsProofs` proves, from `NilAssumption` (the absent account is not one),
for any names, endpoints, edits and operations:

- `RepositoryCorrect`: `BucketSpec => RepositoryIsKept`. `PlanHeld` says what a run
  holds between the upload and the record of the location.
- `AccountUsedCorrect`, `AccountFoundCorrect`: `RestoreUsesItsAccount` and
  `RestoreFindsItsAccount`, from `WalkInv`: as long as the accounts stay as they
  are, the names still to come are the tail of the list, and the accounts passed over
  do not fit. A fetch by name finds the account meant, because an account has
  a name of its own (`AccountType`).

`ApiAnswerProofs` proves, from `LimitsAssumption` (limits are integers):

- `PagesCorrect`: `ListingSpec => []PagesMatchItems`, for every list, limit and
  offset. `RankIsTaken` (the n-th item is the one with n - 1 newer ones) carries the
  definition of `Listed`.
- `WalkCorrect`: `ListingSpec => []WalkMissesFew`, for any number of items. An item
  that is still listed and that the walk has passed without seeing it is counted
  where it stands (`MissedAt`): a creation moves no item to the pages behind, a
  deletion at most one.

and from `ScheduleAssumption` (instants are naturals, a time in milliseconds is an
integer) and `CalendarAssumption` (months have 28 to 31 days, of two that follow one
another one has 31, and the calendar goes on for three months after the last
instant):

- `TimestampCorrect`: `ScheduleSpec => []TimestampIsScheduled`, for every number.
- `ShownCorrect`: `ScheduleSpec => []ShownIsNextFiring`, for all numbers and any
  such calendar: `NextHourly`, `NextDaily`, `NextWeekly`, `NextMonthly`. A firing of
  a line by the day is found by counting days ahead (`NextFiringIsFirst`); a step
  that divides 60 goes on over the full hour (`StepOverHour`); a date is missing in
  at most one month in a row, so it comes within 62 days (`MonthsAhead`,
  `DaysAhead`), and a day lies in one month only (`MonthExists`, `MonthIs`).

The strengthenings were checked with TLC on the runs' instances first.

Only model-checked: liveness (`TableDrains`, `EverySnapshotEnds`,
`EveryResultIsPushed`, `EveryRestoreEnds`, `WorkerLeavesEveryTask`,
`DeleteSeenIsDone`, `DeletedIsRemoved`, `ScheduleSettles`, `EverySessionEnds`),
which is out of the prover's reach. Every other property that a passing run checks
is a theorem.

## Not modelled

Generated clients and types; request and response types, formatting and logging;
the HTTP and restic libraries (outcomes only); the push events to user clients; the
single requests of the application protocol (a run's step has their outcomes); the
directories that interrupted restores leave on disk; `pkg/cache`, which nothing
uses; flag parsing and the wiring of the HTTP server.

## Plan

1. The restore's leftovers on disk (directories of interrupted and failed runs, the
   rename).
2. The status polling of an application's backup.
3. Abstract specifications of the worker pool (a task that is taken is run or
   cancelled, once) and of the plans' schedule, with their refinements.
