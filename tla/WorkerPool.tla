----------------------------- MODULE WorkerPool -----------------------------
(***************************************************************************)
(* The controller's in-memory task pools (pkg/worker).                     *)
(*                                                                         *)
(* Every owner has a pool with one pond worker (MaxConcurrency = 1), a     *)
(* table of its tasks and a pointer to the active one.  Three goroutines   *)
(* call it: the snapshot reconciler (AddBackupTask, CancelSnapshot), the   *)
(* restore informer's event handler (AddRestoreTask, CancelRestore) and    *)
(* the backup reconciler (CancelBackup).  Each controller has one          *)
(* goroutine, so a caller runs one call at a time; the calls of different  *)
(* callers, and the pond workers, interleave at every access to shared     *)
(* memory.                                                                 *)
(*                                                                         *)
(* A pool is named <<owner, caller that created it>>: userPools is never   *)
(* deleted from, so a caller creates at most one pool for an owner.        *)
(***************************************************************************)
EXTENDS Naturals, Sequences, FiniteSets

CONSTANTS
    Owners,        \* users
    Plans,         \* Backup objects
    BackupTasks,   \* one per Snapshot: BackupTask, id backupId_snapshotId
    RestoreTasks,  \* one per Restore: RestoreTask, id restoreId
    OwnerOf,       \* [Tasks -> Owners]
    PlanOf,        \* [BackupTasks -> Plans]
    NoTask         \* a nil task pointer

Tasks == BackupTasks \cup RestoreTasks

(* The owner of a plan owns all the plan's tasks. *)
ASSUME TaskAssumption ==
    /\ BackupTasks \cap RestoreTasks = {}
    /\ NoTask \notin Tasks
    /\ OwnerOf \in [Tasks -> Owners]
    /\ PlanOf \in [BackupTasks -> Plans]
    /\ \A t, u \in BackupTasks : PlanOf[t] = PlanOf[u] => OwnerOf[t] = OwnerOf[u]

Adders  == {"snapshot", "restore"}     \* the callers that add tasks
Callers == Adders \cup {"backup"}
Pools   == Owners \X Adders

VARIABLES
    userPools,  \* WorkerPool.userPools: the creator of the owner's registered pool, or "none"
    tasks,      \* TaskPool.tasks of each pool
    queue,      \* the pond queue of each pool
    wpc,        \* where the pool's one worker is in taskFn
    cur,        \* the task the worker holds
    active,     \* TaskPool.activeTask
    canceled,   \* BaseTask.canceled
    ctxDone,    \* the task's context is cancelled
    pc,         \* where each caller is in its call
    arg,        \* the task, or for CancelBackup the plan, of the call
    loc,        \* the pool the call works on
    submitted,  \* tasks some call has tried to add (never added again)
    ran         \* tasks that reached task.Run()

pools   == <<userPools, tasks, queue>>
worker  == <<wpc, cur, active>>
flags   == <<canceled, ctxDone>>
callers == <<pc, arg, loc>>
history == <<submitted, ran>>
vars    == <<pools, worker, flags, callers, history>>

-----------------------------------------------------------------------------
Idle(S) == [x \in S |-> "idle"]
None(S) == [x \in S |-> NoTask]
Unset   == [t \in Tasks |-> FALSE]

(* NewWorkerPool: a process that has just started has no pools. *)
Init ==
    /\ userPools = [o \in Owners |-> "none"]
    /\ tasks = [p \in Pools |-> {}] /\ queue = [p \in Pools |-> <<>>]
    /\ wpc = Idle(Pools) /\ cur = None(Pools) /\ active = None(Pools)
    /\ canceled = Unset /\ ctxDone = Unset
    /\ pc = Idle(Callers) /\ arg = None(Callers) /\ loc = [c \in Callers |-> <<>>]
    /\ submitted = {} /\ ran = {}

(* The process dies (killed, or a panic in a controller goroutine) and is  *)
(* started again.  What was added before is not newly created any more, so *)
(* the controllers never add it again.                                     *)
Restart ==
    /\ userPools' = [o \in Owners |-> "none"]
    /\ tasks' = [p \in Pools |-> {}] /\ queue' = [p \in Pools |-> <<>>]
    /\ wpc' = Idle(Pools) /\ cur' = None(Pools) /\ active' = None(Pools)
    /\ canceled' = Unset /\ ctxDone' = Unset
    /\ pc' = Idle(Callers) /\ arg' = None(Callers) /\ loc' = [c \in Callers |-> <<>>]
    /\ UNCHANGED history

-----------------------------------------------------------------------------
(* The registered pool of an owner. *)
Registered(o) == <<o, userPools[o]>>

Goto(c, label) == pc' = [pc EXCEPT ![c] = label]

(* The call returns and its local variables are gone. *)
Return(c) ==
    /\ Goto(c, "idle")
    /\ arg' = [arg EXCEPT ![c] = NoTask]
    /\ loc' = [loc EXCEPT ![c] = <<>>]

(* Mutant: only the active task counts. *)
ExistsTaskActiveOnly(t) ==
    /\ userPools[OwnerOf[t]] # "none"
    /\ \E u \in {active[Registered(OwnerOf[t])]} \cap BackupTasks :
          PlanOf[u] = PlanOf[t] /\ ~canceled[u]

(* ExistsTask: a task of the same plan that is not flagged is in the table *)
(* of the owner's registered pool.                                         *)
ExistsTask(t) ==
    /\ userPools[OwnerOf[t]] # "none"
    /\ \E u \in tasks[Registered(OwnerOf[t])] \cap BackupTasks :
          PlanOf[u] = PlanOf[t] /\ ~canceled[u]

(* A call that adds a task begins: the snapshot reconciler is refused when *)
(* ExistsTask, a restore is never refused.                                 *)
AddBackupTask(t) ==
    /\ pc["snapshot"] = "idle"
    /\ t \in BackupTasks \ submitted
    /\ submitted' = submitted \cup {t}
    /\ IF ExistsTask(t)
       THEN UNCHANGED <<pc, arg>>
       ELSE Goto("snapshot", "load") /\ arg' = [arg EXCEPT !["snapshot"] = t]
    /\ UNCHANGED <<pools, worker, flags, loc, ran>>

AddRestoreTask(t) ==
    /\ pc["restore"] = "idle"
    /\ t \in RestoreTasks \ submitted
    /\ submitted' = submitted \cup {t}
    /\ Goto("restore", "load")
    /\ arg' = [arg EXCEPT !["restore"] = t]
    /\ UNCHANGED <<pools, worker, flags, loc, ran>>

(* Mutant: the result of userPools.Load is used without looking at ok. *)
LoadPoolUnchecked(c) ==
    /\ pc[c] = "load"
    /\ Goto(c, "table")
    /\ loc' = [loc EXCEPT ![c] = Registered(OwnerOf[arg[c]])]
    /\ UNCHANGED <<pools, worker, flags, arg, history>>

(* GetOrCreateUserPool, first half: userPools.Load. *)
LoadPool(c) ==
    /\ pc[c] = "load"
    /\ LET o == OwnerOf[arg[c]] IN
         IF userPools[o] = "none"
         THEN Goto(c, "create") /\ UNCHANGED loc
         ELSE Goto(c, "table") /\ loc' = [loc EXCEPT ![c] = Registered(o)]
    /\ UNCHANGED <<pools, worker, flags, arg, history>>

(* Second half: a new pool is stored whatever is registered by now. *)
CreatePool(c) ==
    /\ pc[c] = "create"
    /\ LET o == OwnerOf[arg[c]] IN
         /\ userPools' = [userPools EXCEPT ![o] = c]
         /\ loc' = [loc EXCEPT ![c] = <<o, c>>]
    /\ Goto(c, "table")
    /\ UNCHANGED <<tasks, queue, worker, flags, arg, history>>

(* addTask: taskPool.tasks.Store *)
StoreTask(c) ==
    /\ pc[c] = "table"
    /\ tasks' = [tasks EXCEPT ![loc[c]] = @ \cup {arg[c]}]
    /\ Goto(c, "submit")
    /\ UNCHANGED <<userPools, queue, worker, flags, arg, loc, history>>

(* addTask: pool.TrySubmit accepts the task *)
Submit(c) ==
    /\ pc[c] = "submit"
    /\ queue' = [queue EXCEPT ![loc[c]] = Append(@, arg[c])]
    /\ Return(c)
    /\ UNCHANGED <<userPools, tasks, worker, flags, history>>

(* Mutant: a refused task stays in the table. *)
SubmitRefusedLeaks(c) ==
    /\ pc[c] = "submit"
    /\ ctxDone' = [ctxDone EXCEPT ![arg[c]] = TRUE]
    /\ Return(c)
    /\ UNCHANGED <<pools, worker, canceled, history>>

(* addTask: pool.TrySubmit refuses it *)
SubmitRefused(c) ==
    /\ pc[c] = "submit"
    /\ ctxDone' = [ctxDone EXCEPT ![arg[c]] = TRUE]
    /\ tasks' = [tasks EXCEPT ![loc[c]] = @ \ {arg[c]}]
    /\ Return(c)
    /\ UNCHANGED <<userPools, queue, worker, canceled, history>>

-----------------------------------------------------------------------------
(* The tasks a cancel call is about: the snapshot's, the restore's or all  *)
(* the tasks of the plan.                                                  *)
Target(c, x) ==
    IF c = "backup" THEN {t \in BackupTasks : PlanOf[t] = x} ELSE {x}

(* CancelSnapshot, CancelRestore, CancelBackup, first half: with a pool    *)
(* registered for the owner, flag the matching tasks of its table.         *)
CancelMark(c, x, o) ==
    /\ pc[c] = "idle"
    /\ userPools[o] # "none"
    /\ canceled' = [t \in Tasks |->
           canceled[t] \/ (t \in Target(c, x) /\ t \in tasks[Registered(o)])]
    /\ arg' = [arg EXCEPT ![c] = x]
    /\ loc' = [loc EXCEPT ![c] = Registered(o)]
    /\ Goto(c, "active")
    /\ UNCHANGED <<pools, worker, ctxDone, history>>

(* The Go type of the active task is the one the call asserts. *)
AssertedType(c, t) == IF c = "restore" THEN t \in RestoreTasks ELSE t \in BackupTasks

(* Second half: load activeTask; cancel its context when it matches. *)
CancelActive(c) ==
    LET a == active[loc[c]] IN
    /\ pc[c] = "active"
    /\ a = NoTask \/ AssertedType(c, a)
    /\ ctxDone' = [t \in Tasks |-> ctxDone[t] \/ (t = a /\ t \in Target(c, arg[c]))]
    /\ Return(c)
    /\ UNCHANGED <<pools, worker, canceled, history>>

(* The unchecked type assertion fails: the goroutine panics and the        *)
(* process with it.                                                        *)
CancelPanic(c) ==
    LET a == active[loc[c]] IN
    /\ pc[c] = "active"
    /\ a # NoTask /\ ~AssertedType(c, a)
    /\ Restart

CancelSnapshot(t) == t \in BackupTasks /\ CancelMark("snapshot", t, OwnerOf[t])
CancelRestore(t)  == t \in RestoreTasks /\ CancelMark("restore", t, OwnerOf[t])
CancelBackup(b)   == \E t \in BackupTasks : PlanOf[t] = b /\ CancelMark("backup", b, OwnerOf[t])

-----------------------------------------------------------------------------
(* The pond worker of pool p: taskFn. *)
Worker(p, from, to) == wpc[p] = from /\ wpc' = [wpc EXCEPT ![p] = to]

Dequeue(p) ==
    /\ Worker(p, "idle", "check")
    /\ queue[p] # <<>>
    /\ cur' = [cur EXCEPT ![p] = Head(queue[p])]
    /\ queue' = [queue EXCEPT ![p] = Tail(@)]
    /\ UNCHANGED <<userPools, tasks, active, flags, callers, history>>

(* Mutant: the flag is not looked at. *)
CheckNothing(p) ==
    /\ Worker(p, "check", "activate")
    /\ UNCHANGED <<pools, cur, active, flags, callers, history>>

(* if task.IsCanceled() return *)
CheckCanceled(p) ==
    /\ Worker(p, "check", IF canceled[cur[p]] THEN "delete" ELSE "activate")
    /\ UNCHANGED <<pools, cur, active, flags, callers, history>>

(* setActiveTask(task); task.Run() begins *)
Activate(p) ==
    /\ Worker(p, "activate", "run")
    /\ active' = [active EXCEPT ![p] = cur[p]]
    /\ ran' = ran \cup {cur[p]}
    /\ UNCHANGED <<pools, cur, flags, callers, submitted>>

(* task.Run() returns, or panics into the deferred recover *)
RunReturns(p) ==
    /\ Worker(p, "run", "delete")
    /\ UNCHANGED <<pools, cur, active, flags, callers, history>>

(* Mutant: the deferred function forgets the table. *)
DeferNoDelete(p) ==
    /\ Worker(p, "delete", "clear")
    /\ UNCHANGED <<pools, cur, active, flags, callers, history>>

(* deferred: tasks.Delete *)
DeferDelete(p) ==
    /\ Worker(p, "delete", "clear")
    /\ tasks' = [tasks EXCEPT ![p] = @ \ {cur[p]}]
    /\ UNCHANGED <<userPools, queue, cur, active, flags, callers, history>>

(* Mutant: the active task is not reset. *)
DeferKeepsActive(p) ==
    /\ Worker(p, "clear", "idle")
    /\ cur' = [cur EXCEPT ![p] = NoTask]
    /\ UNCHANGED <<pools, active, flags, callers, history>>

(* deferred: setActiveTask(nil) *)
DeferClear(p) ==
    /\ Worker(p, "clear", "idle")
    /\ active' = [active EXCEPT ![p] = NoTask]
    /\ cur' = [cur EXCEPT ![p] = NoTask]
    /\ UNCHANGED <<pools, flags, callers, history>>

WorkerStep(p) ==
    \/ Dequeue(p) \/ CheckCanceled(p) \/ Activate(p)
    \/ RunReturns(p) \/ DeferDelete(p) \/ DeferClear(p)

CallerStep(c) ==
    \/ LoadPool(c) \/ CreatePool(c) \/ StoreTask(c)
    \/ Submit(c) \/ SubmitRefused(c) \/ CancelActive(c) \/ CancelPanic(c)

Next ==
    \/ \E t \in BackupTasks : AddBackupTask(t) \/ CancelSnapshot(t)
    \/ \E t \in RestoreTasks : AddRestoreTask(t) \/ CancelRestore(t)
    \/ \E b \in Plans : CancelBackup(b)
    \/ \E c \in Callers : CallerStep(c)
    \/ \E p \in Pools : WorkerStep(p)
    \/ Restart

Spec == Init /\ [][Next]_vars

(* Goroutines keep running, and a task's Run returns. *)
FairSpec ==
    /\ Spec
    /\ \A c \in Callers : WF_vars(CallerStep(c))
    /\ \A p \in Pools : WF_vars(WorkerStep(p))

-----------------------------------------------------------------------------
TypeOK ==
    /\ userPools \in [Owners -> Adders \cup {"none"}]
    /\ tasks \in [Pools -> SUBSET Tasks]
    /\ queue \in [Pools -> Seq(Tasks)]
    /\ wpc \in [Pools -> {"idle", "check", "activate", "run", "delete", "clear"}]
    /\ cur \in [Pools -> Tasks \cup {NoTask}]
    /\ active \in [Pools -> Tasks \cup {NoTask}]
    /\ canceled \in [Tasks -> BOOLEAN]
    /\ ctxDone \in [Tasks -> BOOLEAN]
    /\ pc \in [Callers -> {"idle", "load", "create", "table", "submit", "active"}]
    /\ arg \in [Callers -> Tasks \cup Plans \cup {NoTask}]
    /\ loc \in [Callers -> Pools \cup {<<>>}]
    /\ submitted \subseteq Tasks
    /\ ran \subseteq Tasks

Elements(s) == {s[i] : i \in 1..Len(s)}

(* The worker of pool p holds a task that is still in the table. *)
Held(p) == {t \in {cur[p]} : wpc[p] \in {"check", "activate", "run", "delete"}}

(* Tasks stored in p's table whose TrySubmit has not been called yet. *)
Storing(p) == {arg[c] : c \in {d \in Adders : pc[d] = "submit" /\ loc[d] = p}}

(* addTask, ExistsTask and taskFn's defer: the table of a pool lists the   *)
(* tasks that are queued, held by the worker or about to be submitted, and *)
(* nothing else.  An entry left behind would make ExistsTask refuse every  *)
(* later snapshot of the plan; a missing one could not be cancelled.       *)
TableIsExact ==
    \A p \in Pools : tasks[p] = Elements(queue[p]) \cup Held(p) \cup Storing(p)

(* AddBackupTask refuses a snapshot "currently running or queued": a pool  *)
(* never holds two tasks of one plan that are both not cancelled.          *)
OneLiveTaskPerPlan ==
    \A p \in Pools : \A t, u \in tasks[p] \cap BackupTasks :
        PlanOf[t] = PlanOf[u] /\ ~canceled[t] /\ ~canceled[u] => t = u

(* setActiveTask brackets Run: whenever a run is in progress activeTask    *)
(* points to it, so CancelSnapshot cancels the context of the task that    *)
(* runs, and it never points to a task whose taskFn is over.               *)
ActiveIsTheRun ==
    \A p \in Pools :
        /\ wpc[p] = "run" => active[p] = cur[p]
        /\ active[p] # NoTask => active[p] = cur[p] /\ wpc[p] \in {"run", "delete", "clear"}

(* CancelBackup, CancelSnapshot and CancelRestore assert the Go type of    *)
(* the active task without checking it.                                    *)
ActiveTypeAsserted ==
    \A c \in Callers : pc[c] = "active" =>
        active[loc[c]] = NoTask \/ AssertedType(c, active[loc[c]])

(* A task flagged while it waits in the queue never runs. *)
FlaggedInQueueNeverRuns ==
    \A t \in Tasks :
        [](canceled[t] /\ (\E p \in Pools : t \in Elements(queue[p])) => [](t \notin ran))

(* Every task that enters a table leaves it: its worker gets to it, or the *)
(* process restarts.                                                       *)
TableDrains == \A p \in Pools, t \in Tasks : t \in tasks[p] ~> t \notin tasks[p]
=============================================================================
