-------------------------- MODULE SnapshotLifecycle --------------------------
(***************************************************************************)
(* The life of Snapshot objects of one owner, from the request that        *)
(* creates them to the recorded result.                                    *)
(*                                                                         *)
(* Two processes share only the Kubernetes API store.  The API server      *)
(* creates snapshots and marks them Canceled.  The controller watches      *)
(* them: its reconciler hands Pending ones to the worker, tells the worker *)
(* about cancelled ones and reports results to the cloud; its worker runs  *)
(* the backups one by one and writes the results.  The controller may die  *)
(* and be started again at any time.                                       *)
(*                                                                         *)
(* Objects carry a resource version: an update succeeds only when nobody   *)
(* wrote the object since the updater read it.  <<a, s>> \in fresh says    *)
(* that the copy of s that actor a holds is current.  The update functions *)
(* retry a conflict with the same copy until their context expires, so an  *)
(* update with a copy that is not current ends in an error.                *)
(***************************************************************************)
EXTENDS Naturals, Sequences, FiniteSets

CONSTANTS
    Snapshots,
    Plans,
    PlanOf,        \* [Snapshots -> Plans]
    AppPlans,      \* plans that back up an application, the others back up files
    LocationOf,    \* [Plans -> Locations], where a plan keeps its data
    NoSnapshot,
    MaxRestarts,   \* bound: times the controller dies
    MaxFaults,     \* bound: calls to the API store or the cloud that fail
    MaxCancels     \* bound: cancel requests of users

Locations == {"space", "awss3", "tencentcloud", "filesystem"}

ASSUME SnapshotAssumption ==
    /\ NoSnapshot \notin Snapshots
    /\ PlanOf \in [Snapshots -> Plans]
    /\ AppPlans \subseteq Plans
    /\ LocationOf \in [Plans -> Locations]
    /\ MaxRestarts \in Nat /\ MaxFaults \in Nat /\ MaxCancels \in Nat

VARIABLES
    phase,      \* Spec.Phase, "None" before the object exists
    pushed,     \* the result bit of Spec.Extra["push"]
    fresh,      \* <<actor, snapshot>>: the actor's copy is current
    api,        \* where the cancel request of each snapshot is
    up,         \* the controller process runs
    firstSec,   \* the clock still shows the second the controller started in
    new,        \* snapshots with CreationTimestamp.After(controllerStartTime)
    wq,         \* the reconciler's work queue
    rpc, rkey,  \* where Reconcile is, and the snapshot it works on
    rphase,     \* the phase in the copy Reconcile read
    table,      \* TaskPool.tasks
    queue,      \* the pond queue
    flagged,    \* tasks with BaseTask.canceled
    ctxDone,    \* tasks whose context is cancelled
    wpc, wtask, \* where the worker is, and the task it holds
    werr,       \* the error the run ended with: "none", "failed" or "canceled"
    cloud,      \* the last status the cloud was told
    saved,      \* snapshots whose data restic has saved
    restarts, faults, cancels

store   == <<phase, pushed, fresh>>
process == <<up, firstSec, new, restarts>>
recon   == <<rpc, rkey, rphase>>
pool    == <<table, queue, flagged, ctxDone>>
run     == <<wpc, wtask, werr>>
outside == <<cloud, saved>>
vars    == <<store, api, process, wq, recon, pool, run, outside, faults, cancels>>

Terminal == {"Completed", "Failed", "Canceled"}
Phases   == {"Pending", "Running"} \cup Terminal
Actors   == {"api", "rec", "worker"}

-----------------------------------------------------------------------------
(* The API store. *)

Exists(s) == phase[s] # "None"

(* GetById by actor a *)
Read(a, s) == fresh' = fresh \cup {<<a, s>>}

Current(a, s) == <<a, s>> \in fresh

(* UpdateFunc of SetupWithManager: does the change of s reach the queue?   *)
(* Progress reports and snapshots whose result was pushed do not.          *)
EnqueueUpdate(s, ph, pu) ==
    up /\ ~(phase[s] = "Running" /\ ph = "Running") /\ ~pu

(* Mutant: finished snapshots are not queued. *)
EnqueueUnfinished(s) == phase[s] \notin Terminal

(* CreateFunc: finished snapshots are queued until their result is pushed. *)
EnqueueCreate(s) == phase[s] \in Terminal => ~pushed[s]

(* A successful Update of s, with the watch event it causes. *)
Write(s, ph, pu) ==
    /\ phase'  = [phase EXCEPT ![s] = ph]
    /\ pushed' = [pushed EXCEPT ![s] = pu]
    /\ fresh'  = {r \in fresh : r[2] # s}
    /\ wq'     = IF EnqueueUpdate(s, ph, pu) THEN wq \cup {s} ELSE wq

(* A call over the network fails. *)
Fault == faults < MaxFaults /\ faults' = faults + 1

-----------------------------------------------------------------------------
(* The API server. *)

(* Mutant: the object is created in phase New. *)
CreateNew(s) ==
    /\ ~Exists(s)
    /\ phase' = [phase EXCEPT ![s] = "New"]
    /\ new' = IF up /\ ~firstSec THEN new \cup {s} ELSE new
    /\ wq' = IF up THEN wq \cup {s} ELSE wq
    /\ UNCHANGED <<pushed, fresh, api, up, firstSec, restarts, recon, pool, run, outside, faults, cancels>>

(* addSnapshot, and the cron job's Create: the creation time stored in the *)
(* object has whole seconds, so one made in the controller's first second  *)
(* is not after its start time.                                            *)
Create(s) ==
    /\ ~Exists(s)
    /\ phase' = [phase EXCEPT ![s] = "Pending"]
    /\ new' = IF up /\ ~firstSec THEN new \cup {s} ELSE new
    /\ wq' = IF up THEN wq \cup {s} ELSE wq
    /\ UNCHANGED <<pushed, fresh, api, up, firstSec, restarts, recon, pool, run, outside, faults, cancels>>

(* cancelSnapshot: read the phase; Failed and Completed need no cancel. *)
CancelCheck(s) ==
    /\ api[s] = "idle" /\ cancels < MaxCancels
    /\ Exists(s) /\ phase[s] \notin {"Failed", "Completed"}
    /\ api' = [api EXCEPT ![s] = "checked"]
    /\ cancels' = cancels + 1
    /\ UNCHANGED <<store, process, wq, recon, pool, run, outside, faults>>

(* UpdatePhase(Canceled): read again, *)
CancelRead(s) ==
    /\ api[s] = "checked"
    /\ api' = [api EXCEPT ![s] = "read"]
    /\ Read("api", s)
    /\ UNCHANGED <<phase, pushed, process, wq, recon, pool, run, outside, faults, cancels>>

(* and write whatever the phase was. *)
CancelWrite(s) ==
    /\ api[s] = "read"
    /\ api' = [api EXCEPT ![s] = "idle"]
    /\ IF Current("api", s)
       THEN Write(s, "Canceled", pushed[s])
       ELSE UNCHANGED <<store, wq>>
    /\ UNCHANGED <<process, recon, pool, run, outside, faults, cancels>>

(* A request of the API server fails or its client goes away. *)
CancelError(s) ==
    /\ api[s] # "idle"
    /\ Fault
    /\ api' = [api EXCEPT ![s] = "idle"]
    /\ fresh' = fresh \ {<<"api", s>>}
    /\ UNCHANGED <<phase, pushed, process, wq, recon, pool, run, outside, cancels>>

-----------------------------------------------------------------------------
(* The snapshot reconciler, one goroutine. *)

Reconciling(label) == up /\ rpc = label

RGoto(label) == rpc' = label /\ UNCHANGED <<rkey, rphase>>

(* Reconcile returns, and its copy of the snapshot is gone. *)
RReturn ==
    /\ rpc' = "idle" /\ rkey' = NoSnapshot /\ rphase' = "None"

Dropped(s) == fresh' = fresh \ {<<"rec", s>>}

Pop(s) ==
    /\ Reconciling("idle") /\ s \in wq
    /\ wq' = wq \ {s}
    /\ rpc' = "get" /\ rkey' = s /\ rphase' = "None"
    /\ UNCHANGED <<store, api, process, pool, run, outside, faults, cancels>>

(* Mutants: a Running snapshot is always, or never, taken for one that a   *)
(* restart interrupted.                                                    *)
DispatchFailsRunning(s, ph) ==
    CASE ph = "Pending" /\ s \in new -> "pending"
      [] ph = "Pending" /\ s \notin new -> "failread"
      [] ph = "Running" -> "failread"
      [] ph = "Canceled" -> "cancel"
      [] OTHER -> "notify"

DispatchKeepsRunning(s, ph) ==
    CASE ph = "Pending" /\ s \in new -> "pending"
      [] ph = "Pending" /\ s \notin new -> "failread"
      [] ph = "Running" -> "return"
      [] ph = "Canceled" -> "cancel"
      [] OTHER -> "notify"

(* What Reconcile does next, by the phase it read. *)
Dispatch(s, ph) ==
    CASE ph = "Pending" /\ s \in new    -> "pending"
      [] ph = "Running" /\ s \in new    -> "return"
      [] ph \in {"Pending", "Running"} /\ s \notin new -> "failread"
      [] ph = "Canceled"                -> "cancel"
      [] OTHER                          -> "notify"

Get ==
    /\ Reconciling("get")
    /\ LET next == Dispatch(rkey, phase[rkey]) IN
         IF next = "return"
         THEN RReturn /\ UNCHANGED fresh
         ELSE /\ rpc' = next /\ rphase' = phase[rkey] /\ UNCHANGED rkey
              /\ Read("rec", rkey)
    /\ UNCHANGED <<phase, pushed, api, process, wq, pool, run, outside, faults, cancels>>

(* Reconcile returns an error: the key is queued again. *)
Requeue == wq' = wq \cup {rkey} /\ RReturn /\ Dropped(rkey)

GetError ==
    /\ Reconciling("get") /\ Fault
    /\ Requeue
    /\ UNCHANGED <<phase, pushed, api, process, pool, run, outside, cancels>>

(* notifySnapshot, notifySnapshotResult: the cloud is told about plans in  *)
(* Olares Space only.                                                      *)
InSpace(s) == LocationOf[PlanOf[s]] = "space"

Tell(s, ph) == cloud' = IF InSpace(s) THEN [cloud EXCEPT ![s] = ph] ELSE cloud

(* addToWorkerManager: the cloud is told Pending; an error is ignored *)
NotifyPending ==
    /\ Reconciling("pending")
    /\ Tell(rkey, "Pending")
    /\ RGoto("add")
    /\ UNCHANGED <<store, api, process, wq, pool, run, saved, faults, cancels>>

NotifyPendingError ==
    /\ Reconciling("pending") /\ InSpace(rkey) /\ Fault
    /\ RGoto("add")
    /\ UNCHANGED <<store, api, process, wq, pool, run, outside, cancels>>

(* ExistsTask: a task of the plan that is not flagged is queued or running *)
ExistsTask(s) == \E t \in table \ flagged : PlanOf[t] = PlanOf[s]

(* Mutant: the task is added before ExistsTask is asked. *)
AddThenCheck ==
    /\ Reconciling("add")
    /\ table' = table \cup {rkey}
    /\ queue' = Append(queue, rkey)
    /\ IF ExistsTask(rkey)
       THEN RGoto("failread") /\ UNCHANGED fresh
       ELSE RReturn /\ Dropped(rkey)
    /\ UNCHANGED <<phase, pushed, api, process, wq, flagged, ctxDone, run, outside, faults, cancels>>

(* AddBackupTask; an error makes the snapshot Failed *)
Add ==
    /\ Reconciling("add")
    /\ IF ExistsTask(rkey)
       THEN RGoto("failread") /\ UNCHANGED <<fresh, table, queue>>
       ELSE /\ table' = table \cup {rkey}
            /\ queue' = Append(queue, rkey)
            /\ RReturn /\ Dropped(rkey)
    /\ UNCHANGED <<phase, pushed, api, process, wq, flagged, ctxDone, run, outside, faults, cancels>>

(* UpdatePhase(Failed): read, then write; an error is ignored *)
FailRead ==
    /\ Reconciling("failread")
    /\ Read("rec", rkey)
    /\ RGoto("failwrite")
    /\ UNCHANGED <<phase, pushed, api, process, wq, pool, run, outside, faults, cancels>>

FailWrite ==
    /\ Reconciling("failwrite")
    /\ IF Current("rec", rkey)
       THEN Write(rkey, "Failed", pushed[rkey])
       ELSE UNCHANGED <<store, wq>>
    /\ RReturn
    /\ UNCHANGED <<api, process, pool, run, outside, faults, cancels>>

FailError ==
    /\ rpc \in {"failread", "failwrite"} /\ up /\ Fault
    /\ RReturn /\ Dropped(rkey)
    /\ UNCHANGED <<phase, pushed, api, process, wq, pool, run, outside, cancels>>

(* The worker has published its task as the active one. *)
IsActive(s) == wtask = s /\ wpc \notin {"idle", "check", "activate"}

(* CancelSnapshot: flag the task, cancel the context of an active one *)
CancelSnapshot ==
    /\ Reconciling("cancel")
    /\ flagged' = IF rkey \in table THEN flagged \cup {rkey} ELSE flagged
    /\ ctxDone' = IF IsActive(rkey) THEN ctxDone \cup {rkey} ELSE ctxDone
    /\ RGoto("notify")
    /\ UNCHANGED <<store, api, process, wq, table, queue, run, outside, faults, cancels>>

(* notifySnapshotResult sends the phase of the copy read by Get *)
NotifyResult ==
    /\ Reconciling("notify")
    /\ Tell(rkey, rphase)
    /\ RGoto("mark")
    /\ UNCHANGED <<store, api, process, wq, pool, run, saved, faults, cancels>>

NotifyResultError ==
    /\ Reconciling("notify") /\ InSpace(rkey) /\ Fault
    /\ Requeue
    /\ UNCHANGED <<phase, pushed, api, process, pool, run, outside, cancels>>

(* Mutant: the mark is set on a copy read again, as UpdatePhase does. *)
MarkAnyway ==
    /\ Reconciling("mark")
    /\ Write(rkey, phase[rkey], TRUE)
    /\ RReturn
    /\ UNCHANGED <<api, process, pool, run, outside, faults, cancels>>

(* UpdateNotifyResultState with the copy read by Get; errors are logged *)
MarkNotified ==
    /\ Reconciling("mark")
    /\ IF Current("rec", rkey)
       THEN Write(rkey, phase[rkey], TRUE)
       ELSE UNCHANGED <<store, wq>>
    /\ RReturn
    /\ UNCHANGED <<api, process, pool, run, outside, faults, cancels>>

MarkError ==
    /\ Reconciling("mark") /\ Fault
    /\ RReturn /\ Dropped(rkey)
    /\ UNCHANGED <<phase, pushed, api, process, wq, pool, run, outside, cancels>>

-----------------------------------------------------------------------------
(* The worker: taskFn and RunBackup. *)

Working(label) == up /\ wpc = label

WGoto(label) == wpc' = label /\ UNCHANGED <<wtask, werr>>

(* f() or execute failed with error e: updateBackupResult is next *)
WFail(e) == wpc' = "result" /\ werr' = e /\ UNCHANGED wtask

Done(s) == s \in ctxDone

Dequeue ==
    /\ Working("idle") /\ queue # <<>>
    /\ wtask' = Head(queue) /\ queue' = Tail(queue)
    /\ wpc' = "check" /\ werr' = "none"
    /\ UNCHANGED <<store, api, process, wq, recon, table, flagged, ctxDone, outside, faults, cancels>>

CheckCanceled ==
    /\ Working("check")
    /\ WGoto(IF wtask \in flagged THEN "exit" ELSE "activate")
    /\ UNCHANGED <<store, api, process, wq, recon, pool, outside, faults, cancels>>

Activate ==
    /\ Working("activate")
    /\ WGoto("exists")
    /\ UNCHANGED <<store, api, process, wq, recon, pool, outside, faults, cancels>>

(* checkBackupExists, then validateSnapshotPreconditions on the copy read; *)
(* an error of the first leaves the snapshot as it is.                     *)
CheckExists ==
    /\ Working("exists")
    /\ \/ Done(wtask) /\ WGoto("exit")
       \/ ~Done(wtask) /\ phase[wtask] = "Pending" /\ WGoto("prepare")
       \/ ~Done(wtask) /\ phase[wtask] # "Pending" /\ WFail("failed")
    /\ UNCHANGED <<store, api, process, wq, recon, pool, outside, faults, cancels>>

CheckExistsError ==
    /\ Working("exists") /\ Fault
    /\ WGoto("exit")
    /\ UNCHANGED <<store, api, process, wq, recon, pool, outside, cancels>>

(* getUserspacePvc, checkSnapshotType, prepareBackupParams, checkDiskSize *)
Prepare ==
    /\ Working("prepare")
    /\ WGoto("startread") \/ WFail("failed")
    /\ UNCHANGED <<store, api, process, wq, recon, pool, outside, faults, cancels>>

(* prepareForRun: UpdatePhase(Running) in the context of the task *)
StartRead ==
    /\ Working("startread")
    /\ IF Done(wtask)
       THEN WFail("canceled") /\ UNCHANGED fresh
       ELSE WGoto("startwrite") /\ Read("worker", wtask)
    /\ UNCHANGED <<phase, pushed, api, process, wq, recon, pool, outside, faults, cancels>>

StartWrite ==
    /\ Working("startwrite")
    /\ IF Current("worker", wtask) /\ ~Done(wtask)
       THEN /\ Write(wtask, "Running", pushed[wtask])
            /\ WGoto(IF PlanOf[wtask] \in AppPlans THEN "app" ELSE "execute")
       ELSE /\ WFail(IF Done(wtask) THEN "canceled" ELSE "failed")
            /\ fresh' = fresh \ {<<"worker", wtask>>}
            /\ UNCHANGED <<phase, pushed, wq>>
    /\ UNCHANGED <<api, process, recon, pool, outside, faults, cancels>>

(* readyForBackupApp: the application has its files ready, or reports an   *)
(* error.  With the context cancelled it returns nil without a status, and *)
(* formatAppBackupFiles panics into taskFn's recover.                      *)
ReadyForBackupApp ==
    /\ Working("app")
    /\ \/ WGoto("execute") \/ WFail("failed")
       \/ Done(wtask) /\ WGoto("exit")
    /\ UNCHANGED <<store, api, process, wq, recon, pool, outside, faults, cancels>>

(* progressCallback: UpdateProgress writes a Running snapshot *)
Progress ==
    /\ Working("execute") /\ ~Done(wtask)
    /\ phase[wtask] = "Running"
    /\ Write(wtask, "Running", pushed[wtask])
    /\ UNCHANGED <<api, process, recon, pool, run, outside, faults, cancels>>

(* execute: restic saves the data, or fails, or sees the context cancelled *)
Execute ==
    /\ Working("execute")
    /\ \/ /\ wpc' = "result" /\ saved' = saved \cup {wtask} /\ UNCHANGED <<wtask, werr>>
       \/ WFail("failed") /\ UNCHANGED saved
       \/ Done(wtask) /\ WFail("canceled") /\ UNCHANGED saved
    /\ UNCHANGED <<store, api, process, wq, recon, pool, cloud, faults, cancels>>

(* getIntegrationCloud: without a token for the bucket it returns nil and  *)
(* an error; a token whose query fails stays nil in the list it searches.  *)
(* execute reads the type of the nil token for its AWS error message, the  *)
(* search reads the key of a nil token: the run panics into taskFn's       *)
(* recover.                                                                *)
TokenPanic ==
    /\ Working("execute")
    /\ \/ LocationOf[PlanOf[wtask]] = "awss3" /\ UNCHANGED faults
       \/ LocationOf[PlanOf[wtask]] \in {"awss3", "tencentcloud"} /\ Fault
    /\ WGoto("exit")
    /\ UNCHANGED <<store, api, process, wq, recon, pool, outside, cancels>>

(* updateBackupResult: nothing is written once the context is cancelled *)
ResultRead ==
    /\ Working("result")
    /\ IF Done(wtask)
       THEN WGoto("exit") /\ UNCHANGED fresh
       ELSE WGoto("resultwrite") /\ Read("worker", wtask)
    /\ UNCHANGED <<phase, pushed, api, process, wq, recon, pool, outside, faults, cancels>>

(* Mutant: only a cancelled run counts as one that did not complete. *)
ResultPhaseOptimist == IF werr = "canceled" THEN "Canceled" ELSE "Completed"

ResultPhase ==
    CASE werr = "none" -> "Completed" [] werr = "canceled" -> "Canceled" [] OTHER -> "Failed"

ResultWrite ==
    /\ Working("resultwrite")
    /\ IF Current("worker", wtask) /\ ~Done(wtask)
       THEN Write(wtask, ResultPhase, pushed[wtask])
       ELSE /\ fresh' = fresh \ {<<"worker", wtask>>}
            /\ UNCHANGED <<phase, pushed, wq>>
    /\ WGoto("exit")
    /\ UNCHANGED <<api, process, recon, pool, outside, faults, cancels>>

(* The update of the result fails: PollImmediate gives up. *)
ResultError ==
    /\ Working("resultwrite") /\ Fault
    /\ fresh' = fresh \ {<<"worker", wtask>>}
    /\ WGoto("exit")
    /\ UNCHANGED <<phase, pushed, api, process, wq, recon, pool, outside, cancels>>

(* taskFn's defer; the task object is gone *)
Exit ==
    /\ Working("exit")
    /\ table' = table \ {wtask} /\ flagged' = flagged \ {wtask} /\ ctxDone' = ctxDone \ {wtask}
    /\ wpc' = "idle" /\ wtask' = NoSnapshot /\ werr' = "none"
    /\ UNCHANGED <<store, api, process, wq, recon, queue, outside, faults, cancels>>

-----------------------------------------------------------------------------
(* The controller process. *)

(* The informer lists every snapshot and reports each as created. *)
Start ==
    /\ ~up
    /\ up' = TRUE /\ firstSec' = TRUE /\ new' = {}
    /\ wq' = {s \in Snapshots : Exists(s) /\ EnqueueCreate(s)}
    /\ UNCHANGED <<store, api, restarts, recon, pool, run, outside, faults, cancels>>

SecondPasses ==
    /\ up /\ firstSec
    /\ firstSec' = FALSE
    /\ UNCHANGED <<store, api, up, new, restarts, wq, recon, pool, run, outside, faults, cancels>>

Crash ==
    /\ up /\ restarts < MaxRestarts
    /\ restarts' = restarts + 1
    /\ up' = FALSE /\ firstSec' = FALSE /\ new' = {} /\ wq' = {}
    /\ RReturn
    /\ table' = {} /\ queue' = <<>> /\ flagged' = {} /\ ctxDone' = {}
    /\ wpc' = "idle" /\ wtask' = NoSnapshot /\ werr' = "none"
    /\ fresh' = {r \in fresh : r[1] = "api"}
    /\ UNCHANGED <<phase, pushed, api, outside, faults, cancels>>

-----------------------------------------------------------------------------
Init ==
    /\ phase = [s \in Snapshots |-> "None"] /\ pushed = [s \in Snapshots |-> FALSE]
    /\ fresh = {} /\ api = [s \in Snapshots |-> "idle"]
    /\ up = FALSE /\ firstSec = FALSE /\ new = {} /\ wq = {}
    /\ rpc = "idle" /\ rkey = NoSnapshot /\ rphase = "None"
    /\ table = {} /\ queue = <<>> /\ flagged = {} /\ ctxDone = {}
    /\ wpc = "idle" /\ wtask = NoSnapshot /\ werr = "none"
    /\ cloud = [s \in Snapshots |-> "None"] /\ saved = {}
    /\ restarts = 0 /\ faults = 0 /\ cancels = 0

ApiStep(s) == CancelRead(s) \/ CancelWrite(s) \/ CancelError(s)

ReconcileStep ==
    \/ \E s \in Snapshots : Pop(s)
    \/ Get \/ GetError \/ NotifyPending \/ NotifyPendingError \/ Add
    \/ FailRead \/ FailWrite \/ FailError
    \/ CancelSnapshot \/ NotifyResult \/ NotifyResultError \/ MarkNotified \/ MarkError

WorkerStep ==
    \/ Dequeue \/ CheckCanceled \/ Activate \/ CheckExists \/ CheckExistsError \/ Prepare
    \/ StartRead \/ StartWrite \/ ReadyForBackupApp \/ Execute \/ TokenPanic
    \/ ResultRead \/ ResultWrite \/ ResultError \/ Exit

Next ==
    \/ \E s \in Snapshots : Create(s) \/ CancelCheck(s) \/ ApiStep(s)
    \/ ReconcileStep \/ WorkerStep \/ Progress
    \/ Start \/ SecondPasses \/ Crash

Spec == Init /\ [][Next]_vars

(* The goroutines of a running controller keep running, what they wait for *)
(* answers, and a controller that died is started again.                   *)
FairSpec ==
    /\ Spec
    /\ WF_vars(ReconcileStep) /\ WF_vars(WorkerStep)
    /\ WF_vars(Start) /\ \A s \in Snapshots : WF_vars(ApiStep(s))

-----------------------------------------------------------------------------
TypeOK ==
    /\ phase \in [Snapshots -> Phases \cup {"None"}]
    /\ pushed \in [Snapshots -> BOOLEAN]
    /\ fresh \subseteq Actors \X Snapshots
    /\ api \in [Snapshots -> {"idle", "checked", "read"}]
    /\ up \in BOOLEAN /\ firstSec \in BOOLEAN
    /\ new \subseteq Snapshots /\ wq \subseteq Snapshots
    /\ rpc \in {"idle", "get", "pending", "add", "failread", "failwrite", "cancel", "notify", "mark"}
    /\ rkey \in Snapshots \cup {NoSnapshot} /\ (rpc = "idle" <=> rkey = NoSnapshot)
    /\ rphase \in Phases \cup {"None"}
    /\ table \subseteq Snapshots /\ queue \in Seq(Snapshots)
    /\ flagged \subseteq Snapshots /\ ctxDone \subseteq Snapshots
    /\ wpc \in {"idle", "check", "activate", "exists", "prepare", "startread", "startwrite",
                "app", "execute", "result", "resultwrite", "exit"}
    /\ wtask \in Snapshots \cup {NoSnapshot} /\ (wpc = "idle" <=> wtask = NoSnapshot)
    /\ werr \in {"none", "failed", "canceled"}
    /\ cloud \in [Snapshots -> Phases \cup {"None"}]
    /\ saved \subseteq Snapshots
    /\ restarts \in 0..MaxRestarts /\ faults \in 0..MaxFaults /\ cancels \in 0..MaxCancels

(* A snapshot is recorded Completed only when restic has saved its data,   *)
(* whatever writes, cancels and restarts raced with updateBackupResult.    *)
CompletedHasData == \A s \in Snapshots : phase[s] = "Completed" => s \in saved

(* A Completed or Failed snapshot is never put back to Running: nothing is *)
(* still going to run for it.                                              *)
FinishedNeverReopens ==
    [][\A s \in Snapshots :
          phase[s] \in {"Completed", "Failed"} => phase'[s] \notin {"Pending", "Running"}]_vars

(* UpdateNotifyResultState: the moment the result of a snapshot in Olares  *)
(* Space is recorded as pushed, the cloud has been told the phase the      *)
(* snapshot then has.                                                      *)
PushedWasReported ==
    [][\A s \in Snapshots :
          InSpace(s) /\ ~pushed[s] /\ pushed'[s] => cloud[s] = phase'[s]]_vars

(* The store and the cloud change only as SnapshotRecord says: the worker, *)
(* the reconciler and the API server, racing and restarting, implement it. *)
Record == INSTANCE SnapshotRecord WITH Reported <- {s \in Snapshots : InSpace(s)}
ImplementsRecord == Record!Spec

(* Every snapshot reaches a final phase, across restarts of the controller. *)
EverySnapshotEnds ==
    \A s \in Snapshots : phase[s] \in {"Pending", "Running"} ~> phase[s] \in Terminal

(* Every final phase is reported to the cloud and recorded as pushed. *)
EveryResultIsPushed ==
    \A s \in Snapshots :
        phase[s] \in Terminal ~> (pushed[s] /\ (InSpace(s) => cloud[s] = phase[s]))
=============================================================================
