-------------------------- MODULE RestoreLifecycle --------------------------
(***************************************************************************)
(* The life of Restore objects of one owner.                               *)
(*                                                                         *)
(* The API server creates restores and marks them Canceled or Deleted.     *)
(* The restore controller does all its work in the event predicates, on    *)
(* the goroutine of the informer: CreateFunc hands new restores to the     *)
(* worker and fails those a restart interrupted, UpdateFunc cancels and    *)
(* deletes.  The worker runs the restores one by one.                      *)
(*                                                                         *)
(* RestoreHandler.Update reads the object again and puts the caller's Spec *)
(* over it, so it overwrites every phase written before that second read;  *)
(* UpdatePhase's first read decides nothing more and is one step with it.  *)
(* When somebody writes after the second read the update conflicts, and is *)
(* sent again with the same copy until the context ends or the object is   *)
(* gone.  <<a, r>> \in fresh says that the copy of r of actor a is current.*)
(*                                                                         *)
(* Every request of a user is a goroutine of its own, and nothing orders   *)
(* two of them that are for the same restore.                              *)
(***************************************************************************)
EXTENDS Naturals, Sequences, FiniteSets

CONSTANTS
    Restores,
    AppRestores,   \* restores of an application, the others restore files
    LocationOf,    \* [Restores -> Locations], where the data comes from
    NoRestore,
    Requests,      \* the cancel and delete requests of users
    Attempts,      \* of SetRestorePhase, 5 in the code
    MaxRestarts,   \* bound: times the controller dies
    MaxFaults      \* bound: calls that fail

Locations == {"space", "awss3", "tencentcloud", "filesystem"}

ASSUME RestoreAssumption ==
    /\ NoRestore \notin Restores
    /\ AppRestores \subseteq Restores
    /\ LocationOf \in [Restores -> Locations]
    /\ {"handler", "worker"} \cap Requests = {}
    /\ Attempts \in Nat \ {0}
    /\ MaxRestarts \in Nat /\ MaxFaults \in Nat

VARIABLES
    phase,      \* Spec.Phase; "None" before the object exists, "Gone" after
    fresh,      \* <<actor, restore>>: the actor's copy is current
    apc,        \* where each request is in cancelRestore
    target,     \* its restore
    event,      \* its b.Event
    up,         \* the controller process runs
    firstSec,   \* the clock still shows the second the controller started in
    new,        \* restores with CreationTimestamp.After(controllerStartTime)
    events,     \* watch events of each restore the predicates have not seen
    hpc, hkey,  \* where the predicate is, and the restore it works on
    tries,      \* attempts of SetRestorePhase that have failed
    table,      \* TaskPool.tasks
    queue,      \* the pond queue
    flagged,    \* tasks with BaseTask.canceled
    ctxDone,    \* tasks whose context is cancelled
    wpc, wtask, \* where the worker is, and the task it holds
    werr,       \* the error the run ended with: "none" or "failed"
    data,       \* what the run has brought back
    starts,     \* how many times the restore of each has begun
    restarts, faults

process == <<up, firstSec, new, restarts>>
api     == <<apc, target, event>>
handler == <<hpc, hkey, tries>>
pool    == <<table, queue, flagged, ctxDone>>
run     == <<wpc, wtask, werr>>
outside == <<data, starts>>
vars    == <<phase, fresh, api, process, events, handler, pool, run, outside, faults>>

Final  == {"Completed", "Failed", "Canceled"}
Phases == {"Pending", "Running", "Deleted"} \cup Final
Absent == {"None", "Gone"}
Actors == Requests \cup {"handler", "worker"}
Events == {"create", "update"} \X Phases

-----------------------------------------------------------------------------
(* The API store. *)

Exists(r) == phase[r] \notin Absent

(* GetRestore by actor a *)
Read(a, r) == fresh' = fresh \cup {<<a, r>>}

Current(a, r) == Exists(r) /\ <<a, r>> \in fresh

Forget(a, r) == fresh' = fresh \ {<<a, r>>}

(* UpdateFunc acts on these updates and lets all others pass. *)
ActsOn(ph) == ph \in {"Canceled", "Deleted"}

(* A successful update of r, with the watch event it causes. *)
Write(r, ph) ==
    /\ phase' = [phase EXCEPT ![r] = ph]
    /\ fresh' = {c \in fresh : c[2] # r}
    /\ events' = IF up /\ ActsOn(ph)
                 THEN [events EXCEPT ![r] = Append(@, <<"update", ph>>)] ELSE events

(* A call over the network fails. *)
Fault == faults < MaxFaults /\ faults' = faults + 1

-----------------------------------------------------------------------------
(* The API server. *)

(* Mutant: the object is created in phase New. *)
CreateNew(r) ==
    /\ phase[r] = "None"
    /\ phase' = [phase EXCEPT ![r] = "New"]
    /\ UNCHANGED <<fresh, api, process, events, handler, pool, run, outside, faults>>

(* addRestore, CreateRestore: the stored creation time has whole seconds,  *)
(* so one made in the controller's first second is not after its start.    *)
Create(r) ==
    /\ phase[r] = "None"
    /\ phase' = [phase EXCEPT ![r] = "Pending"]
    /\ new' = IF up /\ ~firstSec THEN new \cup {r} ELSE new
    /\ events' = IF up THEN [events EXCEPT ![r] = Append(@, <<"create", "Pending">>)] ELSE events
    /\ UNCHANGED <<fresh, api, up, firstSec, restarts, handler, pool, run, outside, faults>>

Answer(u) == apc' = [apc EXCEPT ![u] = "done"] /\ event' = [event EXCEPT ![u] = "none"]

(* cancelRestore of request u with b.Event = ev: a restore that has not    *)
(* ended is cancelled first, whatever the event.                           *)
CancelRequest(u, r, ev) ==
    /\ apc[u] = "new" /\ Exists(r)
    /\ \/ phase[r] \in {"Pending", "Running"} /\ apc' = [apc EXCEPT ![u] = "cancelread"]
       \/ /\ phase[r] \notin {"Pending", "Running"} /\ ev = "delete"
          /\ apc' = [apc EXCEPT ![u] = "deleteread"]
    /\ target' = [target EXCEPT ![u] = r] /\ event' = [event EXCEPT ![u] = ev]
    /\ UNCHANGED <<phase, fresh, process, events, handler, pool, run, outside, faults>>

(* UpdatePhase(Canceled) or UpdatePhase(Deleted): read, *)
RequestRead(u) ==
    /\ apc[u] \in {"cancelread", "deleteread"}
    /\ IF Exists(target[u])
       THEN /\ apc' = [apc EXCEPT ![u] = IF @ = "cancelread" THEN "cancelwrite" ELSE "deletewrite"]
            /\ Read(u, target[u]) /\ UNCHANGED event
       ELSE Answer(u) /\ UNCHANGED fresh
    /\ UNCHANGED <<phase, target, process, events, handler, pool, run, outside, faults>>

(* and write whatever the phase was, another request's Deleted too;        *)
(* writing what is there already may change nothing.                       *)
RequestWrite(u) ==
    LET r  == target[u]
        ph == IF apc[u] = "cancelwrite" THEN "Canceled" ELSE "Deleted" IN
    /\ apc[u] \in {"cancelwrite", "deletewrite"}
    /\ Current(u, r)
    /\ Write(r, ph) \/ (phase[r] = ph /\ Forget(u, r) /\ UNCHANGED <<phase, events>>)
    /\ IF apc[u] = "cancelwrite" /\ event[u] = "delete"
       THEN apc' = [apc EXCEPT ![u] = "deleteread"] /\ UNCHANGED event
       ELSE Answer(u)
    /\ UNCHANGED <<target, process, handler, pool, run, outside, faults>>

(* The copy is not current: the request ends when its client goes away. *)
RequestConflict(u) ==
    /\ apc[u] \in {"cancelwrite", "deletewrite"} /\ ~Current(u, target[u])
    /\ Answer(u)
    /\ UNCHANGED <<phase, target, fresh, process, events, handler, pool, run, outside, faults>>

RequestError(u) ==
    /\ apc[u] \notin {"new", "done"} /\ Fault
    /\ Answer(u) /\ Forget(u, target[u])
    /\ UNCHANGED <<phase, target, process, events, handler, pool, run, outside>>

-----------------------------------------------------------------------------
(* The event predicates, one goroutine. *)

Handling(label) == up /\ hpc = label

HReturn == hpc' = "idle" /\ hkey' = NoRestore /\ tries' = 0

Take(r, label) ==
    /\ events' = [events EXCEPT ![r] = Tail(@)]
    /\ IF label = "idle" THEN UNCHANGED handler ELSE hpc' = label /\ hkey' = r /\ UNCHANGED tries

(* AddRestoreTask *)
AddTask(r) == table' = table \cup {r} /\ queue' = Append(queue, r)

(* Mutant: no return after AddRestoreTask, so the case falls through. *)
CreateFuncFallsThrough(r, ph) ==
    \/ /\ ph = "Pending" /\ r \in new
       /\ AddTask(r) /\ Take(r, "failread")
    \/ /\ ph \in {"Pending", "Running"} /\ r \notin new
       /\ Take(r, "failread") /\ UNCHANGED <<table, queue>>
    \/ /\ ph \notin {"Pending", "Running"}
       /\ Take(r, "idle") /\ UNCHANGED <<table, queue>>

(* Mutants: what a restart interrupted is run again, or left as it is. *)
CreateFuncRunsAgain(r, ph) ==
    \/ /\ ph \in {"Pending", "Running"}
       /\ AddTask(r) /\ Take(r, "idle")
    \/ /\ ph \notin {"Pending", "Running"}
       /\ Take(r, "idle") /\ UNCHANGED <<table, queue>>

CreateFuncKeepsRunning(r, ph) ==
    \/ /\ ph = "Pending" /\ r \in new
       /\ AddTask(r) /\ Take(r, "idle")
    \/ /\ ph = "Pending" /\ r \notin new
       /\ Take(r, "failread") /\ UNCHANGED <<table, queue>>
    \/ /\ ph # "Pending"
       /\ Take(r, "idle") /\ UNCHANGED <<table, queue>>

(* CreateFunc, on the phase ph of the event: a new restore goes to the     *)
(* worker, and fails if the pool refuses it; one that an earlier process   *)
(* left behind fails; the rest, Deleted ones too, is let pass.  The type   *)
(* addRestore stores always parses again: the returns for one that does    *)
(* not are out of reach.                                                   *)
CreateFunc(r, ph) ==
    \/ /\ ph = "Pending" /\ r \in new
       /\ \/ AddTask(r) /\ Take(r, "idle")
          \/ Take(r, "failread") /\ UNCHANGED <<table, queue>>
    \/ /\ ph \in {"Pending", "Running"} /\ ~(ph = "Pending" /\ r \in new)
       /\ Take(r, "failread") /\ UNCHANGED <<table, queue>>
    \/ /\ ph \notin {"Pending", "Running"}
       /\ Take(r, "idle") /\ UNCHANGED <<table, queue>>

HandleCreate(r) ==
    /\ Handling("idle") /\ events[r] # <<>> /\ Head(events[r])[1] = "create"
    /\ CreateFunc(r, Head(events[r])[2])
    /\ UNCHANGED <<phase, fresh, api, process, flagged, ctxDone, run, outside, faults>>

(* The worker has published its task as the active one. *)
IsActive(r) == wtask = r /\ wpc \notin {"idle", "check", "activate"}

(* Mutant: only tasks that wait are cancelled. *)
CancelQueued(r) ==
    /\ flagged' = IF r \in table THEN flagged \cup {r} ELSE flagged
    /\ UNCHANGED ctxDone

(* CancelRestore: flag the task, cancel the context of an active one *)
CancelRestore(r) ==
    /\ flagged' = IF r \in table THEN flagged \cup {r} ELSE flagged
    /\ ctxDone' = IF IsActive(r) THEN ctxDone \cup {r} ELSE ctxDone

(* UpdateFunc *)
HandleUpdate(r) ==
    /\ Handling("idle") /\ events[r] # <<>> /\ Head(events[r])[1] = "update"
    /\ IF Head(events[r])[2] = "Canceled"
       THEN Take(r, "idle") /\ CancelRestore(r)
       ELSE Take(r, "delete") /\ UNCHANGED <<flagged, ctxDone>>
    /\ UNCHANGED <<phase, fresh, api, process, table, queue, run, outside, faults>>

(* SetRestorePhase(Failed): read, *)
FailRead ==
    /\ Handling("failread")
    /\ IF Exists(hkey)
       THEN Read("handler", hkey) /\ hpc' = "failwrite" /\ UNCHANGED <<hkey, tries>>
       ELSE HReturn /\ UNCHANGED fresh
    /\ UNCHANGED <<phase, api, process, events, pool, run, outside, faults>>

(* The attempt has failed: another one follows, or the error is logged. *)
TryAgain ==
    \/ tries + 1 < Attempts /\ hpc' = "failread" /\ tries' = tries + 1 /\ UNCHANGED hkey
    \/ tries + 1 >= Attempts /\ HReturn

(* and write whatever the phase was; a conflict is a failed attempt. *)
FailWrite ==
    /\ Handling("failwrite")
    /\ IF Current("handler", hkey)
       THEN Write(hkey, "Failed") /\ HReturn
       ELSE TryAgain /\ UNCHANGED <<phase, fresh, events>>
    /\ UNCHANGED <<api, process, pool, run, outside, faults>>

(* The attempts that are left fail. *)
FailGivesUp ==
    /\ hpc \in {"failread", "failwrite"} /\ up /\ Fault
    /\ HReturn /\ Forget("handler", hkey)
    /\ UNCHANGED <<phase, api, process, events, pool, run, outside>>

(* Mutant: a restore that is not Deleted any more is kept. *)
DeleteIfDeleted ==
    /\ Handling("delete")
    /\ phase' = [phase EXCEPT ![hkey] = IF @ = "Deleted" THEN "Gone" ELSE @]
    /\ fresh' = {c \in fresh : c[2] # hkey}
    /\ HReturn
    /\ UNCHANGED <<api, process, events, pool, run, outside, faults>>

(* DeleteRestore, whatever the phase is by now *)
DeleteRestore ==
    /\ Handling("delete")
    /\ phase' = [phase EXCEPT ![hkey] = "Gone"]
    /\ fresh' = {c \in fresh : c[2] # hkey}
    /\ HReturn
    /\ UNCHANGED <<api, process, events, pool, run, outside, faults>>

(* Its error is ignored, and nothing deletes the restore later. *)
DeleteError ==
    /\ Handling("delete") /\ Fault
    /\ HReturn
    /\ UNCHANGED <<phase, fresh, api, process, events, pool, run, outside>>

(* clearHistoryRestores, the controller's nightly job: it deletes what was *)
(* created more than 15 days ago, whatever its phase.  The age is left     *)
(* open; an error leaves the restore for the next night.                   *)
ClearHistoryRestores(r) ==
    /\ up /\ Exists(r)
    /\ phase' = [phase EXCEPT ![r] = "Gone"]
    /\ fresh' = {c \in fresh : c[2] # r}
    /\ UNCHANGED <<api, process, events, handler, pool, run, outside, faults>>

-----------------------------------------------------------------------------
(* The worker: taskFn and RunRestore. *)

Working(label) == up /\ wpc = label

WGoto(label) == wpc' = label /\ UNCHANGED <<wtask, werr>>

(* The run has failed: updateRestoreResult is next. *)
WFail == wpc' = "result" /\ werr' = "failed" /\ UNCHANGED wtask

Done(r) == r \in ctxDone

Dequeue ==
    /\ Working("idle") /\ queue # <<>>
    /\ wtask' = Head(queue) /\ queue' = Tail(queue)
    /\ wpc' = "check" /\ werr' = "none"
    /\ UNCHANGED <<phase, fresh, api, process, events, handler, table, flagged, ctxDone, outside, faults>>

CheckCanceled ==
    /\ Working("check")
    /\ WGoto(IF wtask \in flagged THEN "exit" ELSE "activate")
    /\ UNCHANGED <<phase, fresh, api, process, events, handler, pool, outside, faults>>

Activate ==
    /\ Working("activate")
    /\ WGoto("exists")
    /\ UNCHANGED <<phase, fresh, api, process, events, handler, pool, outside, faults>>

(* checkRestoreExists: its error leaves the restore as it is, and the      *)
(* phase it read is not looked at.                                         *)
CheckRestoreExists ==
    /\ Working("exists")
    /\ \/ Exists(wtask) /\ ~Done(wtask) /\ WGoto("prepare") /\ UNCHANGED faults
       \/ (Done(wtask) \/ ~Exists(wtask)) /\ WGoto("exit") /\ UNCHANGED faults
       \/ Fault /\ WGoto("exit")
    /\ UNCHANGED <<phase, fresh, api, process, events, handler, pool, outside>>

(* getUserspacePvc, prepareRestoreParams, checkDiskSize *)
Prepare ==
    /\ Working("prepare")
    /\ WGoto("startread") \/ WFail
    /\ UNCHANGED <<phase, fresh, api, process, events, handler, pool, outside, faults>>

(* prepareForRun: UpdatePhase(Running) in the context of the task *)
StartRead ==
    /\ Working("startread")
    /\ IF Done(wtask) \/ ~Exists(wtask)
       THEN WFail /\ UNCHANGED fresh
       ELSE WGoto("startwrite") /\ Read("worker", wtask)
    /\ UNCHANGED <<phase, api, process, events, handler, pool, outside, faults>>

(* With a copy that is not current the worker is held here until the       *)
(* context is cancelled or the restore is gone.                            *)
StartWrite ==
    /\ Working("startwrite")
    /\ \/ /\ Current("worker", wtask) /\ ~Done(wtask)
          /\ Write(wtask, "Running")
          /\ starts' = [starts EXCEPT ![wtask] = @ + 1]
          /\ WGoto("execute")
       \/ /\ Done(wtask) \/ ~Exists(wtask)
          /\ WFail /\ Forget("worker", wtask)
          /\ UNCHANGED <<phase, events, starts>>
    /\ UNCHANGED <<api, process, handler, pool, data, faults>>

StartError ==
    /\ wpc \in {"startread", "startwrite"} /\ up /\ Fault
    /\ WFail /\ Forget("worker", wtask)
    /\ UNCHANGED <<phase, api, process, events, handler, pool, outside>>

(* progressCallback: UpdateProgress writes a Running restore *)
Progress ==
    /\ Working("execute") /\ ~Done(wtask) /\ phase[wtask] = "Running"
    /\ Write(wtask, "Running")
    /\ UNCHANGED <<api, process, handler, pool, run, outside, faults>>

(* execute, restoreFromSpace: restic brings the data back, or fails and    *)
(* removeRestoreFiles clears what it wrote.                                *)
Execute ==
    /\ Working("execute")
    /\ \/ data' = [data EXCEPT ![wtask] = "downloaded"] /\ WGoto("deliver")
       \/ WFail /\ UNCHANGED data
    /\ UNCHANGED <<phase, fresh, api, process, events, handler, pool, starts, faults>>

(* getIntegrationCloud fails: the error message reads the type of the nil  *)
(* token it returned, and the run panics into taskFn's recover.            *)
TokenPanic ==
    /\ Working("execute") /\ LocationOf[wtask] \in {"awss3", "tencentcloud"}
    /\ WGoto("exit")
    /\ UNCHANGED <<phase, fresh, api, process, events, handler, pool, outside, faults>>

(* renameRestoreDirectory: an error is logged, and the run goes on *)
Rename ==
    /\ Working("deliver") /\ wtask \notin AppRestores
    /\ \/ data' = [data EXCEPT ![wtask] = "delivered"] /\ UNCHANGED faults
       \/ Fault /\ UNCHANGED data
    /\ WGoto("result")
    /\ UNCHANGED <<phase, fresh, api, process, events, handler, pool, starts>>

(* readyForRestoreApp: StartAppRestore, *)
StartAppRestore ==
    /\ Working("deliver") /\ wtask \in AppRestores
    /\ WGoto("app") \/ WFail
    /\ UNCHANGED <<phase, fresh, api, process, events, handler, pool, outside, faults>>

(* then GetAppRestoreStatus until the application has finished, or reports *)
(* an error.  After 15 seconds, or a cancel, ctx.Done() is ready: the code *)
(* compares err, which is nil there, with the context's errors, and        *)
(* returns nil.                                                            *)
AwaitAppRestore ==
    /\ Working("app")
    /\ \/ data' = [data EXCEPT ![wtask] = "applied"] /\ WGoto("result")
       \/ WFail /\ UNCHANGED data
       \/ WGoto("result") /\ UNCHANGED data
    /\ UNCHANGED <<phase, fresh, api, process, events, handler, pool, starts, faults>>

(* updateRestoreResult: nothing is written once the context is cancelled *)
ResultRead ==
    /\ Working("result")
    /\ IF Done(wtask) \/ ~Exists(wtask)
       THEN WGoto("exit") /\ UNCHANGED fresh
       ELSE WGoto("resultwrite") /\ Read("worker", wtask)
    /\ UNCHANGED <<phase, api, process, events, handler, pool, outside, faults>>

(* The read fails: a connection error is tried again, after any other the  *)
(* code goes on with a nil restore and panics into taskFn's recover.       *)
ResultReadError ==
    /\ Working("result") /\ Fault
    /\ WGoto("result") \/ WGoto("exit")
    /\ UNCHANGED <<phase, fresh, api, process, events, handler, pool, outside>>

(* Mutant: the error of the run is lost. *)
ResultPhaseOptimist == "Completed"

ResultPhase == IF werr = "failed" THEN "Failed" ELSE "Completed"

(* As in StartWrite, a copy that is not current holds the worker here. *)
ResultWrite ==
    /\ Working("resultwrite")
    /\ \/ /\ Current("worker", wtask) /\ ~Done(wtask)
          /\ Write(wtask, ResultPhase)
       \/ /\ Done(wtask) \/ ~Exists(wtask)
          /\ Forget("worker", wtask) /\ UNCHANGED <<phase, events>>
    /\ WGoto("exit")
    /\ UNCHANGED <<api, process, handler, pool, outside, faults>>

(* The update of the result fails: PollImmediate gives up. *)
ResultError ==
    /\ Working("resultwrite") /\ Fault
    /\ Forget("worker", wtask) /\ WGoto("exit")
    /\ UNCHANGED <<phase, api, process, events, handler, pool, outside>>

(* taskFn's defer; the task object is gone *)
Exit ==
    /\ Working("exit")
    /\ table' = table \ {wtask} /\ flagged' = flagged \ {wtask} /\ ctxDone' = ctxDone \ {wtask}
    /\ wpc' = "idle" /\ wtask' = NoRestore /\ werr' = "none"
    /\ UNCHANGED <<phase, fresh, api, process, events, handler, queue, outside, faults>>

-----------------------------------------------------------------------------
(* The controller process. *)

NoEvents == [r \in Restores |-> <<>>]

(* The informer lists every restore and reports each as created. *)
Start ==
    /\ ~up
    /\ up' = TRUE /\ firstSec' = TRUE /\ new' = {}
    /\ events' = [r \in Restores |-> IF Exists(r) THEN << <<"create", phase[r]>> >> ELSE <<>>]
    /\ UNCHANGED <<phase, fresh, api, restarts, handler, pool, run, outside, faults>>

SecondPasses ==
    /\ up /\ firstSec
    /\ firstSec' = FALSE
    /\ UNCHANGED <<phase, fresh, api, up, new, restarts, events, handler, pool, run, outside, faults>>

Crash ==
    /\ up /\ restarts < MaxRestarts
    /\ restarts' = restarts + 1
    /\ up' = FALSE /\ firstSec' = FALSE /\ new' = {} /\ events' = NoEvents
    /\ HReturn
    /\ table' = {} /\ queue' = <<>> /\ flagged' = {} /\ ctxDone' = {}
    /\ wpc' = "idle" /\ wtask' = NoRestore /\ werr' = "none"
    /\ fresh' = {c \in fresh : c[1] \in Requests}
    /\ UNCHANGED <<phase, api, outside, faults>>

-----------------------------------------------------------------------------
Init ==
    /\ phase = [r \in Restores |-> "None"] /\ fresh = {}
    /\ apc = [u \in Requests |-> "new"] /\ target = [u \in Requests |-> NoRestore]
    /\ event = [u \in Requests |-> "none"]
    /\ up = FALSE /\ firstSec = FALSE /\ new = {} /\ events = NoEvents
    /\ hpc = "idle" /\ hkey = NoRestore /\ tries = 0
    /\ table = {} /\ queue = <<>> /\ flagged = {} /\ ctxDone = {}
    /\ wpc = "idle" /\ wtask = NoRestore /\ werr = "none"
    /\ data = [r \in Restores |-> "none"] /\ starts = [r \in Restores |-> 0]
    /\ restarts = 0 /\ faults = 0

ApiStep(u) == RequestRead(u) \/ RequestWrite(u) \/ RequestConflict(u) \/ RequestError(u)

HandlerStep ==
    \/ \E r \in Restores : HandleCreate(r) \/ HandleUpdate(r)
    \/ FailRead \/ FailWrite \/ FailGivesUp \/ DeleteRestore \/ DeleteError

WorkerStep ==
    \/ Dequeue \/ CheckCanceled \/ Activate \/ CheckRestoreExists \/ Prepare
    \/ StartRead \/ StartWrite \/ StartError \/ Execute \/ TokenPanic
    \/ Rename \/ StartAppRestore \/ AwaitAppRestore
    \/ ResultRead \/ ResultReadError \/ ResultWrite \/ ResultError \/ Exit

Next ==
    \/ \E r \in Restores : Create(r) \/ ClearHistoryRestores(r)
    \/ \E u \in Requests :
          \/ ApiStep(u)
          \/ \E r \in Restores, ev \in {"cancel", "delete"} : CancelRequest(u, r, ev)
    \/ HandlerStep \/ WorkerStep \/ Progress
    \/ Start \/ SecondPasses \/ Crash

Spec == Init /\ [][Next]_vars

(* The informer's and the worker's goroutine keep running, what they wait  *)
(* for answers, and a controller that died is started again.               *)
FairSpec ==
    /\ Spec
    /\ WF_vars(HandlerStep) /\ WF_vars(WorkerStep)
    /\ WF_vars(Start) /\ \A u \in Requests : WF_vars(ApiStep(u))

-----------------------------------------------------------------------------
TypeOK ==
    /\ phase \in [Restores -> Phases \cup Absent]
    /\ fresh \subseteq Actors \X Restores
    /\ apc \in [Requests ->
                 {"new", "cancelread", "cancelwrite", "deleteread", "deletewrite", "done"}]
    /\ target \in [Requests -> Restores \cup {NoRestore}]
    /\ \A u \in Requests : apc[u] = "new" <=> target[u] = NoRestore
    /\ event \in [Requests -> {"none", "cancel", "delete"}]
    /\ up \in BOOLEAN /\ firstSec \in BOOLEAN /\ new \subseteq Restores
    /\ events \in [Restores -> Seq(Events)]
    /\ hpc \in {"idle", "failread", "failwrite", "delete"}
    /\ hkey \in Restores \cup {NoRestore} /\ (hpc = "idle" <=> hkey = NoRestore)
    /\ tries \in 0..(Attempts - 1)
    /\ table \subseteq Restores /\ queue \in Seq(Restores)
    /\ flagged \subseteq Restores /\ ctxDone \subseteq Restores
    /\ wpc \in {"idle", "check", "activate", "exists", "prepare", "startread", "startwrite",
                "execute", "deliver", "app", "result", "resultwrite", "exit"}
    /\ wtask \in Restores \cup {NoRestore} /\ (wpc = "idle" <=> wtask = NoRestore)
    /\ werr \in {"none", "failed"}
    /\ data \in [Restores -> {"none", "downloaded", "delivered", "applied"}]
    /\ starts \in [Restores -> Nat]
    /\ restarts \in 0..MaxRestarts /\ faults \in 0..MaxFaults

(* A restore is recorded Completed only when restic has brought its data   *)
(* back, whatever cancels, deletes, conflicts and restarts raced with      *)
(* updateRestoreResult.                                                    *)
CompletedHasData == \A r \in Restores : phase[r] = "Completed" => data[r] # "none"

(* A restore begins to write into the user's files at most once, across    *)
(* restarts of the controller: CreateFunc never adds one a second time.    *)
StartedOnce == \A r \in Restores : starts[r] <= 1

(* A Completed or Failed restore is never put back to Running by           *)
(* prepareForRun: nothing is still going to run for it.  The runs check it *)
(* as a part of ImplementsRecord; RestoreLifecycleProofs proves both.      *)
FinishedNeverReopens ==
    [][\A r \in Restores :
          phase[r] \in {"Completed", "Failed"} => phase'[r] \notin {"Pending", "Running"}]_vars

(* The store and the files change only as RestoreRecord says: the worker,  *)
(* the predicates and the API server, racing and restarting, implement it. *)
Record == INSTANCE RestoreRecord
ImplementsRecord == Record!Spec

(* Every restore that no request arrives for ends, across restarts of the  *)
(* controller and whatever is cancelled or deleted beside it.              *)
EveryRestoreEnds ==
    \A r \in Restores :
        (phase[r] \in {"Pending", "Running"} /\ \A u \in Requests : target[u] # r)
            ~> (phase[r] \notin {"Pending", "Running"} \/ \E u \in Requests : target[u] = r)

(* The worker leaves every task: the retries of Update, which have no      *)
(* limit of their own, do not hold it for ever when a user's cancel or     *)
(* delete makes its copy stale.                                            *)
WorkerLeavesEveryTask == \A r \in Restores : r \in table ~> r \notin table

(* A delete that reaches UpdateFunc removes the restore, also when the     *)
(* worker writes Running or a result over Deleted in the meantime; only a  *)
(* restart of the controller may come before it.                           *)
DeleteSeenIsDone ==
    \A r \in Restores :
        (restarts = 0 /\ \E i \in 1..Len(events[r]) : events[r][i] = <<"update", "Deleted">>)
            ~> (phase[r] = "Gone" \/ restarts > 0)
=============================================================================
