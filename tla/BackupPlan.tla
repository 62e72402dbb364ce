----------------------------- MODULE BackupPlan -----------------------------
(***************************************************************************)
(* A backup plan from its creation to its removal.  The API server stores  *)
(* Backup objects under optimistic concurrency; requests of users edit     *)
(* them; the backup controller, one goroutine with a work queue, announces *)
(* each plan to the cloud and keeps one cron entry for it in memory; cron  *)
(* goroutines and addSnapshot create snapshots; the worker that has run a  *)
(* snapshot writes the plan's size.                                        *)
(***************************************************************************)
EXTENDS Naturals, Sequences

CONSTANTS
    Plans, Policies, Requests,
    BadPolicies,     \* policies whose cron line the cron library refuses
    SpacePlans,      \* plans stored in Olares Space
    NameOf,          \* the name each plan is created under
    NoPlan, NoSpec,
    MaxRuns, MaxFaults, MaxRestarts   \* bounds

ASSUME PlanAssumption ==
    /\ BadPolicies \subseteq Policies /\ SpacePlans \subseteq Plans
    /\ NoPlan \notin Plans /\ Requests \cap Plans = {}
    /\ "rec" \notin Plans \cup Requests
    /\ MaxRuns \in Nat /\ MaxFaults \in Nat /\ MaxRestarts \in Nat

(* BackupSpec: what the controller and the requests look at *)
Specs == [deleted : BOOLEAN, policy : Policies, enabled : BOOLEAN,
          notified : BOOLEAN, sized : 0..1]

ASSUME SpecAssumption == NoSpec \notin Specs

Ops == {"update", "pause", "resume", "delete", "snapshot"}

(* Who reads a plan and writes it back: a request, the worker that runs a  *)
(* snapshot of the plan (named by the plan), UpdateNotifyState.            *)
Actors == Requests \cup Plans \cup {"rec"}

VARIABLES
    spec, snaps,        \* API server: the plans, the plans that have snapshots
    copy, fresh,        \* copies that actors hold; those with the current version
    adding, req,        \* requests: addBackup, and the edits of a plan
    up, wq, rpc, rkey, rcopy, entries, jobs, run,   \* the controller process
    cloud,              \* what Olares Space knows of a plan
    runs, faults, restarts

store  == <<spec, snaps, copy, fresh>>
api    == <<adding, req>>
recon  == <<rpc, rkey, rcopy>>
bounds == <<runs, faults, restarts>>
vars   == <<store, api, up, wq, recon, entries, jobs, run, cloud, bounds>>

-----------------------------------------------------------------------------
(* The API server. *)

Stored(b) == spec[b] # NoSpec

Fault == faults < MaxFaults /\ faults' = faults + 1

(* Mutant: the caller of isPolicyUpdated does not negate its answer. *)
UpdateFuncEqual(old, new) ==
    /\ old # new
    /\ \/ new.deleted
       \/ old.sized # new.sized
       \/ <<old.policy, old.enabled>> = <<new.policy, new.enabled>>

(* Which updates reach the queue.  isPolicyUpdated answers whether the     *)
(* policies are equal, and its caller negates it.                          *)
UpdateFunc(old, new) ==
    /\ old # new
    /\ \/ new.deleted
       \/ old.sized # new.sized
       \/ <<old.policy, old.enabled>> # <<new.policy, new.enabled>>

Event(b, old, new) == wq' = IF up /\ UpdateFunc(old, new) THEN wq \cup {b} ELSE wq

Read(a, b) ==
    /\ copy'  = [copy EXCEPT ![a] = spec[b]]
    /\ fresh' = fresh \cup {<<a, b>>}

Drop(a) ==
    /\ copy'  = [copy EXCEPT ![a] = NoSpec]
    /\ fresh' = {r \in fresh : r[1] # a}

(* Mutant: the update carries no resource version. *)
CurrentAlways(a, b) == Stored(b)

(* update: a copy that is not current is refused with a conflict and sent  *)
(* again unchanged until the 60 seconds of its context are over.           *)
Current(a, b) == Stored(b) /\ <<a, b>> \in fresh

(* The write of actor a, which ends with it; one that changes nothing      *)
(* leaves the version of the object alone.                                 *)
Write(a, b, new) ==
    /\ spec'  = [spec EXCEPT ![b] = new]
    /\ copy'  = [copy EXCEPT ![a] = NoSpec]
    /\ fresh' = {r \in fresh : r[1] # a /\ (new # spec[b] => r[2] # b)}
    /\ Event(b, spec[b], new)

-----------------------------------------------------------------------------
(* Requests to the API server. *)

(* addBackup: GetByLabel finds no plan of that name, deleted ones included *)
AddCheck(b) ==
    /\ adding[b] = "new"
    /\ adding' = [adding EXCEPT ![b] =
            IF \E c \in Plans : Stored(c) /\ NameOf[c] = NameOf[b] THEN "refused" ELSE "checked"]
    /\ UNCHANGED <<store, req, up, wq, recon, entries, jobs, run, cloud, bounds>>

(* BackupPlan.Apply: validate, verifyUsage and getClusterId may refuse *)
AddRefused(b) ==
    /\ adding[b] = "checked"
    /\ adding' = [adding EXCEPT ![b] = "refused"]
    /\ UNCHANGED <<store, req, up, wq, recon, entries, jobs, run, cloud, bounds>>

MergeConfig(p) ==
    [deleted |-> FALSE, policy |-> p, enabled |-> TRUE, notified |-> FALSE, sized |-> 0]

Create(b, p) ==
    /\ adding[b] = "checked"
    /\ adding' = [adding EXCEPT ![b] = "created"]
    /\ spec' = [spec EXCEPT ![b] = MergeConfig(p)]
    /\ wq' = IF up THEN wq \cup {b} ELSE wq
    /\ UNCHANGED <<snaps, copy, fresh, req, up, recon, entries, jobs, run, cloud, bounds>>

(* update, enabledBackupPlan, deleteBackupPlan and addSnapshot begin with  *)
(* GetById; addSnapshot goes on only with a plan that is not deleted.      *)
Request(q, op, b, p) ==
    /\ req[q].pc = "new"
    /\ req' = [req EXCEPT ![q] = [pc |-> IF Stored(b) /\ ~(op = "snapshot" /\ spec[b].deleted)
                                         THEN "read" ELSE "failed",
                                  op |-> op, plan |-> b,
                                  policy |-> IF op = "update" THEN p ELSE NoPlan]]
    /\ IF Stored(b) /\ op # "snapshot" THEN Read(q, b) ELSE UNCHANGED <<copy, fresh>>
    /\ UNCHANGED <<spec, snaps, adding, up, wq, recon, entries, jobs, run, cloud, bounds>>

(* BackupPlan.Update (validBackupPolicy enables the policy of the request), *)
(* Enabled and Delete                                                       *)
Edited(s, op, p) ==
    CASE op = "update" -> [s EXCEPT !.policy = p, !.enabled = TRUE]
      [] op = "pause"  -> [s EXCEPT !.enabled = FALSE]
      [] op = "resume" -> [s EXCEPT !.enabled = TRUE]
      [] op = "delete" -> [s EXCEPT !.deleted = TRUE]

Editing(q) == req[q].pc = "read" /\ req[q].op # "snapshot"

Answer(q, answer) == req' = [req EXCEPT ![q].pc = answer]

RequestWrite(q) ==
    /\ Editing(q) /\ Current(q, req[q].plan)
    /\ Write(q, req[q].plan, Edited(copy[q], req[q].op, req[q].policy))
    /\ Answer(q, "ok")
    /\ UNCHANGED <<snaps, adding, up, recon, entries, jobs, run, cloud, bounds>>

(* The write fails: BackupPlan.Update drops the error, the others answer it *)
RequestFails(q) ==
    /\ Editing(q)
    /\ \/ ~Current(q, req[q].plan) /\ UNCHANGED faults
       \/ Fault
    /\ Answer(q, IF req[q].op = "update" THEN "ok" ELSE "failed")
    /\ Drop(q)
    /\ UNCHANGED <<spec, snaps, adding, up, wq, recon, entries, jobs, run, cloud, runs, restarts>>

AddSnapshot(q) ==
    /\ req[q].pc = "read" /\ req[q].op = "snapshot"
    /\ snaps' = snaps \cup {req[q].plan}
    /\ Answer(q, "ok")
    /\ UNCHANGED <<spec, copy, fresh, adding, up, wq, recon, entries, jobs, run, cloud, bounds>>

-----------------------------------------------------------------------------
(* BackupReconciler.Reconcile *)

RGoto(label) == rpc' = label /\ UNCHANGED <<rkey, rcopy>>

(* Mutant: the request that ended is not forgotten. *)
RReturnKeepsKey == rpc' = "idle" /\ UNCHANGED <<rkey, rcopy>>

RReturn == rpc' = "idle" /\ rkey' = NoPlan /\ rcopy' = NoSpec

Reconciling(label) == up /\ rpc = label

(* Mutant: an error is logged and the plan is not queued again. *)
RequeueNever == RReturn /\ UNCHANGED wq

Requeue == RReturn /\ wq' = wq \cup {rkey}

Pop(b) ==
    /\ Reconciling("idle") /\ b \in wq
    /\ wq' = wq \ {b}
    /\ rpc' = "get" /\ rkey' = b /\ UNCHANGED rcopy
    /\ UNCHANGED <<store, api, up, entries, jobs, run, cloud, bounds>>

(* Mutant: the notification comes before the check of Deleted. *)
DispatchNotifyFirst(s) ==
    IF ~s.notified THEN "notify" ELSE IF s.deleted THEN "cancel" ELSE "schedule"

Dispatch(s) ==
    IF s.deleted THEN "cancel" ELSE IF ~s.notified THEN "notify" ELSE "schedule"

Get ==
    /\ Reconciling("get")
    /\ \/ /\ ~Stored(rkey) /\ RReturn
       \/ /\ Stored(rkey)
          /\ rcopy' = spec[rkey] /\ rpc' = Dispatch(spec[rkey]) /\ UNCHANGED rkey
    /\ UNCHANGED <<store, api, up, wq, entries, jobs, run, cloud, bounds>>

(* Any call of the reconciler that fails ends it, and the plan is queued   *)
(* again; only the error of NotifyStopBackup is dropped.                   *)
ReconcileFails ==
    /\ up /\ rpc \in {"get", "delsnaps", "stop", "remove", "notify", "markread", "markwrite"}
    /\ Fault
    /\ Requeue /\ Drop("rec")
    /\ UNCHANGED <<spec, snaps, api, up, entries, jobs, run, cloud, runs, restarts>>

(* Mutant: the entries stay until the plan is gone. *)
RemoveNothing(b) == UNCHANGED entries

RemoveFromSchedule(b) == entries' = [entries EXCEPT ![b] = <<>>]

(* CancelBackup ends the context of the plan's run *)
CancelBackup ==
    /\ Reconciling("cancel")
    /\ RemoveFromSchedule(rkey)
    /\ run' = [run EXCEPT ![rkey] = "idle"] /\ Drop(rkey)
    /\ RGoto("delsnaps")
    /\ UNCHANGED <<spec, snaps, api, up, wq, jobs, cloud, bounds>>

DeleteSnapshots ==
    /\ Reconciling("delsnaps")
    /\ snaps' = snaps \ {rkey}
    /\ RGoto(IF rkey \in SpacePlans THEN "stop" ELSE "remove")
    /\ UNCHANGED <<spec, copy, fresh, api, up, wq, entries, jobs, run, cloud, bounds>>

NotifyStopBackup ==
    /\ Reconciling("stop")
    /\ \/ cloud' = [cloud EXCEPT ![rkey] = "stopped"] /\ UNCHANGED faults
       \/ Fault /\ UNCHANGED cloud
    /\ RGoto("remove")
    /\ UNCHANGED <<store, api, up, wq, entries, jobs, run, runs, restarts>>

Remove ==
    /\ Reconciling("remove")
    /\ spec' = [spec EXCEPT ![rkey] = NoSpec]
    /\ fresh' = {r \in fresh : r[2] # rkey}
    /\ RReturn
    /\ UNCHANGED <<snaps, copy, api, up, wq, entries, jobs, run, cloud, bounds>>

(* Mutant: a plan counts as announced when the cloud did not answer. *)
NotifyOnce ==
    /\ Reconciling("notify")
    /\ \/ cloud' = [cloud EXCEPT ![rkey] = "announced"]
       \/ UNCHANGED cloud
    /\ RGoto("markread")
    /\ UNCHANGED <<store, api, up, wq, entries, jobs, run, bounds>>

Notify ==
    /\ Reconciling("notify")
    /\ cloud' = IF rkey \in SpacePlans THEN [cloud EXCEPT ![rkey] = "announced"] ELSE cloud
    /\ RGoto("markread")
    /\ UNCHANGED <<store, api, up, wq, entries, jobs, run, bounds>>

(* UpdateNotifyState *)
MarkRead ==
    /\ Reconciling("markread")
    /\ Read("rec", rkey)
    /\ RGoto("markwrite")
    /\ UNCHANGED <<spec, snaps, api, up, wq, entries, jobs, run, cloud, bounds>>

MarkWrite ==
    /\ Reconciling("markwrite") /\ Current("rec", rkey)
    /\ Write("rec", rkey, [copy["rec"] EXCEPT !.notified = TRUE])
    /\ RGoto("schedule")
    /\ UNCHANGED <<snaps, api, up, entries, jobs, run, cloud, bounds>>

MarkConflict ==
    /\ Reconciling("markwrite") /\ ~Current("rec", rkey)
    /\ Drop("rec") /\ Requeue
    /\ UNCHANGED <<spec, snaps, api, up, entries, jobs, run, cloud, bounds>>

(* The cron entries of a plan as its spec s wants them *)
Wanted(s) == IF s.enabled /\ s.policy \notin BadPolicies THEN <<s.policy>> ELSE <<>>

(* RemoveFromSchedule, or CreateSchedule: the old entries go before AddJob *)
(* may refuse the new one                                                  *)
Schedule ==
    /\ Reconciling("schedule")
    /\ entries' = [entries EXCEPT ![rkey] = Wanted(rcopy)]
    /\ IF rcopy.enabled /\ rcopy.policy \in BadPolicies
       THEN Requeue
       ELSE RReturn /\ UNCHANGED wq
    /\ UNCHANGED <<store, api, up, jobs, run, cloud, bounds>>

-----------------------------------------------------------------------------
(* The other goroutines of the controller process. *)

(* The cron library starts the job in a goroutine of its own *)
Fire(b) ==
    /\ up /\ entries[b] # <<>> /\ b \notin jobs
    /\ jobs' = jobs \cup {b}
    /\ UNCHANGED <<store, api, up, wq, recon, entries, run, cloud, bounds>>

(* The job creates the snapshot without another look at the plan *)
JobCreate(b) ==
    /\ up /\ b \in jobs
    /\ jobs' = jobs \ {b}
    /\ \/ snaps' = snaps \cup {b} /\ UNCHANGED faults
       \/ Fault /\ UNCHANGED snaps
    /\ UNCHANGED <<spec, copy, fresh, api, up, wq, recon, entries, run, cloud, runs, restarts>>

(* checkBackupExists finds the snapshot and its plan *)
RunStart(b) ==
    /\ up /\ run[b] = "idle" /\ b \in snaps /\ Stored(b)
    /\ runs < MaxRuns /\ runs' = runs + 1
    /\ run' = [run EXCEPT ![b] = "running"]
    /\ UNCHANGED <<store, api, up, wq, recon, entries, jobs, cloud, faults, restarts>>

(* updateBackupResult reads the plan again; without it, without the        *)
(* snapshot, or without an output of restic the plan is not written.       *)
RunRead(b) ==
    /\ up /\ run[b] = "running"
    /\ \/ /\ Stored(b) /\ b \in snaps
          /\ Read(b, b) /\ run' = [run EXCEPT ![b] = "read"]
       \/ run' = [run EXCEPT ![b] = "idle"] /\ UNCHANGED <<copy, fresh>>
    /\ UNCHANGED <<spec, snaps, api, up, wq, recon, entries, jobs, cloud, bounds>>

(* UpdateTotalSize: an error is only logged.  A run takes seconds, so the  *)
(* time it stamps differs from the last one.                               *)
RunWrite(b) ==
    /\ up /\ run[b] = "read"
    /\ run' = [run EXCEPT ![b] = "idle"]
    /\ \/ /\ Current(b, b)
          /\ Write(b, b, [copy[b] EXCEPT !.sized = 1 - copy[b].sized, !.notified = FALSE])
          /\ UNCHANGED faults
       \/ /\ \/ ~Current(b, b) /\ UNCHANGED faults
             \/ Fault
          /\ Drop(b) /\ UNCHANGED <<spec, wq>>
    /\ UNCHANGED <<snaps, api, up, recon, entries, jobs, cloud, runs, restarts>>

(* Mutant: only plans that are not announced yet are taken up again. *)
StartUnnotified ==
    /\ ~up /\ up' = TRUE
    /\ wq' = {b \in Plans : Stored(b) /\ ~spec[b].notified}
    /\ UNCHANGED <<store, api, recon, entries, jobs, run, cloud, bounds>>

(* The informer lists every plan and reports each as created. *)
Start ==
    /\ ~up /\ up' = TRUE
    /\ wq' = {b \in Plans : Stored(b)}
    /\ UNCHANGED <<store, api, recon, entries, jobs, run, cloud, bounds>>

Crash ==
    /\ up /\ restarts < MaxRestarts
    /\ restarts' = restarts + 1
    /\ up' = FALSE /\ wq' = {} /\ jobs' = {} /\ RReturn
    /\ entries' = [b \in Plans |-> <<>>]
    /\ run' = [b \in Plans |-> "idle"]
    /\ copy' = [a \in Actors |-> IF a \in Requests THEN copy[a] ELSE NoSpec]
    /\ fresh' = {r \in fresh : r[1] \in Requests}
    /\ UNCHANGED <<spec, snaps, api, cloud, runs, faults>>

-----------------------------------------------------------------------------
NewRequest == [pc |-> "new", op |-> "none", plan |-> NoPlan, policy |-> NoPlan]

Init ==
    /\ spec = [b \in Plans |-> NoSpec] /\ snaps = {}
    /\ copy = [a \in Actors |-> NoSpec] /\ fresh = {}
    /\ adding = [b \in Plans |-> "new"] /\ req = [q \in Requests |-> NewRequest]
    /\ up = FALSE /\ wq = {} /\ rpc = "idle" /\ rkey = NoPlan /\ rcopy = NoSpec
    /\ entries = [b \in Plans |-> <<>>] /\ jobs = {} /\ run = [b \in Plans |-> "idle"]
    /\ cloud = [b \in Plans |-> "none"]
    /\ runs = 0 /\ faults = 0 /\ restarts = 0

ApiStep(q) == RequestWrite(q) \/ RequestFails(q) \/ AddSnapshot(q)

ReconcileStep ==
    \/ Get \/ ReconcileFails
    \/ CancelBackup \/ DeleteSnapshots \/ NotifyStopBackup \/ Remove
    \/ Notify \/ MarkRead \/ MarkWrite \/ MarkConflict \/ Schedule

Next ==
    \/ \E b \in Plans : AddCheck(b) \/ AddRefused(b) \/ \E p \in Policies : Create(b, p)
    \/ \E q \in Requests, b \in Plans, op \in Ops, p \in Policies : Request(q, op, b, p)
    \/ \E q \in Requests : ApiStep(q)
    \/ \E b \in Plans : Pop(b) \/ Fire(b) \/ JobCreate(b) \/ RunStart(b) \/ RunRead(b) \/ RunWrite(b)
    \/ ReconcileStep \/ Start \/ Crash

Spec == Init /\ [][Next]_vars

(* The reconciler's goroutine keeps running and a controller that died is  *)
(* started again; its queue is first in, first out, so a plan that keeps   *)
(* coming back does not shut out another.                                  *)
FairSpec ==
    /\ Spec
    /\ WF_vars(ReconcileStep) /\ WF_vars(Start)
    /\ \A b \in Plans : SF_vars(Pop(b))

-----------------------------------------------------------------------------
TypeOK ==
    /\ spec \in [Plans -> Specs \cup {NoSpec}] /\ snaps \subseteq Plans
    /\ copy \in [Actors -> Specs \cup {NoSpec}] /\ fresh \subseteq Actors \X Plans
    /\ adding \in [Plans -> {"new", "checked", "refused", "created"}]
    /\ req \in [Requests -> [pc : {"new", "read", "ok", "failed"}, op : Ops \cup {"none"},
                             plan : Plans \cup {NoPlan}, policy : Policies \cup {NoPlan}]]
    /\ up \in BOOLEAN /\ wq \subseteq Plans
    /\ rpc \in {"idle", "get", "cancel", "delsnaps", "stop", "remove", "notify",
                "markread", "markwrite", "schedule"}
    /\ rkey \in Plans \cup {NoPlan} /\ (rpc = "idle" <=> rkey = NoPlan)
    /\ rcopy \in Specs \cup {NoSpec} /\ (rpc \in {"idle", "get"} <=> rcopy = NoSpec)
    /\ entries \in [Plans -> Seq(Policies)] /\ jobs \subseteq Plans
    /\ run \in [Plans -> {"idle", "running", "read"}]
    /\ cloud \in [Plans -> {"none", "announced", "stopped"}]
    /\ runs \in 0..MaxRuns /\ faults \in 0..MaxFaults /\ restarts \in 0..MaxRestarts

(* No event is lost: a plan that neither waits in the queue nor is being   *)
(* reconciled is announced and not deleted, and the cron entries in memory *)
(* are exactly what the stored policy asks for, whatever UpdateFunc kept   *)
(* from the queue and whatever was edited while Reconcile held its copy.   *)
ScheduleIsCurrent ==
    \A b \in Plans : up /\ Stored(b) /\ b \notin wq /\ rkey # b =>
        ~spec[b].deleted /\ spec[b].notified /\ entries[b] = Wanted(spec[b])

(* A plan that was removed gets no further snapshots, but for the one of a *)
(* cron job or of an addSnapshot that was already under way.               *)
RemovedPlanIsQuiet ==
    [][\A b \in Plans :
          /\ adding[b] = "created" /\ ~Stored(b) /\ b \notin jobs
          /\ \A q \in Requests : req[q].plan = b => req[q].pc # "read"
          => /\ b \in snaps' => b \in snaps
             /\ b \notin jobs']_vars

(* A deleted plan stays deleted: no request, size or notification that was *)
(* read before the deletion brings it back.                                *)
DeleteIsFinal ==
    [][\A b \in Plans : Stored(b) /\ spec[b].deleted => ~Stored(b)' \/ spec'[b].deleted]_vars

(* A plan that Olares Space was told to stop is not announced to it again. *)
StoppedStaysStopped ==
    [][\A b \in Plans : cloud[b] = "stopped" => cloud'[b] = "stopped"]_vars

(* A plan in Olares Space is marked notified only if the cloud knows it. *)
NotifiedWasAnnounced ==
    \A b \in SpacePlans : Stored(b) /\ spec[b].notified => cloud[b] # "none"

(* A deleted plan is removed, across failing calls and restarts. *)
DeletedIsRemoved ==
    \A b \in Plans : (Stored(b) /\ spec[b].deleted) ~> ~Stored(b)

(* The cron entries always catch up with the stored policy, also while     *)
(* another plan's policy is refused by the cron library again and again.   *)
ScheduleSettles ==
    \A b \in Plans : []<>(Stored(b) => entries[b] = Wanted(spec[b]))
=============================================================================
