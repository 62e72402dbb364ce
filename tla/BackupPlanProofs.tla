-------------------------- MODULE BackupPlanProofs --------------------------
(***************************************************************************)
(* Proofs about BackupPlan for every set of plans, policies and requests   *)
(* and every number of runs, failing calls and restarts.                   *)
(***************************************************************************)
EXTENDS BackupPlan, TLAPS

(* A stored plan was created by its addBackup. *)
AddInv == \A b \in Plans : Stored(b) => adding[b] = "created"

(* Who may hold the current version of plan b *)
Holds(a, b) ==
    \/ a \in Requests /\ Editing(a) /\ req[a].plan = b
    \/ a \in Plans /\ a = b /\ run[b] = "read"
    \/ a = "rec" /\ rpc = "markwrite" /\ rkey = b

RequestInv ==
    \A q \in Requests : req[q].pc = "read" =>
        /\ req[q].plan \in Plans /\ req[q].op \in Ops
        /\ req[q].op = "update" => req[q].policy \in Policies

(* A version that is still current is what the store holds, and its holder *)
(* is between its read and its write.                                      *)
CopyInv ==
    \A a \in Actors, b \in Plans : <<a, b>> \in fresh =>
        Stored(b) /\ copy[a] = spec[b] /\ Holds(a, b)

Deleting == {"cancel", "delsnaps", "stop", "remove"}
Keeping  == {"notify", "markread", "markwrite", "schedule"}

(* What Reconcile knows of its plan: it alone removes plans, it follows    *)
(* one branch, and its copy has the stored policy unless an event waits.   *)
RecInv ==
    /\ rpc # "idle" => up
    /\ rpc \in Deleting => Stored(rkey) /\ spec[rkey].deleted
    /\ rpc \in {"delsnaps", "stop", "remove"} => entries[rkey] = <<>>
    /\ rpc \in Keeping => Stored(rkey) /\ ~rcopy.deleted
    /\ rpc \in Keeping /\ rkey \notin wq =>
          /\ ~spec[rkey].deleted
          /\ rcopy.policy = spec[rkey].policy /\ rcopy.enabled = spec[rkey].enabled
    /\ rpc = "schedule" /\ rkey \notin wq => spec[rkey].notified

(* What the cloud knows. *)
CloudInv ==
    /\ \A b \in Plans : cloud[b] = "stopped" => adding[b] = "created" /\ (Stored(b) => spec[b].deleted)
    /\ rpc \in {"notify", "markread", "markwrite"} => cloud[rkey] # "stopped"
    /\ rpc \in {"markread", "markwrite"} /\ rkey \in SpacePlans => cloud[rkey] # "none"
    /\ NotifiedWasAnnounced

EntryInv == \A b \in Plans : ~Stored(b) => entries[b] = <<>>

StoreInv == TypeOK /\ AddInv /\ RequestInv /\ CopyInv

-----------------------------------------------------------------------------
(* Type correctness, with what the writes need of the copies. *)

LEMMA StoreInit == Init => StoreInv
<1> SUFFICES ASSUME Init PROVE StoreInv
  OBVIOUS
<1>1. <<>> \in Seq(Policies) /\ 0 \in 0..MaxRuns /\ 0 \in 0..MaxFaults /\ 0 \in 0..MaxRestarts
  BY PlanAssumption
<1>2. NewRequest \in [pc : {"new", "read", "ok", "failed"}, op : Ops \cup {"none"},
                      plan : Plans \cup {NoPlan}, policy : Policies \cup {NoPlan}]
  BY DEF NewRequest
<1>3. TypeOK
  BY <1>1, <1>2 DEF Init, TypeOK
<1>4. AddInv /\ RequestInv /\ CopyInv
  BY DEF Init, AddInv, RequestInv, CopyInv, NewRequest, Stored
<1> QED
  BY <1>3, <1>4 DEF StoreInv

(* What a request makes of the copy it holds. *)
LEMMA EditedSpec ==
    ASSUME NEW s \in Specs, NEW op \in Ops, op # "snapshot",
           NEW p, op = "update" => p \in Policies
    PROVE  LET new == Edited(s, op, p) IN
           /\ new \in Specs
           /\ s.deleted => new.deleted
           /\ new.notified = s.notified /\ new.sized = s.sized
BY DEF Specs, Edited, Ops
LEMMA WriteType ==
    ASSUME TypeOK, NEW a \in Actors, NEW b \in Plans, NEW new \in Specs, Write(a, b, new)
    PROVE  /\ spec' \in [Plans -> Specs \cup {NoSpec}]
           /\ copy' \in [Actors -> Specs \cup {NoSpec}]
           /\ fresh' \subseteq Actors \X Plans
           /\ wq' \subseteq Plans
BY DEF TypeOK, Write, Event

LEMMA ReadType ==
    ASSUME TypeOK, NEW a \in Actors, NEW b \in Plans, Read(a, b)
    PROVE  copy' \in [Actors -> Specs \cup {NoSpec}] /\ fresh' \subseteq Actors \X Plans
BY DEF TypeOK, Read

LEMMA DropType ==
    ASSUME TypeOK, NEW a \in Actors, Drop(a)
    PROVE  copy' \in [Actors -> Specs \cup {NoSpec}] /\ fresh' \subseteq Actors \X Plans
BY DEF TypeOK, Drop

LEMMA FaultType ==
    ASSUME TypeOK, Fault PROVE faults' \in 0..MaxFaults
BY PlanAssumption DEF TypeOK, Fault

(* What a current copy is worth to its holder. *)
LEMMA CurrentCopy ==
    ASSUME StoreInv, NEW a \in Actors, NEW b \in Plans, Current(a, b)
    PROVE  copy[a] = spec[b] /\ copy[a] \in Specs /\ Holds(a, b)
BY DEF StoreInv, TypeOK, CopyInv, Current, Stored

LEMMA TypeApi ==
    ASSUME StoreInv,
           \/ \E b \in Plans : AddCheck(b) \/ AddRefused(b) \/ \E p \in Policies : Create(b, p)
           \/ \E q \in Requests, b \in Plans, op \in Ops, p \in Policies : Request(q, op, b, p)
           \/ \E q \in Requests : ApiStep(q)
    PROVE  TypeOK'
<1> USE DEF StoreInv, store, api, recon, bounds
<1>1. ASSUME NEW b \in Plans, AddCheck(b) \/ AddRefused(b) PROVE TypeOK'
  BY <1>1 DEF TypeOK, AddCheck, AddRefused
<1>2. ASSUME NEW b \in Plans, NEW p \in Policies, Create(b, p) PROVE TypeOK'
  <2>1. MergeConfig(p) \in Specs
    BY DEF MergeConfig, Specs
  <2> QED
    BY <1>2, <2>1 DEF TypeOK, Create
<1>3. ASSUME NEW q \in Requests, NEW b \in Plans, NEW op \in Ops, NEW p \in Policies, Request(q, op, b, p)
      PROVE  TypeOK'
  <2>1. copy' \in [Actors -> Specs \cup {NoSpec}] /\ fresh' \subseteq Actors \X Plans
    BY <1>3, ReadType DEF Request, TypeOK, Actors
  <2>2. req' \in [Requests -> [pc : {"new", "read", "ok", "failed"}, op : Ops \cup {"none"},
                               plan : Plans \cup {NoPlan}, policy : Policies \cup {NoPlan}]]
    BY <1>3 DEF Request, TypeOK
  <2> QED
    BY <1>3, <2>1, <2>2 DEF TypeOK, Request
<1>4. ASSUME NEW q \in Requests, RequestWrite(q) PROVE TypeOK'
  <2>1. req[q].plan \in Plans /\ q \in Actors
    BY <1>4 DEF RequestWrite, Editing, RequestInv, Actors
  <2>2. Edited(copy[q], req[q].op, req[q].policy) \in Specs
    BY <1>4, <2>1, CurrentCopy, EditedSpec DEF RequestWrite, Editing, RequestInv
  <2>3. /\ spec' \in [Plans -> Specs \cup {NoSpec}] /\ wq' \subseteq Plans
        /\ copy' \in [Actors -> Specs \cup {NoSpec}] /\ fresh' \subseteq Actors \X Plans
    BY <1>4, <2>1, <2>2, WriteType DEF RequestWrite
  <2> QED
    BY <1>4, <2>3 DEF TypeOK, RequestWrite, Answer
<1>5. ASSUME NEW q \in Requests, RequestFails(q) PROVE TypeOK'
  <2>1. copy' \in [Actors -> Specs \cup {NoSpec}] /\ fresh' \subseteq Actors \X Plans
    BY <1>5, DropType DEF RequestFails, Actors
  <2>2. faults' \in 0..MaxFaults
    BY <1>5, FaultType DEF RequestFails, TypeOK
  <2>3. PICK answer \in {"ok", "failed"} : Answer(q, answer)
    BY <1>5 DEF RequestFails
  <2>4. req' \in [Requests -> [pc : {"new", "read", "ok", "failed"}, op : Ops \cup {"none"},
                               plan : Plans \cup {NoPlan}, policy : Policies \cup {NoPlan}]]
    BY <2>3 DEF TypeOK, Answer
  <2> QED
    BY <1>5, <2>1, <2>2, <2>4 DEF TypeOK, RequestFails
<1>6. ASSUME NEW q \in Requests, AddSnapshot(q) PROVE TypeOK'
  <2>1. req[q].plan \in Plans
    BY <1>6 DEF AddSnapshot, RequestInv
  <2> QED
    BY <1>6, <2>1 DEF TypeOK, AddSnapshot, Answer
<1> QED
  BY <1>1, <1>2, <1>3, <1>4, <1>5, <1>6 DEF ApiStep

LEMMA TypeReconcile ==
    ASSUME StoreInv, ReconcileStep PROVE TypeOK'
<1> USE DEF StoreInv, store, api, recon, bounds, Reconciling, RGoto, RReturn, Requeue
<1>0. NoPlan \notin Plans /\ NoSpec \notin Specs /\ "rec" \in Actors /\ Plans \subseteq Actors
  BY PlanAssumption, SpecAssumption DEF Actors
<1>1. CASE Get
  <2>1. rkey \in Plans /\ Dispatch(spec[rkey]) \in {"cancel", "notify", "schedule"}
    BY <1>1 DEF TypeOK, Get, Dispatch
  <2> QED
    BY <1>0, <1>1, <2>1 DEF TypeOK, Get, Stored
<1>2. CASE ReconcileFails
  BY <1>0, <1>2, DropType, FaultType DEF TypeOK, ReconcileFails
<1>3. CASE CancelBackup
  <2>1. rkey \in Plans
    BY <1>3 DEF TypeOK, CancelBackup
  <2> QED
    BY <1>0, <1>3, <2>1, DropType DEF TypeOK, CancelBackup, RemoveFromSchedule
<1>4. CASE DeleteSnapshots
  BY <1>4 DEF TypeOK, DeleteSnapshots
<1>5. CASE NotifyStopBackup
  BY <1>5, FaultType DEF TypeOK, NotifyStopBackup
<1>6. CASE Remove
  BY <1>0, <1>6 DEF TypeOK, Remove
<1>7. CASE Notify
  BY <1>7 DEF TypeOK, Notify
<1>8. CASE MarkRead
  <2>1. rkey \in Plans
    BY <1>8 DEF TypeOK, MarkRead
  <2> QED
    BY <1>0, <1>8, <2>1, ReadType DEF TypeOK, MarkRead
<1>9. CASE MarkWrite
  <2>1. rkey \in Plans
    BY <1>9 DEF TypeOK, MarkWrite
  <2>2. [copy["rec"] EXCEPT !.notified = TRUE] \in Specs
    BY <1>0, <1>9, <2>1, CurrentCopy DEF MarkWrite, Specs
  <2> QED
    BY <1>0, <1>9, <2>1, <2>2, WriteType DEF TypeOK, MarkWrite
<1>10. CASE MarkConflict
  BY <1>0, <1>10, DropType DEF TypeOK, MarkConflict
<1>11. CASE Schedule
  <2>1. rkey \in Plans /\ rcopy \in Specs
    BY <1>0, <1>11 DEF TypeOK, Schedule
  <2>2. Wanted(rcopy) \in Seq(Policies)
    BY <2>1 DEF Wanted, Specs
  <2> QED
    BY <1>0, <1>11, <2>1, <2>2 DEF TypeOK, Schedule
<1> QED
  BY <1>1, <1>2, <1>3, <1>4, <1>5, <1>6, <1>7, <1>8, <1>9, <1>10, <1>11 DEF ReconcileStep

LEMMA TypeProcess ==
    ASSUME StoreInv,
           \/ \E b \in Plans : Pop(b) \/ Fire(b) \/ JobCreate(b) \/ RunStart(b) \/ RunRead(b) \/ RunWrite(b)
           \/ Start \/ Crash
    PROVE  TypeOK'
<1> USE DEF StoreInv, store, api, recon, bounds
<1>0. NoPlan \notin Plans /\ NoSpec \notin Specs /\ Plans \subseteq Actors
  BY PlanAssumption, SpecAssumption DEF Actors
<1>1. ASSUME NEW b \in Plans, Pop(b) PROVE TypeOK'
  BY <1>0, <1>1 DEF TypeOK, Pop, Reconciling
<1>2. ASSUME NEW b \in Plans, Fire(b) PROVE TypeOK'
  BY <1>2 DEF TypeOK, Fire
<1>3. ASSUME NEW b \in Plans, JobCreate(b) PROVE TypeOK'
  BY <1>3, FaultType DEF TypeOK, JobCreate
<1>4. ASSUME NEW b \in Plans, RunStart(b) PROVE TypeOK'
  BY <1>4, PlanAssumption DEF TypeOK, RunStart
<1>5. ASSUME NEW b \in Plans, RunRead(b) PROVE TypeOK'
  BY <1>0, <1>5, ReadType DEF TypeOK, RunRead
<1>6. ASSUME NEW b \in Plans, RunWrite(b) PROVE TypeOK'
  <2>1. CASE Current(b, b) /\ Write(b, b, [copy[b] EXCEPT !.sized = 1 - copy[b].sized, !.notified = FALSE])
    <3>1. [copy[b] EXCEPT !.sized = 1 - copy[b].sized, !.notified = FALSE] \in Specs
      <4>1. copy[b] \in Specs /\ copy[b].sized \in 0..1
        BY <1>0, <2>1, CurrentCopy DEF Specs
      <4>2. 1 - copy[b].sized \in 0..1
        BY <4>1
      <4> QED
        BY <4>1, <4>2 DEF Specs
    <3> QED
      BY <1>0, <1>6, <2>1, <3>1, WriteType, FaultType DEF TypeOK, RunWrite
  <2>2. CASE Drop(b) /\ UNCHANGED <<spec, wq>>
    BY <1>0, <1>6, <2>2, DropType, FaultType DEF TypeOK, RunWrite
  <2> QED
    BY <1>6, <2>1, <2>2 DEF RunWrite
<1>7. CASE Start
  BY <1>7 DEF TypeOK, Start
<1>8. CASE Crash
  <2>1. <<>> \in Seq(Policies) /\ restarts' \in 0..MaxRestarts
    BY <1>8, PlanAssumption DEF TypeOK, Crash
  <2>2. copy' \in [Actors -> Specs \cup {NoSpec}] /\ fresh' \subseteq Actors \X Plans
    BY <1>8 DEF TypeOK, Crash, Actors
  <2>3. entries' \in [Plans -> Seq(Policies)] /\ run' \in [Plans -> {"idle", "running", "read"}]
    BY <1>8, <2>1 DEF Crash
  <2> QED
    BY <1>8, <2>1, <2>2, <2>3 DEF TypeOK, Crash, RReturn
<1> QED
  BY <1>1, <1>2, <1>3, <1>4, <1>5, <1>6, <1>7, <1>8

-----------------------------------------------------------------------------
(* The rest of StoreInv. *)

LEMMA AddStep ==
    ASSUME StoreInv, [Next]_vars PROVE AddInv'
<1> SUFFICES ASSUME NEW c \in Plans, Stored(c)' PROVE adding'[c] = "created"
  BY DEF AddInv
<1> USE DEF StoreInv, AddInv, TypeOK, Stored, store, api, recon, bounds
<1>1. ASSUME NEW b \in Plans, AddCheck(b) \/ AddRefused(b) PROVE adding'[c] = "created"
  BY <1>1 DEF AddCheck, AddRefused
<1>2. ASSUME NEW b \in Plans, NEW p \in Policies, Create(b, p) PROVE adding'[c] = "created"
  BY <1>2 DEF Create
<1>3. ASSUME adding' = adding, spec'[c] # NoSpec => spec[c] # NoSpec PROVE adding'[c] = "created"
  BY <1>3
<1>4. ASSUME NEW a, NEW b, NEW new, Current(a, b), Write(a, b, new), adding' = adding PROVE adding'[c] = "created"
  BY <1>3, <1>4 DEF Current, Write
<1>5. ASSUME NEW q \in Requests, RequestWrite(q) PROVE adding'[c] = "created"
  BY <1>4, <1>5 DEF RequestWrite
<1>6. CASE MarkWrite
  BY <1>4, <1>6 DEF MarkWrite
<1>7. ASSUME NEW b \in Plans, RunWrite(b) PROVE adding'[c] = "created"
  BY <1>3, <1>4, <1>7 DEF RunWrite
<1>8. CASE Remove
  BY <1>3, <1>8 DEF Remove
<1>9. ASSUME adding' = adding, spec' = spec PROVE adding'[c] = "created"
  BY <1>3, <1>9
<1>10. CASE \/ \E q \in Requests, b \in Plans, op \in Ops, p \in Policies : Request(q, op, b, p)
            \/ \E q \in Requests : RequestFails(q) \/ AddSnapshot(q)
  BY <1>9, <1>10 DEF Request, RequestFails, AddSnapshot
<1>11. CASE \/ \E b \in Plans : Pop(b) \/ Fire(b) \/ JobCreate(b) \/ RunStart(b) \/ RunRead(b)
            \/ Start \/ Crash
  BY <1>9, <1>11 DEF Pop, Fire, JobCreate, RunStart, RunRead, Start, Crash
<1>12. CASE \/ Get \/ ReconcileFails \/ CancelBackup \/ DeleteSnapshots \/ NotifyStopBackup
            \/ Notify \/ MarkRead \/ MarkConflict \/ Schedule
  BY <1>9, <1>12 DEF Get, ReconcileFails, CancelBackup, DeleteSnapshots, NotifyStopBackup,
                     Notify, MarkRead, MarkConflict, Schedule
<1>13. CASE UNCHANGED vars
  BY <1>9, <1>13 DEF vars
<1> QED
  BY <1>1, <1>2, <1>5, <1>6, <1>7, <1>8, <1>10, <1>11, <1>12, <1>13 DEF Next, ApiStep, ReconcileStep

LEMMA RequestStep ==
    ASSUME StoreInv, [Next]_vars PROVE RequestInv'
<1> SUFFICES ASSUME NEW r \in Requests, req'[r].pc = "read"
             PROVE  /\ req'[r].plan \in Plans /\ req'[r].op \in Ops
                    /\ req'[r].op = "update" => req'[r].policy \in Policies
  BY DEF RequestInv
<1> USE DEF StoreInv, RequestInv, TypeOK, store, api, recon, bounds
<1>1. CASE req' = req
  BY <1>1
<1>2. ASSUME NEW q \in Requests, NEW answer \in {"ok", "failed"}, Answer(q, answer)
      PROVE  r # q /\ req'[r] = req[r]
  BY <1>2 DEF Answer
<1>3. CASE \E q \in Requests : ApiStep(q)
  <2>1. PICK q \in Requests : ApiStep(q)
    BY <1>3
  <2>2. \E answer \in {"ok", "failed"} : Answer(q, answer)
    BY <2>1 DEF ApiStep, RequestWrite, RequestFails, AddSnapshot
  <2> QED
    BY <1>2, <2>2
<1>4. ASSUME NEW q \in Requests, NEW b \in Plans, NEW op \in Ops, NEW p \in Policies, Request(q, op, b, p)
      PROVE  /\ req'[r].plan \in Plans /\ req'[r].op \in Ops
             /\ req'[r].op = "update" => req'[r].policy \in Policies
  BY <1>4 DEF Request
<1>5. CASE \E b \in Plans : AddCheck(b) \/ AddRefused(b) \/ \E p \in Policies : Create(b, p)
  BY <1>1, <1>5 DEF AddCheck, AddRefused, Create
<1>6. CASE \/ \E b \in Plans : Pop(b) \/ Fire(b) \/ JobCreate(b) \/ RunStart(b) \/ RunRead(b) \/ RunWrite(b)
           \/ Start \/ Crash
  BY <1>1, <1>6 DEF Pop, Fire, JobCreate, RunStart, RunRead, RunWrite, Start, Crash
<1>7. CASE ReconcileStep
  BY <1>1, <1>7 DEF ReconcileStep, Get, ReconcileFails, CancelBackup, DeleteSnapshots, NotifyStopBackup,
                    Remove, Notify, MarkRead, MarkWrite, MarkConflict, Schedule
<1>8. CASE UNCHANGED vars
  BY <1>1, <1>8 DEF vars
<1> QED
  BY <1>3, <1>4, <1>5, <1>6, <1>7, <1>8 DEF Next

(* After a write of actor a the versions of the others are current only if *)
(* nothing changed for them.                                               *)
LEMMA WriteKeeps ==
    ASSUME StoreInv, NEW a \in Actors, NEW b \in Plans, NEW new, Write(a, b, new),
           NEW c \in Actors, NEW d \in Plans, <<c, d>> \in fresh'
    PROVE  c # a /\ <<c, d>> \in fresh /\ copy'[c] = copy[c] /\ spec'[d] = spec[d]
BY DEF StoreInv, TypeOK, Write

LEMMA DropKeeps ==
    ASSUME StoreInv, NEW a \in Actors, Drop(a),
           NEW c \in Actors, NEW d \in Plans, <<c, d>> \in fresh'
    PROVE  c # a /\ <<c, d>> \in fresh /\ copy'[c] = copy[c]
BY DEF StoreInv, TypeOK, Drop

LEMMA ReadKeeps ==
    ASSUME StoreInv, NEW a \in Actors, NEW b \in Plans, Read(a, b),
           NEW c \in Actors, NEW d \in Plans, <<c, d>> \in fresh'
    PROVE  \/ <<c, d>> \in fresh /\ (c # a => copy'[c] = copy[c])
           \/ c = a /\ d = b /\ copy'[c] = spec[b]
BY DEF StoreInv, TypeOK, Read

LEMMA CopyStep ==
    ASSUME StoreInv, RecInv, [Next]_vars PROVE CopyInv'
<1> SUFFICES ASSUME NEW c \in Actors, NEW d \in Plans, <<c, d>> \in fresh'
             PROVE  Stored(d)' /\ copy'[c] = spec'[d] /\ Holds(c, d)'
  BY DEF CopyInv
<1> DEFINE Goal == Stored(d)' /\ copy'[c] = spec'[d] /\ Holds(c, d)'
<1> USE DEF store, api, recon, bounds
<1>0. /\ Requests \cap Plans = {} /\ "rec" \notin Plans /\ "rec" \notin Requests
      /\ Requests \subseteq Actors /\ Plans \subseteq Actors /\ "rec" \in Actors
      /\ NoPlan \notin Plans
  BY PlanAssumption DEF Actors
<1>1. ASSUME <<c, d>> \in fresh, copy'[c] = copy[c], spec'[d] = spec[d], Holds(c, d) => Holds(c, d)' PROVE Goal
  BY <1>1 DEF StoreInv, CopyInv, Stored
<1>2. ASSUME <<c, d>> \in fresh PROVE Holds(c, d) /\ Stored(d)
  BY <1>2 DEF StoreInv, CopyInv
<1>3. ASSUME fresh' = fresh, copy' = copy, spec' = spec, req' = req, run' = run, rpc' = rpc, rkey' = rkey PROVE Goal
  BY <1>1, <1>3 DEF Holds, Editing
<1>4. ASSUME NEW b \in Plans, AddCheck(b) \/ AddRefused(b) \/ Fire(b) \/ JobCreate(b) PROVE Goal
  BY <1>3, <1>4 DEF AddCheck, AddRefused, Fire, JobCreate
<1>5. ASSUME NEW b \in Plans, NEW p \in Policies, Create(b, p) PROVE Goal
  <2>1. <<c, d>> \in fresh /\ d # b
    BY <1>2, <1>5 DEF Create, StoreInv, AddInv
  <2> QED
    BY <1>1, <1>5, <2>1 DEF Create, Holds, Editing, StoreInv, TypeOK
<1>6. ASSUME NEW q \in Requests, NEW b \in Plans, NEW op \in Ops, NEW p \in Policies, Request(q, op, b, p)
      PROVE  Goal
  <2>1. <<c, d>> \in fresh => c # q
    BY <1>0, <1>2, <1>6 DEF Request, Holds, Editing
  <2>2. req'[q].pc = IF Stored(b) /\ ~(op = "snapshot" /\ spec[b].deleted) THEN "read" ELSE "failed"
    BY <1>6 DEF Request, StoreInv, TypeOK
  <2>3. req'[q].op = op /\ req'[q].plan = b /\ (c # q => (c \in Requests => req'[c] = req[c]))
    BY <1>6 DEF Request, StoreInv, TypeOK
  <2>4. CASE Stored(b) /\ op # "snapshot" /\ Read(q, b)
    <3>1. CASE c = q /\ d = b /\ copy'[c] = spec[b]
      BY <1>6, <2>2, <2>3, <2>4, <3>1 DEF Request, Stored, Holds, Editing
    <3>2. CASE <<c, d>> \in fresh
      BY <1>0, <1>1, <1>6, <2>1, <2>3, <2>4, <3>2, ReadKeeps DEF Request, Holds, Editing
    <3> QED
      BY <1>0, <2>4, <3>1, <3>2, ReadKeeps
  <2>5. CASE UNCHANGED <<copy, fresh>>
    BY <1>1, <1>6, <2>1, <2>3, <2>5 DEF Request, Holds, Editing
  <2> QED
    BY <1>6, <2>4, <2>5 DEF Request
<1>7. ASSUME NEW q \in Requests, RequestWrite(q) \/ RequestFails(q) PROVE Goal
  <2>1. c # q /\ <<c, d>> \in fresh /\ copy'[c] = copy[c] /\ spec'[d] = spec[d]
    BY <1>0, <1>7, WriteKeeps, DropKeeps DEF RequestWrite, RequestFails, Editing, StoreInv, RequestInv
  <2>2. c \in Requests => req'[c] = req[c]
    BY <1>7, <2>1 DEF RequestWrite, RequestFails, Answer, StoreInv, TypeOK
  <2> QED
    BY <1>1, <1>7, <2>1, <2>2 DEF RequestWrite, RequestFails, Holds, Editing
<1>8. ASSUME NEW q \in Requests, AddSnapshot(q) PROVE Goal
  <2>1. <<c, d>> \in fresh /\ c # q
    BY <1>0, <1>2, <1>8 DEF AddSnapshot, Holds, Editing
  <2>2. c \in Requests => req'[c] = req[c]
    BY <1>8, <2>1 DEF AddSnapshot, Answer, StoreInv, TypeOK
  <2> QED
    BY <1>1, <1>8, <2>1, <2>2 DEF AddSnapshot, Holds, Editing
<1>9. ASSUME fresh' = fresh, copy' = copy, spec' = spec, req' = req, run' = run, rpc # "markwrite" PROVE Goal
  BY <1>1, <1>9 DEF Holds, Editing
<1>10. ASSUME NEW b \in Plans, Pop(b) PROVE Goal
  BY <1>9, <1>10 DEF Pop, Reconciling
<1>11. CASE Get \/ DeleteSnapshots \/ NotifyStopBackup \/ Notify \/ Schedule
  BY <1>9, <1>11 DEF Get, DeleteSnapshots, NotifyStopBackup, Notify, Schedule, Reconciling
<1>12. CASE ReconcileFails \/ MarkConflict
  BY <1>0, <1>1, <1>12, DropKeeps DEF ReconcileFails, MarkConflict, Holds, Editing
<1>13. CASE CancelBackup
  <2>1. rkey \in Plans
    BY <1>13 DEF CancelBackup, Reconciling, StoreInv, TypeOK
  <2>2. c # rkey /\ <<c, d>> \in fresh /\ copy'[c] = copy[c]
    BY <1>0, <1>13, <2>1, DropKeeps DEF CancelBackup
  <2>3. c \in Plans => run'[c] = run[c]
    BY <1>13, <2>1, <2>2 DEF CancelBackup, StoreInv, TypeOK
  <2> QED
    BY <1>0, <1>1, <1>13, <2>2, <2>3 DEF CancelBackup, Reconciling, RGoto, Holds, Editing
<1>14. CASE Remove
  <2>1. <<c, d>> \in fresh /\ d # rkey
    BY <1>14 DEF Remove
  <2> QED
    BY <1>1, <1>14, <2>1 DEF Remove, Reconciling, Holds, Editing, StoreInv, TypeOK
<1>15. CASE MarkRead
  <2>1. rkey \in Plans /\ Stored(rkey)
    BY <1>15 DEF MarkRead, Reconciling, RecInv, Keeping, StoreInv, TypeOK
  <2>2. <<c, d>> \in fresh => c # "rec"
    BY <1>0, <1>2, <1>15 DEF MarkRead, Reconciling, Holds
  <2>3. CASE c = "rec" /\ d = rkey /\ copy'[c] = spec[rkey]
    BY <1>15, <2>1, <2>3 DEF MarkRead, RGoto, Stored, Holds
  <2>4. CASE <<c, d>> \in fresh
    BY <1>0, <1>1, <1>15, <2>1, <2>2, <2>4, ReadKeeps DEF MarkRead, Reconciling, Holds, Editing
  <2> QED
    BY <1>0, <1>15, <2>1, <2>3, <2>4, ReadKeeps DEF MarkRead
<1>16. CASE MarkWrite
  <2>1. rkey \in Plans
    BY <1>16 DEF MarkWrite, Reconciling, StoreInv, TypeOK
  <2>2. c # "rec" /\ <<c, d>> \in fresh /\ copy'[c] = copy[c] /\ spec'[d] = spec[d]
    BY <1>0, <1>16, <2>1, WriteKeeps DEF MarkWrite
  <2> QED
    BY <1>1, <1>16, <2>2 DEF MarkWrite, Holds, Editing
<1>17. ASSUME NEW b \in Plans, RunStart(b) PROVE Goal
  <2>1. <<c, d>> \in fresh /\ c # b
    BY <1>0, <1>2, <1>17 DEF RunStart, Holds
  <2>2. c \in Plans => run'[c] = run[c]
    BY <1>17, <2>1 DEF RunStart, StoreInv, TypeOK
  <2> QED
    BY <1>1, <1>17, <2>1, <2>2 DEF RunStart, Holds, Editing
<1>18. ASSUME NEW b \in Plans, RunRead(b) PROVE Goal
  <2>1. <<c, d>> \in fresh => c # b
    BY <1>0, <1>2, <1>18 DEF RunRead, Holds
  <2>2. c # b => (c \in Plans => run'[c] = run[c])
    BY <1>18 DEF RunRead, StoreInv, TypeOK
  <2>3. CASE Stored(b) /\ Read(b, b) /\ run' = [run EXCEPT ![b] = "read"]
    <3>1. CASE c = b /\ d = b /\ copy'[c] = spec[b]
      BY <1>18, <2>3, <3>1 DEF RunRead, Stored, Holds, StoreInv, TypeOK
    <3>2. CASE <<c, d>> \in fresh
      BY <1>0, <1>1, <1>18, <2>1, <2>2, <2>3, <3>2, ReadKeeps DEF RunRead, Holds, Editing
    <3> QED
      BY <1>0, <2>3, <3>1, <3>2, ReadKeeps
  <2>4. CASE UNCHANGED <<copy, fresh>>
    BY <1>1, <1>18, <2>1, <2>2, <2>4 DEF RunRead, Holds, Editing
  <2> QED
    BY <1>18, <2>3, <2>4 DEF RunRead
<1>19. ASSUME NEW b \in Plans, RunWrite(b) PROVE Goal
  <2>1. c # b /\ <<c, d>> \in fresh /\ copy'[c] = copy[c] /\ spec'[d] = spec[d]
    BY <1>0, <1>19, WriteKeeps, DropKeeps DEF RunWrite
  <2>2. c \in Plans => run'[c] = run[c]
    BY <1>19, <2>1 DEF RunWrite, StoreInv, TypeOK
  <2> QED
    BY <1>1, <1>19, <2>1, <2>2 DEF RunWrite, Holds, Editing
<1>20. CASE Start
  BY <1>3, <1>20 DEF Start
<1>21. CASE Crash
  <2>1. <<c, d>> \in fresh /\ c \in Requests /\ copy'[c] = copy[c]
    BY <1>21 DEF Crash
  <2> QED
    BY <1>0, <1>1, <1>21, <2>1 DEF Crash, Holds, Editing
<1>22. CASE UNCHANGED vars
  BY <1>3, <1>22 DEF vars
<1> QED
  BY <1>4, <1>5, <1>6, <1>7, <1>8, <1>10, <1>11, <1>12, <1>13, <1>14, <1>15, <1>16, <1>17, <1>18,
     <1>19, <1>20, <1>21, <1>22 DEF Next, ApiStep, ReconcileStep

-----------------------------------------------------------------------------
(* What a write does to its plan and to the queue. *)

(* An update that UpdateFunc keeps from the queue *)
Silent(old, new) ==
    \/ old = new
    \/ /\ ~old.deleted /\ ~new.deleted
       /\ old.policy = new.policy /\ old.enabled = new.enabled
       /\ old.notified => new.notified

Effect(b, new) ==
    /\ Stored(b) /\ new \in Specs
    /\ spec' = [spec EXCEPT ![b] = new]
    /\ spec[b].deleted => new.deleted
    /\ wq \subseteq wq' /\ (up /\ b \notin wq' => Silent(spec[b], new))

LEMMA WriteEffect ==
    ASSUME StoreInv, NEW a, NEW b \in Plans, NEW new \in Specs, Current(a, b), Write(a, b, new),
           spec[b].deleted => new.deleted,
           spec[b].notified => new.notified \/ new.sized # spec[b].sized
    PROVE  Effect(b, new)
<1>1. Stored(b) /\ spec' = [spec EXCEPT ![b] = new]
  BY DEF Current, Write
<1>2. wq \subseteq wq' /\ (up /\ b \notin wq' => ~UpdateFunc(spec[b], new))
  BY DEF Write, Event
<1>3. ~UpdateFunc(spec[b], new) => Silent(spec[b], new)
  BY DEF UpdateFunc, Silent
<1> QED
  BY <1>1, <1>2, <1>3 DEF Effect

LEMMA RequestWriteEffect ==
    ASSUME StoreInv, NEW q \in Requests, RequestWrite(q)
    PROVE  \E b \in Plans : \E new : Effect(b, new) /\ (new.notified => spec[b].notified)
<1> DEFINE b == req[q].plan  new == Edited(copy[q], req[q].op, req[q].policy)
<1>1. /\ b \in Plans /\ q \in Actors /\ req[q].op \in Ops /\ req[q].op # "snapshot"
      /\ req[q].op = "update" => req[q].policy \in Policies
  BY DEF StoreInv, RequestInv, RequestWrite, Editing, Actors
<1>2. copy[q] = spec[b] /\ copy[q] \in Specs
  BY <1>1, CurrentCopy DEF RequestWrite
<1>3. /\ new \in Specs /\ (spec[b].deleted => new.deleted)
      /\ new.notified = spec[b].notified
  BY <1>1, <1>2, EditedSpec
<1>4. Effect(b, new)
  BY <1>1, <1>3, WriteEffect DEF RequestWrite
<1> QED
  BY <1>1, <1>3, <1>4

LEMMA RunWriteEffect ==
    ASSUME StoreInv, NEW b \in Plans, RunWrite(b)
    PROVE  \/ \E new : Effect(b, new) /\ ~new.notified
           \/ spec' = spec /\ wq' = wq
<1>1. CASE Current(b, b) /\ Write(b, b, [copy[b] EXCEPT !.sized = 1 - copy[b].sized, !.notified = FALSE])
  <2> DEFINE new == [copy[b] EXCEPT !.sized = 1 - copy[b].sized, !.notified = FALSE]
  <2>1. copy[b] = spec[b] /\ copy[b] \in Specs /\ copy[b].sized \in 0..1
    BY <1>1, CurrentCopy DEF Specs, Actors
  <2>2. 1 - copy[b].sized \in 0..1 /\ 1 - copy[b].sized # copy[b].sized
    BY <2>1
  <2>3. /\ new \in Specs /\ new.deleted = copy[b].deleted
        /\ new.notified = FALSE /\ new.sized = 1 - copy[b].sized
    BY <2>1, <2>2 DEF Specs
  <2>4. Effect(b, new)
    BY <1>1, <2>1, <2>2, <2>3, WriteEffect
  <2> QED
    BY <2>3, <2>4
<1> QED
  BY <1>1 DEF RunWrite

LEMMA MarkWriteEffect ==
    ASSUME StoreInv, MarkWrite
    PROVE  rkey \in Plans /\ \E new : Effect(rkey, new) /\ new.notified
<1> DEFINE new == [copy["rec"] EXCEPT !.notified = TRUE]
<1>1. rkey \in Plans
  BY DEF MarkWrite, Reconciling, StoreInv, TypeOK
<1>2. copy["rec"] = spec[rkey] /\ copy["rec"] \in Specs
  BY <1>1, CurrentCopy DEF MarkWrite, Actors
<1>3. new \in Specs /\ new.deleted = spec[rkey].deleted /\ new.notified
  BY <1>2 DEF Specs
<1>4. Effect(rkey, new)
  BY <1>1, <1>3, WriteEffect DEF MarkWrite
<1> QED
  BY <1>1, <1>3, <1>4

-----------------------------------------------------------------------------
(* The reconciler and the cron entries. *)

LEMMA EffectRec ==
    ASSUME StoreInv, RecInv, NEW b \in Plans, NEW new, Effect(b, new),
           UNCHANGED <<up, rpc, rkey, rcopy, entries>>
    PROVE  RecInv'
BY SpecAssumption DEF StoreInv, TypeOK, RecInv, Deleting, Keeping, Effect, Silent, Stored

LEMMA IdleRec == ASSUME rpc' = "idle" PROVE RecInv'
BY DEF RecInv, Deleting, Keeping

LEMMA RecStep ==
    ASSUME StoreInv, RecInv, [Next]_vars PROVE RecInv'
<1> USE DEF store, api, recon, bounds
<1>0. NoPlan \notin Plans /\ NoSpec \notin Specs
  BY PlanAssumption, SpecAssumption
<1>1. ASSUME UNCHANGED <<spec, up, wq, rpc, rkey, rcopy, entries>> PROVE RecInv'
  BY <1>1 DEF RecInv, Stored
<1>2. ASSUME NEW b \in Plans, NEW p \in Policies, Create(b, p) PROVE RecInv'
  <2>1. rpc \in Deleting \cup Keeping => rkey # b
    BY <1>2 DEF Create, RecInv, StoreInv, AddInv
  <2>2. rpc \in Deleting \cup Keeping => spec'[rkey] = spec[rkey]
    BY <1>2, <2>1 DEF Create, StoreInv, TypeOK
  <2> QED
    BY <1>2, <2>2 DEF Create, RecInv, Stored, Deleting, Keeping
<1>3. ASSUME NEW q \in Requests, RequestWrite(q) PROVE RecInv'
  BY <1>3, RequestWriteEffect, EffectRec DEF RequestWrite
<1>4. ASSUME NEW b \in Plans, RunWrite(b) PROVE RecInv'
  BY <1>1, <1>4, RunWriteEffect, EffectRec DEF RunWrite
<1>5. CASE \/ \E b \in Plans : AddCheck(b) \/ AddRefused(b)
           \/ \E q \in Requests, b \in Plans, op \in Ops, p \in Policies : Request(q, op, b, p)
           \/ \E q \in Requests : RequestFails(q) \/ AddSnapshot(q)
  BY <1>1, <1>5 DEF AddCheck, AddRefused, Request, RequestFails, AddSnapshot
<1>6. CASE \/ \E b \in Plans : Fire(b) \/ JobCreate(b) \/ RunStart(b) \/ RunRead(b)
  BY <1>1, <1>6 DEF Fire, JobCreate, RunStart, RunRead
<1>7. ASSUME NEW b \in Plans, Pop(b) PROVE RecInv'
  BY <1>7 DEF Pop, Reconciling, RecInv, Deleting, Keeping
<1>8. CASE Get
  <2>1. CASE RReturn
    BY <2>1, IdleRec DEF RReturn
  <2>2. CASE Stored(rkey) /\ rcopy' = spec[rkey] /\ rpc' = Dispatch(spec[rkey]) /\ rkey' = rkey
    <3>1. up' /\ spec' = spec /\ wq' = wq /\ entries' = entries
      BY <1>8 DEF Get, Reconciling
    <3>2. \/ rpc' = "cancel" /\ spec[rkey].deleted
          \/ rpc' = "notify" /\ ~spec[rkey].deleted
          \/ rpc' = "schedule" /\ ~spec[rkey].deleted /\ spec[rkey].notified
      BY <2>2 DEF Dispatch
    <3> QED
      BY <2>2, <3>1, <3>2 DEF RecInv, Deleting, Keeping, Stored
  <2> QED
    BY <1>8, <2>1, <2>2 DEF Get
<1>9. CASE ReconcileFails \/ Remove \/ MarkConflict \/ Schedule \/ Crash
  BY <1>9, IdleRec DEF ReconcileFails, Remove, MarkConflict, Schedule, Crash, Requeue, RReturn
<1>10. CASE CancelBackup
  BY <1>10 DEF CancelBackup, RemoveFromSchedule, Reconciling, RGoto, RecInv, Deleting, Keeping, Stored, StoreInv, TypeOK
<1>11. CASE DeleteSnapshots \/ NotifyStopBackup \/ Notify \/ MarkRead
  BY <1>11 DEF DeleteSnapshots, NotifyStopBackup, Notify, MarkRead, Reconciling, RGoto,
               RecInv, Deleting, Keeping, Stored
<1>12. CASE MarkWrite
  <2>1. PICK new : Effect(rkey, new) /\ new.notified
    BY <1>12, MarkWriteEffect
  <2>2. up /\ rkey \in Plans /\ rpc \in Keeping
    BY <1>12 DEF MarkWrite, Reconciling, Keeping, StoreInv, TypeOK
  <2>3. spec'[rkey] = new /\ new # NoSpec
    BY <1>0, <2>1, <2>2 DEF Effect, StoreInv, TypeOK
  <2> QED
    BY <1>12, <2>1, <2>2, <2>3 DEF MarkWrite, RGoto, RecInv, Deleting, Keeping, Effect, Silent, Stored
<1>13. CASE Start
  BY <1>13, IdleRec DEF Start, RecInv, StoreInv, TypeOK
<1>14. CASE UNCHANGED vars
  BY <1>1, <1>14 DEF vars
<1> QED
  BY <1>2, <1>3, <1>4, <1>5, <1>6, <1>7, <1>8, <1>9, <1>10, <1>11, <1>12, <1>13, <1>14
     DEF Next, ApiStep, ReconcileStep

(* A write leaves a stored plan stored, and the other plans alone. *)
LEMMA EffectStored ==
    ASSUME StoreInv, NEW b \in Plans, NEW new, Effect(b, new), NEW c \in Plans
    PROVE  (c = b => spec'[c] = new /\ Stored(c) /\ Stored(c)') /\ (c # b => spec'[c] = spec[c])
BY SpecAssumption DEF StoreInv, TypeOK, Effect, Stored

LEMMA EntryStep ==
    ASSUME StoreInv, RecInv, EntryInv, [Next]_vars PROVE EntryInv'
<1> SUFFICES ASSUME NEW c \in Plans, ~Stored(c)' PROVE entries'[c] = <<>>
  BY DEF EntryInv
<1> USE DEF store, api, recon, bounds
<1>1. ASSUME entries' = entries, spec'[c] = spec[c] PROVE entries'[c] = <<>>
  BY <1>1 DEF EntryInv, Stored
<1>2. ASSUME NEW b \in Plans, NEW new, Effect(b, new), entries' = entries PROVE entries'[c] = <<>>
  BY <1>1, <1>2, EffectStored
<1>3. ASSUME NEW b \in Plans, NEW p \in Policies, Create(b, p) PROVE entries'[c] = <<>>
  <2>1. ~Stored(b)
    BY <1>3 DEF Create, StoreInv, AddInv
  <2>2. c # b => spec'[c] = spec[c]
    BY <1>3 DEF Create, StoreInv, TypeOK
  <2> QED
    BY <1>3, <2>1, <2>2 DEF Create, EntryInv, Stored
<1>4. ASSUME NEW q \in Requests, RequestWrite(q) PROVE entries'[c] = <<>>
  BY <1>2, <1>4, RequestWriteEffect DEF RequestWrite
<1>5. ASSUME NEW b \in Plans, RunWrite(b) PROVE entries'[c] = <<>>
  BY <1>1, <1>2, <1>5, RunWriteEffect DEF RunWrite
<1>6. CASE MarkWrite
  BY <1>2, <1>6, MarkWriteEffect DEF MarkWrite
<1>7. CASE CancelBackup
  BY <1>7 DEF CancelBackup, RemoveFromSchedule, EntryInv, StoreInv, TypeOK, Stored
<1>8. CASE Remove
  BY <1>8 DEF Remove, Reconciling, RecInv, EntryInv, StoreInv, TypeOK, Stored
<1>9. CASE Schedule
  <2>1. c # rkey
    BY <1>9 DEF Schedule, Reconciling, RecInv, Keeping, Stored
  <2> QED
    BY <1>9, <2>1 DEF Schedule, EntryInv, StoreInv, TypeOK, Stored
<1>10. CASE Crash
  BY <1>10 DEF Crash
<1>11. ASSUME UNCHANGED <<spec, entries>> PROVE entries'[c] = <<>>
  BY <1>1, <1>11
<1>12. CASE \/ \E b \in Plans : AddCheck(b) \/ AddRefused(b)
            \/ \E q \in Requests, b \in Plans, op \in Ops, p \in Policies : Request(q, op, b, p)
            \/ \E q \in Requests : RequestFails(q) \/ AddSnapshot(q)
  BY <1>11, <1>12 DEF AddCheck, AddRefused, Request, RequestFails, AddSnapshot
<1>13. CASE (\E b \in Plans : Pop(b) \/ Fire(b) \/ JobCreate(b) \/ RunStart(b) \/ RunRead(b)) \/ Start
  BY <1>11, <1>13 DEF Pop, Fire, JobCreate, RunStart, RunRead, Start
<1>14. CASE \/ Get \/ ReconcileFails \/ DeleteSnapshots \/ NotifyStopBackup
            \/ Notify \/ MarkRead \/ MarkConflict
  BY <1>11, <1>14 DEF Get, ReconcileFails, DeleteSnapshots, NotifyStopBackup, Notify, MarkRead, MarkConflict
<1>15. CASE UNCHANGED vars
  BY <1>11, <1>15 DEF vars
<1> QED
  BY <1>3, <1>4, <1>5, <1>6, <1>7, <1>8, <1>9, <1>10, <1>12, <1>13, <1>14, <1>15
     DEF Next, ApiStep, ReconcileStep

LEMMA ScheduleStep ==
    ASSUME StoreInv, RecInv, ScheduleIsCurrent, [Next]_vars PROVE ScheduleIsCurrent'
<1> DEFINE Good(c) == ~spec[c].deleted /\ spec[c].notified /\ entries[c] = Wanted(spec[c])
<1> SUFFICES ASSUME NEW c \in Plans, up', Stored(c)', c \notin wq', rkey' # c PROVE Good(c)'
  BY DEF ScheduleIsCurrent
<1> USE DEF store, api, recon, bounds
<1>0. NoPlan \notin Plans /\ NoSpec \notin Specs
  BY PlanAssumption, SpecAssumption
<1>1. ASSUME up, c \notin wq, rkey # c, spec'[c] = spec[c], entries'[c] = entries[c] PROVE Good(c)'
  BY <1>1 DEF ScheduleIsCurrent, Stored, Wanted
<1>2. ASSUME UNCHANGED <<spec, up, wq, rkey, entries>> PROVE Good(c)'
  BY <1>1, <1>2
<1>3. ASSUME NEW b \in Plans, NEW new, Effect(b, new), UNCHANGED <<up, rkey, entries>> PROVE Good(c)'
  <2>1. up /\ c \notin wq /\ rkey # c
    BY <1>3 DEF Effect
  <2>2. CASE c # b
    BY <1>1, <1>3, <2>1, <2>2, EffectStored
  <2>3. CASE c = b
    <3>0. Silent(spec[c], new)
      BY <1>3, <2>1, <2>3 DEF Effect
    <3>1. spec'[c] = new /\ Stored(c) /\ Silent(spec[c], new)
      BY <1>3, <2>3, <3>0, EffectStored
    <3>2. Good(c)
      BY <2>1, <3>1 DEF ScheduleIsCurrent
    <3> QED
      BY <1>3, <3>1, <3>2 DEF Silent, Wanted
  <2> QED
    BY <2>2, <2>3
<1>4. ASSUME NEW b \in Plans, NEW p \in Policies, Create(b, p) PROVE Good(c)'
  <2>1. c # b /\ up /\ c \notin wq
    BY <1>4 DEF Create
  <2>2. spec'[c] = spec[c]
    BY <1>4, <2>1 DEF Create, StoreInv, TypeOK
  <2> QED
    BY <1>1, <1>4, <2>1, <2>2 DEF Create
<1>5. ASSUME NEW q \in Requests, RequestWrite(q) PROVE Good(c)'
  BY <1>3, <1>5, RequestWriteEffect DEF RequestWrite
<1>6. ASSUME NEW b \in Plans, RunWrite(b) PROVE Good(c)'
  BY <1>2, <1>3, <1>6, RunWriteEffect DEF RunWrite
<1>7. CASE MarkWrite
  BY <1>3, <1>7, MarkWriteEffect DEF MarkWrite, RGoto
<1>8. ASSUME NEW b \in Plans, Pop(b) PROVE Good(c)'
  <2>1. c # b /\ rkey # c
    BY <1>0, <1>8 DEF Pop, Reconciling, StoreInv, TypeOK
  <2> QED
    BY <1>1, <1>8, <2>1 DEF Pop
<1>9. CASE Get
  <2>1. rkey # c
    BY <1>9 DEF Get, Stored
  <2> QED
    BY <1>1, <1>9, <2>1 DEF Get
<1>10. CASE ReconcileFails \/ MarkConflict
  <2>1. rkey # c /\ c \notin wq
    BY <1>10 DEF ReconcileFails, MarkConflict, Requeue
  <2> QED
    BY <1>1, <1>10, <2>1 DEF ReconcileFails, MarkConflict
<1>11. CASE CancelBackup
  <2>1. rkey # c /\ entries'[c] = entries[c]
    BY <1>11 DEF CancelBackup, RemoveFromSchedule, RGoto, StoreInv, TypeOK
  <2> QED
    BY <1>1, <1>11, <2>1 DEF CancelBackup
<1>12. CASE Remove
  <2>1. rkey # c /\ spec'[c] = spec[c]
    BY <1>12 DEF Remove, StoreInv, TypeOK, Stored
  <2> QED
    BY <1>1, <1>12, <2>1 DEF Remove
<1>13. CASE Schedule
  <2>1. rpc = "schedule" /\ rkey \in Plans /\ rcopy \in Specs /\ spec' = spec /\ up
    BY <1>0, <1>13 DEF Schedule, Reconciling, StoreInv, TypeOK
  <2>2. c \notin wq
    BY <1>13 DEF Schedule, Requeue
  <2>3. CASE c # rkey
    <3>1. entries'[c] = entries[c]
      BY <1>13, <2>1, <2>3 DEF Schedule, StoreInv, TypeOK
    <3> QED
      BY <1>1, <2>1, <2>2, <2>3, <3>1
  <2>4. CASE c = rkey
    <3>1. entries'[c] = Wanted(rcopy)
      BY <1>13, <2>1, <2>4 DEF Schedule, StoreInv, TypeOK
    <3>2. /\ ~spec[c].deleted /\ spec[c].notified
          /\ rcopy.policy = spec[c].policy /\ rcopy.enabled = spec[c].enabled
      BY <2>1, <2>2, <2>4 DEF RecInv, Keeping
    <3>3. Wanted(rcopy) = Wanted(spec[c])
      BY <3>2 DEF Wanted
    <3> QED
      BY <2>1, <3>1, <3>2, <3>3 DEF Wanted
  <2> QED
    BY <2>3, <2>4
<1>14. CASE Start
  BY <1>14 DEF Start, Stored
<1>15. CASE Crash
  BY <1>15 DEF Crash
<1>16. CASE \/ \E b \in Plans : AddCheck(b) \/ AddRefused(b)
            \/ \E q \in Requests, b \in Plans, op \in Ops, p \in Policies : Request(q, op, b, p)
            \/ \E q \in Requests : RequestFails(q) \/ AddSnapshot(q)
  BY <1>2, <1>16 DEF AddCheck, AddRefused, Request, RequestFails, AddSnapshot
<1>17. CASE \E b \in Plans : Fire(b) \/ JobCreate(b) \/ RunStart(b) \/ RunRead(b)
  BY <1>2, <1>17 DEF Fire, JobCreate, RunStart, RunRead
<1>18. CASE DeleteSnapshots \/ NotifyStopBackup \/ Notify \/ MarkRead
  BY <1>2, <1>18 DEF DeleteSnapshots, NotifyStopBackup, Notify, MarkRead, RGoto
<1>19. CASE UNCHANGED vars
  BY <1>2, <1>19 DEF vars
<1> QED
  BY <1>4, <1>5, <1>6, <1>7, <1>8, <1>9, <1>10, <1>11, <1>12, <1>13, <1>14, <1>15, <1>16, <1>17, <1>18,
     <1>19 DEF Next, ApiStep, ReconcileStep

-----------------------------------------------------------------------------
(* The cloud. *)

LEMMA CloudStep ==
    ASSUME StoreInv, RecInv, CloudInv, [Next]_vars PROVE CloudInv'
<1> USE DEF store, api, recon, bounds
<1>0. NoPlan \notin Plans /\ NoSpec \notin Specs /\ SpacePlans \subseteq Plans
  BY PlanAssumption, SpecAssumption
<1>1. ASSUME UNCHANGED <<spec, adding, rkey, cloud>>, rpc' = rpc \/ rpc' \notin {"notify", "markread", "markwrite"}
      PROVE  CloudInv'
  BY <1>1 DEF CloudInv, NotifiedWasAnnounced, Stored
<1>2. ASSUME NEW b \in Plans, NEW new, Effect(b, new), UNCHANGED <<adding, rkey, cloud>>,
             rpc' = rpc \/ rpc' \notin {"notify", "markread", "markwrite"},
             new.notified /\ b \in SpacePlans => spec[b].notified \/ cloud[b] # "none"
      PROVE  CloudInv'
  <2>1. \A c \in Plans : c # b => spec'[c] = spec[c]
    BY <1>2, EffectStored
  <2>2. spec'[b] = new /\ Stored(b) /\ (spec[b].deleted => new.deleted)
    <3>1. spec'[b] = new /\ Stored(b)
      BY <1>2, EffectStored
    <3> QED
      BY <1>2, <3>1 DEF Effect
  <2>3. \A c \in Plans : cloud'[c] = "stopped" => adding'[c] = "created" /\ (Stored(c)' => spec'[c].deleted)
    BY <1>2, <2>1, <2>2 DEF CloudInv, Stored
  <2>4. NotifiedWasAnnounced'
    BY <1>0, <1>2, <2>1, <2>2 DEF CloudInv, NotifiedWasAnnounced, Stored
  <2> QED
    BY <1>2, <2>3, <2>4 DEF CloudInv
<1>3. ASSUME NEW b \in Plans, AddCheck(b) \/ AddRefused(b) PROVE CloudInv'
  <2>1. \A c \in Plans : adding[c] = "created" => adding'[c] = "created"
    BY <1>3 DEF AddCheck, AddRefused, StoreInv, TypeOK
  <2> QED
    BY <1>3, <2>1 DEF AddCheck, AddRefused, CloudInv, NotifiedWasAnnounced, Stored
<1>4. ASSUME NEW b \in Plans, NEW p \in Policies, Create(b, p) PROVE CloudInv'
  <2>1. spec'[b] = MergeConfig(p) /\ ~MergeConfig(p).notified /\ cloud[b] # "stopped"
    BY <1>4 DEF Create, MergeConfig, CloudInv, StoreInv, TypeOK
  <2>2. \A c \in Plans : c # b => spec'[c] = spec[c] /\ adding'[c] = adding[c]
    BY <1>4 DEF Create, StoreInv, TypeOK
  <2> QED
    BY <1>0, <1>4, <2>1, <2>2 DEF Create, CloudInv, NotifiedWasAnnounced, Stored
<1>5. ASSUME NEW q \in Requests, RequestWrite(q) PROVE CloudInv'
  BY <1>2, <1>5, RequestWriteEffect DEF RequestWrite
<1>6. ASSUME NEW b \in Plans, RunWrite(b) PROVE CloudInv'
  BY <1>1, <1>2, <1>6, RunWriteEffect DEF RunWrite
<1>7. CASE MarkWrite
  <2>1. rpc = "markwrite"
    BY <1>7 DEF MarkWrite, Reconciling
  <2>2. rkey \in SpacePlans => cloud[rkey] # "none"
    BY <2>1 DEF CloudInv
  <2> QED
    BY <1>2, <1>7, <2>2, MarkWriteEffect DEF MarkWrite, RGoto
<1>8. ASSUME NEW b \in Plans, Pop(b) PROVE CloudInv'
  BY <1>8 DEF Pop, CloudInv, NotifiedWasAnnounced, Stored
<1>9. CASE Get
  <2>1. CASE RReturn
    BY <1>9, <2>1 DEF Get, RReturn, CloudInv, NotifiedWasAnnounced, Stored
  <2>2. CASE Stored(rkey) /\ rpc' = Dispatch(spec[rkey]) /\ rkey' = rkey
    <3>1. rkey \in Plans
      BY <1>9 DEF Get, Reconciling, StoreInv, TypeOK
    <3>2. rpc' \in {"cancel", "notify", "schedule"} /\ (rpc' = "notify" => ~spec[rkey].deleted)
      BY <2>2 DEF Dispatch
    <3> QED
      BY <1>9, <2>2, <3>1, <3>2 DEF Get, CloudInv, NotifiedWasAnnounced, Stored
  <2> QED
    BY <1>9, <2>1, <2>2 DEF Get
<1>10. ASSUME UNCHANGED <<spec, adding, cloud>>, RReturn PROVE CloudInv'
  BY <1>10 DEF RReturn, CloudInv, NotifiedWasAnnounced, Stored
<1>11. CASE ReconcileFails \/ MarkConflict \/ Schedule \/ Crash
  BY <1>10, <1>11 DEF ReconcileFails, MarkConflict, Schedule, Crash, Requeue
<1>12. CASE CancelBackup \/ DeleteSnapshots
  BY <1>1, <1>12 DEF CancelBackup, DeleteSnapshots, RGoto
<1>13. CASE NotifyStopBackup
  <2>1. rkey \in Plans /\ Stored(rkey) /\ spec[rkey].deleted /\ adding[rkey] = "created"
    BY <1>13 DEF NotifyStopBackup, Reconciling, RecInv, Deleting, StoreInv, TypeOK, AddInv
  <2>2. \A c \in Plans : cloud'[c] = cloud[c] \/ (c = rkey /\ cloud'[c] = "stopped")
    BY <1>13 DEF NotifyStopBackup, StoreInv, TypeOK
  <2> QED
    BY <1>0, <1>13, <2>1, <2>2 DEF NotifyStopBackup, RGoto, CloudInv, NotifiedWasAnnounced, Stored
<1>14. CASE Remove
  <2>1. rkey \in Plans /\ spec'[rkey] = NoSpec /\ \A c \in Plans : c # rkey => spec'[c] = spec[c]
    BY <1>14 DEF Remove, Reconciling, StoreInv, TypeOK
  <2> QED
    BY <1>0, <1>14, <2>1 DEF Remove, RReturn, CloudInv, NotifiedWasAnnounced, Stored
<1>15. CASE Notify
  <2>1. rkey \in Plans /\ cloud[rkey] # "stopped"
    BY <1>15 DEF Notify, Reconciling, StoreInv, TypeOK, CloudInv
  <2>2. /\ \A c \in Plans : cloud'[c] = cloud[c] \/ (c = rkey /\ cloud'[c] = "announced")
        /\ rkey \in SpacePlans => cloud'[rkey] = "announced"
    <3>1. CASE rkey \in SpacePlans
      BY <1>15, <2>1, <3>1 DEF Notify, StoreInv, TypeOK
    <3>2. CASE rkey \notin SpacePlans
      BY <1>15, <3>2 DEF Notify
    <3> QED
      BY <3>1, <3>2
  <2> QED
    BY <1>0, <1>15, <2>1, <2>2 DEF Notify, RGoto, CloudInv, NotifiedWasAnnounced, Stored
<1>16. CASE MarkRead
  BY <1>16 DEF MarkRead, Reconciling, RGoto, CloudInv, NotifiedWasAnnounced, Stored
<1>17. CASE \/ \E q \in Requests, b \in Plans, op \in Ops, p \in Policies : Request(q, op, b, p)
            \/ \E q \in Requests : RequestFails(q) \/ AddSnapshot(q)
  BY <1>1, <1>17 DEF Request, RequestFails, AddSnapshot
<1>18. CASE (\E b \in Plans : Fire(b) \/ JobCreate(b) \/ RunStart(b) \/ RunRead(b)) \/ Start
  BY <1>1, <1>18 DEF Fire, JobCreate, RunStart, RunRead, Start
<1>19. CASE UNCHANGED vars
  BY <1>1, <1>19 DEF vars
<1> QED
  BY <1>3, <1>4, <1>5, <1>6, <1>7, <1>8, <1>9, <1>11, <1>12, <1>13, <1>14, <1>15, <1>16, <1>17, <1>18,
     <1>19 DEF Next, ApiStep, ReconcileStep

-----------------------------------------------------------------------------
(* The theorems. *)

PlanInv == StoreInv /\ RecInv /\ EntryInv /\ CloudInv /\ ScheduleIsCurrent

LEMMA PlanInit == Init => PlanInv
<1> SUFFICES ASSUME Init PROVE PlanInv
  OBVIOUS
<1>1. StoreInv
  BY StoreInit
<1>2. RecInv /\ EntryInv /\ CloudInv /\ ScheduleIsCurrent
  BY PlanAssumption DEF Init, RecInv, Deleting, Keeping, EntryInv, CloudInv, NotifiedWasAnnounced,
                        ScheduleIsCurrent, Stored
<1> QED
  BY <1>1, <1>2 DEF PlanInv

LEMMA PlanStep == PlanInv /\ [Next]_vars => PlanInv'
<1> SUFFICES ASSUME PlanInv, [Next]_vars PROVE PlanInv'
  OBVIOUS
<1>1. StoreInv /\ RecInv /\ EntryInv /\ CloudInv /\ ScheduleIsCurrent
  BY DEF PlanInv
<1>2. TypeOK'
  <2>1. CASE UNCHANGED vars
    BY <1>1, <2>1 DEF StoreInv, TypeOK, vars, store, api, recon, bounds
  <2>2. CASE Next
    BY <1>1, <2>2, TypeApi, TypeReconcile, TypeProcess DEF Next
  <2> QED
    BY <2>1, <2>2
<1>3. AddInv' /\ RequestInv' /\ CopyInv'
  BY <1>1, AddStep, RequestStep, CopyStep
<1>4. RecInv' /\ EntryInv' /\ CloudInv' /\ ScheduleIsCurrent'
  BY <1>1, RecStep, EntryStep, CloudStep, ScheduleStep
<1> QED
  BY <1>2, <1>3, <1>4 DEF PlanInv, StoreInv

LEMMA PlanAlways == Spec => []PlanInv
BY PlanInit, PlanStep, PTL DEF Spec

(* Every variable keeps its type, for any plans, policies and requests;    *)
(* the reconciler holds a plan and a copy of it whenever its lines use     *)
(* them.                                                                   *)
THEOREM TypeCorrect == Spec => []TypeOK
<1>1. PlanInv => TypeOK
  BY DEF PlanInv, StoreInv
<1> QED
  BY <1>1, PlanAlways, PTL

(* No update of a plan is lost between the predicates of the controller,   *)
(* its queue and Reconcile: a plan at rest has the cron entries that its   *)
(* stored policy asks for.                                                 *)
THEOREM ScheduleCorrect == Spec => []ScheduleIsCurrent
<1>1. PlanInv => ScheduleIsCurrent
  BY DEF PlanInv
<1> QED
  BY <1>1, PlanAlways, PTL

(* A plan in Olares Space that is marked notified is known to the cloud,   *)
(* whatever crashes, conflicts and failing calls come in between.          *)
THEOREM NotifiedCorrect == Spec => []NotifiedWasAnnounced
<1>1. PlanInv => NotifiedWasAnnounced
  BY DEF PlanInv, CloudInv
<1> QED
  BY <1>1, PlanAlways, PTL

LEMMA DeleteStep ==
    ASSUME PlanInv, [Next]_vars, NEW c \in Plans, Stored(c), spec[c].deleted
    PROVE  ~Stored(c)' \/ spec'[c].deleted
<1> USE DEF store, api, recon, bounds
<1>0. StoreInv
  BY DEF PlanInv
<1>1. CASE spec' = spec
  BY <1>1
<1>2. ASSUME NEW b \in Plans, NEW new, Effect(b, new) PROVE spec'[c].deleted
  <2>1. CASE c = b
    <3>1. spec'[c] = new
      BY <1>0, <1>2, <2>1, EffectStored
    <3> QED
      BY <1>2, <2>1, <3>1 DEF Effect
  <2>2. CASE c # b
    BY <1>0, <1>2, <2>2, EffectStored
  <2> QED
    BY <2>1, <2>2
<1>3. ASSUME NEW b \in Plans, NEW p \in Policies, Create(b, p) PROVE spec'[c] = spec[c]
  <2>1. b # c
    BY <1>0, <1>3 DEF Create, StoreInv, AddInv
  <2> QED
    BY <1>0, <1>3, <2>1 DEF Create, StoreInv, TypeOK
<1>4. ASSUME NEW q \in Requests, RequestWrite(q) PROVE spec'[c].deleted
  BY <1>0, <1>2, <1>4, RequestWriteEffect
<1>5. ASSUME NEW b \in Plans, RunWrite(b) PROVE spec'[c].deleted
  BY <1>0, <1>1, <1>2, <1>5, RunWriteEffect
<1>6. CASE MarkWrite
  BY <1>0, <1>2, <1>6, MarkWriteEffect
<1>7. CASE Remove
  BY <1>0, <1>7 DEF Remove, StoreInv, TypeOK, Stored
<1>8. CASE \/ \E b \in Plans : AddCheck(b) \/ AddRefused(b)
           \/ \E q \in Requests, b \in Plans, op \in Ops, p \in Policies : Request(q, op, b, p)
           \/ \E q \in Requests : RequestFails(q) \/ AddSnapshot(q)
  BY <1>1, <1>8 DEF AddCheck, AddRefused, Request, RequestFails, AddSnapshot
<1>9. CASE \/ \E b \in Plans : Pop(b) \/ Fire(b) \/ JobCreate(b) \/ RunStart(b) \/ RunRead(b)
           \/ Start \/ Crash
  BY <1>1, <1>9 DEF Pop, Fire, JobCreate, RunStart, RunRead, Start, Crash
<1>10. CASE \/ Get \/ ReconcileFails \/ CancelBackup \/ DeleteSnapshots \/ NotifyStopBackup
            \/ Notify \/ MarkRead \/ MarkConflict \/ Schedule
  BY <1>1, <1>10 DEF Get, ReconcileFails, CancelBackup, DeleteSnapshots, NotifyStopBackup,
                     Notify, MarkRead, MarkConflict, Schedule
<1>11. CASE UNCHANGED vars
  BY <1>1, <1>11 DEF vars
<1> QED
  BY <1>3, <1>4, <1>5, <1>6, <1>7, <1>8, <1>9, <1>10, <1>11 DEF Next, ApiStep, ReconcileStep

(* No writer with an older copy, of whatever number, brings a deleted plan *)
(* back.                                                                   *)
THEOREM DeleteCorrect == Spec => DeleteIsFinal
<1>1. PlanInv /\ [Next]_vars =>
        [\A b \in Plans : Stored(b) /\ spec[b].deleted => ~Stored(b)' \/ spec'[b].deleted]_vars
  BY DeleteStep
<1> QED
  BY <1>1, PlanAlways, PTL DEF Spec, DeleteIsFinal

LEMMA StopStep ==
    ASSUME PlanInv, [Next]_vars, NEW c \in Plans, cloud[c] = "stopped"
    PROVE  cloud'[c] = "stopped"
<1> USE DEF store, api, recon, bounds
<1>1. CASE cloud' = cloud
  BY <1>1
<1>2. CASE NotifyStopBackup
  BY <1>2 DEF NotifyStopBackup, PlanInv, StoreInv, TypeOK
<1>3. CASE Notify
  <2>1. rkey # c
    BY <1>3 DEF Notify, Reconciling, PlanInv, CloudInv
  <2> QED
    BY <1>3, <2>1 DEF Notify, PlanInv, StoreInv, TypeOK
<1>4. CASE \/ \E b \in Plans : AddCheck(b) \/ AddRefused(b) \/ \E p \in Policies : Create(b, p)
           \/ \E q \in Requests, b \in Plans, op \in Ops, p \in Policies : Request(q, op, b, p)
           \/ \E q \in Requests : RequestWrite(q) \/ RequestFails(q) \/ AddSnapshot(q)
  BY <1>1, <1>4 DEF AddCheck, AddRefused, Create, Request, RequestWrite, RequestFails, AddSnapshot
<1>5. CASE \/ \E b \in Plans : Pop(b) \/ Fire(b) \/ JobCreate(b) \/ RunStart(b) \/ RunRead(b) \/ RunWrite(b)
           \/ Start \/ Crash
  BY <1>1, <1>5 DEF Pop, Fire, JobCreate, RunStart, RunRead, RunWrite, Start, Crash
<1>6. CASE \/ Get \/ ReconcileFails \/ CancelBackup \/ DeleteSnapshots \/ Remove
           \/ MarkRead \/ MarkWrite \/ MarkConflict \/ Schedule
  BY <1>1, <1>6 DEF Get, ReconcileFails, CancelBackup, DeleteSnapshots, Remove,
                    MarkRead, MarkWrite, MarkConflict, Schedule
<1>7. CASE UNCHANGED vars
  BY <1>1, <1>7 DEF vars
<1> QED
  BY <1>2, <1>3, <1>4, <1>5, <1>6, <1>7 DEF Next, ApiStep, ReconcileStep

(* Reconcile never announces a plan to Olares Space after it told it that  *)
(* the plan has stopped.                                                   *)
THEOREM StopCorrect == Spec => StoppedStaysStopped
<1>1. PlanInv /\ [Next]_vars => [\A b \in Plans : cloud[b] = "stopped" => cloud'[b] = "stopped"]_vars
  BY StopStep
<1> QED
  BY <1>1, PlanAlways, PTL DEF Spec, StoppedStaysStopped

(* Nobody who could still create a snapshot of plan b has begun to. *)
Quiet(b) ==
    /\ adding[b] = "created" /\ ~Stored(b) /\ b \notin jobs
    /\ \A q \in Requests : req[q].plan = b => req[q].pc # "read"

LEMMA QuietStep ==
    ASSUME PlanInv, [Next]_vars, NEW c \in Plans, Quiet(c)
    PROVE  (c \in snaps' => c \in snaps) /\ c \notin jobs'
<1> USE DEF store, api, recon, bounds, Quiet
<1>1. CASE UNCHANGED <<snaps, jobs>>
  BY <1>1
<1>2. ASSUME NEW q \in Requests, AddSnapshot(q) PROVE c # req[q].plan /\ snaps' = snaps \cup {req[q].plan} /\ jobs' = jobs
  BY <1>2 DEF AddSnapshot
<1>3. ASSUME NEW b \in Plans, Fire(b) PROVE c # b /\ snaps' = snaps /\ jobs' = jobs \cup {b}
  BY <1>3 DEF Fire, PlanInv, EntryInv
<1>4. ASSUME NEW b \in Plans, JobCreate(b) PROVE c # b /\ snaps' \subseteq snaps \cup {b} /\ jobs' \subseteq jobs
  BY <1>4 DEF JobCreate
<1>5. CASE DeleteSnapshots
  BY <1>5 DEF DeleteSnapshots
<1>6. CASE Crash
  BY <1>6 DEF Crash
<1>7. CASE \/ \E b \in Plans : AddCheck(b) \/ AddRefused(b) \/ \E p \in Policies : Create(b, p)
           \/ \E q \in Requests, b \in Plans, op \in Ops, p \in Policies : Request(q, op, b, p)
           \/ \E q \in Requests : RequestWrite(q) \/ RequestFails(q)
  BY <1>1, <1>7 DEF AddCheck, AddRefused, Create, Request, RequestWrite, RequestFails
<1>8. CASE \/ \E b \in Plans : Pop(b) \/ RunStart(b) \/ RunRead(b) \/ RunWrite(b)
           \/ Start
  BY <1>1, <1>8 DEF Pop, RunStart, RunRead, RunWrite, Start
<1>9. CASE \/ Get \/ ReconcileFails \/ CancelBackup \/ NotifyStopBackup \/ Remove
           \/ Notify \/ MarkRead \/ MarkWrite \/ MarkConflict \/ Schedule
  BY <1>1, <1>9 DEF Get, ReconcileFails, CancelBackup, NotifyStopBackup, Remove,
                    Notify, MarkRead, MarkWrite, MarkConflict, Schedule
<1>10. CASE UNCHANGED vars
  BY <1>1, <1>10 DEF vars
<1> QED
  BY <1>2, <1>3, <1>4, <1>5, <1>6, <1>7, <1>8, <1>9, <1>10 DEF Next, ApiStep, ReconcileStep

(* After its removal a plan gets at most the snapshots that were already   *)
(* under way: its cron entries are gone before it is.                      *)
THEOREM RemovedCorrect == Spec => RemovedPlanIsQuiet
<1>1. PlanInv /\ [Next]_vars =>
        [\A b \in Plans :
            /\ adding[b] = "created" /\ ~Stored(b) /\ b \notin jobs
            /\ \A q \in Requests : req[q].plan = b => req[q].pc # "read"
            => /\ b \in snaps' => b \in snaps
               /\ b \notin jobs']_vars
  BY QuietStep DEF Quiet
<1> QED
  BY <1>1, PlanAlways, PTL DEF Spec, RemovedPlanIsQuiet
=============================================================================
