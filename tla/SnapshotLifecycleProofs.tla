----------------------- MODULE SnapshotLifecycleProofs -----------------------
(***************************************************************************)
(* Proofs about SnapshotLifecycle for every set of snapshots and plans and *)
(* every number of restarts, failing calls and cancel requests.            *)
(***************************************************************************)
EXTENDS SnapshotLifecycle, TLAPS

(* A run that goes to write its result without an error has saved its data. *)
ResultHasData ==
    wpc \in {"result", "resultwrite"} /\ werr = "none" => wtask \in saved

DataInv == ResultHasData /\ CompletedHasData

-----------------------------------------------------------------------------
(* Type correctness. *)

LEMMA TypeInit == Init => TypeOK
<1>1. <<>> \in Seq(Snapshots) /\ 0 \in 0..MaxRestarts /\ 0 \in 0..MaxFaults /\ 0 \in 0..MaxCancels
  BY SnapshotAssumption
<1> QED
  BY <1>1 DEF Init, TypeOK

(* A successful Update keeps the types of the store and of the queue. *)
LEMMA WriteType ==
    ASSUME TypeOK, NEW s \in Snapshots, NEW ph \in Phases, NEW pu \in BOOLEAN, Write(s, ph, pu)
    PROVE  /\ phase' \in [Snapshots -> Phases \cup {"None"}]
           /\ pushed' \in [Snapshots -> BOOLEAN]
           /\ fresh' \subseteq Actors \X Snapshots
           /\ wq' \subseteq Snapshots
BY DEF TypeOK, Write

LEMMA TypeApi ==
    ASSUME TypeOK, NEW s \in Snapshots, Create(s) \/ CancelCheck(s) \/ ApiStep(s)
    PROVE  TypeOK'
<1> USE SnapshotAssumption DEF TypeOK, store, process, recon, pool, run, outside
<1>1. CASE Create(s)
  BY <1>1 DEF Create, Phases
<1>2. CASE CancelCheck(s)
  BY <1>2 DEF CancelCheck
<1>3. CASE CancelRead(s)
  BY <1>3 DEF CancelRead, Read, Actors
<1>4. CASE CancelWrite(s)
  <2>1. "Canceled" \in Phases /\ pushed[s] \in BOOLEAN
    BY DEF Phases, Terminal
  <2> QED
    BY <1>4, <2>1, WriteType DEF CancelWrite
<1>5. CASE CancelError(s)
  BY <1>5 DEF CancelError, Fault
<1> QED
  BY <1>1, <1>2, <1>3, <1>4, <1>5 DEF ApiStep

LEMMA TypeReconcile == TypeOK /\ ReconcileStep => TypeOK'
<1> SUFFICES ASSUME TypeOK, ReconcileStep PROVE TypeOK'
  OBVIOUS
<1> USE SnapshotAssumption DEF TypeOK, store, process, recon, pool, run, outside, Reconciling, RGoto, RReturn
<1>0. Phases = {"Pending", "Running", "Completed", "Failed", "Canceled"}
  BY DEF Phases, Terminal
<1>1. ASSUME NEW s \in Snapshots, Pop(s) PROVE TypeOK'
  BY <1>1 DEF Pop
<1>2. CASE Get
  <2>1. rkey \in Snapshots
    BY <1>2 DEF Get
  <2>2. Dispatch(rkey, phase[rkey]) \in {"pending", "return", "failread", "cancel", "notify"}
    BY <2>1, <1>0 DEF Dispatch
  <2> QED
    BY <1>2, <2>1, <2>2 DEF Get, Read, Actors
<1>3. CASE GetError
  BY <1>3 DEF GetError, Requeue, Dropped, Fault
<1>4. CASE NotifyPending
  BY <1>0, <1>4 DEF NotifyPending, Tell
<1>5. CASE NotifyPendingError
  BY <1>5 DEF NotifyPendingError, Fault
<1>6. CASE Add
  BY <1>6 DEF Add, Dropped
<1>7. CASE FailRead
  BY <1>7 DEF FailRead, Read, Actors
<1>8. CASE FailWrite
  <2>1. rkey \in Snapshots /\ pushed[rkey] \in BOOLEAN /\ "Failed" \in Phases
    BY <1>0, <1>8 DEF FailWrite
  <2> QED
    BY <1>8, <2>1, WriteType DEF FailWrite
<1>9. CASE FailError
  BY <1>9 DEF FailError, Dropped, Fault
<1>10. CASE CancelSnapshot
  BY <1>10 DEF CancelSnapshot
<1>11. CASE NotifyResult
  BY <1>11 DEF NotifyResult, Tell
<1>12. CASE NotifyResultError
  BY <1>12 DEF NotifyResultError, Requeue, Dropped, Fault
<1>13. CASE MarkNotified
  <2>1. rkey \in Snapshots
    BY <1>13 DEF MarkNotified
  <2> QED
    BY <1>13, <2>1 DEF MarkNotified, Write
<1>14. CASE MarkError
  BY <1>14 DEF MarkError, Dropped, Fault
<1> QED
  BY <1>1, <1>2, <1>3, <1>4, <1>5, <1>6, <1>7, <1>8, <1>9, <1>10, <1>11, <1>12, <1>13, <1>14
     DEF ReconcileStep

LEMMA TypeWorker == TypeOK /\ (WorkerStep \/ Progress) => TypeOK'
<1> SUFFICES ASSUME TypeOK, WorkerStep \/ Progress PROVE TypeOK'
  OBVIOUS
<1> USE SnapshotAssumption DEF TypeOK, store, process, recon, pool, run, outside, Working, WGoto, WFail
<1>0. Phases = {"Pending", "Running", "Completed", "Failed", "Canceled"}
  BY DEF Phases, Terminal
<1>1. CASE Dequeue
  <2>1. Head(queue) \in Snapshots /\ Tail(queue) \in Seq(Snapshots)
    BY <1>1 DEF Dequeue
  <2> QED
    BY <1>1, <2>1 DEF Dequeue
<1>2. CASE CheckCanceled
  BY <1>2 DEF CheckCanceled
<1>3. CASE Activate
  BY <1>3 DEF Activate
<1>4. CASE CheckExists
  BY <1>4 DEF CheckExists
<1>5. CASE CheckExistsError
  BY <1>5 DEF CheckExistsError, Fault
<1>6. CASE Prepare
  BY <1>6 DEF Prepare
<1>7. CASE StartRead
  BY <1>7 DEF StartRead, Read, Actors
<1>8. CASE StartWrite
  <2>1. wtask \in Snapshots /\ pushed[wtask] \in BOOLEAN /\ "Running" \in Phases
    BY <1>0, <1>8 DEF StartWrite
  <2> QED
    BY <1>8, <2>1, WriteType DEF StartWrite
<1>9. CASE ReadyForBackupApp
  BY <1>9 DEF ReadyForBackupApp
<1>10. CASE Execute
  BY <1>10 DEF Execute
<1>11. CASE TokenPanic
  BY <1>11 DEF TokenPanic, Fault
<1>12. CASE ResultRead
  BY <1>12 DEF ResultRead, Read, Actors
<1>13. CASE ResultWrite
  <2>1. wtask \in Snapshots /\ pushed[wtask] \in BOOLEAN /\ ResultPhase \in Phases
    BY <1>0, <1>13 DEF ResultWrite, ResultPhase
  <2> QED
    BY <1>13, <2>1, WriteType DEF ResultWrite
<1>14. CASE ResultError
  BY <1>14 DEF ResultError, Fault
<1>15. CASE Exit
  BY <1>15 DEF Exit
<1>16. CASE Progress
  <2>1. wtask \in Snapshots /\ pushed[wtask] \in BOOLEAN /\ "Running" \in Phases
    BY <1>0, <1>16 DEF Progress
  <2> QED
    BY <1>16, <2>1, WriteType DEF Progress
<1> QED
  BY <1>1, <1>2, <1>3, <1>4, <1>5, <1>6, <1>7, <1>8, <1>9, <1>10, <1>11, <1>12, <1>13, <1>14, <1>15, <1>16
     DEF WorkerStep

LEMMA TypeNext == TypeOK /\ [Next]_vars => TypeOK'
<1> SUFFICES ASSUME TypeOK, [Next]_vars PROVE TypeOK'
  OBVIOUS
<1> USE SnapshotAssumption DEF store, process, recon, pool, run, outside
<1>1. CASE Start
  BY <1>1 DEF Start, TypeOK
<1>2. CASE SecondPasses
  BY <1>2 DEF SecondPasses, TypeOK
<1>3. CASE Crash
  <2>1. <<>> \in Seq(Snapshots) /\ restarts' \in 0..MaxRestarts
    BY <1>3 DEF Crash, TypeOK
  <2>2. fresh' \subseteq Actors \X Snapshots
    BY <1>3 DEF Crash, TypeOK
  <2> QED
    BY <1>3, <2>1, <2>2 DEF Crash, RReturn, TypeOK
<1>4. CASE UNCHANGED vars
  BY <1>4 DEF vars, TypeOK
<1> QED
  BY <1>1, <1>2, <1>3, <1>4, TypeApi, TypeReconcile, TypeWorker DEF Next

(* Every variable keeps its type; in particular the reconciler and the     *)
(* worker work on a snapshot whenever they are not idle.                   *)
THEOREM TypeCorrect == Spec => []TypeOK
BY TypeInit, TypeNext, PTL DEF Spec

-----------------------------------------------------------------------------
(* Completed means saved. *)

(* Steps that neither complete a snapshot nor move the worker. *)
LEMMA DataFrame ==
    ASSUME DataInv, UNCHANGED <<run, saved>>,
           \A s \in Snapshots : phase'[s] = "Completed" => phase[s] = "Completed"
    PROVE  DataInv'
BY DEF DataInv, ResultHasData, CompletedHasData, run

LEMMA DataWorker == TypeOK /\ DataInv /\ WorkerStep => DataInv'
<1> SUFFICES ASSUME TypeOK, DataInv, WorkerStep PROVE DataInv'
  OBVIOUS
<1> USE SnapshotAssumption DEF DataInv, ResultHasData, CompletedHasData, store, outside, Working, WGoto, WFail
<1>1. CASE Dequeue \/ CheckCanceled \/ Activate \/ CheckExists \/ CheckExistsError \/ Prepare
           \/ ReadyForBackupApp \/ TokenPanic \/ Exit
  BY <1>1 DEF Dequeue, CheckCanceled, Activate, CheckExists, CheckExistsError, Prepare,
     ReadyForBackupApp, TokenPanic, Exit
<1>2. CASE StartRead \/ ResultRead \/ ResultError
  BY <1>2 DEF StartRead, ResultRead, ResultError
<1>3. CASE StartWrite
  <2>1. \A s \in Snapshots : phase'[s] = "Completed" => phase[s] = "Completed"
    BY <1>3 DEF StartWrite, Write, TypeOK
  <2>2. saved' = saved /\ (wpc' = "result" => werr' # "none") /\ wpc' # "resultwrite"
    BY <1>3 DEF StartWrite
  <2> QED
    BY <2>1, <2>2
<1>4. CASE Execute
  BY <1>4 DEF Execute
<1>5. CASE ResultWrite
  <2>1. saved' = saved /\ wpc' = "exit"
    BY <1>5 DEF ResultWrite
  <2>2. ResultPhase = "Completed" => wtask \in saved
    BY <1>5 DEF ResultWrite, ResultPhase, TypeOK
  <2>3. \A s \in Snapshots :
            phase'[s] = phase[s] \/ (s = wtask /\ phase'[s] = ResultPhase)
    BY <1>5 DEF ResultWrite, Write, TypeOK
  <2> QED
    BY <2>1, <2>2, <2>3
<1> QED
  BY <1>1, <1>2, <1>3, <1>4, <1>5 DEF WorkerStep

LEMMA DataNext == TypeOK /\ DataInv /\ [Next]_vars => DataInv'
<1> SUFFICES ASSUME TypeOK, DataInv, [Next]_vars PROVE DataInv'
  OBVIOUS
<1> USE DEF store, process, recon, pool, outside
<1>1. ASSUME NEW s \in Snapshots, Create(s) \/ CancelCheck(s) \/ ApiStep(s) PROVE DataInv'
  BY <1>1, DataFrame DEF Create, CancelCheck, ApiStep, CancelRead, CancelWrite, CancelError, Write, TypeOK
<1>2. CASE ReconcileStep
  <2>1. UNCHANGED <<run, saved>>
    BY <1>2 DEF ReconcileStep, Pop, Get, GetError, NotifyPending, NotifyPendingError, Add, FailRead,
       FailWrite, FailError, CancelSnapshot, NotifyResult, NotifyResultError, MarkNotified, MarkError
  <2>2. CASE FailWrite \/ MarkNotified
    BY <2>1, <2>2, DataFrame DEF FailWrite, MarkNotified, Write, TypeOK
  <2>3. CASE ~(FailWrite \/ MarkNotified)
    <3>1. phase' = phase
      BY <1>2, <2>3 DEF ReconcileStep, Pop, Get, GetError, NotifyPending, NotifyPendingError, Add, FailRead,
         FailError, CancelSnapshot, NotifyResult, NotifyResultError, MarkError
    <3> QED
      BY <2>1, <3>1, DataFrame
  <2> QED
    BY <2>2, <2>3
<1>3. CASE WorkerStep
  BY <1>3, DataWorker
<1>4. CASE Progress
  BY <1>4, DataFrame DEF Progress, Write, TypeOK
<1>5. CASE Start \/ SecondPasses \/ UNCHANGED vars
  BY <1>5, DataFrame DEF Start, SecondPasses, vars
<1>6. CASE Crash
  BY <1>6 DEF Crash, DataInv, ResultHasData, CompletedHasData
<1> QED
  BY <1>1, <1>2, <1>3, <1>4, <1>5, <1>6 DEF Next

LEMMA DataAlways == Spec => []DataInv
<1>1. Init => DataInv
  BY DEF Init, DataInv, ResultHasData, CompletedHasData
<1> QED
  BY <1>1, DataNext, TypeCorrect, PTL DEF Spec

(* A snapshot is recorded Completed only when restic has saved its data,   *)
(* for any number of snapshots, restarts, failing calls and cancels.       *)
THEOREM CompletedCorrect == Spec => []CompletedHasData
<1>1. DataInv => CompletedHasData
  BY DEF DataInv
<1> QED
  BY <1>1, DataAlways, PTL

-----------------------------------------------------------------------------
(* What the processes know of the snapshots they work on.  Held: the       *)
(* snapshot waits for the worker or is with it.                            *)
Queued(s) == \E i \in 1..Len(queue) : queue[i] = s
Held(s)   == Queued(s) \/ wtask = s

Open == {"Pending", "Canceled"}

(* A snapshot that does not exist is known to nobody. *)
NotCreated ==
    \A s \in Snapshots : phase[s] = "None" => s \notin wq /\ rkey # s /\ ~Held(s) /\ api[s] = "idle"

(* A controller that is down holds nothing. *)
DownHoldsNothing == ~up => rkey = NoSnapshot /\ wtask = NoSnapshot /\ queue = <<>>

(* The worker gets only what was created under this controller, once, and  *)
(* what it has not started yet is Pending or Canceled.                     *)
HeldOnce ==
    /\ \A s \in Snapshots : Held(s) => s \in new
    /\ \A i, j \in 1..Len(queue) : queue[i] = queue[j] => i = j
    /\ \A i \in 1..Len(queue) : queue[i] # wtask /\ phase[queue[i]] \in Open

(* A Pending snapshot is reconciled once: no event brings it back while it *)
(* is reconciled or held.                                                  *)
PendingOnce ==
    \A s \in Snapshots : phase[s] = "Pending" =>
        /\ Held(s) => s \notin wq /\ ~(rkey = s /\ rpc = "get")
        /\ rkey = s /\ rpc \in {"get", "pending", "add"} => s \notin wq

(* What Reconcile hands to the worker, or fails, the worker does not have. *)
AddsUnheld ==
    /\ rpc \in {"pending", "add"} => rkey \in new /\ ~Held(rkey) /\ phase[rkey] \in Open
    /\ rpc \in {"failread", "failwrite"} => ~Held(rkey) /\ phase[rkey] \in Open \cup {"Running"}

(* What Reconcile reports is final, and still the phase if its copy is     *)
(* current; once it has been told, the cloud knows it.                     *)
ReportsFinal ==
    rpc \in {"cancel", "notify", "mark"} =>
        /\ rphase \in Terminal /\ phase[rkey] # "Pending"
        /\ Current("rec", rkey) => phase[rkey] = rphase
        /\ rpc = "mark" /\ InSpace(rkey) => cloud[rkey] = rphase

(* The phase of the snapshot that the worker runs, by where the run is. *)
RunPhase ==
    /\ wpc \in {"check", "activate", "exists", "prepare", "startread", "startwrite"} => phase[wtask] \in Open
    /\ wpc \in {"app", "execute"} => phase[wtask] \in {"Running", "Canceled"}
    /\ wpc \in {"result", "resultwrite"} =>
          phase[wtask] \in {"Running", "Canceled"} \cup (IF werr = "none" THEN {} ELSE {"Pending"})

PlaceInv == NotCreated /\ DownHoldsNothing /\ HeldOnce /\ PendingOnce /\ AddsUnheld /\ ReportsFinal
RecordInv == PlaceInv /\ RunPhase

LEMMA RecordInit == Init => RecordInv
<1> SUFFICES ASSUME Init PROVE RecordInv
  OBVIOUS
<1>1. \A s \in Snapshots : ~Held(s)
  BY SnapshotAssumption DEF Init, Held, Queued
<1>2. PlaceInv
  BY <1>1, SnapshotAssumption DEF Init, PlaceInv, NotCreated, DownHoldsNothing, HeldOnce, PendingOnce, AddsUnheld,
     ReportsFinal
<1>3. RunPhase
  BY DEF Init, RunPhase
<1> QED
  BY <1>2, <1>3 DEF RecordInv

LEMMA HeldFrame ==
    ASSUME UNCHANGED <<queue, wtask>>
    PROVE  \A s \in Snapshots : Held(s)' <=> Held(s)
BY DEF Held, Queued

(* What a successful Update does to a well-typed store. *)
LEMMA WriteEffect ==
    ASSUME TypeOK, NEW s \in Snapshots, NEW ph, NEW pu, Write(s, ph, pu)
    PROVE  /\ \A t \in Snapshots : phase'[t] = IF t = s THEN ph ELSE phase[t]
           /\ \A t \in Snapshots : Current("rec", t)' => t # s /\ Current("rec", t)
           /\ wq \subseteq wq' /\ wq' \subseteq wq \cup {s}
           /\ pu => wq' = wq
BY DEF TypeOK, Write, Current, EnqueueUpdate

(* Steps that move nothing that PlaceInv speaks of. *)
LEMMA QuietFrame ==
    ASSUME TypeOK, PlaceInv, UNCHANGED <<phase, wq, recon, queue, wtask, new, up, cloud>>,
           \A s \in Snapshots : api'[s] = api[s] \/ api'[s] = "idle" \/ phase[s] # "None",
           \A s \in Snapshots : Current("rec", s)' => Current("rec", s)
    PROVE  PlaceInv'
<1> USE DEF recon
<1>1. \A s \in Snapshots : Held(s)' <=> Held(s)
  BY HeldFrame
<1>2. (NotCreated /\ PendingOnce)'
  BY <1>1 DEF PlaceInv, NotCreated, PendingOnce
<1>3. (DownHoldsNothing /\ HeldOnce)'
  BY <1>1 DEF PlaceInv, DownHoldsNothing, HeldOnce
<1>4. (AddsUnheld /\ ReportsFinal)'
  BY <1>1 DEF PlaceInv, AddsUnheld, ReportsFinal, TypeOK
<1> QED
  BY <1>2, <1>3, <1>4 DEF PlaceInv

(* The worker writes the snapshot that it runs, or a cancel is written. *)
LEMMA WriteFrame ==
    ASSUME TypeOK, PlaceInv, NEW s \in Snapshots, NEW ph \in Phases, NEW pu \in BOOLEAN, Write(s, ph, pu),
           ph # "Pending", phase[s] # "None", wtask = s \/ ph = "Canceled",
           UNCHANGED <<recon, queue, wtask, new, up, cloud>>,
           \A t \in Snapshots : api'[t] = api[t] \/ api'[t] = "idle"
    PROVE  PlaceInv'
<1> USE DEF recon
<1>1. \A t \in Snapshots : Held(t)' <=> Held(t)
  BY HeldFrame
<1>2. /\ \A t \in Snapshots : phase'[t] = IF t = s THEN ph ELSE phase[t]
      /\ \A t \in Snapshots : Current("rec", t)' => t # s /\ Current("rec", t)
      /\ wq \subseteq wq' /\ wq' \subseteq wq \cup {s}
  BY WriteEffect
<1>3. ph # "None"
  BY DEF Phases, Terminal
<1>4. (NotCreated /\ PendingOnce)'
  BY <1>1, <1>2, <1>3 DEF PlaceInv, NotCreated, PendingOnce
<1>5. DownHoldsNothing'
  BY DEF PlaceInv, DownHoldsNothing
<1>6. HeldOnce'
  <2>1. \A i \in 1..Len(queue) : queue[i] \in Snapshots
    BY DEF TypeOK
  <2> QED
    BY <1>1, <1>2, <2>1 DEF PlaceInv, HeldOnce, Open
<1>7. AddsUnheld'
  BY <1>1, <1>2 DEF PlaceInv, AddsUnheld, Held, TypeOK, Open
<1>8. ReportsFinal'
  BY <1>2 DEF PlaceInv, ReportsFinal, TypeOK
<1> QED
  BY <1>4, <1>5, <1>6, <1>7, <1>8 DEF PlaceInv

LEMMA PlaceApi ==
    ASSUME TypeOK, PlaceInv, NEW s \in Snapshots, Create(s) \/ CancelCheck(s) \/ ApiStep(s)
    PROVE  PlaceInv'
<1> USE DEF store, process, recon, pool, run, outside
<1>1. CASE Create(s)
  <2>0. /\ s \notin wq /\ rkey # s /\ ~Held(s)
        /\ UNCHANGED <<rpc, rkey, rphase, fresh, cloud, queue, wtask, api, up>>
        /\ wq' \subseteq wq \cup {s} /\ new \subseteq new'
    BY <1>1 DEF Create, Exists, PlaceInv, NotCreated
  <2>1. \A t \in Snapshots : phase'[t] = IF t = s THEN "Pending" ELSE phase[t]
    BY <1>1 DEF Create, TypeOK
  <2>2. \A t \in Snapshots : Held(t)' <=> Held(t)
    BY <2>0, HeldFrame
  <2>3. (NotCreated /\ PendingOnce)'
    BY <2>0, <2>1, <2>2 DEF PlaceInv, NotCreated, PendingOnce
  <2>4. (DownHoldsNothing /\ AddsUnheld)'
    BY <2>0, <2>1, <2>2 DEF PlaceInv, DownHoldsNothing, AddsUnheld, TypeOK
  <2>5. HeldOnce'
    <3>1. \A i \in 1..Len(queue) : queue[i] \in Snapshots
      BY DEF TypeOK
    <3> QED
      BY <2>0, <2>1, <2>2, <3>1 DEF PlaceInv, HeldOnce, Open
  <2>6. ReportsFinal'
    BY <2>0, <2>1 DEF PlaceInv, ReportsFinal, TypeOK, Current
  <2> QED
    BY <2>3, <2>4, <2>5, <2>6 DEF PlaceInv
<1>2. CASE CancelCheck(s)
  BY <1>2, QuietFrame DEF CancelCheck, Exists, TypeOK, Current
<1>3. CASE CancelRead(s)
  BY <1>3, QuietFrame DEF CancelRead, Read, PlaceInv, NotCreated, TypeOK, Current
<1>4. CASE CancelWrite(s)
  <2>1. "Canceled" \in Phases /\ pushed[s] \in BOOLEAN /\ phase[s] # "None"
    BY <1>4 DEF CancelWrite, Phases, Terminal, TypeOK, PlaceInv, NotCreated
  <2>2. \A t \in Snapshots : api'[t] = api[t] \/ api'[t] = "idle"
    BY <1>4 DEF CancelWrite, TypeOK
  <2>3. UNCHANGED <<recon, queue, wtask, new, up, cloud>>
    BY <1>4 DEF CancelWrite
  <2>4. CASE Current("api", s)
    <3>1. Write(s, "Canceled", pushed[s])
      BY <1>4, <2>4 DEF CancelWrite
    <3> QED
      BY <2>1, <2>2, <2>3, <3>1, WriteFrame
  <2>5. CASE ~Current("api", s)
    <3>1. UNCHANGED <<store, wq>>
      BY <1>4, <2>5 DEF CancelWrite
    <3> QED
      BY <2>2, <2>3, <3>1, QuietFrame DEF Current
  <2> QED
    BY <2>4, <2>5
<1>5. CASE CancelError(s)
  BY <1>5, QuietFrame DEF CancelError, TypeOK, Current
<1> QED
  BY <1>1, <1>2, <1>3, <1>4, <1>5 DEF ApiStep

(* A cancel may come at any point of a run; a snapshot that is created is  *)
(* not the one that runs.                                                  *)
LEMMA RunPhaseApi ==
    ASSUME TypeOK, RecordInv, NEW s \in Snapshots, Create(s) \/ CancelCheck(s) \/ ApiStep(s)
    PROVE  RunPhase'
<1>1. UNCHANGED <<wpc, wtask, werr>>
  BY DEF Create, CancelCheck, ApiStep, CancelRead, CancelWrite, CancelError, run
<1>2. CASE Create(s)
  <2>1. wtask # s
    BY <1>2 DEF Create, Exists, RecordInv, PlaceInv, NotCreated, Held
  <2> QED
    BY <1>1, <1>2, <2>1 DEF Create, RecordInv, RunPhase, TypeOK
<1>3. CASE ~Create(s)
  <2>1. \A t \in Snapshots : phase'[t] = phase[t] \/ phase'[t] = "Canceled"
    BY <1>3 DEF CancelCheck, ApiStep, CancelRead, CancelWrite, CancelError, Write, store, TypeOK
  <2> QED
    BY <1>1, <2>1 DEF RecordInv, RunPhase, Open, TypeOK
<1> QED
  BY <1>2, <1>3

(* Reconcile returns: it may have queued its snapshot again, or written a  *)
(* snapshot that the worker does not have.                                 *)
LEMMA ReturnFrame ==
    ASSUME TypeOK, PlaceInv, rkey \in Snapshots, RReturn, UNCHANGED <<queue, wtask, new, up, api>>,
           \A t \in Snapshots :
               phase'[t] = phase[t] \/ (t = rkey /\ ~Held(t) /\ phase'[t] \notin {"None", "Pending"}),
           wq' \subseteq wq \cup {rkey},
           rkey \notin wq' \/ rkey \in wq \/ ~Held(rkey) \/ phase'[rkey] # "Pending"
    PROVE  PlaceInv'
<1>1. \A s \in Snapshots : Held(s)' <=> Held(s)
  BY HeldFrame
<1>2. rpc' = "idle" /\ rkey' = NoSnapshot
  BY DEF RReturn
<1>3. (NotCreated /\ PendingOnce)'
  BY <1>1, <1>2, SnapshotAssumption DEF PlaceInv, NotCreated, PendingOnce
<1>4. DownHoldsNothing'
  BY <1>2 DEF PlaceInv, DownHoldsNothing
<1>5. HeldOnce'
  <2>1. \A i \in 1..Len(queue) : queue[i] \in Snapshots /\ Held(queue[i])
    BY DEF TypeOK, Held, Queued
  <2>2. \A i \in 1..Len(queue) : phase'[queue[i]] = phase[queue[i]]
    BY <2>1
  <2> QED
    BY <1>1, <2>1, <2>2 DEF PlaceInv, HeldOnce
<1>6. (AddsUnheld /\ ReportsFinal)'
  BY <1>2 DEF AddsUnheld, ReportsFinal
<1> QED
  BY <1>3, <1>4, <1>5, <1>6 DEF PlaceInv

LEMMA PlaceGet == TypeOK /\ PlaceInv /\ Get => PlaceInv'
<1> SUFFICES ASSUME TypeOK, PlaceInv, Get PROVE PlaceInv'
  OBVIOUS
<1> USE DEF store, process, pool, run, outside
<1>1. rkey \in Snapshots /\ rpc = "get" /\ up
  BY DEF Get, Reconciling, TypeOK
<1>2. UNCHANGED <<phase, wq, queue, wtask, new, up, api, cloud>>
  BY DEF Get
<1>3. phase[rkey] \in Phases
  BY <1>1 DEF PlaceInv, NotCreated, TypeOK
<1>4. CASE Dispatch(rkey, phase[rkey]) = "return"
  BY <1>1, <1>2, <1>4, ReturnFrame DEF Get
<1>5. CASE Dispatch(rkey, phase[rkey]) # "return"
  <2>1. rpc' = Dispatch(rkey, phase[rkey]) /\ rkey' = rkey /\ rphase' = phase[rkey]
    BY <1>5 DEF Get
  <2>2. \A s \in Snapshots : Held(s)' <=> Held(s)
    BY <1>2, HeldFrame
  <2>3. /\ rpc' \in {"pending", "failread", "cancel", "notify"}
        /\ rpc' = "pending" => phase[rkey] = "Pending" /\ rkey \in new
        /\ rpc' = "failread" => phase[rkey] \in {"Pending", "Running"} /\ rkey \notin new
        /\ rpc' \in {"cancel", "notify"} => phase[rkey] \in Terminal
    BY <1>3, <1>5, <2>1 DEF Dispatch, Phases, Terminal
  <2>4. (NotCreated /\ PendingOnce)'
    BY <1>1, <1>2, <2>1, <2>2, <2>3 DEF PlaceInv, NotCreated, PendingOnce
  <2>5. (DownHoldsNothing /\ HeldOnce)'
    BY <1>1, <1>2, <2>2 DEF PlaceInv, DownHoldsNothing, HeldOnce
  <2>6. AddsUnheld'
    BY <1>1, <1>2, <2>1, <2>2, <2>3 DEF PlaceInv, AddsUnheld, PendingOnce, HeldOnce, Open
  <2>7. ReportsFinal'
    BY <1>1, <1>2, <2>1, <2>3 DEF ReportsFinal, Terminal
  <2> QED
    BY <2>4, <2>5, <2>6, <2>7 DEF PlaceInv
<1> QED
  BY <1>4, <1>5

LEMMA PlaceAdd == TypeOK /\ PlaceInv /\ Add => PlaceInv'
<1> SUFFICES ASSUME TypeOK, PlaceInv, Add PROVE PlaceInv'
  OBVIOUS
<1> USE DEF store, process, run, outside
<1>1. rkey \in Snapshots /\ rpc = "add" /\ up /\ rkey \in new /\ ~Held(rkey) /\ phase[rkey] \in Open
  BY DEF Add, Reconciling, TypeOK, PlaceInv, AddsUnheld
<1>2. UNCHANGED <<phase, wq, wtask, new, up, api, cloud>>
  BY DEF Add
<1>3. CASE ExistsTask(rkey)
  <2>1. rpc' = "failread" /\ UNCHANGED <<rkey, rphase, queue>>
    BY <1>3 DEF Add, RGoto
  <2>2. \A s \in Snapshots : Held(s)' <=> Held(s)
    BY <1>2, <2>1, HeldFrame
  <2>3. (NotCreated /\ PendingOnce /\ DownHoldsNothing /\ HeldOnce)'
    BY <1>1, <1>2, <2>1, <2>2 DEF PlaceInv, NotCreated, PendingOnce, DownHoldsNothing, HeldOnce
  <2>4. (AddsUnheld /\ ReportsFinal)'
    BY <1>1, <1>2, <2>1, <2>2 DEF AddsUnheld, ReportsFinal
  <2> QED
    BY <2>3, <2>4 DEF PlaceInv
<1>4. CASE ~ExistsTask(rkey)
  <2>1. rpc' = "idle" /\ rkey' = NoSnapshot /\ queue' = Append(queue, rkey)
    BY <1>4 DEF Add, RReturn
  <2>2. /\ Len(queue') = Len(queue) + 1 /\ Len(queue) \in Nat
        /\ \A i \in 1..Len(queue) : queue'[i] = queue[i] /\ queue[i] \in Snapshots /\ Held(queue[i])
        /\ queue'[Len(queue) + 1] = rkey
    BY <1>1, <2>1 DEF TypeOK, Held, Queued
  <2>3. \A s \in Snapshots : Held(s)' <=> Held(s) \/ s = rkey
    BY <1>2, <2>2 DEF Held, Queued
  <2>4. (NotCreated /\ PendingOnce)'
    BY <1>1, <1>2, <2>1, <2>3, SnapshotAssumption DEF PlaceInv, NotCreated, PendingOnce, Open
  <2>5. DownHoldsNothing'
    BY <1>1, <1>2 DEF DownHoldsNothing
  <2>6. HeldOnce'
    <3>1. \A s \in Snapshots : Held(s)' => s \in new'
      BY <1>1, <1>2, <2>3 DEF PlaceInv, HeldOnce
    <3>2. \A i, j \in 1..Len(queue') : queue'[i] = queue'[j] => i = j
      BY <1>1, <2>2 DEF PlaceInv, HeldOnce
    <3>3. \A i \in 1..Len(queue') : queue'[i] # wtask' /\ phase'[queue'[i]] \in Open
      <4>1. rkey # wtask
        BY <1>1 DEF Held
      <4> QED
        BY <1>1, <1>2, <2>2, <4>1 DEF PlaceInv, HeldOnce
    <3> QED
      BY <3>1, <3>2, <3>3 DEF HeldOnce
  <2>7. (AddsUnheld /\ ReportsFinal)'
    BY <2>1 DEF AddsUnheld, ReportsFinal
  <2> QED
    BY <2>4, <2>5, <2>6, <2>7 DEF PlaceInv
<1> QED
  BY <1>3, <1>4

LEMMA PlaceReconcile == TypeOK /\ PlaceInv /\ ReconcileStep => PlaceInv'
<1> SUFFICES ASSUME TypeOK, PlaceInv, ReconcileStep PROVE PlaceInv'
  OBVIOUS
<1> USE DEF store, process, pool, run, outside, Reconciling, RGoto
<1>0. rpc # "idle" => rkey \in Snapshots
  BY DEF TypeOK
<1>1. ASSUME NEW s \in Snapshots, Pop(s) PROVE PlaceInv'
  <2>1. /\ s \in wq /\ up /\ wq' = wq \ {s} /\ rpc' = "get" /\ rkey' = s
        /\ UNCHANGED <<phase, queue, wtask, new, up, api>>
    BY <1>1 DEF Pop
  <2>2. \A t \in Snapshots : Held(t)' <=> Held(t)
    BY <2>1, HeldFrame
  <2>3. (NotCreated /\ PendingOnce)'
    BY <2>1, <2>2 DEF PlaceInv, NotCreated, PendingOnce
  <2>4. (DownHoldsNothing /\ HeldOnce)'
    BY <2>1, <2>2 DEF PlaceInv, DownHoldsNothing, HeldOnce
  <2>5. (AddsUnheld /\ ReportsFinal)'
    BY <2>1 DEF AddsUnheld, ReportsFinal
  <2> QED
    BY <2>3, <2>4, <2>5 DEF PlaceInv
<1>2. CASE GetError
  <2>1. ~Held(rkey) \/ phase[rkey] # "Pending"
    BY <1>0, <1>2 DEF GetError, PlaceInv, PendingOnce
  <2> QED
    BY <1>0, <1>2, <2>1, ReturnFrame DEF GetError, Requeue
<1>3. CASE NotifyResultError
  <2>1. phase[rkey] # "Pending"
    BY <1>3 DEF NotifyResultError, PlaceInv, ReportsFinal
  <2> QED
    BY <1>0, <1>3, <2>1, ReturnFrame DEF NotifyResultError, Requeue
<1>4. CASE FailError \/ MarkError
  BY <1>0, <1>4, ReturnFrame DEF FailError, MarkError
<1>5. CASE FailWrite
  <2>1. rkey \in Snapshots /\ ~Held(rkey) /\ RReturn /\ UNCHANGED <<queue, wtask, new, up, api>>
    BY <1>0, <1>5 DEF FailWrite, PlaceInv, AddsUnheld
  <2>2. CASE Current("rec", rkey)
    <3>1. Write(rkey, "Failed", pushed[rkey])
      BY <1>5, <2>2 DEF FailWrite
    <3> QED
      BY <2>1, <3>1, WriteEffect, ReturnFrame
  <2>3. CASE ~Current("rec", rkey)
    BY <1>5, <2>1, <2>3, ReturnFrame DEF FailWrite
  <2> QED
    BY <2>2, <2>3
<1>6. CASE MarkNotified
  <2>1. rkey \in Snapshots /\ RReturn /\ UNCHANGED <<queue, wtask, new, up, api>>
    BY <1>0, <1>6 DEF MarkNotified
  <2>2. CASE Current("rec", rkey)
    <3>1. Write(rkey, phase[rkey], TRUE)
      BY <1>6, <2>2 DEF MarkNotified
    <3>2. (\A t \in Snapshots : phase'[t] = phase[t]) /\ wq' = wq
      BY <2>1, <3>1, WriteEffect
    <3> QED
      BY <2>1, <3>2, ReturnFrame
  <2>3. CASE ~Current("rec", rkey)
    BY <1>6, <2>1, <2>3, ReturnFrame DEF MarkNotified
  <2> QED
    BY <2>2, <2>3
<1>7. CASE NotifyPending \/ NotifyPendingError \/ FailRead \/ CancelSnapshot \/ NotifyResult
  <2>1. UNCHANGED <<phase, wq, queue, wtask, new, up, api, rkey, rphase>>
    BY <1>7 DEF NotifyPending, NotifyPendingError, FailRead, CancelSnapshot, NotifyResult
  <2>2. \A t \in Snapshots : Held(t)' <=> Held(t)
    BY <2>1, HeldFrame
  <2>3. \/ rpc = "pending" /\ rpc' = "add"
        \/ rpc = "failread" /\ rpc' = "failwrite"
        \/ rpc = "cancel" /\ rpc' = "notify" /\ fresh' = fresh
        \/ rpc = "notify" /\ rpc' = "mark" /\ fresh' = fresh /\ Tell(rkey, rphase)
    BY <1>7 DEF NotifyPending, NotifyPendingError, FailRead, CancelSnapshot, NotifyResult
  <2>4. (NotCreated /\ PendingOnce)'
    BY <2>1, <2>2, <2>3 DEF PlaceInv, NotCreated, PendingOnce
  <2>5. (DownHoldsNothing /\ HeldOnce)'
    BY <2>1, <2>2 DEF PlaceInv, DownHoldsNothing, HeldOnce
  <2>6. AddsUnheld'
    BY <1>0, <2>1, <2>2, <2>3 DEF PlaceInv, AddsUnheld
  <2>7. ReportsFinal'
    <3>1. rpc' = "mark" /\ InSpace(rkey) => cloud'[rkey] = rphase
      BY <1>0, <2>3 DEF Tell, TypeOK
    <3> QED
      BY <2>1, <2>3, <3>1 DEF PlaceInv, ReportsFinal, Current, InSpace
  <2> QED
    BY <2>4, <2>5, <2>6, <2>7 DEF PlaceInv
<1> QED
  BY <1>1, <1>2, <1>3, <1>4, <1>5, <1>6, <1>7, PlaceGet, PlaceAdd DEF ReconcileStep

LEMMA RunPhaseReconcile == TypeOK /\ RecordInv /\ ReconcileStep => RunPhase'
<1> SUFFICES ASSUME TypeOK, RecordInv, ReconcileStep PROVE RunPhase'
  OBVIOUS
<1> USE DEF store, run
<1>1. UNCHANGED <<wpc, wtask, werr>>
  BY DEF ReconcileStep, Pop, Get, GetError, NotifyPending, NotifyPendingError, Add, FailRead,
     FailWrite, FailError, CancelSnapshot, NotifyResult, NotifyResultError, MarkNotified, MarkError
<1>2. wpc # "idle" => phase'[wtask] = phase[wtask]
  <2>1. CASE FailWrite
    <3>1. wtask # rkey
      BY <2>1 DEF FailWrite, Reconciling, RecordInv, PlaceInv, AddsUnheld, Held
    <3> QED
      BY <2>1, <3>1 DEF FailWrite, Write, TypeOK
  <2>2. CASE MarkNotified
    BY <2>2 DEF MarkNotified, Write, TypeOK
  <2>3. CASE ~(FailWrite \/ MarkNotified)
    BY <2>3 DEF ReconcileStep, Pop, Get, GetError, NotifyPending, NotifyPendingError, Add, FailRead,
       FailError, CancelSnapshot, NotifyResult, NotifyResultError, MarkError
  <2> QED
    BY <2>1, <2>2, <2>3
<1> QED
  BY <1>1, <1>2 DEF RecordInv, RunPhase

LEMMA PlaceWorker == TypeOK /\ RecordInv /\ (WorkerStep \/ Progress) => PlaceInv'
<1> SUFFICES ASSUME TypeOK, RecordInv, WorkerStep \/ Progress PROVE PlaceInv'
  OBVIOUS
<1> USE DEF store, process, outside, Working, WGoto, WFail
<1>0. PlaceInv /\ (wpc # "idle" => wtask \in Snapshots)
  BY DEF RecordInv, TypeOK
<1>1. CASE Dequeue
  <2>1. /\ wtask = NoSnapshot /\ up /\ queue # <<>> /\ wtask' = Head(queue) /\ queue' = Tail(queue)
        /\ UNCHANGED <<phase, fresh, wq, rpc, rkey, rphase, new, up, api, cloud>>
    BY <1>1 DEF Dequeue, recon, TypeOK
  <2>2. /\ Len(queue) \in Nat /\ Len(queue) # 0 /\ Len(queue') = Len(queue) - 1
        /\ \A i \in 1..Len(queue) : queue[i] \in Snapshots
        /\ \A i \in 1..Len(queue') : i + 1 \in 1..Len(queue) /\ queue'[i] = queue[i + 1]
        /\ wtask' = queue[1]
    BY <2>1 DEF TypeOK
  <2>3. \A s \in Snapshots : Held(s)' => Held(s)
    <3>1. \A s \in Snapshots : Queued(s)' => Queued(s)
      BY <2>2 DEF Queued
    <3>2. Queued(wtask')
      BY <2>2 DEF Queued
    <3> QED
      BY <3>1, <3>2 DEF Held
  <2>4. (NotCreated /\ PendingOnce)'
    BY <1>0, <2>1, <2>3 DEF PlaceInv, NotCreated, PendingOnce
  <2>5. DownHoldsNothing'
    BY <2>1 DEF DownHoldsNothing
  <2>6. HeldOnce'
    <3>1. \A i \in 1..Len(queue') : queue'[i] # wtask'
      <4> SUFFICES ASSUME NEW i \in 1..Len(queue') PROVE queue'[i] # wtask'
        OBVIOUS
      <4>1. i + 1 \in 1..Len(queue) /\ queue'[i] = queue[i + 1] /\ 1 \in 1..Len(queue) /\ i + 1 # 1
        BY <2>2
      <4> QED
        BY <1>0, <2>2, <4>1 DEF PlaceInv, HeldOnce
    <3>2. \A i, j \in 1..Len(queue') : queue'[i] = queue'[j] => i = j
      <4> SUFFICES ASSUME NEW i \in 1..Len(queue'), NEW j \in 1..Len(queue'), queue'[i] = queue'[j] PROVE i = j
        OBVIOUS
      <4>1. i + 1 \in 1..Len(queue) /\ j + 1 \in 1..Len(queue) /\ queue[i + 1] = queue[j + 1]
        BY <2>2
      <4>2. i + 1 = j + 1
        BY <1>0, <4>1 DEF PlaceInv, HeldOnce
      <4> QED
        BY <4>2
    <3>3. \A i \in 1..Len(queue') : phase'[queue'[i]] \in Open
      BY <1>0, <2>1, <2>2 DEF PlaceInv, HeldOnce
    <3>4. \A s \in Snapshots : Held(s)' => s \in new'
      BY <1>0, <2>1, <2>3 DEF PlaceInv, HeldOnce
    <3> QED
      BY <3>1, <3>2, <3>3, <3>4 DEF HeldOnce
  <2>7. AddsUnheld'
    BY <1>0, <2>1, <2>3 DEF PlaceInv, AddsUnheld, TypeOK
  <2>8. ReportsFinal'
    BY <1>0, <2>1 DEF PlaceInv, ReportsFinal, Current
  <2> QED
    BY <2>4, <2>5, <2>6, <2>7, <2>8 DEF PlaceInv
<1>2. CASE CheckCanceled \/ Activate \/ CheckExists \/ CheckExistsError \/ Prepare
           \/ ReadyForBackupApp \/ Execute \/ TokenPanic
  <2>1. UNCHANGED <<phase, fresh, wq, recon, queue, wtask, new, up, api, cloud>>
    BY <1>2 DEF CheckCanceled, Activate, CheckExists, CheckExistsError, Prepare,
       ReadyForBackupApp, Execute, TokenPanic, pool
  <2> QED
    BY <1>0, <2>1, QuietFrame DEF Current
<1>3. CASE StartRead \/ ResultRead \/ ResultError
  <2>1. UNCHANGED <<phase, wq, recon, queue, wtask, new, up, api, cloud>>
    BY <1>3 DEF StartRead, ResultRead, ResultError, pool
  <2>2. \A s \in Snapshots : Current("rec", s)' => Current("rec", s)
    BY <1>3 DEF StartRead, ResultRead, ResultError, Read, Current
  <2> QED
    BY <1>0, <2>1, <2>2, QuietFrame
<1>4. CASE StartWrite \/ ResultWrite \/ Progress
  <2>1. UNCHANGED <<recon, queue, wtask, new, up, api, cloud>> /\ wtask \in Snapshots
    BY <1>0, <1>4 DEF StartWrite, ResultWrite, Progress, pool, run
  <2>2. CASE \E ph \in {"Running", ResultPhase} : Write(wtask, ph, pushed[wtask])
    <3>1. PICK ph \in {"Running", ResultPhase} : Write(wtask, ph, pushed[wtask])
      BY <2>2
    <3>2. ph \in Phases /\ ph # "Pending" /\ pushed[wtask] \in BOOLEAN
      BY <2>1 DEF ResultPhase, Phases, Terminal, TypeOK
    <3>3. phase[wtask] # "None"
      BY <1>0, <2>1 DEF PlaceInv, NotCreated, Held
    <3> QED
      BY <1>0, <2>1, <3>1, <3>2, <3>3, WriteFrame
  <2>3. CASE ~\E ph \in {"Running", ResultPhase} : Write(wtask, ph, pushed[wtask])
    <3>1. UNCHANGED <<phase, wq>> /\ fresh' \subseteq fresh
      BY <1>4, <2>3 DEF StartWrite, ResultWrite, Progress
    <3> QED
      BY <1>0, <2>1, <3>1, QuietFrame DEF Current
  <2> QED
    BY <2>2, <2>3
<1>5. CASE Exit
  <2>1. UNCHANGED <<phase, fresh, wq, rpc, rkey, rphase, queue, new, up, api, cloud>> /\ wtask' = NoSnapshot
    BY <1>5 DEF Exit, recon
  <2>2. \A s \in Snapshots : Held(s)' => Held(s)
    BY <2>1, SnapshotAssumption DEF Held, Queued
  <2>3. (NotCreated /\ PendingOnce /\ DownHoldsNothing)'
    BY <1>0, <2>1, <2>2 DEF PlaceInv, NotCreated, PendingOnce, DownHoldsNothing
  <2>4. HeldOnce'
    <3>1. \A i \in 1..Len(queue) : queue[i] # NoSnapshot
      BY SnapshotAssumption DEF TypeOK
    <3> QED
      BY <1>0, <2>1, <2>2, <3>1 DEF PlaceInv, HeldOnce
  <2>5. AddsUnheld'
    BY <1>0, <2>1, <2>2 DEF PlaceInv, AddsUnheld, TypeOK
  <2>6. ReportsFinal'
    BY <1>0, <2>1 DEF PlaceInv, ReportsFinal, Current
  <2> QED
    BY <2>3, <2>4, <2>5, <2>6 DEF PlaceInv
<1> QED
  BY <1>1, <1>2, <1>3, <1>4, <1>5 DEF WorkerStep

LEMMA RunPhaseWorker == TypeOK /\ RecordInv /\ (WorkerStep \/ Progress) => RunPhase'
<1> SUFFICES ASSUME TypeOK, RecordInv, WorkerStep \/ Progress PROVE RunPhase'
  OBVIOUS
<1> USE DEF store, outside, Working, WGoto, WFail, RunPhase
<1>0. RunPhase /\ (wpc # "idle" => wtask \in Snapshots)
  BY DEF RecordInv, TypeOK
<1>1. CASE Dequeue
  <2>1. wpc' = "check" /\ phase' = phase /\ wtask' = queue[1] /\ 1 \in 1..Len(queue)
    BY <1>1 DEF Dequeue, TypeOK
  <2> QED
    BY <2>1 DEF RecordInv, PlaceInv, HeldOnce
<1>2. CASE CheckCanceled \/ Activate \/ CheckExists \/ CheckExistsError \/ Prepare \/ StartRead \/ ResultRead
           \/ ReadyForBackupApp \/ Execute \/ TokenPanic
  BY <1>0, <1>2 DEF CheckCanceled, Activate, CheckExists, CheckExistsError, Prepare, StartRead, ResultRead,
     ReadyForBackupApp, Execute, TokenPanic, Open
<1>3. CASE StartWrite
  BY <1>0, <1>3 DEF StartWrite, Write, TypeOK, Open
<1>4. CASE ResultWrite \/ ResultError \/ Exit
  BY <1>4 DEF ResultWrite, ResultError, Exit
<1>5. CASE Progress
  BY <1>0, <1>5 DEF Progress, Write, TypeOK, run
<1> QED
  BY <1>1, <1>2, <1>3, <1>4, <1>5 DEF WorkerStep

LEMMA RecordNext == TypeOK /\ RecordInv /\ [Next]_vars => RecordInv'
<1> SUFFICES ASSUME TypeOK, RecordInv, [Next]_vars PROVE RecordInv'
  OBVIOUS
<1> USE DEF store, process, recon, pool, run, outside
<1>0. PlaceInv /\ RunPhase
  BY DEF RecordInv
<1>1. ASSUME NEW s \in Snapshots, Create(s) \/ CancelCheck(s) \/ ApiStep(s) PROVE RecordInv'
  BY <1>0, <1>1, PlaceApi, RunPhaseApi DEF RecordInv
<1>2. CASE ReconcileStep
  BY <1>0, <1>2, PlaceReconcile, RunPhaseReconcile DEF RecordInv
<1>3. CASE WorkerStep \/ Progress
  BY <1>3, PlaceWorker, RunPhaseWorker DEF RecordInv
<1>4. CASE SecondPasses \/ UNCHANGED vars
  <2>1. UNCHANGED <<phase, fresh, wq, rpc, rkey, rphase, queue, wtask, wpc, werr, new, up, api, cloud>>
    BY <1>4 DEF SecondPasses, vars
  <2>2. RunPhase'
    BY <1>0, <2>1 DEF RunPhase
  <2> QED
    BY <1>0, <2>1, <2>2, QuietFrame DEF RecordInv, Current
<1>5. CASE Start \/ Crash
  <2>1. rkey' = NoSnapshot /\ wtask' = NoSnapshot /\ queue' = <<>> /\ rpc' = "idle" /\ wpc' = "idle"
    <3>1. CASE Start
      BY <1>0, <3>1, SnapshotAssumption DEF Start, PlaceInv, DownHoldsNothing, TypeOK
    <3>2. CASE Crash
      BY <3>2 DEF Crash, RReturn
    <3> QED
      BY <1>5, <3>1, <3>2
  <2>2. \A s \in Snapshots : ~Held(s)'
    BY <2>1, SnapshotAssumption DEF Held, Queued
  <2>3. UNCHANGED <<phase, api>> /\ \A s \in wq' : phase[s] # "None"
    BY <1>5 DEF Start, Crash, Exists
  <2>4. (NotCreated /\ PendingOnce)'
    BY <1>0, <2>1, <2>2, <2>3, SnapshotAssumption DEF PlaceInv, NotCreated, PendingOnce
  <2>5. (DownHoldsNothing /\ HeldOnce /\ AddsUnheld /\ ReportsFinal)'
    BY <2>1, <2>2 DEF DownHoldsNothing, HeldOnce, AddsUnheld, ReportsFinal
  <2>6. RunPhase'
    BY <2>1 DEF RunPhase
  <2> QED
    BY <2>4, <2>5, <2>6 DEF RecordInv, PlaceInv
<1> QED
  BY <1>1, <1>2, <1>3, <1>4, <1>5 DEF Next

LEMMA RecordAlways == Spec => []RecordInv
BY RecordInit, RecordNext, TypeCorrect, PTL DEF Spec

-----------------------------------------------------------------------------
(* The processes implement SnapshotRecord. *)

(* A Create or a successful Update is the change of phase that the record  *)
(* has for it.                                                             *)
LEMMA PhaseChange ==
    ASSUME TypeOK, NEW s \in Snapshots, NEW ph,
           Write(s, ph, pushed[s]) \/ (phase' = [phase EXCEPT ![s] = ph] /\ UNCHANGED pushed),
           UNCHANGED <<cloud, saved>>, NEW from, phase[s] \in from
    PROVE  Record!Become(s, from, ph)
BY DEF Record!Become, Write, TypeOK

LEMMA RecordStep ==
    TypeOK /\ RecordInv /\ DataInv /\ [Next]_vars => [Record!Next]_(Record!record)
<1> SUFFICES ASSUME TypeOK, RecordInv, DataInv, [Next]_vars
             PROVE  Record!Next \/ UNCHANGED <<phase, pushed, cloud, saved>>
  BY DEF Record!record
<1> USE DEF store, process, recon, pool, outside, Reconciling, Working, WGoto, WFail
<1>0. /\ PlaceInv /\ RunPhase
      /\ rpc # "idle" => rkey \in Snapshots
      /\ wpc # "idle" => wtask \in Snapshots
  BY DEF RecordInv, TypeOK
<1>1. ASSUME NEW s \in Snapshots, Create(s) PROVE Record!Next
  <2>1. phase[s] \in {"None"} /\ UNCHANGED <<cloud, saved>> /\ phase' = [phase EXCEPT ![s] = "Pending"] /\ UNCHANGED pushed
    BY <1>1 DEF Create, Exists
  <2>2. Record!Create(s)
    BY <2>1, PhaseChange DEF Record!Create
  <2> QED
    BY <2>2 DEF Record!Next
<1>2. ASSUME NEW s \in Snapshots, CancelWrite(s)
      PROVE  Record!Next \/ UNCHANGED <<phase, pushed, cloud, saved>>
  <2>1. CASE Current("api", s)
    <3>1. Write(s, "Canceled", pushed[s]) /\ UNCHANGED <<cloud, saved>>
      BY <1>2, <2>1 DEF CancelWrite
    <3>2. phase[s] \in {"Pending", "Running"} \cup Record!Final
      BY <1>0, <1>2 DEF CancelWrite, PlaceInv, NotCreated, TypeOK, Phases, Terminal, Record!Final
    <3>3. Record!Cancel(s)
      BY <3>1, <3>2, PhaseChange DEF Record!Cancel
    <3> QED
      BY <3>3 DEF Record!Next
  <2>2. CASE ~Current("api", s)
    BY <1>2, <2>2 DEF CancelWrite
  <2> QED
    BY <2>1, <2>2
<1>3. CASE FailWrite
  <2>1. CASE Current("rec", rkey)
    <3>1. Write(rkey, "Failed", pushed[rkey]) /\ UNCHANGED <<cloud, saved>> /\ rkey \in Snapshots
      BY <1>0, <1>3, <2>1 DEF FailWrite
    <3>2. phase[rkey] \in {"Pending", "Running", "Canceled"}
      BY <1>0, <1>3 DEF FailWrite, PlaceInv, AddsUnheld, Open
    <3>3. Record!Fail(rkey)
      BY <3>1, <3>2, PhaseChange DEF Record!Fail
    <3> QED
      BY <3>1, <3>3 DEF Record!Next
  <2>2. CASE ~Current("rec", rkey)
    BY <1>3, <2>2 DEF FailWrite
  <2> QED
    BY <2>1, <2>2
<1>4. ASSUME NEW ph \in {"Pending", rphase}, NotifyPending \/ NotifyResult, ph # "None", Tell(rkey, ph),
             ph \in Record!Final \cup {"Pending"}
      PROVE  Record!Next \/ UNCHANGED <<phase, pushed, cloud, saved>>
  <2>1. UNCHANGED <<phase, pushed, saved>> /\ rkey \in Snapshots
    BY <1>0, <1>4 DEF NotifyPending, NotifyResult
  <2>2. phase[rkey] # "None"
    BY <1>0, <2>1 DEF PlaceInv, NotCreated
  <2>3. CASE InSpace(rkey)
    <3>1. Record!Tell(rkey, ph)
      BY <1>4, <2>1, <2>2, <2>3 DEF Tell, Record!Tell
    <3> QED
      BY <1>4, <2>1, <3>1 DEF Record!Next
  <2>4. CASE ~InSpace(rkey)
    BY <1>4, <2>1, <2>4 DEF Tell
  <2> QED
    BY <2>3, <2>4
<1>5. CASE NotifyPending
  BY <1>4, <1>5 DEF NotifyPending, Record!Final
<1>6. CASE NotifyResult
  BY <1>0, <1>4, <1>6 DEF NotifyResult, PlaceInv, ReportsFinal, Terminal, Record!Final
<1>7. CASE MarkNotified
  <2>1. CASE Current("rec", rkey)
    <3>1. Write(rkey, phase[rkey], TRUE) /\ UNCHANGED <<cloud, saved>> /\ rkey \in Snapshots
      BY <1>0, <1>7, <2>1 DEF MarkNotified
    <3>2. phase[rkey] \in Record!Final /\ (InSpace(rkey) => cloud[rkey] = phase[rkey])
      BY <1>0, <1>7, <2>1 DEF MarkNotified, PlaceInv, ReportsFinal, Terminal, Record!Final
    <3>3. phase' = phase /\ pushed' = [pushed EXCEPT ![rkey] = TRUE]
      BY <3>1 DEF Write, TypeOK
    <3>4. Record!Acknowledge(rkey)
      BY <3>1, <3>2, <3>3 DEF Record!Acknowledge
    <3> QED
      BY <3>1, <3>4 DEF Record!Next
  <2>2. CASE ~Current("rec", rkey)
    BY <1>7, <2>2 DEF MarkNotified
  <2> QED
    BY <2>1, <2>2
<1>8. CASE StartWrite
  <2>1. CASE Current("worker", wtask) /\ ~Done(wtask)
    <3>1. Write(wtask, "Running", pushed[wtask]) /\ UNCHANGED <<cloud, saved>> /\ wtask \in Snapshots
      BY <1>0, <1>8, <2>1 DEF StartWrite
    <3>2. phase[wtask] \in {"Pending", "Canceled"}
      BY <1>0, <1>8 DEF StartWrite, RunPhase, Open
    <3>3. Record!Begin(wtask)
      BY <3>1, <3>2, PhaseChange DEF Record!Begin
    <3> QED
      BY <3>1, <3>3 DEF Record!Next
  <2>2. CASE ~(Current("worker", wtask) /\ ~Done(wtask))
    BY <1>8, <2>2 DEF StartWrite
  <2> QED
    BY <2>1, <2>2
<1>9. CASE Progress
  BY <1>0, <1>9 DEF Progress, Write, TypeOK
<1>10. CASE Execute
  <2>1. CASE saved' = saved \cup {wtask}
    <3>1. phase[wtask] \in {"Running", "Canceled"} /\ wtask \in Snapshots /\ UNCHANGED <<phase, pushed, cloud>>
      BY <1>0, <1>10 DEF Execute, RunPhase
    <3>2. Record!Save(wtask)
      BY <2>1, <3>1 DEF Record!Save
    <3> QED
      BY <3>1, <3>2 DEF Record!Next
  <2>2. CASE saved' # saved \cup {wtask}
    BY <1>10, <2>2 DEF Execute
  <2> QED
    BY <2>1, <2>2
<1>11. CASE ResultWrite
  <2>1. CASE Current("worker", wtask) /\ ~Done(wtask)
    <3>1. Write(wtask, ResultPhase, pushed[wtask]) /\ UNCHANGED <<cloud, saved>> /\ wtask \in Snapshots
      BY <1>0, <1>11, <2>1 DEF ResultWrite
    <3>2. CASE werr = "none"
      <4>1. phase[wtask] \in {"Running", "Canceled"} /\ wtask \in saved /\ ResultPhase = "Completed"
        BY <1>0, <1>11, <3>2 DEF ResultWrite, RunPhase, DataInv, ResultHasData, ResultPhase
      <4>2. Record!Complete(wtask)
        BY <3>1, <4>1, PhaseChange DEF Record!Complete
      <4> QED
        BY <3>1, <4>2 DEF Record!Next
    <3>3. CASE werr # "none"
      <4>1. phase[wtask] \in {"Pending", "Running", "Canceled"} /\ ResultPhase \in {"Canceled", "Failed"}
        BY <1>0, <1>11, <3>3 DEF ResultWrite, RunPhase, ResultPhase, TypeOK
      <4>2. Record!Fail(wtask) \/ Record!Cancel(wtask)
        BY <3>1, <4>1, PhaseChange DEF Record!Fail, Record!Cancel, Record!Final
      <4> QED
        BY <3>1, <4>2 DEF Record!Next
    <3> QED
      BY <3>2, <3>3
  <2>2. CASE ~(Current("worker", wtask) /\ ~Done(wtask))
    BY <1>11, <2>2 DEF ResultWrite
  <2> QED
    BY <2>1, <2>2
<1>12. ASSUME NEW s \in Snapshots, CancelCheck(s) \/ CancelRead(s) \/ CancelError(s) \/ Pop(s)
       PROVE  UNCHANGED <<phase, pushed, cloud, saved>>
  BY <1>12 DEF CancelCheck, CancelRead, CancelError, Pop
<1>13. CASE Get \/ GetError \/ NotifyPendingError \/ Add \/ FailRead \/ FailError \/ CancelSnapshot
            \/ NotifyResultError \/ MarkError
  BY <1>13 DEF Get, GetError, NotifyPendingError, Add, FailRead, FailError, CancelSnapshot, NotifyResultError, MarkError
<1>14. CASE Dequeue \/ CheckCanceled \/ Activate \/ CheckExists \/ CheckExistsError \/ Prepare \/ StartRead
            \/ ReadyForBackupApp \/ TokenPanic \/ ResultRead \/ ResultError \/ Exit
  BY <1>14 DEF Dequeue, CheckCanceled, Activate, CheckExists, CheckExistsError, Prepare, StartRead,
     ReadyForBackupApp, TokenPanic, ResultRead, ResultError, Exit
<1>15. CASE Start \/ SecondPasses \/ Crash \/ UNCHANGED vars
  BY <1>15 DEF Start, SecondPasses, Crash, vars
<1> QED
  BY <1>1, <1>2, <1>3, <1>5, <1>6, <1>7, <1>8, <1>9, <1>10, <1>11, <1>12, <1>13, <1>14, <1>15
     DEF Next, ApiStep, ReconcileStep, WorkerStep

(* The worker, the reconciler and the API server, racing and restarting,   *)
(* change the store and the cloud only as SnapshotRecord says.             *)
THEOREM RecordImplemented == Spec => ImplementsRecord
<1>1. Init => Record!Init
  BY DEF Init, Record!Init
<1> QED
  BY <1>1, RecordStep, RecordAlways, DataAlways, TypeCorrect, PTL DEF Spec, Record!Spec, ImplementsRecord

(* A Completed or Failed snapshot is never put back to Pending or Running: *)
(* the record has no such step.                                            *)
THEOREM ReopenCorrect == Spec => FinishedNeverReopens
<1>1. TypeOK /\ RecordInv /\ DataInv /\ [Next]_vars =>
          [\A s \in Snapshots :
               phase[s] \in {"Completed", "Failed"} => phase'[s] \notin {"Pending", "Running"}]_vars
  <2> SUFFICES ASSUME TypeOK, [Record!Next]_(Record!record), NEW s \in Snapshots, phase[s] \in {"Completed", "Failed"}
               PROVE  phase'[s] \notin {"Pending", "Running"}
    BY RecordStep
  <2>1. CASE UNCHANGED Record!record
    BY <2>1 DEF Record!record
  <2>2. CASE Record!Next
    <3>1. PICK t \in Snapshots :
              \/ Record!Create(t) \/ Record!Begin(t) \/ Record!Save(t) \/ Record!Complete(t)
              \/ Record!Fail(t) \/ Record!Cancel(t)
              \/ \E ph \in Record!Final \cup {"Pending"} : Record!Tell(t, ph)
              \/ Record!Acknowledge(t)
      BY <2>2 DEF Record!Next
    <3> QED
      BY <3>1 DEF TypeOK, Record!Create, Record!Begin, Record!Save, Record!Complete, Record!Fail,
         Record!Cancel, Record!Tell, Record!Acknowledge, Record!Become
  <2> QED
    BY <2>1, <2>2
<1> QED
  BY <1>1, RecordAlways, DataAlways, TypeCorrect, PTL DEF Spec, FinishedNeverReopens

(* The moment the result of a snapshot in Olares Space is recorded as      *)
(* pushed, the cloud has been told the phase the snapshot then has.        *)
THEOREM PushedCorrect == Spec => PushedWasReported
<1>1. TypeOK /\ RecordInv /\ DataInv /\ [Next]_vars =>
          [\A s \in Snapshots :
               InSpace(s) /\ ~pushed[s] /\ pushed'[s] => cloud[s] = phase'[s]]_vars
  <2> SUFFICES ASSUME TypeOK, [Record!Next]_(Record!record), NEW s \in Snapshots,
                      InSpace(s), ~pushed[s], pushed'[s]
               PROVE  cloud[s] = phase'[s]
    BY RecordStep
  <2>1. CASE UNCHANGED Record!record
    BY <2>1 DEF Record!record
  <2>2. CASE Record!Next
    <3>1. PICK t \in Snapshots : Record!Acknowledge(t) \/ pushed' = pushed
      BY <2>2 DEF Record!Next, Record!Create, Record!Begin, Record!Save, Record!Complete, Record!Fail,
         Record!Cancel, Record!Tell, Record!Become
    <3> QED
      BY <3>1 DEF TypeOK, Record!Acknowledge
  <2> QED
    BY <2>1, <2>2
<1> QED
  BY <1>1, RecordAlways, DataAlways, TypeCorrect, PTL DEF Spec, PushedWasReported
=============================================================================
