----------------------- MODULE RestoreLifecycleProofs -----------------------
(***************************************************************************)
(* Proofs about RestoreLifecycle for every set of restores and every       *)
(* number of restarts, failing calls and user requests, racing or not.     *)
(***************************************************************************)
EXTENDS RestoreLifecycle, TLAPS

(* A run that goes to write its result without an error has its data. *)
ResultHasData ==
    wpc \in {"deliver", "app", "result", "resultwrite"} /\ werr = "none" => data[wtask] # "none"

DataInv == ResultHasData /\ CompletedHasData

(* Until a restore starts it is in one place of its way to the start: not  *)
(* created, in a create event, in the queue, or with the worker.           *)
Queued(r) == \E i \in 1..Len(queue) : queue[i] = r

Untouched(r) == starts[r] = 0 /\ ~Queued(r) /\ wtask # r

BeforeStart == {"check", "activate", "exists", "prepare", "startread", "startwrite"}

CreateIsFirst ==
    \A r \in Restores : \A i \in 1..Len(events[r]) : events[r][i][1] = "create" => i = 1

NotCreated ==
    \A r \in Restores : phase[r] = "None" => events[r] = <<>> /\ r \notin new /\ Untouched(r)

NotAdded ==
    \A r \in new : events[r] # <<>> /\ Head(events[r])[1] = "create" => Untouched(r)

NotDequeued ==
    /\ \A i, j \in 1..Len(queue) : queue[i] = queue[j] => i = j
    /\ \A i \in 1..Len(queue) : starts[queue[i]] = 0 /\ wtask # queue[i]

NotStarted == wpc \in BeforeStart => starts[wtask] = 0

OnceInv ==
    CreateIsFirst /\ NotCreated /\ NotAdded /\ NotDequeued /\ NotStarted /\ StartedOnce

-----------------------------------------------------------------------------
(* The steps that users cause, by the restore they are for. *)

RequestStep(u, r) ==
    \/ ApiStep(u) /\ target[u] = r
    \/ \E ev \in {"cancel", "delete"} : CancelRequest(u, r, ev)

UserStep(r) == Create(r) \/ ClearHistoryRestores(r) \/ \E u \in Requests : RequestStep(u, r)

(* Every step is one of a user, the predicates, the worker or the process. *)
LEMMA NextCases ==
    ASSUME TypeOK, Next
    PROVE  \/ \E r \in Restores : UserStep(r)
           \/ HandlerStep \/ WorkerStep \/ Progress \/ Start \/ SecondPasses \/ Crash
<1>1. ASSUME NEW u \in Requests, ApiStep(u) PROVE target[u] \in Restores
  <2>1. apc[u] # "new"
    BY <1>1 DEF ApiStep, RequestRead, RequestWrite, RequestConflict, RequestError
  <2> QED
    BY <2>1 DEF TypeOK
<1> QED
  BY <1>1 DEF Next, UserStep, RequestStep

(* All that a request does to the rest of the system is one write to its   *)
(* restore.                                                                *)
LEMMA RequestEffect ==
    ASSUME NEW r \in Restores, NEW u \in Requests, RequestStep(u, r)
    PROVE  /\ UNCHANGED <<process, handler, pool, run, outside>>
           /\ \/ UNCHANGED <<phase, events>>
              \/ \E ph \in {"Canceled", "Deleted"} : Exists(r) /\ Write(r, ph)
BY DEF RequestStep, ApiStep, CancelRequest, RequestRead, RequestWrite, RequestConflict, RequestError,
   Current

-----------------------------------------------------------------------------
(* Type correctness. *)

ApiLabels == {"new", "cancelread", "cancelwrite", "deleteread", "deletewrite", "done"}

LEMMA TypeInit == Init => TypeOK
<1>1. <<>> \in Seq(Restores) /\ <<>> \in Seq(Events)
      /\ 0 \in 0..MaxRestarts /\ 0 \in 0..MaxFaults /\ 0 \in 0..(Attempts - 1)
  BY RestoreAssumption
<1>2. Init => /\ phase \in [Restores -> Phases \cup Absent]
              /\ apc \in [Requests -> ApiLabels] /\ target \in [Requests -> Restores \cup {NoRestore}]
              /\ \A u \in Requests : apc[u] = "new" <=> target[u] = NoRestore
              /\ event \in [Requests -> {"none", "cancel", "delete"}]
              /\ events \in [Restores -> Seq(Events)]
              /\ data \in [Restores -> {"none", "downloaded", "delivered", "applied"}]
              /\ starts \in [Restores -> Nat]
  BY <1>1 DEF Init, NoEvents, Absent, ApiLabels
<1> QED
  BY <1>1, <1>2 DEF Init, TypeOK, ApiLabels

(* A successful update keeps the types of the store and of the events. *)
LEMMA WriteType ==
    ASSUME TypeOK, NEW r \in Restores, NEW ph \in Phases, Write(r, ph)
    PROVE  /\ phase' \in [Restores -> Phases \cup Absent]
           /\ fresh' \subseteq Actors \X Restores
           /\ events' \in [Restores -> Seq(Events)]
<1>1. <<"update", ph>> \in Events
  BY DEF Events
<1>2. Append(events[r], <<"update", ph>>) \in Seq(Events)
  BY <1>1 DEF TypeOK
<1> QED
  BY <1>2 DEF TypeOK, Write

(* What a request keeps of its own: it stays with the restore it is for. *)
LEMMA TypeRequest ==
    ASSUME TypeOK, NEW r \in Restores, NEW u \in Requests, RequestStep(u, r)
    PROVE  /\ apc' \in [Requests -> ApiLabels]
           /\ target' \in [Requests -> Restores \cup {NoRestore}]
           /\ \A v \in Requests : apc'[v] = "new" <=> target'[v] = NoRestore
           /\ event' \in [Requests -> {"none", "cancel", "delete"}]
<1> USE RestoreAssumption DEF TypeOK, ApiLabels
<1>1. ASSUME NEW ev \in {"cancel", "delete"}, CancelRequest(u, r, ev)
      PROVE  /\ target' = [target EXCEPT ![u] = r] /\ event' = [event EXCEPT ![u] = ev]
             /\ \E l \in {"cancelread", "deleteread"} : apc' = [apc EXCEPT ![u] = l]
  BY <1>1 DEF CancelRequest
<1>2. ASSUME apc[u] # "new", ApiStep(u)
      PROVE  /\ target' = target
             /\ event' = event \/ event' = [event EXCEPT ![u] = "none"]
             /\ \E l \in ApiLabels \ {"new"} : apc' = [apc EXCEPT ![u] = l]
  BY <1>2 DEF ApiStep, RequestRead, RequestWrite, RequestConflict, RequestError, Answer
<1>3. ApiStep(u) => apc[u] # "new"
  BY DEF ApiStep, RequestRead, RequestWrite, RequestConflict, RequestError
<1>4. CASE ApiStep(u)
  <2>1. apc[u] # "new" /\ target' = target
    BY <1>2, <1>3, <1>4
  <2>2. PICK l \in ApiLabels \ {"new"} : apc' = [apc EXCEPT ![u] = l]
    BY <1>2, <1>3, <1>4
  <2>3. event' \in [Requests -> {"none", "cancel", "delete"}]
    BY <1>2, <1>3, <1>4
  <2> QED
    BY <2>1, <2>2, <2>3
<1>5. ASSUME NEW ev \in {"cancel", "delete"}, CancelRequest(u, r, ev)
      PROVE  /\ apc' \in [Requests -> ApiLabels]
             /\ target' \in [Requests -> Restores \cup {NoRestore}]
             /\ \A v \in Requests : apc'[v] = "new" <=> target'[v] = NoRestore
             /\ event' \in [Requests -> {"none", "cancel", "delete"}]
  <2>1. PICK l \in {"cancelread", "deleteread"} : apc' = [apc EXCEPT ![u] = l]
    BY <1>1, <1>5
  <2>2. apc' \in [Requests -> ApiLabels] /\ apc'[u] # "new" /\ \A v \in Requests : v # u => apc'[v] = apc[v]
    BY <2>1
  <2>3. /\ target' \in [Requests -> Restores \cup {NoRestore}] /\ target'[u] # NoRestore
        /\ \A v \in Requests : v # u => target'[v] = target[v]
    <3>1. target' = [target EXCEPT ![u] = r]
      BY <1>1, <1>5
    <3> QED
      BY <3>1
  <2>4. event' \in [Requests -> {"none", "cancel", "delete"}]
    BY <1>1, <1>5
  <2> QED
    BY <2>2, <2>3, <2>4
<1> QED
  BY <1>4, <1>5 DEF RequestStep

LEMMA TypeApi ==
    ASSUME TypeOK, NEW r \in Restores, UserStep(r)
    PROVE  TypeOK'
<1> USE RestoreAssumption DEF process, handler, pool, run, outside
<1>0. Phases = {"Pending", "Running", "Deleted", "Completed", "Failed", "Canceled"}
  BY DEF Phases, Final
<1>1. CASE Create(r)
  <2>1. Append(events[r], <<"create", "Pending">>) \in Seq(Events)
    BY <1>0 DEF Events, TypeOK
  <2> QED
    BY <1>0, <1>1, <2>1 DEF Create, TypeOK, api
<1>2. CASE ClearHistoryRestores(r)
  BY <1>2 DEF ClearHistoryRestores, Absent, TypeOK, api
<1>3. ASSUME NEW u \in Requests, RequestStep(u, r) PROVE TypeOK'
  <2>1. UNCHANGED <<process, handler, pool, run, outside>>
    BY <1>3, RequestEffect
  <2>2. phase' \in [Restores -> Phases \cup Absent] /\ events' \in [Restores -> Seq(Events)]
    BY <1>0, <1>3, RequestEffect, WriteType DEF TypeOK
  <2>3. faults' \in 0..MaxFaults
    BY <1>3 DEF RequestStep, ApiStep, CancelRequest, RequestRead, RequestWrite, RequestConflict,
       RequestError, Fault, TypeOK
  <2>4. fresh' \subseteq Actors \X Restores
    BY <1>3 DEF RequestStep, ApiStep, CancelRequest, RequestRead, RequestWrite, RequestConflict,
       RequestError, Read, Forget, Write, Actors, TypeOK
  <2> QED
    BY <1>3, <2>1, <2>2, <2>3, <2>4, TypeRequest DEF TypeOK, ApiLabels
<1> QED
  BY <1>1, <1>2, <1>3 DEF UserStep

LEMMA TypeHandler == TypeOK /\ HandlerStep => TypeOK'
<1> SUFFICES ASSUME TypeOK, HandlerStep PROVE TypeOK'
  OBVIOUS
<1>0. Attempts \in Nat \ {0} /\ 0 \in 0..(Attempts - 1)
  BY RestoreAssumption
<1> USE RestoreAssumption DEF TypeOK, api, process, handler, pool, run, outside, Handling, HReturn
<1>1. ASSUME NEW r \in Restores, HandleCreate(r) PROVE TypeOK'
  <2>1. Tail(events[r]) \in Seq(Events) /\ Append(queue, r) \in Seq(Restores)
    BY <1>1 DEF HandleCreate
  <2>2. events' = [events EXCEPT ![r] = Tail(@)]
    BY <1>1 DEF HandleCreate, CreateFunc, Take
  <2>3. UNCHANGED handler \/ (hpc' = "failread" /\ hkey' = r /\ UNCHANGED tries)
    BY <1>1 DEF HandleCreate, CreateFunc, Take
  <2>4. AddTask(r) \/ UNCHANGED <<table, queue>>
    BY <1>1 DEF HandleCreate, CreateFunc
  <2>5. /\ hpc' \in {"idle", "failread", "failwrite", "delete"} /\ hkey' \in Restores \cup {NoRestore}
        /\ hpc' = "idle" <=> hkey' = NoRestore
        /\ tries' \in 0..(Attempts - 1)
    BY <2>3
  <2>6. events' \in [Restores -> Seq(Events)] /\ table' \subseteq Restores /\ queue' \in Seq(Restores)
    BY <2>1, <2>2, <2>4 DEF AddTask
  <2> QED
    BY <1>1, <2>5, <2>6 DEF HandleCreate
<1>2. ASSUME NEW r \in Restores, HandleUpdate(r) PROVE TypeOK'
  <2>1. Tail(events[r]) \in Seq(Events)
    BY <1>2 DEF HandleUpdate
  <2>2. /\ events' = [events EXCEPT ![r] = Tail(@)]
        /\ UNCHANGED handler \/ (hpc' = "delete" /\ hkey' = r /\ UNCHANGED tries)
    BY <1>2 DEF HandleUpdate, Take
  <2>3. flagged' \subseteq Restores /\ ctxDone' \subseteq Restores
    BY <1>2 DEF HandleUpdate, CancelRestore
  <2> QED
    BY <1>2, <2>1, <2>2, <2>3 DEF HandleUpdate
<1>3. CASE FailRead
  BY <1>3 DEF FailRead, Read, Actors
<1>4. CASE FailWrite
  <2>1. hkey \in Restores /\ "Failed" \in Phases
    BY <1>4 DEF FailWrite, Phases, Final
  <2>2. /\ phase' \in [Restores -> Phases \cup Absent]
        /\ fresh' \subseteq Actors \X Restores
        /\ events' \in [Restores -> Seq(Events)]
    BY <1>4, <2>1, WriteType DEF FailWrite
  <2>3. /\ hpc' \in {"idle", "failread"} /\ hkey' \in {hkey, NoRestore}
        /\ hpc' = "idle" <=> hkey' = NoRestore
        /\ tries' \in 0..(Attempts - 1)
    BY <1>0, <1>4, <2>1 DEF FailWrite, TryAgain
  <2> QED
    BY <1>4, <2>2, <2>3 DEF FailWrite
<1>5. CASE FailGivesUp
  BY <1>0, <1>5 DEF FailGivesUp, Forget, Fault
<1>6. CASE DeleteRestore
  BY <1>0, <1>6 DEF DeleteRestore, Absent
<1>7. CASE DeleteError
  BY <1>0, <1>7 DEF DeleteError, Fault
<1> QED
  BY <1>1, <1>2, <1>3, <1>4, <1>5, <1>6, <1>7 DEF HandlerStep

LEMMA TypeWorker == TypeOK /\ (WorkerStep \/ Progress) => TypeOK'
<1> SUFFICES ASSUME TypeOK, WorkerStep \/ Progress PROVE TypeOK'
  OBVIOUS
<1> USE RestoreAssumption DEF TypeOK, api, process, handler, pool, run, outside, Working, WGoto, WFail
<1>0. Phases = {"Pending", "Running", "Deleted", "Completed", "Failed", "Canceled"}
  BY DEF Phases, Final
<1>1. CASE Dequeue
  <2>1. Head(queue) \in Restores /\ Tail(queue) \in Seq(Restores)
    BY <1>1 DEF Dequeue
  <2> QED
    BY <1>1, <2>1 DEF Dequeue
<1>2. CASE CheckCanceled \/ Activate \/ Prepare
  BY <1>2 DEF CheckCanceled, Activate, Prepare
<1>3. CASE CheckRestoreExists
  BY <1>3 DEF CheckRestoreExists, Fault
<1>4. CASE StartRead
  BY <1>4 DEF StartRead, Read, Actors
<1>5. CASE StartWrite
  <2>1. wtask \in Restores /\ "Running" \in Phases
    BY <1>0, <1>5 DEF StartWrite
  <2>2. starts' \in [Restores -> Nat]
    BY <1>5, <2>1 DEF StartWrite
  <2>3. /\ phase' \in [Restores -> Phases \cup Absent]
        /\ fresh' \subseteq Actors \X Restores
        /\ events' \in [Restores -> Seq(Events)]
    BY <1>5, <2>1, WriteType DEF StartWrite, Forget
  <2> QED
    BY <1>5, <2>1, <2>2, <2>3 DEF StartWrite
<1>6. CASE StartError
  BY <1>6 DEF StartError, Forget, Fault
<1>7. CASE Execute
  BY <1>7 DEF Execute
<1>8. CASE TokenPanic
  BY <1>8 DEF TokenPanic
<1>9. CASE Rename
  <2>1. data' \in [Restores -> {"none", "downloaded", "delivered", "applied"}]
    BY <1>9 DEF Rename
  <2>2. faults' \in 0..MaxFaults
    BY <1>9 DEF Rename, Fault
  <2> QED
    BY <1>9, <2>1, <2>2 DEF Rename
<1>10. CASE StartAppRestore
  BY <1>10 DEF StartAppRestore
<1>11. CASE AwaitAppRestore
  BY <1>11 DEF AwaitAppRestore
<1>12. CASE ResultRead
  BY <1>12 DEF ResultRead, Read, Actors
<1>13. CASE ResultReadError
  BY <1>13 DEF ResultReadError, Fault
<1>14. CASE ResultWrite
  <2>1. wtask \in Restores /\ ResultPhase \in Phases
    BY <1>0, <1>14 DEF ResultWrite, ResultPhase
  <2> QED
    BY <1>14, <2>1, WriteType DEF ResultWrite, Forget
<1>15. CASE ResultError
  BY <1>15 DEF ResultError, Forget, Fault
<1>16. CASE Exit
  BY <1>16 DEF Exit
<1>17. CASE Progress
  <2>1. wtask \in Restores /\ "Running" \in Phases
    BY <1>0, <1>17 DEF Progress
  <2> QED
    BY <1>17, <2>1, WriteType DEF Progress
<1> QED
  BY <1>1, <1>2, <1>3, <1>4, <1>5, <1>6, <1>7, <1>8, <1>9, <1>10, <1>11, <1>12, <1>13, <1>14, <1>15,
     <1>16, <1>17 DEF WorkerStep

LEMMA TypeNext == TypeOK /\ [Next]_vars => TypeOK'
<1> SUFFICES ASSUME TypeOK, [Next]_vars PROVE TypeOK'
  OBVIOUS
<1> USE RestoreAssumption DEF api, process, handler, pool, run, outside
<1>1. CASE Start
  <2>1. ASSUME NEW r \in Restores, Exists(r) PROVE << <<"create", phase[r]>> >> \in Seq(Events)
    <3>1. <<"create", phase[r]>> \in Events
      BY <2>1 DEF Exists, TypeOK, Events
    <3> QED
      BY <3>1
  <2>2. <<>> \in Seq(Events)
    OBVIOUS
  <2>3. events' \in [Restores -> Seq(Events)]
    BY <1>1, <2>1, <2>2 DEF Start
  <2> QED
    BY <1>1, <2>3 DEF Start, TypeOK
<1>2. CASE SecondPasses
  BY <1>2 DEF SecondPasses, TypeOK
<1>3. CASE Crash
  <2>1. <<>> \in Seq(Restores) /\ <<>> \in Seq(Events) /\ restarts' \in 0..MaxRestarts
        /\ 0 \in 0..(Attempts - 1)
    BY <1>3 DEF Crash, TypeOK
  <2>2. fresh' \subseteq Actors \X Restores
    BY <1>3 DEF Crash, TypeOK
  <2> QED
    BY <1>3, <2>1, <2>2 DEF Crash, HReturn, NoEvents, TypeOK
<1>4. CASE UNCHANGED vars
  BY <1>4 DEF vars, TypeOK
<1> QED
  BY <1>1, <1>2, <1>3, <1>4, NextCases, TypeApi, TypeHandler, TypeWorker

(* Every variable keeps its type; in particular the event predicates and   *)
(* the worker work on a restore whenever they are not idle.                *)
THEOREM TypeCorrect == Spec => []TypeOK
BY TypeInit, TypeNext, PTL DEF Spec

-----------------------------------------------------------------------------
(* Completed means that the data came back. *)

(* Steps that neither complete a restore nor move the worker. *)
LEMMA DataFrame ==
    ASSUME DataInv, UNCHANGED <<run, data>>,
           \A r \in Restores : phase'[r] = "Completed" => phase[r] = "Completed"
    PROVE  DataInv'
BY DEF DataInv, ResultHasData, CompletedHasData, run

LEMMA DataWorker == TypeOK /\ DataInv /\ WorkerStep => DataInv'
<1> SUFFICES ASSUME TypeOK, DataInv, WorkerStep PROVE DataInv'
  OBVIOUS
<1> USE RestoreAssumption DEF DataInv, ResultHasData, CompletedHasData, outside, Working, WGoto, WFail
<1>1. CASE Dequeue \/ CheckCanceled \/ Activate \/ CheckRestoreExists \/ Prepare
           \/ StartRead \/ StartError \/ TokenPanic \/ Exit
  BY <1>1 DEF Dequeue, CheckCanceled, Activate, CheckRestoreExists, Prepare, StartRead, StartError,
     TokenPanic, Exit
<1>2. CASE StartAppRestore \/ ResultRead \/ ResultReadError \/ ResultError
  BY <1>2 DEF StartAppRestore, ResultRead, ResultReadError, ResultError
<1>3. CASE StartWrite
  <2>1. \A r \in Restores : phase'[r] = "Completed" => phase[r] = "Completed"
    BY <1>3 DEF StartWrite, Write, TypeOK
  <2>2. data' = data /\ (wpc' = "result" => werr' # "none") /\ wpc' \in {"execute", "result"}
    BY <1>3 DEF StartWrite
  <2> QED
    BY <2>1, <2>2
<1>4. CASE Execute \/ Rename \/ AwaitAppRestore
  <2>1. phase' = phase /\ wtask' = wtask /\ wtask \in Restores
    BY <1>4 DEF Execute, Rename, AwaitAppRestore, TypeOK
  <2>2. \/ data' = data /\ (Rename \/ AwaitAppRestore \/ werr' = "failed")
        \/ \E d \in {"downloaded", "delivered", "applied"} : data' = [data EXCEPT ![wtask] = d]
    BY <1>4 DEF Execute, Rename, AwaitAppRestore
  <2>3. data' = data => ResultHasData'
    BY <1>4, <2>1, <2>2 DEF Rename, AwaitAppRestore, Execute, TypeOK
  <2> QED
    BY <2>1, <2>2, <2>3 DEF TypeOK
<1>5. CASE ResultWrite
  <2>1. data' = data /\ wpc' = "exit"
    BY <1>5 DEF ResultWrite
  <2>2. ResultPhase = "Completed" => data[wtask] # "none"
    BY <1>5 DEF ResultWrite, ResultPhase, TypeOK
  <2>3. \A r \in Restores :
            phase'[r] = phase[r] \/ (r = wtask /\ phase'[r] = ResultPhase)
    BY <1>5 DEF ResultWrite, Write, TypeOK
  <2> QED
    BY <2>1, <2>2, <2>3
<1> QED
  BY <1>1, <1>2, <1>3, <1>4, <1>5 DEF WorkerStep

LEMMA DataNext == TypeOK /\ DataInv /\ [Next]_vars => DataInv'
<1> SUFFICES ASSUME TypeOK, DataInv, [Next]_vars PROVE DataInv'
  OBVIOUS
<1> USE DEF api, process, handler, pool, outside
<1>1. ASSUME NEW r \in Restores, UserStep(r) PROVE DataInv'
  <2>1. CASE Create(r) \/ ClearHistoryRestores(r)
    BY <2>1, DataFrame DEF Create, ClearHistoryRestores, TypeOK
  <2>2. ASSUME NEW u \in Requests, RequestStep(u, r) PROVE DataInv'
    BY <2>2, RequestEffect, DataFrame DEF Write, TypeOK
  <2> QED
    BY <1>1, <2>1, <2>2 DEF UserStep
<1>2. CASE HandlerStep
  <2>1. UNCHANGED <<run, data>>
    BY <1>2 DEF HandlerStep, HandleCreate, HandleUpdate, FailRead, FailWrite, FailGivesUp,
       DeleteRestore, DeleteError
  <2>2. CASE FailWrite \/ DeleteRestore
    BY <2>1, <2>2, DataFrame DEF FailWrite, DeleteRestore, Write, TypeOK
  <2>3. CASE ~(FailWrite \/ DeleteRestore)
    <3>1. phase' = phase
      BY <1>2, <2>3 DEF HandlerStep, HandleCreate, HandleUpdate, FailRead, FailGivesUp, DeleteError
    <3> QED
      BY <2>1, <3>1, DataFrame
  <2> QED
    BY <2>2, <2>3
<1>3. CASE WorkerStep
  BY <1>3, DataWorker
<1>4. CASE Progress
  BY <1>4, DataFrame DEF Progress, Write, TypeOK
<1>5. CASE Start \/ SecondPasses \/ UNCHANGED vars
  BY <1>5, DataFrame DEF Start, SecondPasses, vars
<1>6. CASE Crash
  BY <1>6 DEF Crash, DataInv, ResultHasData, CompletedHasData
<1> QED
  BY <1>1, <1>2, <1>3, <1>4, <1>5, <1>6, NextCases

(* A restore is recorded Completed only when restic has brought its data   *)
(* back, for any number of restores, restarts, failures and requests.      *)
THEOREM CompletedCorrect == Spec => []CompletedHasData
<1>1. Init => DataInv
  BY DEF Init, DataInv, ResultHasData, CompletedHasData
<1>2. DataInv => CompletedHasData
  BY DEF DataInv
<1> QED
  BY <1>1, <1>2, DataNext, TypeCorrect, PTL DEF Spec

-----------------------------------------------------------------------------
(* A restore starts at most once. *)

Created(r) == events[r] # <<>> /\ Head(events[r])[1] = "create"

(* What a step may do to the store and the events without creating. *)
NoneCreated ==
    \A r \in Restores :
        /\ Created(r)' => Created(r)
        /\ phase'[r] = "None" => phase[r] = "None" /\ events'[r] = events[r]

LEMMA AppendFacts ==
    ASSUME NEW S, NEW s \in Seq(S), NEW e \in S
    PROVE  /\ Append(s, e) # <<>>
           /\ Len(Append(s, e)) = Len(s) + 1
           /\ \A i \in 1..(Len(s) + 1) : Append(s, e)[i] = IF i <= Len(s) THEN s[i] ELSE e
           /\ Head(Append(s, e)) = IF s = <<>> THEN e ELSE Head(s)
<1>1. Append(s, e) # <<>> /\ Len(Append(s, e)) = Len(s) + 1
  <2>1. Append(s, e) \in Seq(S) /\ Len(s) \in Nat
    OBVIOUS
  <2>2. Len(Append(s, e)) = Len(s) + 1
    OBVIOUS
  <2>3. Len(<<>>) = 0
    OBVIOUS
  <2> QED
    BY <2>1, <2>2, <2>3
<1>2. \A i \in 1..(Len(s) + 1) : Append(s, e)[i] = IF i <= Len(s) THEN s[i] ELSE e
  OBVIOUS
<1>3. Head(Append(s, e)) = Append(s, e)[1]
  BY <1>1
<1>4. CASE s = <<>>
  BY <1>2, <1>3, <1>4
<1>5. CASE s # <<>>
  <2>1. Len(s) >= 1 /\ Head(s) = s[1]
    BY <1>5
  <2> QED
    BY <1>2, <1>3, <1>5, <2>1
<1> QED
  BY <1>1, <1>2, <1>4, <1>5

LEMMA WriteEvents ==
    ASSUME TypeOK, CreateIsFirst, NEW r \in Restores, NEW ph \in Phases, Exists(r), Write(r, ph)
    PROVE  CreateIsFirst' /\ NoneCreated
<1> DEFINE e == <<"update", ph>>
<1>1. e \in Events /\ e[1] = "update"
  BY DEF Events
<1>2. events[r] \in Seq(Events)
  BY DEF TypeOK
<1>3. /\ Append(events[r], e) # <<>>
      /\ Len(Append(events[r], e)) = Len(events[r]) + 1
      /\ \A i \in 1..(Len(events[r]) + 1) :
             Append(events[r], e)[i] = IF i <= Len(events[r]) THEN events[r][i] ELSE e
      /\ Head(Append(events[r], e)) = IF events[r] = <<>> THEN e ELSE Head(events[r])
  BY <1>1, <1>2, AppendFacts
<1>4. \A q \in Restores : events'[q] = events[q] \/ (q = r /\ events'[q] = Append(events[r], e))
  BY DEF Write, TypeOK
<1>5. \A q \in Restores : phase'[q] = IF q = r THEN ph ELSE phase[q]
  BY DEF Write, TypeOK
<1>6. ph # "None"
  BY DEF Phases, Final
<1>7. CreateIsFirst'
  <2> SUFFICES ASSUME NEW q \in Restores, NEW i \in 1..Len(events'[q]), events'[q][i][1] = "create"
               PROVE  i = 1
    BY DEF CreateIsFirst
  <2>1. CASE events'[q] = events[q]
    BY <2>1 DEF CreateIsFirst
  <2>2. CASE q = r /\ events'[q] = Append(events[r], e)
    <3>1. i \in 1..(Len(events[r]) + 1)
      BY <2>2, <1>3
    <3>2. i <= Len(events[r]) /\ events[r][i][1] = "create"
      BY <2>2, <3>1, <1>1, <1>3
    <3> QED
      BY <3>1, <3>2, <1>2 DEF CreateIsFirst
  <2> QED
    BY <2>1, <2>2, <1>4
<1>8. NoneCreated
  <2> SUFFICES ASSUME NEW q \in Restores
               PROVE  /\ Created(q)' => Created(q)
                      /\ phase'[q] = "None" => phase[q] = "None" /\ events'[q] = events[q]
    BY DEF NoneCreated
  <2>1. CASE events'[q] = events[q]
    BY <2>1, <1>5, <1>6 DEF Created
  <2>2. CASE q = r /\ events'[q] = Append(events[r], e)
    BY <2>2, <1>1, <1>3, <1>5, <1>6 DEF Created
  <2> QED
    BY <2>1, <2>2, <1>4
<1> QED
  BY <1>7, <1>8

(* Steps that create, add, dequeue and start nothing. *)
LEMMA OnceFrame ==
    ASSUME OnceInv, CreateIsFirst', NoneCreated, UNCHANGED <<starts, queue>>,
           new' \subseteq new, new \subseteq Restores, wtask' = wtask \/ wtask' \notin Restores,
           queue \in Seq(Restores),
           wpc' \in BeforeStart => wpc \in BeforeStart /\ wtask' = wtask
    PROVE  OnceInv'
<1> USE DEF OnceInv
<1>1. \A r \in Restores : Untouched(r) => Untouched(r)'
  BY DEF Untouched, Queued
<1>2. NotCreated'
  BY <1>1 DEF NotCreated, NoneCreated
<1>3. NotAdded'
  BY <1>1 DEF NotAdded, NoneCreated, Created
<1>4. NotDequeued'
  BY DEF NotDequeued
<1>5. NotStarted' /\ StartedOnce'
  BY DEF NotStarted, StartedOnce
<1> QED
  BY <1>2, <1>3, <1>4, <1>5

(* CreateFunc takes the create event, which was the only one: the restore  *)
(* goes to the queue or is failed.                                         *)
LEMMA OnceCreate ==
    ASSUME TypeOK, OnceInv, NEW r \in Restores, HandleCreate(r)
    PROVE  OnceInv'
<1> USE RestoreAssumption DEF OnceInv, run, outside, process
<1>1. events' = [events EXCEPT ![r] = Tail(@)] /\ events[r] \in Seq(Events) /\ events[r] # <<>>
  BY DEF HandleCreate, CreateFunc, Take, TypeOK
<1>2. \A q \in Restores : events'[q] = IF q = r THEN Tail(events[r]) ELSE events[q]
  BY <1>1 DEF TypeOK
<1>3. \A i \in 1..Len(Tail(events[r])) :
          i + 1 \in 1..Len(events[r]) /\ Tail(events[r])[i] = events[r][i + 1]
  BY <1>1
<1>4. \A i \in 1..Len(Tail(events[r])) : Tail(events[r])[i][1] # "create"
  BY <1>3 DEF CreateIsFirst
<1>5. CreateIsFirst'
  BY <1>2, <1>4 DEF CreateIsFirst
<1>6. ~Created(r)'
  <2>1. CASE Tail(events[r]) = <<>>
    BY <1>2, <2>1 DEF Created
  <2>2. CASE Tail(events[r]) # <<>>
    <3>1. Tail(events[r]) \in Seq(Events)
      BY <1>1
    <3>2. 1 \in 1..Len(Tail(events[r])) /\ Head(Tail(events[r])) = Tail(events[r])[1]
      BY <2>2, <3>1
    <3> QED
      BY <1>2, <1>4, <3>2 DEF Created
  <2> QED
    BY <2>1, <2>2
<1>7. phase' = phase /\ new' = new /\ starts' = starts /\ wtask' = wtask /\ wpc' = wpc
  BY DEF HandleCreate
<1>8. phase[r] # "None"
  BY <1>1 DEF NotCreated
<1>9. NoneCreated
  BY <1>2, <1>6, <1>7, <1>8 DEF NoneCreated, Created
<1>10. CASE queue' = queue
  BY <1>5, <1>7, <1>9, <1>10, OnceFrame DEF TypeOK
<1>11. CASE AddTask(r) /\ r \in new
  <2>1. Untouched(r)
    BY <1>11 DEF HandleCreate, NotAdded
  <2>2. queue \in Seq(Restores) /\ queue' = Append(queue, r)
    BY <1>11 DEF AddTask, TypeOK
  <2>3. /\ Len(queue') = Len(queue) + 1
        /\ \A i \in 1..(Len(queue) + 1) : queue'[i] = IF i <= Len(queue) THEN queue[i] ELSE r
    BY <2>2, AppendFacts
  <2>4. \A q \in Restores : q # r /\ Untouched(q) => Untouched(q)'
    BY <1>7, <2>2, <2>3 DEF Untouched, Queued
  <2>5. NotCreated'
    BY <1>2, <1>7, <1>8, <2>4 DEF NotCreated
  <2>6. NotAdded'
    BY <1>6, <1>7, <1>9, <2>4 DEF NotAdded, NoneCreated, Created, TypeOK
  <2>7. NotDequeued'
    BY <1>7, <2>1, <2>2, <2>3 DEF NotDequeued, Untouched, Queued
  <2>8. NotStarted' /\ StartedOnce'
    BY <1>7 DEF NotStarted, StartedOnce
  <2> QED
    BY <1>5, <2>5, <2>6, <2>7, <2>8
<1> QED
  BY <1>10, <1>11 DEF HandleCreate, CreateFunc

LEMMA OnceApi ==
    ASSUME TypeOK, OnceInv, NEW r \in Restores, UserStep(r)
    PROVE  OnceInv'
<1> USE RestoreAssumption DEF api, process, handler, pool, run, outside
<1>1. CASE Create(r)
  <2> USE DEF OnceInv
  <2>1. /\ events[r] = <<>> /\ r \notin new /\ Untouched(r)
        /\ phase' = [phase EXCEPT ![r] = "Pending"]
        /\ UNCHANGED <<starts, queue, wtask, wpc>>
    BY <1>1 DEF Create, NotCreated
  <2>2. \A q \in Restores : q # r => events'[q] = events[q]
    BY <1>1 DEF Create, TypeOK
  <2>3. events'[r] = <<>> \/ events'[r] = << <<"create", "Pending">> >>
    BY <1>1, <2>1 DEF Create, TypeOK
  <2>4. \A q \in Restores : Untouched(q) => Untouched(q)'
    BY <2>1 DEF Untouched, Queued
  <2>5. CreateIsFirst'
    BY <2>2, <2>3 DEF CreateIsFirst
  <2>6. NotCreated'
    BY <1>1, <2>1, <2>2, <2>4 DEF Create, NotCreated, TypeOK
  <2>7. NotAdded'
    BY <1>1, <2>1, <2>2, <2>4 DEF Create, NotAdded, TypeOK
  <2>8. NotDequeued' /\ NotStarted' /\ StartedOnce'
    BY <2>1 DEF NotDequeued, NotStarted, StartedOnce
  <2> QED
    BY <2>5, <2>6, <2>7, <2>8
<1>2. CASE ClearHistoryRestores(r)
  <2>1. CreateIsFirst' /\ NoneCreated
    BY <1>2 DEF ClearHistoryRestores, Exists, Absent, NoneCreated, Created, OnceInv, CreateIsFirst, TypeOK
  <2> QED
    BY <1>2, <2>1, OnceFrame DEF ClearHistoryRestores, TypeOK
<1>3. ASSUME NEW u \in Requests, RequestStep(u, r) PROVE OnceInv'
  <2>1. UNCHANGED <<starts, queue, new, wtask, wpc>>
    BY <1>3, RequestEffect
  <2>2. CreateIsFirst' /\ NoneCreated
    <3>1. CASE UNCHANGED <<phase, events>>
      BY <3>1 DEF NoneCreated, Created, OnceInv, CreateIsFirst
    <3>2. ASSUME NEW ph \in {"Canceled", "Deleted"}, Exists(r), Write(r, ph) PROVE CreateIsFirst' /\ NoneCreated
      BY <3>2, WriteEvents DEF OnceInv, Phases, Final
    <3> QED
      BY <1>3, <3>1, <3>2, RequestEffect
  <2> QED
    BY <2>1, <2>2, OnceFrame DEF TypeOK
<1> QED
  BY <1>1, <1>2, <1>3 DEF UserStep

LEMMA OnceHandler == TypeOK /\ OnceInv /\ HandlerStep => OnceInv'
<1> SUFFICES ASSUME TypeOK, OnceInv, HandlerStep PROVE OnceInv'
  OBVIOUS
<1> USE RestoreAssumption DEF api, process, handler, pool, run, outside
<1>1. ASSUME NEW r \in Restores, HandleCreate(r) PROVE OnceInv'
  BY <1>1, OnceCreate
<1>2. ASSUME NEW r \in Restores, HandleUpdate(r) PROVE OnceInv'
  <2>1. /\ events' = [events EXCEPT ![r] = Tail(@)] /\ events[r] \in Seq(Events) /\ events[r] # <<>>
        /\ UNCHANGED <<phase, starts, queue, new, wtask, wpc>>
    BY <1>2 DEF HandleUpdate, Take, TypeOK
  <2>2. \A q \in Restores : events'[q] = IF q = r THEN Tail(events[r]) ELSE events[q]
    BY <2>1 DEF TypeOK
  <2>3. \A i \in 1..Len(Tail(events[r])) : Tail(events[r])[i][1] # "create"
    <3>1. \A i \in 1..Len(Tail(events[r])) :
              i + 1 \in 1..Len(events[r]) /\ Tail(events[r])[i] = events[r][i + 1]
      BY <2>1
    <3> QED
      BY <3>1 DEF OnceInv, CreateIsFirst
  <2>4. CreateIsFirst'
    BY <2>2, <2>3 DEF OnceInv, CreateIsFirst
  <2>5. ~Created(r)'
    <3>1. CASE Tail(events[r]) = <<>>
      BY <2>2, <3>1 DEF Created
    <3>2. CASE Tail(events[r]) # <<>>
      <4>1. Tail(events[r]) \in Seq(Events)
        BY <2>1
      <4>2. 1 \in 1..Len(Tail(events[r])) /\ Head(Tail(events[r])) = Tail(events[r])[1]
        BY <3>2, <4>1
      <4> QED
        BY <2>2, <2>3, <4>2 DEF Created
    <3> QED
      BY <3>1, <3>2
  <2>6. phase[r] # "None"
    BY <2>1 DEF OnceInv, NotCreated
  <2>7. NoneCreated
    BY <2>1, <2>2, <2>5, <2>6 DEF NoneCreated, Created
  <2> QED
    BY <2>1, <2>4, <2>7, OnceFrame DEF TypeOK
<1>3. CASE FailWrite /\ Current("handler", hkey)
  <2>1. hkey \in Restores /\ "Failed" \in Phases /\ Exists(hkey) /\ Write(hkey, "Failed")
    BY <1>3 DEF FailWrite, Handling, Current, TypeOK, Phases, Final
  <2>2. CreateIsFirst' /\ NoneCreated
    BY <2>1, WriteEvents DEF OnceInv
  <2> QED
    BY <1>3, <2>2, OnceFrame DEF FailWrite, TypeOK
<1>4. CASE DeleteRestore
  <2>1. CreateIsFirst' /\ NoneCreated
    BY <1>4 DEF DeleteRestore, NoneCreated, Created, OnceInv, CreateIsFirst, TypeOK
  <2> QED
    BY <1>4, <2>1, OnceFrame DEF DeleteRestore, TypeOK
<1>5. CASE FailRead \/ FailGivesUp \/ DeleteError \/ (FailWrite /\ ~Current("handler", hkey))
  <2>1. UNCHANGED <<phase, events, starts, queue, new, wtask, wpc>>
    BY <1>5 DEF FailRead, FailGivesUp, DeleteError, FailWrite
  <2>2. CreateIsFirst' /\ NoneCreated
    BY <2>1 DEF NoneCreated, Created, OnceInv, CreateIsFirst
  <2> QED
    BY <2>1, <2>2, OnceFrame DEF TypeOK
<1> QED
  BY <1>1, <1>2, <1>3, <1>4, <1>5 DEF HandlerStep

LEMMA OnceWorker == TypeOK /\ OnceInv /\ (WorkerStep \/ Progress) => OnceInv'
<1> SUFFICES ASSUME TypeOK, OnceInv, WorkerStep \/ Progress PROVE OnceInv'
  OBVIOUS
<1> USE RestoreAssumption DEF api, process, handler, pool, run, outside, Working, WGoto, WFail
<1>0. UNCHANGED <<phase, events>> => CreateIsFirst' /\ NoneCreated
  BY DEF NoneCreated, Created, OnceInv, CreateIsFirst
<1>1. CASE Dequeue
  <2> USE DEF OnceInv
  <2>1. /\ queue \in Seq(Restores) /\ queue # <<>> /\ queue' = Tail(queue) /\ wtask' = Head(queue)
        /\ wpc' = "check" /\ UNCHANGED <<phase, events, starts, new>> /\ wtask = NoRestore
    BY <1>1 DEF Dequeue, TypeOK
  <2>2. /\ Head(queue) = queue[1] /\ 1 \in 1..Len(queue)
        /\ \A i \in 1..Len(queue') : i + 1 \in 1..Len(queue) /\ i # 0 /\ queue'[i] = queue[i + 1]
    BY <2>1
  <2>3. \A q \in Restores : Untouched(q) => Untouched(q)'
    BY <2>1, <2>2 DEF Untouched, Queued
  <2>4. NotCreated' /\ NotAdded'
    BY <2>1, <2>3 DEF NotCreated, NotAdded, TypeOK
  <2>5. NotDequeued'
    <3>1. ASSUME NEW i \in 1..Len(queue'), NEW j \in 1..Len(queue'), queue'[i] = queue'[j] PROVE i = j
      <4>1. i + 1 = j + 1
        BY <3>1, <2>2 DEF NotDequeued
      <4> QED
        BY <4>1
    <3>2. ASSUME NEW i \in 1..Len(queue') PROVE starts'[queue'[i]] = 0 /\ wtask' # queue'[i]
      <4>1. i + 1 # 1 /\ i + 1 \in 1..Len(queue)
        BY <2>2
      <4> QED
        BY <4>1, <2>1, <2>2 DEF NotDequeued
    <3> QED
      BY <3>1, <3>2 DEF NotDequeued
  <2>6. NotStarted' /\ StartedOnce'
    BY <2>1, <2>2 DEF NotStarted, StartedOnce, NotDequeued
  <2> QED
    BY <1>0, <2>1, <2>4, <2>5, <2>6
<1>2. CASE StartWrite /\ Current("worker", wtask) /\ ~Done(wtask)
  <2> USE DEF OnceInv
  <2>1. /\ wtask \in Restores /\ "Running" \in Phases /\ Exists(wtask) /\ Write(wtask, "Running")
        /\ starts' = [starts EXCEPT ![wtask] = @ + 1]
        /\ wpc = "startwrite" /\ wpc' = "execute" /\ UNCHANGED <<queue, new, wtask>>
    BY <1>2 DEF StartWrite, Current, TypeOK, Phases, Final
  <2>2. CreateIsFirst' /\ NoneCreated
    BY <2>1, WriteEvents
  <2>3. starts[wtask] = 0 /\ starts'[wtask] = 1 /\ \A q \in Restores : q # wtask => starts'[q] = starts[q]
    BY <2>1 DEF NotStarted, BeforeStart, TypeOK
  <2>4. \A q \in Restores : Untouched(q) => Untouched(q)'
    BY <2>1, <2>3 DEF Untouched, Queued
  <2>5. NotCreated' /\ NotAdded'
    BY <2>1, <2>2, <2>4 DEF NotCreated, NotAdded, NoneCreated, Created, TypeOK
  <2>6. NotDequeued'
    <3>1. \A i \in 1..Len(queue) : queue[i] \in Restores /\ queue[i] # wtask
      BY DEF NotDequeued, TypeOK
    <3> QED
      BY <2>1, <2>3, <3>1 DEF NotDequeued
  <2>7. NotStarted' /\ StartedOnce'
    BY <2>1, <2>3 DEF NotStarted, BeforeStart, StartedOnce
  <2> QED
    BY <2>2, <2>5, <2>6, <2>7
<1>3. CASE Progress \/ (ResultWrite /\ Current("worker", wtask) /\ ~Done(wtask))
  <2>1. /\ wtask \in Restores /\ Exists(wtask)
        /\ wpc' \notin BeforeStart /\ UNCHANGED <<queue, new, wtask, starts>>
    BY <1>3 DEF Progress, ResultWrite, Current, Exists, Absent, BeforeStart, TypeOK
  <2>2. \E ph \in Phases : Write(wtask, ph)
    <3>1. "Running" \in Phases /\ ResultPhase \in Phases
      BY DEF ResultPhase, Phases, Final
    <3>2. Write(wtask, "Running") \/ Write(wtask, ResultPhase)
      BY <1>3 DEF Progress, ResultWrite, Current
    <3> QED
      BY <3>1, <3>2
  <2>3. CreateIsFirst' /\ NoneCreated
    BY <2>1, <2>2, WriteEvents DEF OnceInv
  <2> QED
    BY <2>1, <2>3, OnceFrame DEF TypeOK
<1>4. CASE CheckCanceled \/ Activate \/ CheckRestoreExists \/ Prepare \/ StartRead \/ StartError
           \/ (StartWrite /\ ~(Current("worker", wtask) /\ ~Done(wtask)))
  <2>1. UNCHANGED <<phase, events, starts, queue, new, wtask>> /\ wpc \in BeforeStart
    BY <1>4 DEF CheckCanceled, Activate, CheckRestoreExists, Prepare, StartRead, StartError, StartWrite,
       BeforeStart
  <2> QED
    BY <1>0, <2>1, OnceFrame DEF TypeOK
<1>5. CASE Execute \/ TokenPanic \/ Rename \/ StartAppRestore \/ AwaitAppRestore \/ ResultRead
           \/ ResultReadError \/ (ResultWrite /\ ~(Current("worker", wtask) /\ ~Done(wtask)))
           \/ ResultError \/ Exit
  <2>1. UNCHANGED <<phase, events, starts, queue, new>> /\ wpc' \notin BeforeStart
        /\ wtask' \in {wtask, NoRestore}
    BY <1>5 DEF Execute, TokenPanic, Rename, StartAppRestore, AwaitAppRestore, ResultRead,
       ResultReadError, ResultWrite, ResultError, Exit, BeforeStart
  <2> QED
    BY <1>0, <2>1, OnceFrame DEF TypeOK
<1> QED
  BY <1>1, <1>2, <1>3, <1>4, <1>5 DEF WorkerStep

LEMMA OnceNext == TypeOK /\ OnceInv /\ [Next]_vars => OnceInv'
<1> SUFFICES ASSUME TypeOK, OnceInv, [Next]_vars PROVE OnceInv'
  OBVIOUS
<1> USE RestoreAssumption DEF OnceInv, api, process, handler, pool, run, outside
<1>1. CASE Start
  <2>1. /\ UNCHANGED <<phase, starts, queue, wtask, wpc>> /\ new' = {}
        /\ \A q \in Restores :
              events'[q] = IF Exists(q) THEN << <<"create", phase[q]>> >> ELSE <<>>
    BY <1>1 DEF Start
  <2>2. CreateIsFirst'
    <3>1. ASSUME NEW q \in Restores, NEW i \in 1..Len(events'[q]) PROVE i = 1
      <4>1. CASE Exists(q)
        <5>1. events'[q] = << <<"create", phase[q]>> >>
          BY <2>1, <4>1
        <5> QED
          BY <5>1
      <4>2. CASE ~Exists(q)
        <5>1. events'[q] = <<>>
          BY <2>1, <4>2
        <5> QED
          BY <5>1
      <4> QED
        BY <4>1, <4>2
    <3> QED
      BY <3>1 DEF CreateIsFirst
  <2>3. NotCreated'
    BY <2>1 DEF NotCreated, Untouched, Queued, Exists, Absent
  <2> QED
    BY <2>1, <2>2, <2>3 DEF NotAdded, NotDequeued, NotStarted, StartedOnce
<1>2. CASE Crash
  <2>1. /\ UNCHANGED <<phase, starts>> /\ new' = {} /\ queue' = <<>> /\ wtask' = NoRestore
        /\ wpc' = "idle" /\ \A q \in Restores : events'[q] = <<>>
    BY <1>2 DEF Crash, NoEvents
  <2>2. CreateIsFirst' /\ NotAdded' /\ NotDequeued' /\ NotStarted' /\ StartedOnce'
    BY <2>1 DEF CreateIsFirst, NotAdded, NotDequeued, NotStarted, BeforeStart, StartedOnce
  <2>3. NotCreated'
    BY <2>1 DEF NotCreated, Untouched, Queued
  <2> QED
    BY <2>2, <2>3
<1>3. CASE SecondPasses \/ UNCHANGED vars
  <2>1. UNCHANGED <<phase, events, starts, queue, new, wtask, wpc>>
    BY <1>3 DEF SecondPasses, vars
  <2>2. CreateIsFirst' /\ NoneCreated
    BY <2>1 DEF NoneCreated, Created, CreateIsFirst
  <2> QED
    BY <2>1, <2>2, OnceFrame DEF TypeOK
<1> QED
  BY <1>1, <1>2, <1>3, NextCases, OnceApi, OnceHandler, OnceWorker

LEMMA OnceAlways == Spec => []OnceInv
<1>1. ASSUME Init PROVE OnceInv
  <2>1. /\ queue = <<>> /\ new = {} /\ wtask = NoRestore /\ wpc = "idle"
        /\ \A q \in Restores : events[q] = <<>> /\ starts[q] = 0
    BY <1>1 DEF Init, NoEvents
  <2>2. CreateIsFirst /\ NotAdded /\ NotDequeued /\ NotStarted /\ StartedOnce
    BY <2>1 DEF CreateIsFirst, NotAdded, NotDequeued, NotStarted, BeforeStart, StartedOnce
  <2>3. NotCreated
    BY <2>1, RestoreAssumption DEF NotCreated, Untouched, Queued
  <2> QED
    BY <2>2, <2>3 DEF OnceInv
<1> QED
  BY <1>1, OnceNext, TypeCorrect, PTL DEF Spec

(* A restore begins to write into the user's files at most once, across    *)
(* any number of restarts: CreateFunc hands it to the worker once, and     *)
(* what a restart finds is failed, never added again.                      *)
THEOREM StartedOnceCorrect == Spec => []StartedOnce
<1>1. OnceInv => StartedOnce
  BY DEF OnceInv
<1> QED
  BY <1>1, OnceAlways, PTL

-----------------------------------------------------------------------------
(* A restore that has ended is not started.  Waits: the restore is still   *)
(* on its way to the start.                                                *)
Held(r)  == Queued(r) \/ wtask = r
Waits(r) == (r \in new /\ Created(r)) \/ Queued(r) \/ (wtask = r /\ wpc \in BeforeStart)

Ended == {"Completed", "Failed"}

(* A controller that is down holds nothing. *)
DownHoldsNothing == ~up => hkey = NoRestore /\ wtask = NoRestore /\ queue = <<>>

(* The worker gets only what was created under this controller. *)
HeldIsNew == \A r \in Restores : Held(r) => r \in new

(* A restore that SetRestorePhase fails is not with the worker, and no     *)
(* create event will take it there.                                        *)
FailsUnheld ==
    /\ \A r \in Restores : phase[r] = "None" => hkey # r
    /\ hpc \in {"failread", "failwrite"} => ~Held(hkey) /\ ~Created(hkey)

WaitsUnfinished == \A r \in Restores : Waits(r) => phase[r] \notin Ended

FinishInv == DownHoldsNothing /\ HeldIsNew /\ FailsUnheld /\ WaitsUnfinished

(* Taking an event leaves no create event behind it. *)
LEMMA TakeCreatesNothing ==
    ASSUME TypeOK, OnceInv, NEW r \in Restores, events[r] # <<>>, phase' = phase,
           events' = [events EXCEPT ![r] = Tail(@)]
    PROVE  NoneCreated /\ ~Created(r)' /\ phase[r] # "None"
<1>1. events[r] \in Seq(Events) /\ phase[r] # "None"
  BY DEF TypeOK, OnceInv, NotCreated
<1>2. \A q \in Restores : events'[q] = IF q = r THEN Tail(events[r]) ELSE events[q]
  BY DEF TypeOK
<1>3. ~Created(r)'
  <2>1. CASE Tail(events[r]) = <<>>
    BY <1>2, <2>1 DEF Created
  <2>2. CASE Tail(events[r]) # <<>>
    <3>1. Tail(events[r]) \in Seq(Events)
      BY <1>1
    <3>2. 1 \in 1..Len(Tail(events[r])) /\ Head(Tail(events[r])) = Tail(events[r])[1]
      BY <2>2, <3>1
    <3>3. \A i \in 1..Len(Tail(events[r])) :
              i + 1 \in 1..Len(events[r]) /\ Tail(events[r])[i] = events[r][i + 1]
      BY <1>1
    <3>4. events[r][1 + 1][1] # "create" /\ Tail(events[r])[1] = events[r][1 + 1]
      BY <3>2, <3>3 DEF OnceInv, CreateIsFirst
    <3> QED
      BY <1>2, <3>2, <3>4 DEF Created
  <2> QED
    BY <2>1, <2>2
<1> QED
  BY <1>1, <1>2, <1>3 DEF NoneCreated, Created

(* Steps that hand nothing to the worker and end only what does not wait.  *)
LEMMA FinishFrame ==
    ASSUME FinishInv, NoneCreated, UNCHANGED <<new, up>>,
           \A r \in Restores : Queued(r)' => Queued(r),
           up \/ queue' = queue, wtask' \in {wtask, NoRestore}, NoRestore \notin Restores,
           wpc' \in BeforeStart => wpc \in BeforeStart,
           \/ hkey' = hkey /\ (hpc' \in {"failread", "failwrite"} => hpc \in {"failread", "failwrite"})
           \/ hkey' = NoRestore /\ hpc' = "idle",
           hpc \in {"failread", "failwrite"} => hkey \in Restores,
           \A r \in Restores : phase'[r] \in Ended => phase[r] \in Ended \/ ~Waits(r)
    PROVE  FinishInv'
<1>1. \A r \in Restores : (Held(r)' => Held(r)) /\ (Waits(r)' => Waits(r))
  BY DEF Held, Waits, NoneCreated
<1>2. DownHoldsNothing' /\ HeldIsNew'
  BY <1>1 DEF FinishInv, DownHoldsNothing, HeldIsNew
<1>3. FailsUnheld'
  BY <1>1 DEF FinishInv, FailsUnheld, NoneCreated
<1>4. WaitsUnfinished'
  BY <1>1 DEF FinishInv, WaitsUnfinished
<1> QED
  BY <1>2, <1>3, <1>4 DEF FinishInv

(* A write by anybody, of a phase that is not Ended or to a restore that   *)
(* does not wait.                                                          *)
LEMMA FinishWrite ==
    ASSUME TypeOK, OnceInv, FinishInv, NEW r \in Restores, NEW ph \in Phases, Exists(r), Write(r, ph),
           ph \notin Ended \/ ~Waits(r),
           UNCHANGED <<new, up, queue, wtask>>,
           wpc' \in BeforeStart => wpc \in BeforeStart,
           UNCHANGED handler \/ (hkey' = NoRestore /\ hpc' = "idle")
    PROVE  FinishInv'
<1>1. NoneCreated
  BY WriteEvents DEF OnceInv
<1>2. \A q \in Restores : phase'[q] \in Ended => phase[q] \in Ended \/ ~Waits(q)
  BY DEF Write, TypeOK
<1>3. \A q \in Restores : Queued(q)' <=> Queued(q)
  BY DEF Queued
<1>4. hpc \in {"failread", "failwrite"} => hkey \in Restores
  BY DEF TypeOK
<1> QED
  BY <1>1, <1>2, <1>3, <1>4, FinishFrame, RestoreAssumption DEF handler

LEMMA FinishApi ==
    ASSUME TypeOK, OnceInv, FinishInv, NEW r \in Restores, UserStep(r)
    PROVE  FinishInv'
<1> USE RestoreAssumption DEF api, process, handler, pool, run, outside
<1>0. hpc \in {"failread", "failwrite"} => hkey \in Restores
  BY DEF TypeOK
<1>1. CASE Create(r)
  <2>1. /\ events[r] = <<>> /\ r \notin new /\ Untouched(r) /\ hkey # r
        /\ new \subseteq new' /\ new' \subseteq new \cup {r}
        /\ UNCHANGED <<queue, wtask, wpc, hkey, hpc, up>>
    BY <1>1 DEF Create, OnceInv, NotCreated, FinishInv, FailsUnheld
  <2>2. \A q \in Restores : /\ q # r => events'[q] = events[q]
                            /\ phase'[q] = IF q = r THEN "Pending" ELSE phase[q]
    BY <1>1 DEF Create, TypeOK
  <2>3. \A q \in Restores : Held(q)' <=> Held(q)
    BY <2>1 DEF Held, Queued
  <2>4. DownHoldsNothing' /\ HeldIsNew'
    BY <2>1, <2>3 DEF FinishInv, DownHoldsNothing, HeldIsNew
  <2>5. FailsUnheld'
    BY <1>0, <2>1, <2>2, <2>3 DEF FinishInv, FailsUnheld, Created
  <2>6. WaitsUnfinished'
    <3> SUFFICES ASSUME NEW q \in Restores, Waits(q)' PROVE phase'[q] \notin Ended
      BY DEF WaitsUnfinished, Ended
    <3>1. CASE q = r
      BY <2>2, <3>1 DEF Ended
    <3>2. CASE q # r
      <4>1. Waits(q)
        BY <2>1, <2>2, <3>2 DEF Waits, Created, Queued
      <4> QED
        BY <2>2, <3>2, <4>1 DEF FinishInv, WaitsUnfinished
    <3> QED
      BY <3>1, <3>2
  <2> QED
    BY <2>4, <2>5, <2>6 DEF FinishInv
<1>2. CASE ClearHistoryRestores(r)
  <2>1. NoneCreated /\ \A q \in Restores : phase'[q] \in Ended => phase[q] \in Ended
    BY <1>2 DEF ClearHistoryRestores, NoneCreated, Created, Ended, TypeOK
  <2>2. UNCHANGED <<new, up, queue, wtask, wpc, hkey, hpc>>
    BY <1>2 DEF ClearHistoryRestores
  <2> QED
    BY <1>0, <2>1, <2>2, FinishFrame DEF Queued
<1>3. ASSUME NEW u \in Requests, RequestStep(u, r) PROVE FinishInv'
  <2>1. UNCHANGED <<new, up, queue, wtask, wpc, hkey, hpc, handler>>
    BY <1>3, RequestEffect
  <2>2. CASE UNCHANGED <<phase, events>>
    <3>1. NoneCreated
      BY <2>2 DEF NoneCreated, Created
    <3> QED
      BY <1>0, <2>1, <2>2, <3>1, FinishFrame DEF Queued
  <2>3. ASSUME NEW ph \in {"Canceled", "Deleted"}, Exists(r), Write(r, ph) PROVE FinishInv'
    BY <2>1, <2>3, FinishWrite DEF Phases, Final, Ended
  <2> QED
    BY <1>3, <2>2, <2>3, RequestEffect
<1> QED
  BY <1>1, <1>2, <1>3 DEF UserStep

LEMMA FinishHandler == TypeOK /\ OnceInv /\ FinishInv /\ HandlerStep => FinishInv'
<1> SUFFICES ASSUME TypeOK, OnceInv, FinishInv, HandlerStep PROVE FinishInv'
  OBVIOUS
<1> USE RestoreAssumption DEF api, process, handler, pool, run, outside, Handling, HReturn
<1>0. (hpc # "idle" => hkey \in Restores) /\ (hpc = "idle" => hkey = NoRestore)
  BY DEF TypeOK
<1>1. ASSUME NEW r \in Restores, HandleCreate(r) PROVE FinishInv'
  <2>1. /\ Created(r) /\ up /\ hpc = "idle" /\ events' = [events EXCEPT ![r] = Tail(@)]
        /\ UNCHANGED <<phase, new, up, wtask, wpc>>
    BY <1>1 DEF HandleCreate, CreateFunc, Take, Created
  <2>2. NoneCreated /\ ~Created(r)' /\ phase[r] # "None"
    BY <2>1, TakeCreatesNothing DEF Created
  <2>3. CASE AddTask(r) /\ r \in new /\ UNCHANGED handler
    <3>1. /\ Len(queue') = Len(queue) + 1 /\ Len(queue) \in Nat
          /\ \A i \in 1..(Len(queue) + 1) : queue'[i] = IF i <= Len(queue) THEN queue[i] ELSE r
      BY <2>3, AppendFacts DEF AddTask, TypeOK
    <3>2. \A q \in Restores : Queued(q)' => Queued(q) \/ q = r
      BY <3>1 DEF Queued
    <3>3. DownHoldsNothing' /\ HeldIsNew'
      BY <2>1, <2>3, <3>2 DEF FinishInv, DownHoldsNothing, HeldIsNew, Held
    <3>4. FailsUnheld'
      BY <1>0, <2>1, <2>3 DEF FinishInv, FailsUnheld
    <3>5. WaitsUnfinished'
      BY <2>1, <2>2, <2>3, <3>2 DEF FinishInv, WaitsUnfinished, Waits, NoneCreated
    <3> QED
      BY <3>3, <3>4, <3>5 DEF FinishInv
  <2>4. CASE UNCHANGED queue /\ hpc' = "failread" /\ hkey' = r
    <3>1. ~Held(r)
      <4>1. r \in new => Untouched(r)
        BY <2>1 DEF OnceInv, NotAdded, Created
      <4> QED
        BY <4>1 DEF FinishInv, HeldIsNew, Held, Untouched
    <3>2. \A q \in Restores : (Held(q)' <=> Held(q)) /\ (Waits(q)' => Waits(q))
      BY <2>1, <2>2, <2>4 DEF Held, Waits, Queued, NoneCreated
    <3>3. DownHoldsNothing' /\ HeldIsNew' /\ WaitsUnfinished'
      BY <2>1, <3>2 DEF FinishInv, DownHoldsNothing, HeldIsNew, WaitsUnfinished
    <3>4. FailsUnheld'
      BY <2>1, <2>2, <2>4, <3>1, <3>2 DEF FailsUnheld
    <3> QED
      BY <3>3, <3>4 DEF FinishInv
  <2>5. CASE UNCHANGED <<queue, handler>>
    BY <1>0, <2>1, <2>2, <2>5, FinishFrame DEF Queued
  <2> QED
    BY <1>1, <2>3, <2>4, <2>5 DEF HandleCreate, CreateFunc, Take
<1>2. ASSUME NEW r \in Restores, HandleUpdate(r) PROVE FinishInv'
  <2>1. /\ up /\ hpc = "idle" /\ events[r] # <<>> /\ events' = [events EXCEPT ![r] = Tail(@)]
        /\ UNCHANGED <<phase, new, up, queue, wtask, wpc>>
        /\ UNCHANGED handler \/ (hpc' = "delete" /\ hkey' = r)
    BY <1>2 DEF HandleUpdate, Take
  <2>2. NoneCreated /\ phase[r] # "None"
    BY <2>1, TakeCreatesNothing
  <2>3. \A q \in Restores : (Held(q)' <=> Held(q)) /\ (Waits(q)' => Waits(q))
    BY <2>1, <2>2 DEF Held, Waits, Queued, NoneCreated
  <2>4. DownHoldsNothing' /\ HeldIsNew' /\ WaitsUnfinished'
    BY <2>1, <2>3 DEF FinishInv, DownHoldsNothing, HeldIsNew, WaitsUnfinished
  <2>5. FailsUnheld'
    BY <2>1, <2>2 DEF FinishInv, FailsUnheld
  <2> QED
    BY <2>4, <2>5 DEF FinishInv
<1>3. CASE FailWrite /\ Current("handler", hkey)
  <2>1. /\ hkey \in Restores /\ "Failed" \in Phases /\ Exists(hkey) /\ Write(hkey, "Failed")
        /\ UNCHANGED <<new, up, queue, wtask, wpc>> /\ hkey' = NoRestore /\ hpc' = "idle"
    BY <1>0, <1>3 DEF FailWrite, Current, Phases, Final
  <2>2. ~Waits(hkey)
    BY <1>3 DEF FailWrite, FinishInv, FailsUnheld, Waits, Held
  <2> QED
    BY <2>1, <2>2, FinishWrite
<1>4. CASE DeleteRestore
  <2>1. NoneCreated /\ \A q \in Restores : phase'[q] \in Ended => phase[q] \in Ended
    BY <1>0, <1>4 DEF DeleteRestore, NoneCreated, Created, Ended, TypeOK
  <2>2. UNCHANGED <<new, up, queue, wtask, wpc>> /\ hkey' = NoRestore /\ hpc' = "idle"
    BY <1>4 DEF DeleteRestore
  <2> QED
    BY <1>0, <2>1, <2>2, FinishFrame DEF Queued
<1>5. CASE FailRead \/ FailGivesUp \/ DeleteError \/ (FailWrite /\ ~Current("handler", hkey))
  <2>1. UNCHANGED <<phase, events, new, up, queue, wtask, wpc>>
    BY <1>5 DEF FailRead, FailGivesUp, DeleteError, FailWrite
  <2>2. \/ hkey' = hkey /\ hpc \in {"failread", "failwrite"}
        \/ hkey' = NoRestore /\ hpc' = "idle"
    BY <1>5 DEF FailRead, FailGivesUp, DeleteError, FailWrite, TryAgain
  <2>3. NoneCreated
    BY <2>1 DEF NoneCreated, Created
  <2> QED
    BY <1>0, <2>1, <2>2, <2>3, FinishFrame DEF Queued
<1> QED
  BY <1>1, <1>2, <1>3, <1>4, <1>5 DEF HandlerStep

LEMMA FinishWorker == TypeOK /\ OnceInv /\ FinishInv /\ (WorkerStep \/ Progress) => FinishInv'
<1> SUFFICES ASSUME TypeOK, OnceInv, FinishInv, WorkerStep \/ Progress PROVE FinishInv'
  OBVIOUS
<1> USE RestoreAssumption DEF api, process, pool, run, outside, Working, WGoto, WFail
<1>0. /\ hpc \in {"failread", "failwrite"} => hkey \in Restores
      /\ wpc # "idle" => wtask \in Restores
  BY DEF TypeOK
<1>1. CASE Dequeue
  <2>1. /\ wtask = NoRestore /\ up /\ queue # <<>> /\ wtask' = Head(queue) /\ queue' = Tail(queue)
        /\ UNCHANGED <<phase, events, hpc, hkey, new, up>>
    BY <1>1 DEF Dequeue, handler, TypeOK
  <2>2. /\ queue \in Seq(Restores) /\ wtask' = queue[1] /\ 1 \in 1..Len(queue)
        /\ \A i \in 1..Len(queue') : i + 1 \in 1..Len(queue) /\ queue'[i] = queue[i + 1]
    BY <2>1 DEF TypeOK
  <2>3. \A q \in Restores : (Queued(q)' => Queued(q)) /\ (wtask' = q => Queued(q))
    BY <2>2 DEF Queued
  <2>4. DownHoldsNothing' /\ HeldIsNew'
    BY <2>1, <2>3 DEF FinishInv, DownHoldsNothing, HeldIsNew, Held
  <2>5. FailsUnheld'
    BY <1>0, <2>1, <2>3 DEF FinishInv, FailsUnheld, Held, Created
  <2>6. WaitsUnfinished'
    BY <2>1, <2>3 DEF FinishInv, WaitsUnfinished, Waits, Created
  <2> QED
    BY <2>4, <2>5, <2>6 DEF FinishInv
<1>2. CASE StartWrite /\ Current("worker", wtask) /\ ~Done(wtask)
  <2>1. /\ wtask \in Restores /\ "Running" \in Phases \ Ended /\ Exists(wtask) /\ Write(wtask, "Running")
        /\ UNCHANGED <<new, up, queue, wtask, handler>> /\ wpc' = "execute"
    BY <1>0, <1>2 DEF StartWrite, Current, Phases, Ended
  <2> QED
    BY <2>1, FinishWrite DEF BeforeStart
<1>3. CASE Progress
  <2>1. /\ wtask \in Restores /\ "Running" \in Phases \ Ended /\ Exists(wtask) /\ Write(wtask, "Running")
        /\ UNCHANGED <<new, up, queue, wtask, handler, wpc>>
    BY <1>0, <1>3 DEF Progress, Exists, Absent, Phases, Ended
  <2> QED
    BY <2>1, FinishWrite
<1>4. CASE ResultWrite /\ Current("worker", wtask) /\ ~Done(wtask)
  <2>1. /\ wtask \in Restores /\ ResultPhase \in Phases /\ Exists(wtask) /\ Write(wtask, ResultPhase)
        /\ UNCHANGED <<new, up, queue, wtask, handler>> /\ wpc = "resultwrite" /\ wpc' = "exit"
    BY <1>0, <1>4 DEF ResultWrite, Current, ResultPhase, Phases, Final
  <2>2. ~Waits(wtask)
    <3>1. ~Queued(wtask)
      BY DEF OnceInv, NotDequeued, Queued
    <3>2. ~(wtask \in new /\ Created(wtask))
      BY DEF OnceInv, NotAdded, Created, Untouched
    <3> QED
      BY <2>1, <3>1, <3>2 DEF Waits, BeforeStart
  <2> QED
    BY <2>1, <2>2, FinishWrite DEF BeforeStart
<1>5. CASE CheckCanceled \/ Activate \/ CheckRestoreExists \/ Prepare \/ StartRead \/ StartError
           \/ (StartWrite /\ ~(Current("worker", wtask) /\ ~Done(wtask)))
           \/ Execute \/ TokenPanic \/ Rename \/ StartAppRestore \/ AwaitAppRestore \/ ResultRead
           \/ ResultReadError \/ (ResultWrite /\ ~(Current("worker", wtask) /\ ~Done(wtask)))
           \/ ResultError \/ Exit
  <2>1. /\ UNCHANGED <<phase, events, queue, new, up, hpc, hkey>> /\ wtask' \in {wtask, NoRestore}
        /\ wpc' \in BeforeStart => wpc \in BeforeStart
    BY <1>5 DEF CheckCanceled, Activate, CheckRestoreExists, Prepare, StartRead, StartError, StartWrite,
       Execute, TokenPanic, Rename, StartAppRestore, AwaitAppRestore, ResultRead, ResultReadError,
       ResultWrite, ResultError, Exit, BeforeStart, handler
  <2>2. NoneCreated
    BY <2>1 DEF NoneCreated, Created
  <2> QED
    BY <1>0, <2>1, <2>2, FinishFrame DEF Queued
<1> QED
  BY <1>1, <1>2, <1>3, <1>4, <1>5 DEF WorkerStep

LEMMA FinishNext == TypeOK /\ OnceInv /\ FinishInv /\ [Next]_vars => FinishInv'
<1> SUFFICES ASSUME TypeOK, OnceInv, FinishInv, [Next]_vars PROVE FinishInv'
  OBVIOUS
<1> USE RestoreAssumption DEF api, process, handler, pool, run, outside
<1>1. CASE Start \/ Crash
  <2>1. /\ hkey' = NoRestore /\ hpc' = "idle" /\ wtask' = NoRestore /\ queue' = <<>> /\ new' = {}
    BY <1>1 DEF Start, Crash, HReturn, FinishInv, DownHoldsNothing, TypeOK
  <2>2. \A q \in Restores : ~Held(q)' /\ ~Waits(q)'
    BY <2>1 DEF Held, Waits, Queued
  <2> QED
    BY <2>1, <2>2 DEF FinishInv, DownHoldsNothing, HeldIsNew, FailsUnheld, WaitsUnfinished
<1>2. CASE SecondPasses \/ UNCHANGED vars
  <2>1. UNCHANGED <<phase, events, queue, new, up, hpc, hkey, wtask, wpc>>
    BY <1>2 DEF SecondPasses, vars
  <2>2. NoneCreated
    BY <2>1 DEF NoneCreated, Created
  <2>3. hpc \in {"failread", "failwrite"} => hkey \in Restores
    BY DEF TypeOK
  <2> QED
    BY <2>1, <2>2, <2>3, FinishFrame DEF Queued
<1> QED
  BY <1>1, <1>2, NextCases, FinishApi, FinishHandler, FinishWorker

LEMMA FinishAlways == Spec => []FinishInv
<1>1. ASSUME Init PROVE FinishInv
  <2>1. /\ queue = <<>> /\ new = {} /\ wtask = NoRestore /\ wpc = "idle" /\ hkey = NoRestore /\ hpc = "idle"
    BY <1>1 DEF Init
  <2> QED
    BY <2>1, RestoreAssumption DEF FinishInv, DownHoldsNothing, HeldIsNew, FailsUnheld, WaitsUnfinished,
       Held, Waits, Queued
<1> QED
  BY <1>1, FinishNext, OnceAlways, TypeCorrect, PTL DEF Spec

(* A Completed or Failed restore is never put back to Pending or Running,  *)
(* for any number of restores, restarts, failures and requests: what ends  *)
(* is no longer on its way to the worker.                                  *)
THEOREM ReopenCorrect == Spec => FinishedNeverReopens
<1>1. TypeOK /\ FinishInv /\ [Next]_vars =>
          [\A r \in Restores :
               phase[r] \in {"Completed", "Failed"} => phase'[r] \notin {"Pending", "Running"}]_vars
  <2> SUFFICES ASSUME TypeOK, FinishInv, Next, NEW r \in Restores, phase[r] \in Ended
               PROVE  phase'[r] \notin {"Pending", "Running"}
    BY DEF Ended
  <2>1. ASSUME NEW q \in Restores, Create(q) PROVE phase'[r] = phase[r]
    BY <2>1 DEF Create, Ended, TypeOK
  <2>2. ASSUME NEW q \in Restores, UserStep(q), ~Create(q)
        PROVE  phase'[r] \in {phase[r], "Gone", "Canceled", "Deleted"}
    <3>1. CASE ClearHistoryRestores(q)
      BY <3>1 DEF ClearHistoryRestores, TypeOK
    <3>2. ASSUME NEW u \in Requests, RequestStep(u, q)
          PROVE  phase'[r] \in {phase[r], "Gone", "Canceled", "Deleted"}
      BY <3>2, RequestEffect DEF Write, TypeOK
    <3> QED
      BY <2>2, <3>1, <3>2 DEF UserStep
  <2>3. CASE HandlerStep
    <3>1. phase'[r] \in {phase[r], "Gone", "Failed"}
      BY <2>3 DEF HandlerStep, HandleCreate, HandleUpdate, FailRead, FailWrite, FailGivesUp,
         DeleteRestore, DeleteError, Write, TypeOK
    <3> QED
      BY <3>1 DEF Ended
  <2>4. CASE StartWrite
    <3>1. wpc = "startwrite" /\ (phase' = phase \/ Write(wtask, "Running"))
      BY <2>4 DEF StartWrite, Working
    <3>2. wtask # r
      BY <3>1 DEF FinishInv, WaitsUnfinished, Waits, BeforeStart
    <3> QED
      BY <3>1, <3>2 DEF Write, TypeOK, Ended
  <2>5. CASE Progress
    BY <2>5 DEF Progress, Write, TypeOK, Ended
  <2>6. CASE ResultWrite
    <3>1. phase'[r] \in {phase[r], ResultPhase}
      BY <2>6 DEF ResultWrite, Write, TypeOK
    <3> QED
      BY <3>1 DEF ResultPhase, Ended
  <2>7. CASE WorkerStep /\ ~StartWrite /\ ~ResultWrite
    BY <2>7 DEF WorkerStep, Dequeue, CheckCanceled, Activate, CheckRestoreExists, Prepare, StartRead,
       StartError, Execute, TokenPanic, Rename, StartAppRestore, AwaitAppRestore, ResultRead,
       ResultReadError, ResultError, Exit, Ended
  <2>8. CASE Start \/ SecondPasses \/ Crash
    BY <2>8 DEF Start, SecondPasses, Crash, Ended
  <2> QED
    BY <2>1, <2>2, <2>3, <2>4, <2>5, <2>6, <2>7, <2>8, NextCases DEF Ended
<1> QED
  BY <1>1, FinishAlways, TypeCorrect, PTL DEF Spec, FinishedNeverReopens

-----------------------------------------------------------------------------
(* RestoreLifecycle implements RestoreRecord. *)

(* A request is for a restore that was created, and one that goes to mark  *)
(* it Deleted has seen, or written, that it is not Pending any more.  What *)
(* another request writes in between does not change that.                 *)
RequestKnows ==
    \A u \in Requests :
        /\ apc[u] # "new" => phase[target[u]] # "None"
        /\ apc[u] \in {"deleteread", "deletewrite"} => phase[target[u]] # "Pending"

(* A create event that CreateFunc does not let pass *)
Interrupted(r) == Created(r) /\ Head(events[r])[2] \in {"Pending", "Running"}

Failing == {"failread", "failwrite"}

(* What SetRestorePhase fails, or is going to, has not ended. *)
FailsOpen ==
    /\ hpc \in Failing => phase[hkey] \notin Ended
    /\ \A r \in Restores : Interrupted(r) => phase[r] \notin Ended

(* Nothing is brought back before the start, and nothing is Pending after. *)
NotBegun ==
    \A r \in Restores :
        /\ starts[r] = 0 => phase[r] \notin {"Running", "Completed"} /\ data[r] = "none"
        /\ phase[r] \in {"None", "Pending"} => starts[r] = 0

(* The restore that the worker runs, by where the run is. *)
RunKnows ==
    /\ wpc \notin {"idle", "exit"} => phase[wtask] \notin Ended
    /\ wpc \in {"execute", "deliver", "app"} => starts[wtask] = 1
    /\ wpc \in {"result", "resultwrite"} /\ werr = "none" => starts[wtask] = 1
    /\ wpc = "execute" => data[wtask] = "none"
    /\ wpc \in {"deliver", "app"} => data[wtask] = "downloaded"

RecordInv == RequestKnows /\ FailsOpen /\ NotBegun /\ RunKnows

(* A step that makes no create event that CreateFunc would act on. *)
NoneInterrupted == \A r \in Restores : Interrupted(r)' => Interrupted(r)

LEMMA WriteInterrupts ==
    ASSUME TypeOK, NEW r \in Restores, NEW ph \in Phases, Write(r, ph)
    PROVE  NoneInterrupted
<1> DEFINE e == <<"update", ph>>
<1>1. e \in Events /\ e[1] # "create" /\ events[r] \in Seq(Events)
  BY DEF Events, TypeOK
<1>2. Head(Append(events[r], e)) = IF events[r] = <<>> THEN e ELSE Head(events[r])
  BY <1>1, AppendFacts
<1>3. \A q \in Restores : events'[q] = events[q] \/ (q = r /\ events'[q] = Append(events[r], e))
  BY DEF Write, TypeOK
<1> QED
  BY <1>1, <1>2, <1>3 DEF NoneInterrupted, Interrupted, Created

(* Frames, one for each part of the invariant: steps that leave requests   *)
(* where they are, and bring no restore back to Pending,                   *)
LEMMA RequestFrame ==
    ASSUME TypeOK, RequestKnows, UNCHANGED <<apc, target>>,
           \A r \in Restores :
               phase'[r] = phase[r] \/ (phase[r] # "None" /\ phase'[r] \notin {"None", "Pending"})
    PROVE  RequestKnows'
BY DEF RequestKnows, TypeOK

(* steps that take up nothing to be failed, *)
LEMMA FailsFrame ==
    ASSUME FailsOpen, NoneInterrupted,
           hpc' \in Failing => hpc \in Failing /\ hkey' = hkey /\ hkey \in Restores,
           \A r \in Restores :
               phase'[r] \in Ended =>
                   phase[r] \in Ended \/ (~Interrupted(r) /\ (hpc' \in Failing => hkey # r))
    PROVE  FailsOpen'
BY DEF FailsOpen, NoneInterrupted

(* steps that begin and create nothing, *)
LEMMA BegunFrame ==
    ASSUME NotBegun, starts' = starts,
           \A r \in Restores : data'[r] = data[r] \/ starts[r] # 0,
           \A r \in Restores :
               \/ phase'[r] = phase[r]
               \/ /\ phase'[r] \notin {"None", "Pending"}
                  /\ phase'[r] \in {"Running", "Completed"} => starts[r] # 0
    PROVE  NotBegun'
BY DEF NotBegun

(* and steps of others than the worker. *)
LEMMA RunFrame ==
    ASSUME RunKnows, UNCHANGED <<wpc, wtask, werr, starts, data>>,
           wpc # "idle" => wtask \in Restores,
           \A r \in Restores : phase'[r] \in Ended => phase[r] \in Ended \/ r # wtask
    PROVE  RunKnows'
BY DEF RunKnows

LEMMA RecordApi ==
    ASSUME TypeOK, OnceInv, FinishInv, RecordInv, NEW r \in Restores, UserStep(r)
    PROVE  RecordInv'
<1> USE DEF api, process, handler, pool, run, outside
<1>0. /\ hpc \in Failing => hkey \in Restores
      /\ wpc # "idle" => wtask \in Restores
      /\ RequestKnows /\ FailsOpen /\ NotBegun /\ RunKnows
  BY DEF TypeOK, RecordInv, Failing
<1>1. CASE Create(r)
  <2>0. phase[r] = "None"
    BY <1>1 DEF Create
  <2>1. /\ phase[r] = "None" /\ hkey # r /\ wtask # r /\ starts[r] = 0
        /\ \A u \in Requests : target[u] # r
        /\ UNCHANGED <<apc, target, hpc, hkey, wpc, wtask, werr, starts, data>>
    <3>1. hkey # r /\ wtask # r /\ starts[r] = 0
      BY <2>0 DEF OnceInv, NotCreated, Untouched, FinishInv, FailsUnheld
    <3>2. \A u \in Requests : target[u] # r
      BY <1>0, <2>0, RestoreAssumption DEF RequestKnows, TypeOK
    <3> QED
      BY <1>1, <2>0, <3>1, <3>2 DEF Create
  <2>2. \A q \in Restores : /\ phase'[q] = IF q = r THEN "Pending" ELSE phase[q]
                            /\ q # r => events'[q] = events[q]
    BY <1>1 DEF Create, TypeOK
  <2>3. RequestKnows' /\ NotBegun'
    BY <1>0, <2>1, <2>2, RestoreAssumption DEF RequestKnows, NotBegun, TypeOK
  <2>4. FailsOpen'
    BY <1>0, <2>1, <2>2 DEF FailsOpen, Interrupted, Created, Ended
  <2>5. RunKnows'
    BY <1>0, <2>1, <2>2, RunFrame DEF Ended
  <2> QED
    BY <2>3, <2>4, <2>5 DEF RecordInv
<1>2. CASE ClearHistoryRestores(r)
  <2>1. /\ UNCHANGED <<apc, target, events, hpc, hkey, wpc, wtask, werr, starts, data>>
        /\ \A q \in Restores : phase'[q] = phase[q] \/ (phase[q] # "None" /\ phase'[q] = "Gone")
    BY <1>2 DEF ClearHistoryRestores, Exists, Absent, TypeOK
  <2>2. NoneInterrupted
    BY <2>1 DEF NoneInterrupted, Interrupted, Created
  <2>3. RequestKnows'
    BY <1>0, <2>1, RequestFrame
  <2>4. FailsOpen'
    BY <1>0, <2>1, <2>2, FailsFrame DEF Ended
  <2>5. NotBegun'
    BY <1>0, <2>1, BegunFrame
  <2>6. RunKnows'
    BY <1>0, <2>1, RunFrame DEF Ended
  <2> QED
    BY <2>3, <2>4, <2>5, <2>6 DEF RecordInv
<1>3. ASSUME NEW u \in Requests, RequestStep(u, r) PROVE RecordInv'
  <2>1. /\ UNCHANGED <<hpc, hkey, wpc, wtask, werr, starts, data>>
        /\ \A q \in Restores : q # r => phase'[q] = phase[q]
    BY <1>3, RequestEffect DEF Write, TypeOK
  <2>2. \/ UNCHANGED <<phase, events>>
        \/ \E ph \in {"Canceled", "Deleted"} : Write(r, ph) /\ Exists(r) /\ phase'[r] = ph
    BY <1>3, RequestEffect DEF Write, TypeOK
  <2>3. NoneInterrupted
    <3>1. CASE UNCHANGED events
      BY <3>1 DEF NoneInterrupted, Interrupted, Created
    <3>2. ASSUME NEW ph \in {"Canceled", "Deleted"}, Write(r, ph) PROVE NoneInterrupted
      BY <3>2, WriteInterrupts DEF Phases, Final
    <3> QED
      BY <2>2, <3>1, <3>2
  <2>4. FailsOpen'
    BY <1>0, <2>1, <2>2, <2>3, FailsFrame DEF Ended
  <2>5. NotBegun'
    BY <1>0, <2>1, <2>2, BegunFrame
  <2>6. RunKnows'
    BY <1>0, <2>1, <2>2, RunFrame DEF Ended
  <2>7. phase[r] = phase'[r] \/ (phase[r] # "None" /\ phase'[r] \in {"Canceled", "Deleted"})
    BY <2>2 DEF Exists, Absent
  <2>8. /\ target'[u] = r /\ phase'[r] # "None"
        /\ apc'[u] \in {"deleteread", "deletewrite"} => phase'[r] # "Pending"
        /\ \A v \in Requests : v # u => apc'[v] = apc[v] /\ target'[v] = target[v]
    <3>1. ASSUME NEW ev \in {"cancel", "delete"}, CancelRequest(u, r, ev)
          PROVE  /\ phase' = phase /\ phase[r] # "None"
                 /\ apc'[u] = "deleteread" => phase[r] # "Pending"
                 /\ apc'[u] \in {"cancelread", "deleteread"} /\ target'[u] = r
                 /\ \A v \in Requests : v # u => apc'[v] = apc[v] /\ target'[v] = target[v]
      BY <3>1 DEF CancelRequest, TypeOK, Exists, Absent
    <3>2. CASE ApiStep(u) /\ target[u] = r
      <4>1. /\ apc[u] # "new" /\ target' = target
            /\ \A v \in Requests : v # u => apc'[v] = apc[v]
        BY <3>2 DEF ApiStep, RequestRead, RequestWrite, RequestConflict, RequestError, Answer, TypeOK
      <4>2. phase[r] # "None" /\ phase'[r] # "None"
        BY <1>0, <2>7, <3>2, <4>1 DEF RequestKnows
      <4>3. /\ apc'[u] = "deletewrite" => apc[u] = "deleteread"
            /\ apc'[u] = "deleteread" => phase'[r] = "Canceled"
        BY <3>2 DEF ApiStep, RequestRead, RequestWrite, RequestConflict, RequestError, Answer, Write, TypeOK
      <4> QED
        BY <1>0, <2>7, <3>2, <4>1, <4>2, <4>3 DEF RequestKnows
    <3> QED
      BY <1>3, <3>1, <3>2 DEF RequestStep
  <2>9. RequestKnows'
    <3> SUFFICES ASSUME NEW v \in Requests
                 PROVE  /\ apc'[v] # "new" => phase'[target'[v]] # "None"
                        /\ apc'[v] \in {"deleteread", "deletewrite"} => phase'[target'[v]] # "Pending"
      BY DEF RequestKnows
    <3>1. CASE v = u
      BY <2>8, <3>1
    <3>2. CASE v # u /\ apc[v] = "new"
      BY <2>8, <3>2
    <3>3. CASE v # u /\ apc[v] # "new"
      <4>1. /\ apc'[v] = apc[v] /\ target'[v] = target[v] /\ target[v] \in Restores
            /\ phase[target[v]] # "None"
            /\ apc[v] \in {"deleteread", "deletewrite"} => phase[target[v]] # "Pending"
        BY <1>0, <2>8, <3>3 DEF RequestKnows, TypeOK
      <4>2. \/ phase'[target[v]] = phase[target[v]]
            \/ phase'[target[v]] \in {"Canceled", "Deleted"}
        BY <2>1, <2>7, <4>1
      <4> QED
        BY <4>1, <4>2
    <3> QED
      BY <3>1, <3>2, <3>3
  <2> QED
    BY <2>4, <2>5, <2>6, <2>9 DEF RecordInv
<1> QED
  BY <1>1, <1>2, <1>3 DEF UserStep

LEMMA RecordHandler ==
    ASSUME TypeOK, OnceInv, FinishInv, RecordInv, HandlerStep
    PROVE  RecordInv'
<1> USE DEF api, process, handler, pool, run, outside, Handling, HReturn
<1>0. /\ hpc # "idle" => hkey \in Restores
      /\ wpc # "idle" => wtask \in Restores
      /\ RequestKnows /\ FailsOpen /\ NotBegun /\ RunKnows
  BY DEF TypeOK, RecordInv
<1>1. ASSUME NEW r \in Restores, events[r] # <<>>, events' = [events EXCEPT ![r] = Tail(@)],
             UNCHANGED <<phase, apc, target, wpc, wtask, werr, starts, data>>,
             hpc' \notin Failing \/ (hkey' = r /\ Interrupted(r))
      PROVE  RecordInv'
  <2>1. NoneInterrupted
    <3>1. ~Created(r)'
      BY <1>1, TakeCreatesNothing
    <3> QED
      BY <1>1, <3>1 DEF NoneInterrupted, Interrupted, Created, TypeOK
  <2>2. FailsOpen'
    BY <1>0, <1>1, <2>1 DEF FailsOpen, NoneInterrupted
  <2>3. RequestKnows' /\ NotBegun' /\ RunKnows'
    BY <1>0, <1>1, RequestFrame, BegunFrame, RunFrame
  <2> QED
    BY <2>2, <2>3 DEF RecordInv
<1>2. ASSUME NEW r \in Restores, HandleCreate(r) \/ HandleUpdate(r) PROVE RecordInv'
  <2>1. /\ events[r] # <<>> /\ events' = [events EXCEPT ![r] = Tail(@)]
        /\ UNCHANGED <<phase, apc, target, wpc, wtask, werr, starts, data>>
    BY <1>2 DEF HandleCreate, HandleUpdate, CreateFunc, Take
  <2>2. hpc' \notin Failing \/ (hkey' = r /\ Interrupted(r))
    BY <1>2 DEF HandleCreate, HandleUpdate, CreateFunc, Take, Failing, Interrupted, Created
  <2> QED
    BY <1>1, <2>1, <2>2
<1>3. CASE FailWrite /\ Current("handler", hkey)
  <2>1. /\ hkey \in Restores /\ phase[hkey] # "None" /\ Write(hkey, "Failed") /\ "Failed" \in Phases
        /\ hpc' = "idle" /\ UNCHANGED <<apc, target, wpc, wtask, werr, starts, data>>
        /\ hkey # wtask /\ ~Created(hkey)
    BY <1>0, <1>3 DEF FailWrite, Current, Exists, Absent, Phases, Final, FinishInv, FailsUnheld, Held
  <2>2. \A q \in Restores : phase'[q] = IF q = hkey THEN "Failed" ELSE phase[q]
    BY <2>1 DEF Write, TypeOK
  <2>3. NoneInterrupted
    BY <2>1, WriteInterrupts
  <2>4. RequestKnows' /\ NotBegun'
    BY <1>0, <2>1, <2>2, RequestFrame, BegunFrame
  <2>5. FailsOpen'
    BY <1>0, <2>1, <2>2, <2>3, FailsFrame DEF Interrupted, Failing, Ended
  <2>6. RunKnows'
    BY <1>0, <2>1, <2>2, RunFrame
  <2> QED
    BY <2>4, <2>5, <2>6 DEF RecordInv
<1>4. CASE FailRead \/ FailGivesUp \/ DeleteError \/ DeleteRestore \/ (FailWrite /\ ~Current("handler", hkey))
  <2>1. /\ UNCHANGED <<apc, target, events, wpc, wtask, werr, starts, data>>
        /\ hpc' \in Failing => hpc \in Failing /\ hkey' = hkey /\ hkey \in Restores
    BY <1>0, <1>4 DEF FailRead, FailGivesUp, DeleteError, DeleteRestore, FailWrite, TryAgain, Failing
  <2>2. \A q \in Restores : phase'[q] = phase[q] \/ (phase[q] # "None" /\ phase'[q] = "Gone")
    BY <1>0, <1>4 DEF FailRead, FailGivesUp, DeleteError, DeleteRestore, FailWrite, TypeOK, FinishInv, FailsUnheld
  <2>3. NoneInterrupted
    BY <2>1 DEF NoneInterrupted, Interrupted, Created
  <2>4. RequestKnows' /\ NotBegun'
    BY <1>0, <2>1, <2>2, RequestFrame, BegunFrame
  <2>5. FailsOpen'
    BY <1>0, <2>1, <2>2, <2>3, FailsFrame DEF Ended
  <2>6. RunKnows'
    BY <1>0, <2>1, <2>2, RunFrame DEF Ended
  <2> QED
    BY <2>4, <2>5, <2>6 DEF RecordInv
<1> QED
  BY <1>2, <1>3, <1>4 DEF HandlerStep

(* The steps of the worker that write nothing to the store.                *)
LEMMA RecordRun ==
    ASSUME TypeOK, OnceInv, FinishInv, RecordInv, phase' = phase, WorkerStep, ~StartWrite, ~ResultWrite
    PROVE  RecordInv'
<1> USE DEF api, process, handler, pool, run, outside, Working, WGoto, WFail
<1>0. /\ wpc # "idle" => wtask \in Restores
      /\ RequestKnows /\ FailsOpen /\ NotBegun /\ RunKnows
      /\ hpc \in Failing => hkey \in Restores
  BY DEF TypeOK, RecordInv, Failing
<1>1. UNCHANGED <<apc, target, events, hpc, hkey, starts>>
  BY DEF WorkerStep, Dequeue, CheckCanceled, Activate, CheckRestoreExists, Prepare, StartRead,
     StartError, Execute, TokenPanic, Rename, StartAppRestore, AwaitAppRestore, ResultRead,
     ResultReadError, ResultError, Exit
<1>2. NoneInterrupted
  BY <1>1 DEF NoneInterrupted, Interrupted, Created
<1>3. RequestKnows'
  BY <1>0, <1>1, RequestFrame
<1>4. FailsOpen'
  BY <1>0, <1>1, <1>2, FailsFrame
<1>5. CASE Dequeue
  <2>1. wtask' = queue[1] /\ queue[1] \in Restores /\ wpc' = "check" /\ data' = data /\ 1 \in 1..Len(queue)
    BY <1>5 DEF Dequeue, TypeOK
  <2>2. phase[queue[1]] \notin Ended
    BY <2>1 DEF FinishInv, WaitsUnfinished, Waits, Queued
  <2>3. NotBegun'
    BY <1>0, <1>1, <2>1, BegunFrame
  <2>4. RunKnows'
    BY <2>1, <2>2 DEF RunKnows
  <2> QED
    BY <1>3, <1>4, <2>3, <2>4 DEF RecordInv
<1>6. CASE Execute \/ Rename \/ AwaitAppRestore
  <2>1. /\ wtask' = wtask /\ wtask \in Restores /\ starts[wtask] = 1
        /\ \A q \in Restores : q # wtask => data'[q] = data[q]
    BY <1>0, <1>6 DEF Execute, Rename, AwaitAppRestore, RunKnows, TypeOK
  <2>2. NotBegun'
    BY <1>0, <1>1, <2>1, BegunFrame
  <2>3. RunKnows'
    BY <1>0, <1>1, <1>6, <2>1 DEF Execute, Rename, AwaitAppRestore, RunKnows, TypeOK
  <2> QED
    BY <1>3, <1>4, <2>2, <2>3 DEF RecordInv
<1>7. CASE CheckCanceled \/ Activate \/ CheckRestoreExists \/ Prepare \/ StartRead \/ StartError
           \/ TokenPanic \/ StartAppRestore \/ ResultRead \/ ResultReadError \/ ResultError \/ Exit
  <2>1. data' = data
    BY <1>7 DEF CheckCanceled, Activate, CheckRestoreExists, Prepare, StartRead,
       StartError, TokenPanic, StartAppRestore, ResultRead, ResultReadError, ResultError, Exit
  <2>2. NotBegun'
    BY <1>0, <1>1, <2>1, BegunFrame
  <2>3. RunKnows'
    BY <1>0, <1>1, <1>7, <2>1 DEF CheckCanceled, Activate, CheckRestoreExists, Prepare, StartRead,
       StartError, TokenPanic, StartAppRestore, ResultRead, ResultReadError, ResultError, Exit, RunKnows
  <2> QED
    BY <1>3, <1>4, <2>2, <2>3 DEF RecordInv
<1> QED
  BY <1>5, <1>6, <1>7 DEF WorkerStep

(* The restore that the worker holds has been created, and is not the one  *)
(* that the predicates fail.                                               *)
LEMMA WorkerHolds ==
    ASSUME TypeOK, OnceInv, FinishInv, wpc # "idle"
    PROVE  /\ wtask \in Restores /\ phase[wtask] # "None" /\ ~Created(wtask)
           /\ hpc \in Failing => hkey # wtask
<1>1. wtask \in Restores /\ ~Untouched(wtask)
  BY DEF TypeOK, Untouched
<1>2. wtask \in new
  BY <1>1 DEF FinishInv, HeldIsNew, Held
<1> QED
  BY <1>1, <1>2 DEF OnceInv, NotCreated, NotAdded, Created, FinishInv, FailsUnheld, Held, Failing

(* The writes of the worker: Running, a progress, and the result.          *)
LEMMA RecordWrites ==
    ASSUME TypeOK, OnceInv, FinishInv, RecordInv, Progress \/ StartWrite \/ ResultWrite
    PROVE  RecordInv'
<1> USE DEF api, process, handler, pool, run, outside, Working, WGoto, WFail
<1>0. /\ wtask \in Restores /\ phase[wtask] # "None" /\ ~Created(wtask)
      /\ hpc \in Failing => hkey \in Restores /\ hkey # wtask
      /\ RequestKnows /\ FailsOpen /\ NotBegun /\ RunKnows
  BY WorkerHolds DEF TypeOK, RecordInv, Failing, Progress, StartWrite, ResultWrite
<1>1. UNCHANGED <<apc, target, hpc, hkey, wtask>> /\ wpc # "idle"
  BY DEF Progress, StartWrite, ResultWrite
<1>2. \/ UNCHANGED <<phase, events>>
      \/ /\ \E ph \in {"Running", "Completed", "Failed"} : Write(wtask, ph)
         /\ phase'[wtask] \in {"Running", "Completed", "Failed"}
         /\ \A q \in Restores : q # wtask => phase'[q] = phase[q]
  BY <1>0 DEF Progress, StartWrite, ResultWrite, ResultPhase, Write, TypeOK
<1>3. NoneInterrupted
  <2>1. CASE UNCHANGED events
    BY <2>1 DEF NoneInterrupted, Interrupted, Created
  <2>2. ASSUME NEW ph \in {"Running", "Completed", "Failed"}, Write(wtask, ph) PROVE NoneInterrupted
    BY <1>0, <2>2, WriteInterrupts DEF Phases, Final
  <2> QED
    BY <1>2, <2>1, <2>2
<1>4. RequestKnows'
  BY <1>0, <1>1, <1>2, RequestFrame
<1>5. FailsOpen'
  BY <1>0, <1>1, <1>2, <1>3, FailsFrame DEF Interrupted
<1>6. CASE Progress
  <2>1. UNCHANGED <<wpc, werr, starts, data>> /\ phase[wtask] = "Running" /\ Write(wtask, "Running")
    BY <1>6 DEF Progress
  <2>2. \A q \in Restores : phase'[q] = phase[q]
    BY <1>0, <2>1 DEF Write, TypeOK
  <2>3. NotBegun' /\ RunKnows'
    BY <1>0, <1>1, <2>1, <2>2, BegunFrame, RunFrame
  <2> QED
    BY <1>4, <1>5, <2>3 DEF RecordInv
<1>7. CASE StartWrite /\ Write(wtask, "Running")
  <2>1. /\ starts[wtask] = 0 /\ data' = data /\ starts' = [starts EXCEPT ![wtask] = @ + 1] /\ wpc' = "execute"
    <3>1. wpc = "startwrite" /\ starts[wtask] = 0
      BY <1>7 DEF StartWrite, OnceInv, NotStarted, BeforeStart
    <3>2. phase[wtask] # "Running" /\ phase'[wtask] = "Running"
      BY <1>0, <1>7, <3>1 DEF NotBegun, Write, TypeOK
    <3>3. phase' # phase
      BY <3>2
    <3> QED
      BY <1>7, <3>1, <3>3 DEF StartWrite
  <2>2. phase'[wtask] = "Running" /\ \A q \in Restores : q # wtask => phase'[q] = phase[q]
    BY <1>0, <1>7 DEF Write, TypeOK
  <2>3. starts'[wtask] = 1 /\ \A q \in Restores : q # wtask => starts'[q] = starts[q]
    BY <1>0, <2>1 DEF TypeOK
  <2>4. data[wtask] = "none"
    BY <1>0, <2>1 DEF NotBegun
  <2>5. NotBegun'
    BY <1>0, <2>1, <2>2, <2>3 DEF NotBegun
  <2>6. RunKnows'
    BY <1>0, <1>1, <2>1, <2>2, <2>3, <2>4 DEF RunKnows, Ended
  <2> QED
    BY <1>4, <1>5, <2>5, <2>6 DEF RecordInv
<1>8. CASE StartWrite /\ UNCHANGED phase
  <2>1. UNCHANGED <<data, starts>> /\ wpc = "startwrite" /\ wpc' = "result" /\ werr' = "failed"
    <3>1. ~Write(wtask, "Running")
      <4>1. phase[wtask] # "Running"
        BY <1>0, <1>8 DEF StartWrite, OnceInv, NotStarted, BeforeStart, NotBegun
      <4> QED
        BY <1>0, <1>8, <4>1 DEF Write, TypeOK
    <3> QED
      BY <1>8, <3>1 DEF StartWrite
  <2>2. NotBegun'
    BY <1>0, <1>8, <2>1, BegunFrame
  <2>3. RunKnows'
    BY <1>0, <1>1, <1>8, <2>1 DEF RunKnows
  <2> QED
    BY <1>4, <1>5, <2>2, <2>3 DEF RecordInv
<1>9. CASE ResultWrite
  <2>1. UNCHANGED <<data, starts>> /\ wpc = "resultwrite" /\ wpc' = "exit" /\ werr' = werr
    BY <1>9 DEF ResultWrite
  <2>2. /\ phase' = phase \/ phase'[wtask] = ResultPhase
        /\ \A q \in Restores : q # wtask => phase'[q] = phase[q]
    BY <1>0, <1>9 DEF ResultWrite, Write, TypeOK
  <2>3. ResultPhase \in {"Completed", "Failed"} /\ (ResultPhase = "Completed" => starts[wtask] # 0)
    BY <1>0, <2>1 DEF ResultPhase, RunKnows, TypeOK
  <2>4. NotBegun'
    BY <1>0, <2>1, <2>2, <2>3, BegunFrame
  <2>5. RunKnows'
    BY <2>1 DEF RunKnows
  <2> QED
    BY <1>4, <1>5, <2>4, <2>5 DEF RecordInv
<1> QED
  BY <1>6, <1>7, <1>8, <1>9 DEF StartWrite

LEMMA RecordNext == TypeOK /\ OnceInv /\ FinishInv /\ RecordInv /\ [Next]_vars => RecordInv'
<1> SUFFICES ASSUME TypeOK, OnceInv, FinishInv, RecordInv, [Next]_vars PROVE RecordInv'
  OBVIOUS
<1> USE DEF api, process, handler, pool, run, outside
<1>0. RequestKnows /\ FailsOpen /\ NotBegun /\ RunKnows
  BY DEF RecordInv
<1>1. CASE Start
  <2>1. UNCHANGED <<phase, apc, target, hpc, hkey, wpc, wtask, werr, starts, data>> /\ hpc = "idle"
    BY <1>1 DEF Start, FinishInv, DownHoldsNothing, TypeOK
  <2>2. \A r \in Restores : events'[r] = IF Exists(r) THEN << <<"create", phase[r]>> >> ELSE <<>>
    BY <1>1 DEF Start
  <2>3. \A r \in Restores : Interrupted(r)' => phase[r] \in {"Pending", "Running"}
    <3> SUFFICES ASSUME NEW r \in Restores, Interrupted(r)'
                 PROVE  phase[r] \in {"Pending", "Running"}
      OBVIOUS
    <3>1. Exists(r) /\ events'[r] = << <<"create", phase[r]>> >>
      BY <2>2 DEF Interrupted, Created
    <3>2. Head(events'[r]) = <<"create", phase[r]>>
      BY <3>1
    <3> QED
      BY <3>2 DEF Interrupted
  <2>4. FailsOpen'
    BY <2>1, <2>3 DEF FailsOpen, Failing, Ended
  <2>5. RequestKnows' /\ NotBegun' /\ RunKnows'
    BY <1>0, <2>1 DEF RequestKnows, NotBegun, RunKnows
  <2> QED
    BY <2>4, <2>5 DEF RecordInv
<1>2. CASE Crash
  <2>1. UNCHANGED <<phase, apc, target, starts, data>> /\ hpc' = "idle" /\ wpc' = "idle" /\ \A r \in Restores : events'[r] = <<>>
    BY <1>2 DEF Crash, HReturn, NoEvents
  <2> QED
    BY <1>0, <2>1 DEF RecordInv, RequestKnows, FailsOpen, NotBegun, RunKnows, Interrupted, Created, Failing
<1>3. CASE SecondPasses \/ UNCHANGED vars
  <2>1. UNCHANGED <<phase, apc, target, events, hpc, hkey, wpc, wtask, werr, starts, data>>
    BY <1>3 DEF SecondPasses, vars
  <2> QED
    BY <1>0, <2>1 DEF RecordInv, RequestKnows, FailsOpen, NotBegun, RunKnows, Interrupted, Created
<1>4. CASE WorkerStep /\ ~StartWrite /\ ~ResultWrite
  <2>1. phase' = phase
    BY <1>4 DEF WorkerStep, Dequeue, CheckCanceled, Activate, CheckRestoreExists, Prepare, StartRead,
       StartError, Execute, TokenPanic, Rename, StartAppRestore, AwaitAppRestore, ResultRead,
       ResultReadError, ResultError, Exit
  <2> QED
    BY <1>4, <2>1, RecordRun
<1> QED
  BY <1>1, <1>2, <1>3, <1>4, NextCases, RecordApi, RecordHandler, RecordWrites

LEMMA RecordAlways == Spec => []RecordInv
<1>1. Init => RecordInv
  BY DEF Init, NoEvents, RecordInv, RequestKnows, FailsOpen, NotBegun, RunKnows, Interrupted, Created, Failing
<1> QED
  BY <1>1, RecordNext, FinishAlways, OnceAlways, TypeCorrect, PTL DEF Spec

(* An action of the record, of restore r. *)
RecordAction(r) ==
    \/ Record!Create(r) \/ Record!Begin(r) \/ Record!Complete(r) \/ Record!Fail(r)
    \/ Record!Cancel(r) \/ Record!Delete(r) \/ Record!Remove(r)
    \/ Record!BringBack(r, "none", "downloaded")
    \/ \E to \in {"delivered", "applied"} : Record!BringBack(r, "downloaded", to)

LEMMA RecordCase ==
    ASSUME NEW r \in Restores, RecordAction(r)
    PROVE  Record!Next
BY DEF RecordAction, Record!Next

LEMMA ApiImplements ==
    ASSUME TypeOK, RecordInv, NEW r \in Restores, UserStep(r)
    PROVE  RecordAction(r) \/ UNCHANGED Record!record
<1> USE DEF api, process, handler, pool, run, outside
<1>1. CASE Create(r)
  <2>1. Record!Create(r)
    BY <1>1 DEF Create, Record!Create, Record!Become
  <2> QED
    BY <2>1 DEF RecordAction
<1>2. CASE ClearHistoryRestores(r)
  <2>1. Record!Remove(r)
    BY <1>2 DEF ClearHistoryRestores, Record!Remove, Record!Become, Record!Phases, Exists, Absent, TypeOK,
       Phases, Final
  <2> QED
    BY <2>1 DEF RecordAction
<1>3. ASSUME NEW u \in Requests, target[u] = r, RequestWrite(u)
      PROVE  RecordAction(r) \/ UNCHANGED Record!record
  <2>1. CASE UNCHANGED phase
    BY <1>3, <2>1 DEF RequestWrite, Record!record
  <2>2. CASE apc[u] = "cancelwrite" /\ Write(r, "Canceled")
    <3>1. phase[r] \in Record!Phases
      BY <1>3 DEF RequestWrite, Current, Exists, Absent, TypeOK, Record!Phases, Phases, Final
    <3>2. Record!Cancel(r)
      BY <1>3, <2>2, <3>1 DEF RequestWrite, Write, Record!Cancel, Record!Become
    <3> QED
      BY <3>2 DEF RecordAction
  <2>3. CASE apc[u] = "deletewrite" /\ Write(r, "Deleted")
    <3>1. phase[r] \in Phases \ {"Pending"}
      BY <1>3, <2>3 DEF RequestWrite, Current, Exists, Absent, TypeOK, RecordInv, RequestKnows
    <3>2. Record!Delete(r)
      BY <1>3, <2>3, <3>1 DEF RequestWrite, Write, Record!Delete, Record!Become, Record!Phases, Phases, Final
    <3> QED
      BY <3>2 DEF RecordAction
  <2> QED
    BY <1>3, <2>1, <2>2, <2>3 DEF RequestWrite
<1>4. ASSUME NEW u \in Requests,
             \/ RequestRead(u) \/ RequestConflict(u) \/ RequestError(u)
             \/ \E ev \in {"cancel", "delete"} : CancelRequest(u, r, ev)
      PROVE  UNCHANGED Record!record
  BY <1>4 DEF RequestRead, RequestConflict, RequestError, CancelRequest, Record!record
<1> QED
  BY <1>1, <1>2, <1>3, <1>4 DEF UserStep, RequestStep, ApiStep

LEMMA HandlerImplements ==
    ASSUME TypeOK, FinishInv, RecordInv, HandlerStep
    PROVE  (hkey \in Restores /\ RecordAction(hkey)) \/ UNCHANGED Record!record
<1> USE DEF api, process, handler, pool, run, outside, Handling
<1>1. CASE FailWrite /\ Current("handler", hkey)
  <2>1. hkey \in Restores /\ phase[hkey] \in Phases \ Ended
    BY <1>1 DEF FailWrite, Current, Exists, Absent, TypeOK, RecordInv, FailsOpen, Failing
  <2>2. Record!Fail(hkey)
    BY <1>1, <2>1 DEF FailWrite, Write, Record!Fail, Record!Become, Record!Overtaken, Phases, Final, Ended
  <2> QED
    BY <2>1, <2>2 DEF RecordAction
<1>2. CASE DeleteRestore
  <2>1. hkey \in Restores /\ phase[hkey] \in Phases \cup {"Gone"}
    BY <1>2 DEF DeleteRestore, TypeOK, Absent, FinishInv, FailsUnheld
  <2>2. CASE phase[hkey] = "Gone"
    BY <1>2, <2>1, <2>2 DEF DeleteRestore, TypeOK, Record!record
  <2>3. CASE phase[hkey] # "Gone"
    <3>1. Record!Remove(hkey)
      BY <1>2, <2>1, <2>3 DEF DeleteRestore, Record!Remove, Record!Become, Record!Phases, Phases, Final
    <3> QED
      BY <2>1, <3>1 DEF RecordAction
  <2> QED
    BY <2>2, <2>3
<1>3. CASE \/ \E r \in Restores : HandleCreate(r) \/ HandleUpdate(r)
           \/ FailRead \/ FailGivesUp \/ DeleteError \/ (FailWrite /\ ~Current("handler", hkey))
  BY <1>3 DEF HandleCreate, HandleUpdate, FailRead, FailGivesUp, DeleteError, FailWrite, Record!record
<1> QED
  BY <1>1, <1>2, <1>3 DEF HandlerStep

LEMMA WorkerImplements ==
    ASSUME TypeOK, OnceInv, FinishInv, DataInv, RecordInv, WorkerStep \/ Progress
    PROVE  (wtask \in Restores /\ RecordAction(wtask)) \/ UNCHANGED Record!record
<1> USE DEF api, process, handler, pool, run, outside, Working, WGoto, WFail
<1>1. wpc \notin {"idle", "exit"} =>
          wtask \in Restores /\ phase[wtask] \in (Phases \ Ended) \cup {"Gone"}
  BY WorkerHolds DEF TypeOK, Absent, RecordInv, RunKnows
<1>2. ASSUME wpc \notin {"idle", "exit"}, starts[wtask] = 1
      PROVE  phase[wtask] \in {"Running", "Gone"} \cup Record!Overtaken
  BY <1>1, <1>2 DEF RecordInv, NotBegun, Record!Overtaken, Phases, Final, Ended
<1>3. CASE Progress
  BY <1>3 DEF Progress, Write, TypeOK, Record!record
<1>4. CASE StartWrite /\ Write(wtask, "Running") /\ Exists(wtask) /\ starts' = [starts EXCEPT ![wtask] = @ + 1]
  <2>1. wtask \in Restores /\ phase[wtask] \in Phases \ Ended /\ starts[wtask] = 0 /\ data' = data
    BY <1>1, <1>4 DEF StartWrite, Exists, Absent, OnceInv, NotStarted, BeforeStart
  <2>2. phase[wtask] # "Running"
    BY <2>1 DEF RecordInv, NotBegun
  <2>3. starts' = [starts EXCEPT ![wtask] = 1]
    BY <1>4, <2>1
  <2>4. Record!Begin(wtask)
    BY <1>4, <2>1, <2>2, <2>3 DEF Write, Record!Begin, Record!Become, Record!Overtaken, Phases, Final, Ended
  <2> QED
    BY <2>1, <2>4 DEF RecordAction
<1>5. CASE StartWrite /\ UNCHANGED <<phase, starts>>
  BY <1>5 DEF StartWrite, Record!record
<1>6. CASE Execute
  <2>1. CASE data' = data
    BY <1>6, <2>1 DEF Execute, Record!record
  <2>2. CASE data' = [data EXCEPT ![wtask] = "downloaded"]
    <3>1. wtask \in Restores /\ starts[wtask] = 1 /\ data[wtask] = "none"
      BY <1>1, <1>6 DEF Execute, RecordInv, RunKnows
    <3>2. Record!BringBack(wtask, "none", "downloaded")
      BY <1>2, <1>6, <2>2, <3>1 DEF Execute, Record!BringBack
    <3> QED
      BY <3>1, <3>2 DEF RecordAction
  <2> QED
    BY <1>6, <2>1, <2>2 DEF Execute
<1>7. CASE Rename \/ AwaitAppRestore
  <2>1. CASE data' = data
    BY <1>7, <2>1 DEF Rename, AwaitAppRestore, Record!record
  <2>2. ASSUME NEW to \in {"delivered", "applied"}, data' = [data EXCEPT ![wtask] = to]
        PROVE  (wtask \in Restores /\ RecordAction(wtask)) \/ UNCHANGED Record!record
    <3>1. wtask \in Restores /\ starts[wtask] = 1 /\ data[wtask] = "downloaded"
      BY <1>1, <1>7 DEF Rename, AwaitAppRestore, RecordInv, RunKnows
    <3>2. Record!BringBack(wtask, "downloaded", to)
      BY <1>2, <1>7, <2>2, <3>1 DEF Rename, AwaitAppRestore, Record!BringBack
    <3> QED
      BY <3>1, <3>2 DEF RecordAction
  <2> QED
    BY <1>7, <2>1, <2>2 DEF Rename, AwaitAppRestore
<1>8. CASE ResultWrite
  <2>1. CASE UNCHANGED phase
    BY <1>8, <2>1 DEF ResultWrite, Record!record
  <2>2. CASE Current("worker", wtask) /\ Write(wtask, ResultPhase)
    <3>1. wtask \in Restores /\ phase[wtask] \in Phases \ Ended /\ wpc = "resultwrite" /\ UNCHANGED <<data, starts>>
      BY <1>1, <1>8, <2>2 DEF ResultWrite, Current, Exists, Absent
    <3>2. CASE ResultPhase = "Failed"
      <4>1. Record!Fail(wtask)
        BY <2>2, <3>1, <3>2 DEF Write, Record!Fail, Record!Become, Record!Overtaken, Phases, Final, Ended
      <4> QED
        BY <3>1, <4>1 DEF RecordAction
    <3>3. CASE ResultPhase = "Completed"
      <4>1. werr = "none"
        BY <3>3 DEF ResultPhase, TypeOK
      <4>2. starts[wtask] = 1 /\ data[wtask] # "none"
        BY <3>1, <4>1 DEF RecordInv, RunKnows, DataInv, ResultHasData
      <4>3. phase[wtask] \in {"Running"} \cup Record!Overtaken
        BY <1>2, <3>1, <4>2 DEF Phases, Final
      <4>4. Record!Complete(wtask)
        BY <2>2, <3>1, <3>3, <4>2, <4>3 DEF Write, Record!Complete, Record!Become
      <4> QED
        BY <3>1, <4>4 DEF RecordAction
    <3> QED
      BY <3>2, <3>3 DEF ResultPhase
  <2> QED
    BY <1>8, <2>1, <2>2 DEF ResultWrite
<1>9. CASE Dequeue \/ CheckCanceled \/ Activate \/ CheckRestoreExists \/ Prepare \/ StartRead \/ StartError
           \/ TokenPanic \/ StartAppRestore \/ ResultRead \/ ResultReadError \/ ResultError \/ Exit
  BY <1>9 DEF Dequeue, CheckCanceled, Activate, CheckRestoreExists, Prepare, StartRead, StartError,
     TokenPanic, StartAppRestore, ResultRead, ResultReadError, ResultError, Exit, Record!record
<1> QED
  BY <1>3, <1>4, <1>5, <1>6, <1>7, <1>8, <1>9 DEF WorkerStep, StartWrite, Current

LEMMA RecordStep ==
    TypeOK /\ OnceInv /\ FinishInv /\ DataInv /\ RecordInv /\ [Next]_vars => [Record!Next]_(Record!record)
<1> SUFFICES ASSUME TypeOK, OnceInv, FinishInv, DataInv, RecordInv, [Next]_vars
             PROVE  Record!Next \/ UNCHANGED Record!record
  OBVIOUS
<1>1. ASSUME NEW r \in Restores, UserStep(r)
      PROVE  Record!Next \/ UNCHANGED Record!record
  BY <1>1, ApiImplements, RecordCase
<1>2. CASE HandlerStep
  BY <1>2, HandlerImplements, RecordCase
<1>3. CASE WorkerStep \/ Progress
  BY <1>3, WorkerImplements, RecordCase
<1>4. CASE Start \/ SecondPasses \/ Crash \/ UNCHANGED vars
  BY <1>4 DEF Start, SecondPasses, Crash, vars, outside, Record!record
<1> QED
  BY <1>1, <1>2, <1>3, <1>4, NextCases

(* The predicates, the worker and the API server, racing, failing and      *)
(* restarting, change the store and the files only as RestoreRecord says.  *)
THEOREM RecordImplemented == Spec => ImplementsRecord
<1>1. Init => Record!Init
  BY DEF Init, Record!Init
<1>2. Spec => []DataInv
  <2>1. Init => DataInv
    BY DEF Init, DataInv, ResultHasData, CompletedHasData
  <2> QED
    BY <2>1, DataNext, TypeCorrect, PTL DEF Spec
<1> QED
  BY <1>1, <1>2, RecordStep, RecordAlways, FinishAlways, OnceAlways, TypeCorrect, PTL
  DEF Spec, Record!Spec, ImplementsRecord
=============================================================================
