-------------------------- MODULE WorkerPoolProofs --------------------------
(***************************************************************************)
(* Proofs about WorkerPool for every set of owners, plans and tasks.       *)
(*                                                                         *)
(* The invariants build on one another: CallsOK types the local variables  *)
(* of a call by the line it is at, Unique says that a task is in one place *)
(* of the pipeline only, and PlanGuard carries the answer of ExistsTask    *)
(* from the check to the store.  RanOnce and Doomed follow a flagged task  *)
(* from its queue on.                                                      *)
(***************************************************************************)
EXTENDS WorkerPool, TLAPS

-----------------------------------------------------------------------------
(* Local variables of the calls and of the workers. *)

AddingAt == {"load", "create", "table", "submit"}
Adding(c) == pc[c] \in AddingAt
HasPool(c) == pc[c] \in {"table", "submit"}
Kind(c) == IF c = "snapshot" THEN BackupTasks ELSE RestoreTasks

CallOK(c) ==
    /\ Adding(c) => c \in Adders /\ arg[c] \in Kind(c)
    /\ HasPool(c) => loc[c] \in Pools /\ loc[c][1] = OwnerOf[arg[c]]
    /\ pc[c] = "active" => loc[c] \in Pools

CallsOK ==
    /\ \A c \in Callers : CallOK(c)
    /\ \A p \in Pools : wpc[p] # "idle" => cur[p] \in Tasks

TypeInv == TypeOK /\ CallsOK

(* A task is in one place: an add in progress, one slot of a queue, or one *)
(* worker, and only tasks that some call has tried to add are in any.      *)
NoDup(s) == \A i, j \in 1..Len(s) : s[i] = s[j] => i = j

InPool(p) == Elements(queue[p]) \cup {t \in {cur[p]} : wpc[p] # "idle"}

Unique ==
    /\ \A p \in Pools : NoDup(queue[p])
    /\ \A p \in Pools : wpc[p] # "idle" => cur[p] \notin Elements(queue[p])
    /\ \A p \in Pools : InPool(p) \subseteq submitted
    /\ \A c \in Adders : Adding(c) => arg[c] \in submitted
    /\ \A c \in Adders, p \in Pools : Adding(c) => arg[c] \notin InPool(p)

(* A pool that no call has registered yet is empty and no call uses it. *)
Untouched(o, a) ==
    /\ userPools[o] # a
    /\ tasks[<<o, a>>] = {}
    /\ \A c \in Adders : HasPool(c) => loc[c] # <<o, a>>

PoolGuard ==
    /\ \A o \in Owners, a \in Adders : userPools[o] = "none" => Untouched(o, a)
    /\ \A c \in Adders : pc[c] = "create" => Untouched(OwnerOf[arg[c]], c)

(* The pool holds no live task of t's plan. *)
FreeFor(p, t) == \A u \in tasks[p] \cap BackupTasks : PlanOf[u] = PlanOf[t] => canceled[u]

PlanGuard ==
    LET t == arg["snapshot"] IN
    /\ pc["snapshot"] = "load" /\ userPools[OwnerOf[t]] # "none"
           => FreeFor(Registered(OwnerOf[t]), t)
    /\ pc["snapshot"] = "table" => FreeFor(loc["snapshot"], t)

-----------------------------------------------------------------------------
(* Type correctness: every variable keeps its type, and a call's local     *)
(* variables hold what the next line of the call dereferences.             *)

(* The steps of Next, with the three cancel calls as one. *)
LEMMA StepCases ==
    Next => \/ \E t \in BackupTasks : AddBackupTask(t)
            \/ \E t \in RestoreTasks : AddRestoreTask(t)
            \/ \E c \in Callers, x \in Tasks \cup Plans, o \in Owners : CancelMark(c, x, o)
            \/ \E c \in Callers :
                  \/ LoadPool(c) \/ CreatePool(c) \/ StoreTask(c)
                  \/ Submit(c) \/ SubmitRefused(c) \/ CancelActive(c)
            \/ \E p \in Pools : WorkerStep(p)
            \/ Restart
BY TaskAssumption DEF Next, CancelSnapshot, CancelRestore, CancelBackup, CallerStep, CancelPanic,
   Tasks, Callers, Adders

LEMMA TypeInvInit == Init => TypeInv
BY TaskAssumption DEF Init, TypeInv, TypeOK, CallsOK, CallOK, Adding, AddingAt, HasPool,
   Pools, Adders, Callers, Idle, None, Unset

LEMMA TypeInvRestart == TypeInv /\ Restart => TypeInv'
BY TaskAssumption DEF Restart, TypeInv, TypeOK, CallsOK, CallOK, Adding, AddingAt, HasPool,
   Pools, Adders, Callers, Idle, None, Unset, history

LEMMA TypeInvNext == TypeInv /\ [Next]_vars => TypeInv'
<1> SUFFICES ASSUME TypeInv, [Next]_vars PROVE TypeInv'
  OBVIOUS
<1> USE TaskAssumption DEF TypeInv, TypeOK, CallsOK, CallOK, Adding, AddingAt, HasPool, Kind,
        Callers, Adders, Tasks, pools, worker, flags, callers, history
<1>1. ASSUME NEW t \in BackupTasks, AddBackupTask(t) PROVE TypeInv'
  BY <1>1 DEF AddBackupTask, Goto
<1>2. ASSUME NEW t \in RestoreTasks, AddRestoreTask(t) PROVE TypeInv'
  BY <1>2 DEF AddRestoreTask, Goto
<1>3. ASSUME NEW c \in Callers, LoadPool(c) PROVE TypeInv'
  BY <1>3 DEF LoadPool, Goto, Registered, Pools
<1>4. ASSUME NEW c \in Callers, CreatePool(c) PROVE TypeInv'
  BY <1>4 DEF CreatePool, Goto, Pools
<1>5. ASSUME NEW c \in Callers, StoreTask(c) PROVE TypeInv'
  BY <1>5 DEF StoreTask, Goto
<1>6. ASSUME NEW c \in Callers, Submit(c) PROVE TypeInv'
  BY <1>6 DEF Submit, Return, Goto
<1>7. ASSUME NEW c \in Callers, SubmitRefused(c) PROVE TypeInv'
  BY <1>7 DEF SubmitRefused, Return, Goto
<1>8. ASSUME NEW c \in Callers, NEW x \in Tasks \cup Plans, NEW o \in Owners, CancelMark(c, x, o)
      PROVE TypeInv'
  BY <1>8 DEF CancelMark, Goto, Registered, Pools
<1>9. ASSUME NEW c \in Callers, CancelActive(c) PROVE TypeInv'
  BY <1>9 DEF CancelActive, Return, Goto
<1>10. ASSUME NEW p \in Pools, WorkerStep(p) PROVE TypeInv'
  <2>1. CASE Dequeue(p)
    <3>1. Head(queue[p]) \in Tasks /\ Tail(queue[p]) \in Seq(Tasks)
      BY <2>1 DEF Dequeue
    <3> QED
      BY <2>1, <3>1 DEF Dequeue, Worker
  <2>2. CASE CheckCanceled(p)
    BY <2>2 DEF CheckCanceled, Worker
  <2>3. CASE Activate(p)
    BY <2>3 DEF Activate, Worker
  <2>4. CASE RunReturns(p)
    BY <2>4 DEF RunReturns, Worker
  <2>5. CASE DeferDelete(p)
    BY <2>5 DEF DeferDelete, Worker
  <2>6. CASE DeferClear(p)
    BY <2>6 DEF DeferClear, Worker
  <2> QED
    BY <1>10, <2>1, <2>2, <2>3, <2>4, <2>5, <2>6 DEF WorkerStep
<1>11. CASE Restart
  BY <1>11, TypeInvRestart
<1>12. CASE UNCHANGED vars
  BY <1>12 DEF vars
<1> QED
  BY <1>1, <1>2, <1>3, <1>4, <1>5, <1>6, <1>7, <1>8, <1>9, <1>10, <1>11, <1>12, StepCases

THEOREM TypeInvariant == Spec => []TypeInv
BY TypeInvInit, TypeInvNext, PTL DEF Spec

(* Every variable of the pools keeps its type. *)
THEOREM TypeCorrect == Spec => []TypeOK
BY TypeInvariant, PTL DEF TypeInv

-----------------------------------------------------------------------------
(* setActiveTask brackets task.Run(): activeTask is the running task. *)

LEMMA ActiveNext == TypeInv /\ ActiveIsTheRun /\ [Next]_vars => ActiveIsTheRun'
<1> SUFFICES ASSUME TypeInv, ActiveIsTheRun, [Next]_vars PROVE ActiveIsTheRun'
  OBVIOUS
<1> USE DEF ActiveIsTheRun, TypeInv, TypeOK
<1>1. CASE UNCHANGED worker
  BY <1>1 DEF worker
<1>2. CASE Restart
  BY <1>2 DEF Restart, Idle, None
<1>3. ASSUME NEW p \in Pools, WorkerStep(p) PROVE ActiveIsTheRun'
  BY <1>3, TaskAssumption DEF CallsOK, WorkerStep, Dequeue, CheckCanceled, Activate, RunReturns,
     DeferDelete, DeferClear, Worker
<1>4. [Next]_vars => UNCHANGED worker \/ Restart \/ \E p \in Pools : WorkerStep(p)
  BY StepCases DEF AddBackupTask, AddRestoreTask, CancelMark, LoadPool, CreatePool, StoreTask,
     Submit, SubmitRefused, CancelActive, vars
<1> QED
  BY <1>1, <1>2, <1>3, <1>4

(* Whenever task.Run() is in progress activeTask points to its task, and   *)
(* activeTask never points to a task whose taskFn is over.                 *)
THEOREM ActiveCorrect == Spec => []ActiveIsTheRun
<1>1. Init => ActiveIsTheRun
  BY DEF Init, ActiveIsTheRun, Idle, None
<1> QED
  BY <1>1, ActiveNext, TypeInvariant, PTL DEF Spec

-----------------------------------------------------------------------------
(* Sequences without duplicates. *)

LEMMA ElementsAppend ==
    ASSUME NEW S, NEW s \in Seq(S), NEW e \in S
    PROVE  Elements(Append(s, e)) = Elements(s) \cup {e}
BY DEF Elements

LEMMA ElementsHeadTail ==
    ASSUME NEW S, NEW s \in Seq(S), s # <<>>
    PROVE  Elements(s) = {Head(s)} \cup Elements(Tail(s))
BY DEF Elements

LEMMA NoDupAppend ==
    ASSUME NEW S, NEW s \in Seq(S), NEW e \in S, NoDup(s), e \notin Elements(s)
    PROVE  NoDup(Append(s, e))
BY DEF Elements, NoDup

LEMMA NoDupTail ==
    ASSUME NEW S, NEW s \in Seq(S), s # <<>>, NoDup(s)
    PROVE  NoDup(Tail(s)) /\ Head(s) \notin Elements(Tail(s))
BY DEF Elements, NoDup

-----------------------------------------------------------------------------
(* A task is in one place of the pipeline. *)

LEMMA UniqueNext == TypeInv /\ Unique /\ [Next]_vars => Unique'
<1> SUFFICES ASSUME TypeInv, Unique, [Next]_vars PROVE Unique'
  OBVIOUS
<1> USE TaskAssumption DEF Unique, InPool, TypeInv, TypeOK, CallsOK, CallOK, Adding, AddingAt, HasPool,
        Kind, Callers, Adders, Tasks, pools, worker, flags, callers, history
<1>1. ASSUME NEW t \in BackupTasks, AddBackupTask(t) PROVE Unique'
  BY <1>1 DEF AddBackupTask, Goto
<1>2. ASSUME NEW t \in RestoreTasks, AddRestoreTask(t) PROVE Unique'
  BY <1>2 DEF AddRestoreTask, Goto
<1>3. ASSUME NEW c \in Callers, LoadPool(c) PROVE Unique'
  BY <1>3 DEF LoadPool, Goto
<1>4. ASSUME NEW c \in Callers, CreatePool(c) PROVE Unique'
  BY <1>4 DEF CreatePool, Goto
<1>5. ASSUME NEW c \in Callers, StoreTask(c) PROVE Unique'
  BY <1>5 DEF StoreTask, Goto
<1>6. ASSUME NEW c \in Callers, Submit(c) PROVE Unique'
  <2> DEFINE q == loc[c]
  <2>1. q \in Pools /\ c \in Adders /\ arg[c] \in Tasks /\ arg[c] \notin InPool(q) /\ arg[c] \in submitted
    BY <1>6 DEF Submit
  <2>2. /\ Elements(queue'[q]) = Elements(queue[q]) \cup {arg[c]}
        /\ NoDup(queue'[q])
    BY <1>6, <2>1, ElementsAppend, NoDupAppend DEF Submit
  <2>3. \A p \in Pools : p # q => queue'[p] = queue[p]
    BY <1>6 DEF Submit
  <2>4. UNCHANGED <<wpc, cur, submitted>>
    BY <1>6 DEF Submit
  <2>5. \A d \in Adders : Adding(d)' => d # c /\ Adding(d) /\ arg'[d] = arg[d] /\ arg[d] # arg[c]
    BY <1>6, <2>1 DEF Submit, Return, Goto
  <2> HIDE DEF q, Unique, InPool, TypeInv, Adding, Adders, Tasks
  <2>6. ASSUME NEW p \in Pools
        PROVE  InPool(p)' = IF p = q THEN InPool(p) \cup {arg[c]} ELSE InPool(p)
    BY <2>2, <2>3, <2>4 DEF InPool
  <2>7. ASSUME NEW p \in Pools
        PROVE  NoDup(queue'[p]) /\ (wpc'[p] # "idle" => cur'[p] \notin Elements(queue'[p]))
    BY <2>1, <2>2, <2>3, <2>4 DEF Unique, InPool
  <2>8. ASSUME NEW d \in Adders, Adding(d)'
        PROVE  arg'[d] \in submitted' /\ \A p \in Pools : arg'[d] \notin InPool(p)'
    BY <2>4, <2>5, <2>6, <2>8 DEF Unique
  <2>9. \A p \in Pools : InPool(p)' \subseteq submitted'
    BY <2>1, <2>4, <2>6 DEF Unique
  <2> QED
    BY <2>7, <2>8, <2>9 DEF Unique
<1>7. ASSUME NEW c \in Callers, SubmitRefused(c) PROVE Unique'
  BY <1>7 DEF SubmitRefused, Return, Goto
<1>8. ASSUME NEW c \in Callers, NEW x \in Tasks \cup Plans, NEW o \in Owners, CancelMark(c, x, o)
      PROVE Unique'
  BY <1>8 DEF CancelMark, Goto
<1>9. ASSUME NEW c \in Callers, CancelActive(c) PROVE Unique'
  BY <1>9 DEF CancelActive, Return, Goto
<1>10. ASSUME NEW p \in Pools, WorkerStep(p) PROVE Unique'
  <2>1. CASE Dequeue(p)
    <3> DEFINE h == Head(queue[p])
    <3>1. /\ Elements(queue[p]) = {h} \cup Elements(queue'[p])
          /\ NoDup(queue'[p]) /\ h \notin Elements(queue'[p])
      BY <2>1, ElementsHeadTail, NoDupTail DEF Dequeue
    <3>2. /\ cur'[p] = h /\ wpc[p] = "idle"
          /\ \A r \in Pools : r # p => queue'[r] = queue[r] /\ cur'[r] = cur[r] /\ wpc'[r] = wpc[r]
      BY <2>1 DEF Dequeue, Worker
    <3>3. UNCHANGED <<pc, arg, submitted>>
      BY <2>1 DEF Dequeue
    <3> HIDE DEF h
    <3> QED
      BY <3>1, <3>2, <3>3
  <2>2. CASE CheckCanceled(p)
    BY <2>2 DEF CheckCanceled, Worker
  <2>3. CASE Activate(p)
    BY <2>3 DEF Activate, Worker
  <2>4. CASE RunReturns(p)
    BY <2>4 DEF RunReturns, Worker
  <2>5. CASE DeferDelete(p)
    BY <2>5 DEF DeferDelete, Worker
  <2>6. CASE DeferClear(p)
    BY <2>6 DEF DeferClear, Worker
  <2> QED
    BY <1>10, <2>1, <2>2, <2>3, <2>4, <2>5, <2>6 DEF WorkerStep
<1>11. CASE Restart
  BY <1>11 DEF Restart, Idle, None, Elements, NoDup
<1>12. CASE UNCHANGED vars
  BY <1>12 DEF vars
<1> QED
  BY <1>1, <1>2, <1>3, <1>4, <1>5, <1>6, <1>7, <1>8, <1>9, <1>10, <1>11, <1>12, StepCases

LEMMA UniqueInvariant == Spec => []Unique
<1>1. Init => Unique
  BY DEF Init, Unique, InPool, Elements, NoDup, Idle, None, Adding, AddingAt, Callers, Adders
<1> QED
  BY <1>1, UniqueNext, TypeInvariant, PTL DEF Spec

-----------------------------------------------------------------------------
(* The table of a pool is exact. *)

LEMMA TableNext == TypeInv /\ Unique /\ TableIsExact /\ [Next]_vars => TableIsExact'
<1> SUFFICES ASSUME TypeInv, Unique, TableIsExact, [Next]_vars PROVE TableIsExact'
  OBVIOUS
<1> DEFINE Exact(p) == tasks[p] = Elements(queue[p]) \cup Held(p) \cup Storing(p)
<1>0. ASSUME \A p \in Pools : Exact(p)' PROVE TableIsExact'
  BY <1>0 DEF TableIsExact
<1>a. ASSUME \A d \in Adders : pc'[d] = "submit" <=> pc[d] = "submit",
             \A d \in Adders : pc[d] = "submit" => arg'[d] = arg[d] /\ loc'[d] = loc[d],
             NEW p \in Pools
      PROVE  Storing(p)' = Storing(p)
  <2>1. ASSUME NEW d \in Adders
        PROVE (pc[d] = "submit" /\ loc[d] = p)' <=> (pc[d] = "submit" /\ loc[d] = p)
    BY <1>a
  <2> QED
    BY <1>a, <2>1 DEF Storing
<1>b. ASSUME \A p \in Pools : Storing(p)' = Storing(p) /\ Held(p)' = Held(p), UNCHANGED <<tasks, queue>>
      PROVE TableIsExact'
  BY <1>b DEF TableIsExact
<1>c. ASSUME \A d \in Adders : pc'[d] = "submit" <=> pc[d] = "submit",
             \A d \in Adders : pc[d] = "submit" => arg'[d] = arg[d] /\ loc'[d] = loc[d],
             UNCHANGED <<tasks, queue, wpc, cur>>
      PROVE  TableIsExact'
  BY <1>a, <1>b, <1>c DEF Held
<1> USE TaskAssumption DEF TypeInv, TypeOK, CallsOK, CallOK, Adding, AddingAt, HasPool,
        Kind, Callers, Adders, Tasks, pools, worker, flags, callers, history
<1>1. ASSUME NEW t \in BackupTasks, AddBackupTask(t) PROVE TableIsExact'
  BY <1>1, <1>c DEF AddBackupTask, Goto
<1>2. ASSUME NEW t \in RestoreTasks, AddRestoreTask(t) PROVE TableIsExact'
  BY <1>2, <1>c DEF AddRestoreTask, Goto
<1>3. ASSUME NEW c \in Callers, LoadPool(c) PROVE TableIsExact'
  BY <1>3, <1>c DEF LoadPool, Goto
<1>4. ASSUME NEW c \in Callers, CreatePool(c) PROVE TableIsExact'
  BY <1>4, <1>c DEF CreatePool, Goto
<1>5. ASSUME NEW c \in Callers, StoreTask(c) PROVE TableIsExact'
  <2> SUFFICES ASSUME NEW p \in Pools PROVE Exact(p)'
    BY <1>0
  <2>1. c \in Adders /\ loc[c] \in Pools
    BY <1>5 DEF StoreTask
  <2>2. Storing(p)' = Storing(p) \cup {t \in {arg[c]} : loc[c] = p}
    BY <1>5, <2>1 DEF StoreTask, Goto, Storing
  <2>3. tasks'[p] = tasks[p] \cup {t \in {arg[c]} : loc[c] = p}
    BY <1>5, <2>1 DEF StoreTask
  <2>4. queue'[p] = queue[p] /\ Held(p)' = Held(p)
    BY <1>5 DEF StoreTask, Held
  <2> QED
    BY <2>2, <2>3, <2>4 DEF TableIsExact
<1>6. ASSUME NEW c \in Callers, Submit(c) PROVE TableIsExact'
  <2> SUFFICES ASSUME NEW p \in Pools PROVE Exact(p)'
    BY <1>0
  <2>1. c \in Adders /\ loc[c] \in Pools /\ arg[c] \in Tasks
    BY <1>6 DEF Submit
  <2>2. Storing(p) = Storing(p)' \cup {t \in {arg[c]} : loc[c] = p}
    BY <1>6, <2>1 DEF Submit, Return, Goto, Storing
  <2>3. Elements(queue'[p]) = Elements(queue[p]) \cup {t \in {arg[c]} : loc[c] = p}
    <3>1. Elements(Append(queue[p], arg[c])) = Elements(queue[p]) \cup {arg[c]}
      <4>1. queue[p] \in Seq(Tasks)
        OBVIOUS
      <4> HIDE DEF TypeInv, Tasks
      <4> QED
        BY <2>1, <4>1, ElementsAppend
    <3>2. queue'[p] = IF loc[c] = p THEN Append(queue[p], arg[c]) ELSE queue[p]
      BY <1>6, <2>1 DEF Submit
    <3> QED
      BY <3>1, <3>2
  <2>4. tasks'[p] = tasks[p] /\ Held(p)' = Held(p)
    BY <1>6 DEF Submit, Held
  <2> QED
    BY <2>2, <2>3, <2>4 DEF TableIsExact
<1>7. ASSUME NEW c \in Callers, SubmitRefused(c) PROVE TableIsExact'
  <2> SUFFICES ASSUME NEW p \in Pools PROVE Exact(p)'
    BY <1>0
  <2>1. c \in Adders /\ loc[c] \in Pools /\ Adding(c)
    BY <1>7 DEF SubmitRefused
  <2>2. Storing(p)' = Storing(p) \ {t \in {arg[c]} : loc[c] = p}
    <3>1. \A d \in Adders : (pc[d] = "submit" /\ loc[d] = p)' <=> d # c /\ pc[d] = "submit" /\ loc[d] = p
      BY <1>7, <2>1 DEF SubmitRefused, Return, Goto
    <3>2. \A d \in Adders : d # c => arg'[d] = arg[d] /\ (pc[d] = "submit" => arg[d] # arg[c])
      BY <1>7, <2>1 DEF SubmitRefused, Return
    <3>3. pc[c] = "submit"
      BY <1>7 DEF SubmitRefused
    <3> QED
      BY <2>1, <3>1, <3>2, <3>3 DEF Storing
  <2>3. tasks'[p] = tasks[p] \ {t \in {arg[c]} : loc[c] = p}
    BY <1>7, <2>1 DEF SubmitRefused
  <2>4. queue'[p] = queue[p] /\ Held(p)' = Held(p)
    BY <1>7 DEF SubmitRefused, Held
  <2>5. arg[c] \notin Elements(queue[p]) /\ arg[c] \notin Held(p)
    BY <2>1 DEF Unique, InPool, Held
  <2> QED
    BY <2>2, <2>3, <2>4, <2>5 DEF TableIsExact
<1>8. ASSUME NEW c \in Callers, NEW x \in Tasks \cup Plans, NEW o \in Owners, CancelMark(c, x, o)
      PROVE TableIsExact'
  BY <1>8, <1>c DEF CancelMark, Goto
<1>9. ASSUME NEW c \in Callers, CancelActive(c) PROVE TableIsExact'
  BY <1>9, <1>c DEF CancelActive, Return, Goto
<1>10. ASSUME NEW p \in Pools, WorkerStep(p) PROVE TableIsExact'
  <2>1. CASE Dequeue(p)
    <3> SUFFICES ASSUME NEW r \in Pools PROVE Exact(r)'
      BY <1>0
    <3>1. Elements(queue[p]) = {Head(queue[p])} \cup Elements(queue'[p])
      BY <2>1, ElementsHeadTail DEF Dequeue
    <3>2. Held(p) = {} /\ Held(p)' = {Head(queue[p])}
      BY <2>1 DEF Dequeue, Worker, Held
    <3>3. r # p => queue'[r] = queue[r] /\ Held(r)' = Held(r)
      BY <2>1 DEF Dequeue, Worker, Held
    <3>4. tasks'[r] = tasks[r] /\ Storing(r)' = Storing(r)
      BY <2>1 DEF Dequeue, Storing
    <3> QED
      BY <3>1, <3>2, <3>3, <3>4 DEF TableIsExact
  <2>2. CASE CheckCanceled(p) \/ Activate(p) \/ RunReturns(p) \/ DeferClear(p)
    <3>1. \A r \in Pools : Held(r)' = Held(r)
      BY <2>2 DEF CheckCanceled, Activate, RunReturns, DeferClear, Worker, Held
    <3>2. UNCHANGED <<tasks, queue, pc, arg, loc>>
      BY <2>2 DEF CheckCanceled, Activate, RunReturns, DeferClear
    <3> QED
      BY <1>a, <1>b, <3>1, <3>2
  <2>3. CASE DeferDelete(p)
    <3> SUFFICES ASSUME NEW r \in Pools PROVE Exact(r)'
      BY <1>0
    <3>1. Held(p) = {cur[p]} /\ Held(p)' = {} /\ tasks'[p] = tasks[p] \ {cur[p]}
      BY <2>3 DEF DeferDelete, Worker, Held
    <3>2. r # p => tasks'[r] = tasks[r] /\ Held(r)' = Held(r)
      BY <2>3 DEF DeferDelete, Worker, Held
    <3>3. queue' = queue /\ Storing(r)' = Storing(r)
      BY <2>3 DEF DeferDelete, Storing
    <3>4. cur[p] \notin Elements(queue[p]) /\ cur[p] \notin Storing(p)
      BY <2>3 DEF DeferDelete, Worker, Unique, InPool, Storing
    <3> QED
      BY <3>1, <3>2, <3>3, <3>4 DEF TableIsExact
  <2> QED
    BY <1>10, <2>1, <2>2, <2>3 DEF WorkerStep
<1>11. CASE Restart
  BY <1>11 DEF Restart, Idle, None, Elements, TableIsExact, Held, Storing
<1>12. CASE UNCHANGED vars
  BY <1>12, <1>c DEF vars
<1> QED
  BY <1>1, <1>2, <1>3, <1>4, <1>5, <1>6, <1>7, <1>8, <1>9, <1>10, <1>11, <1>12, StepCases

(* addTask, ExistsTask and taskFn's defer: the table of a pool lists the   *)
(* tasks that are queued, held by the worker or about to be submitted, and *)
(* nothing else.                                                           *)
THEOREM TableCorrect == Spec => []TableIsExact
<1>1. Init => TableIsExact
  BY DEF Init, Elements, TableIsExact, Held, Storing, Idle, Callers, Adders
<1> QED
  BY <1>1, TableNext, TypeInvariant, UniqueInvariant, PTL DEF Spec

-----------------------------------------------------------------------------
(* A pool is untouched until it is registered. *)

LEMMA PoolPairs ==
    /\ \A o \in Owners, a \in Adders : <<o, a>> \in Pools
    /\ \A o, a, o2, a2 : <<o, a>> = <<o2, a2>> => o = o2 /\ a = a2
    /\ \A p \in Pools : p[1] \in Owners /\ p[2] \in Adders /\ p = <<p[1], p[2]>>
BY DEF Pools

(* A worker only takes tasks out of tables, and leaves the calls alone. *)
LEMMA WorkerFrame ==
    ASSUME TypeInv, NEW p \in Pools, WorkerStep(p)
    PROVE  /\ UNCHANGED <<userPools, pc, arg, loc, canceled>>
           /\ \A q \in Pools : tasks'[q] \subseteq tasks[q]
<1> USE DEF TypeInv, TypeOK, pools, worker, flags, callers, history
<1>1. CASE DeferDelete(p)
  BY <1>1 DEF DeferDelete
<1>2. CASE ~DeferDelete(p)
  BY <1>2 DEF WorkerStep, Dequeue, CheckCanceled, Activate, RunReturns, DeferClear
<1> QED
  BY <1>1, <1>2

(* Steps that register no pool, fill no table and start no use of a pool. *)
LEMMA PoolGuardFrame ==
    ASSUME TypeInv, PoolGuard, userPools' = userPools,
           \A p \in Pools : tasks'[p] \subseteq tasks[p],
           \A c \in Adders : HasPool(c)' => HasPool(c) /\ loc'[c] = loc[c],
           \A c \in Adders : pc'[c] = "create" => pc[c] = "create" /\ arg'[c] = arg[c]
    PROVE  PoolGuard'
<1>1. ASSUME NEW o \in Owners, NEW a \in Adders, Untouched(o, a) PROVE Untouched(o, a)'
  BY <1>1, PoolPairs DEF Untouched
<1>2. ASSUME NEW c \in Adders, pc[c] = "create" PROVE OwnerOf[arg[c]] \in Owners
  BY <1>2, TaskAssumption DEF TypeInv, CallsOK, CallOK, Adding, AddingAt, Kind, Tasks, Callers
<1> QED
  BY <1>1, <1>2 DEF PoolGuard

LEMMA PoolGuardNext == TypeInv /\ PoolGuard /\ [Next]_vars => PoolGuard'
<1> SUFFICES ASSUME TypeInv, PoolGuard, [Next]_vars PROVE PoolGuard'
  OBVIOUS
<1> USE TaskAssumption DEF TypeInv, TypeOK, CallsOK, CallOK, Adding, AddingAt,
        HasPool, Kind, Callers, Adders, Tasks, pools, worker, flags, callers, history
<1>1. ASSUME NEW t \in BackupTasks, AddBackupTask(t) PROVE PoolGuard'
  BY <1>1, PoolGuardFrame DEF AddBackupTask, Goto
<1>2. ASSUME NEW t \in RestoreTasks, AddRestoreTask(t) PROVE PoolGuard'
  BY <1>2, PoolGuardFrame DEF AddRestoreTask, Goto
<1>3. ASSUME NEW c \in Callers, LoadPool(c) PROVE PoolGuard'
  <2> DEFINE o == OwnerOf[arg[c]]
  <2>1. c \in Adders /\ o \in Owners /\ UNCHANGED <<userPools, tasks, arg>>
    BY <1>3 DEF LoadPool
  <2>2. CASE userPools[o] = "none"
    <3>1. Untouched(o, c)
      BY <2>1, <2>2 DEF PoolGuard
    <3>2. loc' = loc /\ pc' = [pc EXCEPT ![c] = "create"]
      BY <1>3, <2>2 DEF LoadPool, Goto
    <3>3. ASSUME NEW r \in Owners, NEW a \in Adders, Untouched(r, a) PROVE Untouched(r, a)'
      BY <2>1, <3>2, <3>3 DEF Untouched
    <3> QED
      BY <2>1, <3>1, <3>2, <3>3 DEF PoolGuard
  <2>3. CASE userPools[o] # "none"
    <3>1. loc' = [loc EXCEPT ![c] = <<o, userPools[o]>>] /\ pc' = [pc EXCEPT ![c] = "table"]
      BY <1>3, <2>3 DEF LoadPool, Goto, Registered
    <3>2. ASSUME NEW r \in Owners, NEW a \in Adders, Untouched(r, a) PROVE Untouched(r, a)'
      BY <2>1, <3>1, <3>2, PoolPairs DEF Untouched
    <3> QED
      BY <2>1, <3>1, <3>2 DEF PoolGuard
  <2> QED
    BY <2>2, <2>3
<1>4. ASSUME NEW c \in Callers, CreatePool(c) PROVE PoolGuard'
  <2> DEFINE o == OwnerOf[arg[c]]
  <2>1. c \in Adders /\ o \in Owners /\ UNCHANGED <<tasks, arg>> /\ pc' = [pc EXCEPT ![c] = "table"]
    BY <1>4 DEF CreatePool, Goto
  <2>2. userPools' = [userPools EXCEPT ![o] = c] /\ loc' = [loc EXCEPT ![c] = <<o, c>>]
    BY <1>4 DEF CreatePool
  <2>3. ASSUME NEW r \in Owners, NEW a \in Adders, Untouched(r, a), <<r, a>> # <<o, c>>
        PROVE  Untouched(r, a)'
    BY <2>1, <2>2, <2>3, PoolPairs DEF Untouched
  <2>4. ASSUME NEW r \in Owners, NEW a \in Adders, userPools'[r] = "none" PROVE Untouched(r, a)'
    BY <2>1, <2>2, <2>3, <2>4, PoolPairs DEF PoolGuard
  <2>5. ASSUME NEW d \in Adders, pc'[d] = "create" PROVE Untouched(OwnerOf[arg[d]], d)'
    BY <2>1, <2>2, <2>3, <2>5, PoolPairs DEF PoolGuard
  <2> QED
    BY <2>4, <2>5 DEF PoolGuard
<1>5. ASSUME NEW c \in Callers, StoreTask(c) PROVE PoolGuard'
  <2>1. c \in Adders /\ HasPool(c) /\ UNCHANGED <<userPools, arg, loc>> /\ pc' = [pc EXCEPT ![c] = "submit"]
    BY <1>5 DEF StoreTask, Goto
  <2>2. ASSUME NEW r \in Owners, NEW a \in Adders, Untouched(r, a) PROVE Untouched(r, a)'
    <3>1. <<r, a>> \in Pools /\ loc[c] # <<r, a>>
      BY <2>1, <2>2, PoolPairs DEF Untouched
    <3>2. tasks'[<<r, a>>] = tasks[<<r, a>>]
      BY <1>5, <3>1 DEF StoreTask
    <3> QED
      BY <2>1, <2>2, <3>2 DEF Untouched
  <2> QED
    BY <2>1, <2>2 DEF PoolGuard
<1>6. ASSUME NEW c \in Callers, Submit(c) PROVE PoolGuard'
  BY <1>6, PoolGuardFrame DEF Submit, Return, Goto
<1>7. ASSUME NEW c \in Callers, SubmitRefused(c) PROVE PoolGuard'
  <2>1. \A p \in Pools : tasks'[p] \subseteq tasks[p]
    BY <1>7 DEF SubmitRefused
  <2> QED
    BY <1>7, <2>1, PoolGuardFrame DEF SubmitRefused, Return, Goto
<1>8. ASSUME NEW c \in Callers, NEW x \in Tasks \cup Plans, NEW o \in Owners, CancelMark(c, x, o)
      PROVE PoolGuard'
  BY <1>8, PoolGuardFrame DEF CancelMark, Goto
<1>9. ASSUME NEW c \in Callers, CancelActive(c) PROVE PoolGuard'
  BY <1>9, PoolGuardFrame DEF CancelActive, Return, Goto
<1>10. ASSUME NEW p \in Pools, WorkerStep(p) PROVE PoolGuard'
  BY <1>10, WorkerFrame, PoolGuardFrame
<1>11. CASE Restart
  BY <1>11, PoolPairs DEF Restart, Idle, PoolGuard, Untouched
<1>12. CASE UNCHANGED vars
  BY <1>12, PoolGuardFrame DEF vars
<1> QED
  BY <1>1, <1>2, <1>3, <1>4, <1>5, <1>6, <1>7, <1>8, <1>9, <1>10, <1>11, <1>12, StepCases

LEMMA PoolGuardInvariant == Spec => []PoolGuard
<1>1. Init => PoolGuard
  BY PoolPairs DEF Init, PoolGuard, Untouched, HasPool, Idle, Callers, Adders
<1> QED
  BY <1>1, PoolGuardNext, TypeInvariant, PTL DEF Spec

-----------------------------------------------------------------------------
(* The answer of ExistsTask still holds when the task is stored. *)

LEMMA RegisteredPool ==
    ASSUME TypeInv, pc["snapshot"] = "load", userPools[OwnerOf[arg["snapshot"]]] # "none"
    PROVE  Registered(OwnerOf[arg["snapshot"]]) \in Pools
<1>1. OwnerOf[arg["snapshot"]] \in Owners
  BY TaskAssumption DEF TypeInv, CallsOK, CallOK, Adding, AddingAt, Kind, Tasks, Callers, Adders
<1>2. userPools[OwnerOf[arg["snapshot"]]] \in Adders
  BY <1>1 DEF TypeInv, TypeOK
<1> QED
  BY <1>1, <1>2, PoolPairs DEF Registered

(* Steps that register no pool, fill no table and clear no flag. *)
LEMMA OneLiveFrame ==
    ASSUME TypeInv, PlanGuard, OneLiveTaskPerPlan, userPools' = userPools,
           \A p \in Pools : tasks'[p] \subseteq tasks[p],
           \A t \in Tasks : canceled[t] => canceled'[t],
           pc'["snapshot"] \in {"load", "table"} =>
               /\ pc'["snapshot"] = pc["snapshot"]
               /\ arg'["snapshot"] = arg["snapshot"]
               /\ loc'["snapshot"] = loc["snapshot"]
    PROVE  (PlanGuard /\ OneLiveTaskPerPlan)'
<1>1. ASSUME NEW p \in Pools, NEW t, FreeFor(p, t) PROVE FreeFor(p, t)'
  BY <1>1 DEF FreeFor, Tasks
<1>2. OneLiveTaskPerPlan'
  BY DEF OneLiveTaskPerPlan, Tasks
<1>3. pc["snapshot"] = "load" /\ userPools[OwnerOf[arg["snapshot"]]] # "none"
          => Registered(OwnerOf[arg["snapshot"]]) \in Pools
  BY RegisteredPool
<1>4. pc["snapshot"] = "table" => loc["snapshot"] \in Pools
  BY DEF TypeInv, CallsOK, CallOK, HasPool, Callers, Adders
<1>5. PlanGuard'
  BY <1>1, <1>3, <1>4 DEF PlanGuard, Registered
<1> QED
  BY <1>2, <1>5

LEMMA OneLiveNext ==
    TypeInv /\ PoolGuard /\ PlanGuard /\ OneLiveTaskPerPlan /\ [Next]_vars
        => (PlanGuard /\ OneLiveTaskPerPlan)'
<1> SUFFICES ASSUME TypeInv, PoolGuard, PlanGuard, OneLiveTaskPerPlan, [Next]_vars
             PROVE  (PlanGuard /\ OneLiveTaskPerPlan)'
  OBVIOUS
<1> DEFINE Goal == PlanGuard /\ OneLiveTaskPerPlan
<1> USE TaskAssumption DEF TypeInv, TypeOK, CallsOK, CallOK, Adding, AddingAt, HasPool, Kind,
        Callers, Adders, Tasks, pools, worker, flags, callers, history
<1>1. ASSUME NEW t \in BackupTasks, AddBackupTask(t) PROVE Goal'
  <2>1. OneLiveTaskPerPlan'
    BY <1>1 DEF AddBackupTask, OneLiveTaskPerPlan
  <2>2. CASE ExistsTask(t)
    BY <1>1, <2>2, OneLiveFrame DEF AddBackupTask
  <2>3. CASE ~ExistsTask(t)
    <3>1. userPools[OwnerOf[t]] # "none" => FreeFor(Registered(OwnerOf[t]), t)
      BY <2>3 DEF ExistsTask, FreeFor
    <3>2. pc'["snapshot"] = "load" /\ arg'["snapshot"] = t /\ UNCHANGED <<userPools, tasks, canceled>>
      BY <1>1, <2>3 DEF AddBackupTask, Goto
    <3> QED
      BY <2>1, <3>1, <3>2 DEF PlanGuard, FreeFor, Registered
  <2> QED
    BY <2>2, <2>3
<1>2. ASSUME NEW t \in RestoreTasks, AddRestoreTask(t) PROVE Goal'
  BY <1>2, OneLiveFrame DEF AddRestoreTask, Goto
<1>3. ASSUME NEW c \in Callers, LoadPool(c) PROVE Goal'
  <2>1. OneLiveTaskPerPlan' /\ UNCHANGED <<userPools, tasks, canceled, arg>>
    BY <1>3 DEF LoadPool, OneLiveTaskPerPlan
  <2>2. CASE c = "snapshot"
    <3> DEFINE o == OwnerOf[arg[c]]
    <3>1. CASE userPools[o] = "none"
      <4>1. pc'[c] = "create"
        BY <1>3, <3>1 DEF LoadPool, Goto
      <4> QED
        BY <2>1, <2>2, <4>1 DEF PlanGuard
    <3>2. CASE userPools[o] # "none"
      <4>1. pc'[c] = "table" /\ loc'[c] = Registered(o) /\ pc[c] = "load"
        BY <1>3, <3>2 DEF LoadPool, Goto
      <4>2. FreeFor(Registered(o), arg[c])
        BY <2>2, <3>2, <4>1 DEF PlanGuard
      <4> QED
        BY <2>1, <2>2, <4>1, <4>2 DEF PlanGuard, FreeFor
    <3> QED
      BY <3>1, <3>2
  <2>3. CASE c # "snapshot"
    BY <1>3, <2>3, OneLiveFrame DEF LoadPool, Goto
  <2> QED
    BY <2>2, <2>3
<1>4. ASSUME NEW c \in Callers, CreatePool(c) PROVE Goal'
  <2> DEFINE o == OwnerOf[arg[c]]
  <2>1. OneLiveTaskPerPlan' /\ UNCHANGED <<tasks, canceled, arg>> /\ pc' = [pc EXCEPT ![c] = "table"]
    BY <1>4 DEF CreatePool, Goto, OneLiveTaskPerPlan
  <2>2. /\ c \in Adders /\ o \in Owners /\ tasks[<<o, c>>] = {}
        /\ userPools' = [userPools EXCEPT ![o] = c] /\ loc' = [loc EXCEPT ![c] = <<o, c>>]
    BY <1>4 DEF CreatePool, PoolGuard, Untouched
  <2>3. CASE c = "snapshot"
    BY <2>1, <2>2, <2>3 DEF PlanGuard, FreeFor
  <2>4. CASE c # "snapshot"
    BY <2>1, <2>2, <2>4 DEF PlanGuard, FreeFor, Registered
  <2> QED
    BY <2>3, <2>4
<1>5. ASSUME NEW c \in Callers, StoreTask(c) PROVE Goal'
  <2>1. /\ c \in Adders /\ arg[c] \in Kind(c) /\ loc[c] \in Pools
        /\ UNCHANGED <<userPools, canceled, arg, loc>> /\ pc' = [pc EXCEPT ![c] = "submit"]
        /\ tasks' = [tasks EXCEPT ![loc[c]] = @ \cup {arg[c]}]
    BY <1>5 DEF StoreTask, Goto
  <2>2. CASE c = "snapshot"
    <3>1. FreeFor(loc[c], arg[c])
      BY <1>5, <2>2 DEF StoreTask, PlanGuard
    <3>2. PlanGuard'
      BY <2>1, <2>2 DEF PlanGuard
    <3>3. OneLiveTaskPerPlan'
      BY <2>1, <3>1 DEF FreeFor, OneLiveTaskPerPlan
    <3> QED
      BY <3>2, <3>3
  <2>3. CASE c = "restore"
    <3>1. \A p \in Pools : tasks'[p] \cap BackupTasks = tasks[p] \cap BackupTasks
      BY <2>1, <2>3
    <3>2. OneLiveTaskPerPlan'
      BY <2>1, <3>1 DEF OneLiveTaskPerPlan
    <3>3. pc["snapshot"] = "load" /\ userPools[OwnerOf[arg["snapshot"]]] # "none"
              => Registered(OwnerOf[arg["snapshot"]]) \in Pools
      BY RegisteredPool
    <3>4. ASSUME NEW p \in Pools, NEW t, FreeFor(p, t) PROVE FreeFor(p, t)'
      BY <2>1, <3>1, <3>4 DEF FreeFor
    <3>5. PlanGuard'
      BY <2>1, <2>3, <3>3, <3>4 DEF PlanGuard, Registered
    <3> QED
      BY <3>2, <3>5
  <2> QED
    BY <2>1, <2>2, <2>3
<1>6. ASSUME NEW c \in Callers, Submit(c) PROVE Goal'
  BY <1>6, OneLiveFrame DEF Submit, Return, Goto
<1>7. ASSUME NEW c \in Callers, SubmitRefused(c) PROVE Goal'
  <2>1. \A p \in Pools : tasks'[p] \subseteq tasks[p]
    BY <1>7 DEF SubmitRefused
  <2> QED
    BY <1>7, <2>1, OneLiveFrame DEF SubmitRefused, Return, Goto
<1>8. ASSUME NEW c \in Callers, NEW x \in Tasks \cup Plans, NEW o \in Owners, CancelMark(c, x, o)
      PROVE Goal'
  <2>1. \A t \in Tasks : canceled[t] => canceled'[t]
    BY <1>8 DEF CancelMark
  <2> QED
    BY <1>8, <2>1, OneLiveFrame DEF CancelMark, Goto
<1>9. ASSUME NEW c \in Callers, CancelActive(c) PROVE Goal'
  BY <1>9, OneLiveFrame DEF CancelActive, Return, Goto
<1>10. ASSUME NEW p \in Pools, WorkerStep(p) PROVE Goal'
  BY <1>10, WorkerFrame, OneLiveFrame
<1>11. CASE Restart
  BY <1>11 DEF Restart, Idle, PlanGuard, OneLiveTaskPerPlan
<1>12. CASE UNCHANGED vars
  BY <1>12, OneLiveFrame DEF vars
<1> QED
  BY <1>1, <1>2, <1>3, <1>4, <1>5, <1>6, <1>7, <1>8, <1>9, <1>10, <1>11, <1>12, StepCases

(* AddBackupTask refuses a snapshot whose plan has one "currently running  *)
(* or queued": a pool never holds two tasks of one plan that are both not  *)
(* cancelled, although the check and the store are three steps apart and   *)
(* the owner's pool may be replaced between them.                          *)
THEOREM OneLiveCorrect == Spec => []OneLiveTaskPerPlan
<1>1. Init => PlanGuard /\ OneLiveTaskPerPlan
  BY DEF Init, PlanGuard, OneLiveTaskPerPlan, Idle, Callers, Adders
<1> QED
  BY <1>1, OneLiveNext, TypeInvariant, PoolGuardInvariant, PTL DEF Spec

-----------------------------------------------------------------------------
(* A task that is flagged while it waits never runs. *)

(* The tasks that pool p may still run. *)
Waiting(p) == Elements(queue[p]) \cup {t \in {cur[p]} : wpc[p] \in {"check", "activate"}}

(* Pools share no task, and what may still run has not run. *)
RanOnce ==
    /\ ran \subseteq submitted
    /\ \A p, q \in Pools : p # q => InPool(p) \cap InPool(q) = {}
    /\ \A p \in Pools : Waiting(p) \cap ran = {}
    /\ \A c \in Adders : Adding(c) => arg[c] \notin ran

(* Task t was added once, and every way to its run goes past its flag. *)
Doomed(t) ==
    /\ t \in submitted \ ran
    /\ \A c \in Adders : Adding(c) => arg[c] # t
    /\ \A p \in Pools : wpc[p] = "activate" => cur[p] # t
    /\ \A p \in Pools : t \in Elements(queue[p]) \/ (wpc[p] = "check" /\ cur[p] = t) => canceled[t]

(* Steps that add and move no task. *)
LEMMA RanFrame ==
    ASSUME UNCHANGED <<queue, wpc, cur, ran>>, submitted \subseteq submitted',
           \A t \in Tasks : canceled[t] => canceled'[t],
           \A c \in Adders : Adding(c)' => (Adding(c) /\ arg'[c] = arg[c]) \/ arg'[c] \notin submitted
    PROVE  /\ RanOnce => RanOnce'
           /\ \A t \in Tasks : Doomed(t) => Doomed(t)'
<1>1. \A p \in Pools : InPool(p)' = InPool(p) /\ Waiting(p)' = Waiting(p)
  BY DEF InPool, Waiting
<1>2. RanOnce => RanOnce'
  BY <1>1 DEF RanOnce
<1>3. ASSUME NEW t \in Tasks, Doomed(t) PROVE Doomed(t)'
  BY <1>3 DEF Doomed
<1> QED
  BY <1>2, <1>3

(* The steps of the calls other than TrySubmit. *)
LEMMA CallsMoveNothing ==
    ASSUME TypeInv, Unique, RanOnce,
           \/ \E t \in BackupTasks : AddBackupTask(t)
           \/ \E t \in RestoreTasks : AddRestoreTask(t)
           \/ \E c \in Callers, x \in Tasks \cup Plans, o \in Owners : CancelMark(c, x, o)
           \/ \E c \in Callers :
                 LoadPool(c) \/ CreatePool(c) \/ StoreTask(c) \/ SubmitRefused(c) \/ CancelActive(c)
           \/ UNCHANGED vars
    PROVE  RanOnce' /\ \A t \in Tasks : Doomed(t) => Doomed(t)'
<1> USE TaskAssumption DEF TypeInv, TypeOK, CallsOK, CallOK, Adding, AddingAt, HasPool, Kind,
        Callers, Adders, Tasks, pools, worker, flags, callers, history
<1>1. ASSUME NEW t \in BackupTasks, AddBackupTask(t)
      PROVE  RanOnce' /\ \A u \in Tasks : Doomed(u) => Doomed(u)'
  BY <1>1, RanFrame DEF AddBackupTask, Goto
<1>2. ASSUME NEW t \in RestoreTasks, AddRestoreTask(t)
      PROVE  RanOnce' /\ \A u \in Tasks : Doomed(u) => Doomed(u)'
  BY <1>2, RanFrame DEF AddRestoreTask, Goto
<1>3. ASSUME NEW c \in Callers, NEW x \in Tasks \cup Plans, NEW o \in Owners, CancelMark(c, x, o)
      PROVE  RanOnce' /\ \A u \in Tasks : Doomed(u) => Doomed(u)'
  <2>1. \A t \in Tasks : canceled[t] => canceled'[t]
    BY <1>3 DEF CancelMark
  <2> QED
    BY <1>3, <2>1, RanFrame DEF CancelMark, Goto
<1>4. ASSUME NEW c \in Callers, LoadPool(c) \/ CreatePool(c) \/ StoreTask(c)
      PROVE  RanOnce' /\ \A u \in Tasks : Doomed(u) => Doomed(u)'
  BY <1>4, RanFrame DEF LoadPool, CreatePool, StoreTask, Goto
<1>5. ASSUME NEW c \in Callers, SubmitRefused(c) \/ CancelActive(c)
      PROVE  RanOnce' /\ \A u \in Tasks : Doomed(u) => Doomed(u)'
  BY <1>5, RanFrame DEF SubmitRefused, CancelActive, Return, Goto
<1>6. ASSUME UNCHANGED vars PROVE RanOnce' /\ \A u \in Tasks : Doomed(u) => Doomed(u)'
  BY <1>6, RanFrame DEF vars
<1> QED
  BY <1>1, <1>2, <1>3, <1>4, <1>5, <1>6

LEMMA RanSubmit ==
    ASSUME TypeInv, Unique, RanOnce, NEW c \in Callers, Submit(c)
    PROVE  RanOnce' /\ \A t \in Tasks : Doomed(t) => Doomed(t)'
<1> DEFINE q == loc[c]
<1> USE DEF pools, worker, flags, callers, history
<1>1. q \in Pools /\ c \in Adders /\ arg[c] \in Tasks /\ Adding(c) /\ queue[q] \in Seq(Tasks)
  BY TaskAssumption DEF Submit, TypeInv, TypeOK, CallsOK, CallOK, Adding, AddingAt, HasPool, Kind, Tasks, Adders
<1>2. \A p \in Pools :
          Elements(queue'[p]) = IF p = q THEN Elements(queue[q]) \cup {arg[c]} ELSE Elements(queue[p])
  <2>1. queue'[q] = Append(queue[q], arg[c]) /\ \A p \in Pools : p # q => queue'[p] = queue[p]
    BY <1>1 DEF Submit, TypeInv, TypeOK
  <2>2. Elements(Append(queue[q], arg[c])) = Elements(queue[q]) \cup {arg[c]}
    BY <1>1, ElementsAppend
  <2> HIDE DEF q
  <2> QED
    BY <2>1, <2>2
<1>3. UNCHANGED <<wpc, cur, ran, submitted, canceled>>
  BY DEF Submit
<1>4. \A d \in Adders : Adding(d)' => Adding(d) /\ arg'[d] = arg[d]
  BY <1>1 DEF Submit, Return, Goto, Adding, AddingAt, TypeInv, TypeOK, Adders, Callers
<1> HIDE DEF q
<1>5. \A p \in Pools : /\ InPool(p)' = IF p = q THEN InPool(p) \cup {arg[c]} ELSE InPool(p)
                       /\ Waiting(p)' = IF p = q THEN Waiting(p) \cup {arg[c]} ELSE Waiting(p)
  BY <1>2, <1>3 DEF InPool, Waiting
<1>6. \A p \in Pools : arg[c] \notin InPool(p)
  BY <1>1 DEF Unique
<1>7. RanOnce'
  BY <1>1, <1>3, <1>4, <1>5, <1>6 DEF RanOnce
<1>8. ASSUME NEW t \in Tasks, Doomed(t) PROVE Doomed(t)'
  <2>1. arg[c] # t
    BY <1>1, <1>8 DEF Doomed
  <2> QED
    BY <1>2, <1>3, <1>4, <1>8, <2>1 DEF Doomed
<1> QED
  BY <1>7, <1>8

LEMMA RanWorker ==
    ASSUME TypeInv, Unique, RanOnce, NEW p \in Pools, WorkerStep(p)
    PROVE  RanOnce' /\ \A t \in Tasks : Doomed(t) => Doomed(t)'
<1> USE DEF pools, worker, flags, callers, history, TypeInv, TypeOK
<1>0. UNCHANGED <<submitted, canceled, pc, arg>> /\ \A d \in Adders : Adding(d)' => Adding(d)
  BY DEF WorkerStep, Dequeue, CheckCanceled, Activate, RunReturns, DeferDelete, DeferClear, Adding
<1>1. CASE Dequeue(p)
  <2> DEFINE h == Head(queue[p])
  <2>1. /\ Elements(queue[p]) = {h} \cup Elements(queue'[p])
        /\ cur'[p] = h /\ wpc[p] = "idle" /\ wpc'[p] = "check" /\ ran' = ran
        /\ \A r \in Pools : r # p => queue'[r] = queue[r] /\ cur'[r] = cur[r] /\ wpc'[r] = wpc[r]
    BY <1>1, ElementsHeadTail DEF Dequeue, Worker
  <2> HIDE DEF h
  <2>2. \A r \in Pools : InPool(r)' = InPool(r) /\ Waiting(r)' = Waiting(r)
    BY <2>1 DEF InPool, Waiting
  <2>3. RanOnce'
    BY <1>0, <2>1, <2>2 DEF RanOnce
  <2>4. ASSUME NEW t \in Tasks, Doomed(t) PROVE Doomed(t)'
    BY <1>0, <2>1, <2>4 DEF Doomed
  <2> QED
    BY <2>3, <2>4
<1>2. CASE Activate(p)
  <2>1. /\ cur[p] \in Waiting(p) /\ cur[p] \in InPool(p) /\ cur[p] \notin Elements(queue[p])
        /\ wpc[p] = "activate" /\ wpc' = [wpc EXCEPT ![p] = "run"] /\ UNCHANGED <<queue, cur>>
        /\ ran' = ran \cup {cur[p]}
    BY <1>2 DEF Activate, Worker, Waiting, InPool, Unique
  <2>2. \A r \in Pools : Waiting(r)' \subseteq Waiting(r) \ {cur[p]}
    <3>1. cur[p] \notin Waiting(p)'
      BY <2>1 DEF Waiting
    <3>2. \A r \in Pools : r # p => cur[p] \notin Waiting(r)
      BY <2>1 DEF Waiting, InPool, RanOnce
    <3> QED
      BY <2>1, <3>1, <3>2 DEF Waiting
  <2>3. \A r \in Pools : InPool(r)' = InPool(r)
    BY <2>1 DEF InPool
  <2>4. cur[p] \in submitted /\ \A c \in Adders : Adding(c) => arg[c] # cur[p]
    BY <2>1 DEF Unique
  <2>5. RanOnce'
    BY <1>0, <2>1, <2>2, <2>3, <2>4 DEF RanOnce
  <2>6. ASSUME NEW t \in Tasks, Doomed(t) PROVE Doomed(t)'
    BY <1>0, <2>1, <2>6 DEF Doomed
  <2> QED
    BY <2>5, <2>6
<1>3. CASE CheckCanceled(p) \/ RunReturns(p) \/ DeferDelete(p) \/ DeferClear(p)
  <2>1. /\ queue' = queue /\ ran' = ran /\ \A r \in Pools : r # p => wpc'[r] = wpc[r] /\ cur'[r] = cur[r]
        /\ \/ cur' = cur /\ wpc[p] = "check" /\ wpc'[p] = IF canceled[cur[p]] THEN "delete" ELSE "activate"
           \/ cur' = cur /\ wpc[p] \in {"run", "delete"} /\ wpc'[p] \in {"delete", "clear"}
           \/ wpc'[p] = "idle"
    BY <1>3 DEF CheckCanceled, RunReturns, DeferDelete, DeferClear, Worker
  <2>2. \A r \in Pools : InPool(r)' \subseteq InPool(r) /\ Waiting(r)' \subseteq Waiting(r)
    BY <2>1 DEF InPool, Waiting
  <2>3. RanOnce'
    BY <1>0, <2>1, <2>2 DEF RanOnce
  <2>4. ASSUME NEW t \in Tasks, Doomed(t) PROVE Doomed(t)'
    BY <1>0, <2>1, <2>4 DEF Doomed
  <2> QED
    BY <2>3, <2>4
<1> QED
  BY <1>1, <1>2, <1>3 DEF WorkerStep

LEMMA RanNext ==
    TypeInv /\ Unique /\ RanOnce /\ [Next]_vars => RanOnce' /\ \A t \in Tasks : Doomed(t) => Doomed(t)'
<1> SUFFICES ASSUME TypeInv, Unique, RanOnce, [Next]_vars
             PROVE  RanOnce' /\ \A t \in Tasks : Doomed(t) => Doomed(t)'
  OBVIOUS
<1>1. CASE Restart
  <2>1. /\ \A p \in Pools : Elements(queue'[p]) = {} /\ wpc'[p] = "idle"
        /\ \A c \in Adders : ~Adding(c)'
        /\ UNCHANGED <<submitted, ran>>
    BY <1>1 DEF Restart, Idle, Elements, Adding, AddingAt, Callers, history
  <2> QED
    BY <2>1 DEF RanOnce, Doomed, InPool, Waiting
<1> QED
  BY <1>1, StepCases, CallsMoveNothing, RanSubmit, RanWorker

LEMMA RanInvariant == Spec => []RanOnce
<1>1. Init => RanOnce
  BY DEF Init, RanOnce, InPool, Waiting, Elements, Idle, None, Adding, AddingAt, Callers, Adders
<1> QED
  BY <1>1, RanNext, TypeInvariant, UniqueInvariant, PTL DEF Spec

(* A task flagged while it waits in a queue never runs, whatever calls,    *)
(* workers and restarts come between: the flag is set before its worker    *)
(* looks at it, and no call adds the task again.                           *)
THEOREM FlaggedCorrect == Spec => FlaggedInQueueNeverRuns
<1>1. ASSUME NEW t \in Tasks
      PROVE  Spec => [](canceled[t] /\ (\E p \in Pools : t \in Elements(queue[p])) => [](t \notin ran))
  <2>1. Unique /\ RanOnce /\ canceled[t] /\ (\E p \in Pools : t \in Elements(queue[p])) => Doomed(t)
    <3> SUFFICES ASSUME Unique, RanOnce, canceled[t], NEW p \in Pools, t \in Elements(queue[p])
                 PROVE  Doomed(t)
      OBVIOUS
    <3>1. t \in InPool(p) /\ t \in Waiting(p)
      BY DEF InPool, Waiting
    <3>2. t \in submitted \ ran /\ \A c \in Adders : Adding(c) => arg[c] # t
      BY <3>1 DEF Unique, RanOnce
    <3>3. \A r \in Pools : wpc[r] = "activate" => cur[r] # t
      BY <3>1 DEF Unique, RanOnce, InPool
    <3> QED
      BY <3>2, <3>3 DEF Doomed
  <2>2. TypeInv /\ Unique /\ RanOnce /\ Doomed(t) /\ [Next]_vars => Doomed(t)'
    BY RanNext
  <2>3. Doomed(t) => t \notin ran
    BY DEF Doomed
  <2> QED
    BY <2>1, <2>2, <2>3, TypeInvariant, UniqueInvariant, RanInvariant, PTL DEF Spec
<1> QED
  BY <1>1 DEF FlaggedInQueueNeverRuns
=============================================================================
