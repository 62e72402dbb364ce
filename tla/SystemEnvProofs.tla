--------------------------- MODULE SystemEnvProofs ---------------------------
(***************************************************************************)
(* The address in use is never an older one.  The work queue and the       *)
(* delayed objects are all that can still change it, so the invariant says *)
(* what is in them: the sighting of the present value is still to come,    *)
(* with nothing behind it but objects that were put back, or it has been   *)
(* handled.                                                                *)
(***************************************************************************)
EXTENDS SystemEnv, TLAPS

AddressType ==
    /\ env \in Addresses \cup {NoAddress}
    /\ queue \in Seq(Addresses \cup {NoAddress})
    /\ retry \subseteq Unparsable

(* SyncServerURL is derived from OlaresRemoteService, or is empty *)
UrlFollowsRemote == url \in {remote, NoAddress}

(* The objects in q after position i are ones that were put back *)
OnlyPutBack(q, i) == \A j \in 1..Len(q) : j > i => q[j] \in Unparsable

(* The present value waits in the queue, with none but objects that were   *)
(* put back behind it                                                      *)
Awaited == \E i \in 1..Len(queue) : queue[i] = env /\ OnlyPutBack(queue, i)

(* The present value was handled, and only objects that were put back come *)
Handled == OnlyPutBack(queue, 0) /\ url \in {env, NoAddress}

PendingInv ==
    /\ AddressType
    /\ UrlFollowsRemote
    /\ env # NoAddress => Awaited \/ Handled

(* The invariant says what the property does: with an empty queue the      *)
(* present value was handled (Do, processNextWorkItem).                    *)
LEMMA PendingIsEnough == PendingInv => AddressIsNotStale
BY DEF PendingInv, AddressType, Awaited, Handled, AddressIsNotStale, Settled

(* A fresh process has listed the resource: its value is the one object in *)
(* the queue (the informer's first list).                                  *)
LEMMA FreshAwaits ==
    ASSUME env' \in Addresses \cup {NoAddress}, Fresh(env')
    PROVE  PendingInv'
<1>1. AddressType' /\ UrlFollowsRemote'
  BY DEF Fresh, AddressType, UrlFollowsRemote
<1>2. Awaited'
  <2>1. Len(queue') = 1 /\ queue'[1] = env'
    BY DEF Fresh
  <2>2. OnlyPutBack(queue, 1)'
    BY <2>1 DEF OnlyPutBack
  <2> QED
    BY <2>1, <2>2 DEF Awaited
<1> QED
  BY <1>1, <1>2 DEF PendingInv

(* The same at the very start.                                             *)
LEMMA PendingInit == EnvInit => PendingInv
<1> SUFFICES ASSUME EnvInit PROVE PendingInv
  OBVIOUS
<1>1. AddressType /\ UrlFollowsRemote
  BY DEF EnvInit, AddressType, UrlFollowsRemote
<1>2. Awaited
  <2>1. Len(queue) = 1 /\ queue[1] = env
    BY DEF EnvInit
  <2>2. OnlyPutBack(queue, 1)
    BY <2>1 DEF OnlyPutBack
  <2> QED
    BY <2>1, <2>2 DEF Awaited
<1> QED
  BY <1>1, <1>2 DEF PendingInv

(* An object put at the end of the queue keeps those in front of it where  *)
(* they are (Handler's Add, AddAfter).                                     *)
LEMMA EnqueueKeeps ==
    ASSUME NEW S, NEW q \in Seq(S), NEW v \in S
    PROVE  /\ Append(q, v) \in Seq(S)
           /\ Len(Append(q, v)) = Len(q) + 1
           /\ Append(q, v)[Len(q) + 1] = v
           /\ \A i \in 1..Len(q) : Append(q, v)[i] = q[i]
OBVIOUS

(* Taking the first object moves the others up by one (processNextWorkItem).*)
LEMMA DequeueMoves ==
    ASSUME NEW S, NEW q \in Seq(S), q # <<>>
    PROVE  /\ Head(q) \in S /\ Head(q) = q[1]
           /\ Tail(q) \in Seq(S)
           /\ Len(q) \in Nat \ {0}
           /\ Len(Tail(q)) = Len(q) - 1
           /\ \A i \in 1..Len(Tail(q)) : i + 1 \in 1..Len(q) /\ Tail(q)[i] = q[i + 1]
OBVIOUS

(* A change of the resource puts its value last in the queue (Handler).    *)
LEMMA PendingChange ==
    ASSUME PendingInv, NEW v \in Addresses \cup {NoAddress}, ChangeEnv(v)
    PROVE  PendingInv'
<1> DEFINE S == Addresses \cup {NoAddress}
<1>1. queue \in Seq(S) /\ v \in S
  BY DEF PendingInv, AddressType
<1>2. /\ queue' \in Seq(S) /\ Len(queue') = Len(queue) + 1
      /\ queue'[Len(queue) + 1] = v
  BY <1>1, EnqueueKeeps DEF ChangeEnv, Enqueue
<1>3. AddressType' /\ UrlFollowsRemote'
  BY <1>2 DEF PendingInv, AddressType, UrlFollowsRemote, ChangeEnv
<1>4. Awaited'
  <2>1. Len(queue) \in Nat /\ Len(queue') \in 1..Len(queue') /\ queue'[Len(queue')] = env'
    BY <1>1, <1>2 DEF ChangeEnv
  <2>2. OnlyPutBack(queue, Len(queue))'
    BY <2>1 DEF OnlyPutBack
  <2> QED
    BY <2>1, <2>2 DEF Awaited
<1> QED
  BY <1>3, <1>4 DEF PendingInv

(* An object that comes back is one that url.JoinPath refused: behind the  *)
(* present value it hides nothing newer (AddAfter).                        *)
LEMMA PendingRetry ==
    ASSUME PendingInv, NEW v \in Unparsable, RetryDue(v)
    PROVE  PendingInv'
<1> DEFINE S == Addresses \cup {NoAddress}
<1>1. queue \in Seq(S) /\ v \in S
  BY AddressAssumption DEF PendingInv, AddressType
<1>2. /\ queue' \in Seq(S) /\ Len(queue') = Len(queue) + 1
      /\ queue'[Len(queue) + 1] = v
      /\ \A i \in 1..Len(queue) : queue'[i] = queue[i]
  BY <1>1, EnqueueKeeps DEF RetryDue, Enqueue
<1>3. AddressType' /\ UrlFollowsRemote'
  BY <1>2 DEF PendingInv, AddressType, UrlFollowsRemote, RetryDue
<1>4. ASSUME NEW i \in Nat, OnlyPutBack(queue, i)
      PROVE  OnlyPutBack(queue', i)
  <2> SUFFICES ASSUME NEW j \in 1..Len(queue'), j > i
               PROVE  queue'[j] \in Unparsable
    BY DEF OnlyPutBack
  <2>1. Len(queue) \in Nat
    BY <1>1
  <2>2. j \in 1..Len(queue) \/ j = Len(queue) + 1
    BY <2>1, <1>2
  <2> QED
    BY <2>2, <1>2, <1>4 DEF OnlyPutBack
<1>5. ASSUME env # NoAddress, Awaited
      PROVE  Awaited'
  <2>1. PICK i \in 1..Len(queue) : queue[i] = env /\ OnlyPutBack(queue, i)
    BY <1>5 DEF Awaited
  <2>2. i \in Nat /\ i \in 1..Len(queue')
    BY <1>1, <1>2
  <2>3. queue'[i] = env' /\ OnlyPutBack(queue', i)
    BY <2>1, <2>2, <1>2, <1>4 DEF RetryDue
  <2> QED
    BY <2>2, <2>3 DEF Awaited
<1>6. ASSUME Handled
      PROVE  Handled'
  BY <1>4, <1>6 DEF Handled, RetryDue
<1>7. env' = env
  BY DEF RetryDue
<1> QED
  BY <1>3, <1>5, <1>6, <1>7 DEF PendingInv

(* Taking an object: the present value leaves SyncServerURL with it or     *)
(* empty, an object that was put back only empties it, and one in front of *)
(* the present value does not matter (processNextWorkItem, Do,             *)
(* ReloadEnvDependantVars).                                                *)
LEMMA PendingProcess == ASSUME PendingInv, Process PROVE PendingInv'
<1> DEFINE S == Addresses \cup {NoAddress}
           v == Head(queue)
<1>1. queue \in Seq(S) /\ queue # <<>>
  BY DEF PendingInv, AddressType, Process
<1>2. v \in S /\ v = queue[1] /\ Len(queue) \in Nat \ {0}
  BY <1>1, DequeueMoves
<1>3. queue' \in Seq(S) /\ Len(queue') = Len(queue) - 1
  BY <1>1, DequeueMoves DEF Process
<1>4. \A i \in 1..Len(queue') : i + 1 \in 1..Len(queue) /\ queue'[i] = queue[i + 1]
  BY <1>1, DequeueMoves DEF Process
<1>5. Apply(v) /\ env' = env
  BY DEF Process
<1> HIDE DEF v, S
<1>6. AddressType'
  BY <1>2, <1>3, <1>5 DEF PendingInv, AddressType, Apply, S
<1>7. UrlFollowsRemote'
  BY <1>5 DEF PendingInv, UrlFollowsRemote, Apply
<1>8. ASSUME NEW i \in Nat, OnlyPutBack(queue, i + 1)
      PROVE  OnlyPutBack(queue', i)
  <2> SUFFICES ASSUME NEW j \in 1..Len(queue'), j > i
               PROVE  queue'[j] \in Unparsable
    BY DEF OnlyPutBack
  <2>1. j + 1 \in 1..Len(queue) /\ j + 1 > i + 1 /\ queue'[j] = queue[j + 1]
    BY <1>4
  <2> QED
    BY <2>1, <1>8 DEF OnlyPutBack
<1>9. ASSUME env # NoAddress, Awaited
      PROVE  Awaited' \/ Handled'
  <2>1. PICK i \in 1..Len(queue) : queue[i] = env /\ OnlyPutBack(queue, i)
    BY <1>9 DEF Awaited
  <2>2. CASE i = 1
    <3>1. OnlyPutBack(queue', 0)
      BY <2>1, <2>2, <1>8
    <3>2. url' \in {env, NoAddress}
      BY <1>2, <1>5, <1>9, <2>1, <2>2 DEF Apply, PendingInv, UrlFollowsRemote
    <3> QED
      BY <3>1, <3>2, <1>5 DEF Handled
  <2>3. CASE i # 1
    <3>1. i - 1 \in Nat /\ i - 1 \in 1..Len(queue') /\ (i - 1) + 1 = i
      BY <2>3, <1>2, <1>3
    <3>2. queue'[i - 1] = env'
      BY <3>1, <2>1, <1>4, <1>5
    <3>3. OnlyPutBack(queue', i - 1)
      BY <3>1, <2>1, <1>8
    <3> QED
      BY <3>1, <3>2, <3>3 DEF Awaited
  <2> QED
    BY <2>2, <2>3
<1>10. ASSUME Handled
       PROVE  Handled'
  <2>1. OnlyPutBack(queue, 1) /\ v \in Unparsable
    BY <1>2, <1>10 DEF Handled, OnlyPutBack
  <2>2. OnlyPutBack(queue', 0)
    BY <2>1, <1>8
  <2>3. url' \in {url, NoAddress}
    BY <1>5, <2>1 DEF Apply
  <2> QED
    BY <2>2, <2>3, <1>5, <1>10 DEF Handled
<1> QED
  BY <1>5, <1>6, <1>7, <1>9, <1>10 DEF PendingInv

LEMMA PendingNext == PendingInv /\ [EnvNext]_envVars => PendingInv'
<1> SUFFICES ASSUME PendingInv, [EnvNext]_envVars PROVE PendingInv'
  OBVIOUS
<1>1. CASE \E v \in Addresses \cup {NoAddress} : ChangeEnv(v)
  BY <1>1, PendingChange
<1>2. CASE Process
  BY <1>2, PendingProcess
<1>3. CASE \E v \in Unparsable : RetryDue(v)
  BY <1>3, PendingRetry
<1>4. CASE RestartProcess
  <2>1. env' \in Addresses \cup {NoAddress} /\ Fresh(env')
    BY <1>4 DEF RestartProcess, Fresh, PendingInv, AddressType
  <2> QED
    BY <2>1, FreshAwaits
<1>5. CASE UNCHANGED envVars
  BY <1>5 DEF envVars, PendingInv, AddressType, UrlFollowsRemote, Awaited, Handled, OnlyPutBack
<1> QED
  BY <1>1, <1>2, <1>3, <1>4, <1>5 DEF EnvNext, EnvStep

(* The invariant holds in every state of the watcher.                      *)
LEMMA PendingAlways == EnvSpec => []PendingInv
BY PendingInit, PendingNext, PTL DEF EnvSpec

(* Whatever the order of the events and however often one that failed      *)
(* comes back, the settled address is the present one or empty: no older   *)
(* address returns (Do, AddAfter, ReloadEnvDependantVars).                 *)
THEOREM AddressCorrect == EnvSpec => []AddressIsNotStale
BY PendingAlways, PendingIsEnough, PTL
=============================================================================
