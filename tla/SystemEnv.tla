------------------------------ MODULE SystemEnv ------------------------------
(***************************************************************************)
(* The address of the cloud.  A watcher follows the system environment     *)
(* resource that names the remote service: every event about it is an item *)
(* of a work queue with one worker, which copies the value to              *)
(* OlaresRemoteService and derives SyncServerURL from it.                  *)
(***************************************************************************)
EXTENDS Naturals, Sequences

CONSTANTS
    Addresses,    \* values of the environment resource
    Unparsable,   \* those that url.JoinPath refuses
    Default,      \* DefaultSyncServerURL
    NoAddress,    \* the empty string
    MaxChanges    \* bound: changes of the resource, starts of the process

ASSUME AddressAssumption == Default \in Addresses /\ NoAddress \notin Addresses
                            /\ Unparsable \subseteq Addresses

VARIABLES
    env,       \* the effective value of the resource: its value, or its default
    remote,    \* OlaresRemoteService
    url,       \* SyncServerURL, by the address it is derived from
    queue,     \* the work queue: the objects of the events, in order
    retry,     \* objects waiting for applicationQueueDelay
    changes

envVars == <<env, remote, url, queue, retry, changes>>

(* The variables of a fresh process; the informer lists what is there *)
Fresh(v) ==
    /\ remote' = Default /\ url' = NoAddress
    /\ queue' = <<v>> /\ retry' = {}

EnvInit ==
    /\ env \in Addresses \cup {NoAddress}
    /\ remote = Default /\ url = NoAddress
    /\ queue = <<env>> /\ retry = {} /\ changes = 0

(* Handler *)
Enqueue(v) == queue' = Append(queue, v)

(* An event about the resource, with the object as it then is.  Do treats  *)
(* a deletion as one more sighting of the last value.                      *)
ChangeEnv(v) ==
    /\ changes < MaxChanges /\ changes' = changes + 1
    /\ env' = v /\ Enqueue(v)
    /\ UNCHANGED <<remote, url, retry>>

RestartProcess ==
    /\ changes < MaxChanges /\ changes' = changes + 1
    /\ Fresh(env) /\ UNCHANGED env

(* Do, with ReloadEnvDependantVars: an address that is refused leaves      *)
(* SyncServerURL empty.  The item is then put back, and finds its value in *)
(* OlaresRemoteService when it comes again.                                *)
Apply(v) ==
    IF v = NoAddress \/ v = remote
    THEN UNCHANGED <<remote, url, retry>>
    ELSE /\ remote' = v
         /\ url'    = IF v \in Unparsable THEN NoAddress ELSE v
         /\ retry'  = IF v \in Unparsable THEN retry \cup {v} ELSE retry

(* Mutant: two workers take items from the queue. *)
ProcessUnordered ==
    /\ queue # <<>>
    /\ \E i \in 1..Len(queue) :
          /\ i <= 2
          /\ Apply(queue[i])
          /\ queue' = SubSeq(queue, 1, i - 1) \o SubSeq(queue, i + 1, Len(queue))
    /\ UNCHANGED <<env, changes>>

(* processNextWorkItem *)
Process ==
    /\ queue # <<>>
    /\ Apply(Head(queue)) /\ queue' = Tail(queue)
    /\ UNCHANGED <<env, changes>>

(* AddAfter: the object comes back as it was *)
RetryDue(v) ==
    /\ v \in retry
    /\ retry' = retry \ {v} /\ Enqueue(v)
    /\ UNCHANGED <<env, remote, url, changes>>

EnvStep ==
    \/ \E v \in Addresses \cup {NoAddress} : ChangeEnv(v)
    \/ Process
    \/ \E v \in Unparsable : RetryDue(v)

EnvNext == EnvStep \/ RestartProcess

EnvSpec == EnvInit /\ [][EnvNext]_envVars

-----------------------------------------------------------------------------
Settled == queue = <<>> /\ retry = {}

(* The comment on Do, "effective value can be from value or default": once *)
(* every event is handled, the cloud is reached at the effective value.    *)
EffectiveValueApplies == Settled /\ env \in Addresses \ Unparsable => url = env

(* An address in use is the present one, or one whose successor was empty: *)
(* neither the order of the events nor the return of one that failed       *)
(* brings back an older address.                                           *)
AddressIsNotStale ==
    Settled /\ env # NoAddress => url \in {env, NoAddress}
=============================================================================
