--------------------------- MODULE RestoreRecord ---------------------------
(***************************************************************************)
(* What a reader of the API store and the owner of the files may rely on:  *)
(* the changes of a restore's phase, what has been brought back, and that  *)
(* it begins once, with no events, queues, copies or contexts.             *)
(* RestoreLifecycle implements it.                                         *)
(***************************************************************************)
CONSTANT Restores

VARIABLES phase, data, starts

record == <<phase, data, starts>>

Phases == {"Pending", "Running", "Completed", "Failed", "Canceled", "Deleted"}

(* A request does not stop what the worker has in hand: its next write     *)
(* comes after the user's.                                                 *)
Overtaken == {"Canceled", "Deleted"}

Init ==
    /\ phase = [r \in Restores |-> "None"]
    /\ data = [r \in Restores |-> "none"]
    /\ starts = [r \in Restores |-> 0]

Become(r, from, to) ==
    /\ phase[r] \in from
    /\ phase' = [phase EXCEPT ![r] = to]

Create(r) == Become(r, {"None"}, "Pending") /\ UNCHANGED <<data, starts>>

(* A restore begins once, and never when it has ended. *)
Begin(r) ==
    /\ starts[r] = 0 /\ starts' = [starts EXCEPT ![r] = 1]
    /\ Become(r, {"Pending"} \cup Overtaken, "Running")
    /\ UNCHANGED data

(* The data of a restore that has begun is brought back, and then put in   *)
(* its place; the user may cancel or remove the restore meanwhile.         *)
BringBack(r, from, to) ==
    /\ starts[r] = 1 /\ phase[r] \in {"Running", "Gone"} \cup Overtaken
    /\ data[r] = from /\ data' = [data EXCEPT ![r] = to]
    /\ UNCHANGED <<phase, starts>>

Complete(r) ==
    /\ starts[r] = 1 /\ data[r] # "none"
    /\ Become(r, {"Running"} \cup Overtaken, "Completed")
    /\ UNCHANGED <<data, starts>>

Fail(r) ==
    /\ Become(r, {"Pending", "Running"} \cup Overtaken, "Failed")
    /\ UNCHANGED <<data, starts>>

(* The request is answered by a write that may come after the end, and     *)
(* after the Deleted of another request.                                   *)
Cancel(r) == Become(r, Phases, "Canceled") /\ UNCHANGED <<data, starts>>

(* A restore that has not begun is cancelled before it is marked Deleted. *)
Delete(r) == Become(r, Phases \ {"Pending"}, "Deleted") /\ UNCHANGED <<data, starts>>

(* What is gone never comes back. *)
Remove(r) == Become(r, Phases, "Gone") /\ UNCHANGED <<data, starts>>

Next ==
    \E r \in Restores :
        \/ Create(r) \/ Begin(r) \/ Complete(r) \/ Fail(r)
        \/ Cancel(r) \/ Delete(r) \/ Remove(r)
        \/ BringBack(r, "none", "downloaded")
        \/ \E to \in {"delivered", "applied"} : BringBack(r, "downloaded", to)

Spec == Init /\ [][Next]_record
=============================================================================
