--------------------------- MODULE SnapshotRecord ---------------------------
(***************************************************************************)
(* What a reader of the API store and of the cloud may rely on: the        *)
(* changes of a snapshot's phase, of its push mark and of the status the   *)
(* cloud knows, with no processes, queues, copies or contexts.             *)
(* SnapshotLifecycle implements it.                                        *)
(***************************************************************************)
CONSTANTS Snapshots,
          Reported     \* the snapshots the cloud is told about

VARIABLES phase, pushed, cloud, saved

record == <<phase, pushed, cloud, saved>>

Final == {"Completed", "Failed", "Canceled"}

Init ==
    /\ phase = [s \in Snapshots |-> "None"] /\ pushed = [s \in Snapshots |-> FALSE]
    /\ cloud = [s \in Snapshots |-> "None"] /\ saved = {}

Become(s, from, to) ==
    /\ phase[s] \in from
    /\ phase' = [phase EXCEPT ![s] = to]
    /\ UNCHANGED <<pushed, cloud, saved>>

Create(s) == Become(s, {"None"}, "Pending")

(* A cancelled snapshot may still start: the worker's write to Running can *)
(* come after the user's.                                                  *)
Begin(s) == Become(s, {"Pending", "Canceled"}, "Running")

(* The data of a snapshot that is not over is saved. *)
Save(s) ==
    /\ phase[s] \in {"Running", "Canceled"}
    /\ saved' = saved \cup {s}
    /\ UNCHANGED <<phase, pushed, cloud>>

Complete(s) == s \in saved /\ Become(s, {"Running", "Canceled"}, "Completed")

Fail(s) == Become(s, {"Pending", "Running", "Canceled"}, "Failed")

Cancel(s) == Become(s, {"Pending", "Running"} \cup Final, "Canceled")

(* The cloud is told Pending or a final phase. *)
Tell(s, ph) ==
    /\ s \in Reported /\ phase[s] # "None"
    /\ cloud' = [cloud EXCEPT ![s] = ph]
    /\ UNCHANGED <<phase, pushed, saved>>

(* The result is marked as pushed once the cloud knows the final phase. *)
Acknowledge(s) ==
    /\ phase[s] \in Final
    /\ s \in Reported => cloud[s] = phase[s]
    /\ pushed' = [pushed EXCEPT ![s] = TRUE]
    /\ UNCHANGED <<phase, cloud, saved>>

Next ==
    \E s \in Snapshots :
        \/ Create(s) \/ Begin(s) \/ Save(s) \/ Complete(s) \/ Fail(s) \/ Cancel(s)
        \/ \E ph \in Final \cup {"Pending"} : Tell(s, ph)
        \/ Acknowledge(s)

Spec == Init /\ [][Next]_record
=============================================================================
