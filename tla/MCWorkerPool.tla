---------------------------- MODULE MCWorkerPool ----------------------------
(* Small instances of WorkerPool: one owner with two plans. *)
EXTENDS WorkerPool

CONSTANTS o1, b1, b2, s1, s2, s3, r1

MCOwnerOf == [t \in Tasks |-> o1]
MCPlanOf  == [t \in BackupTasks |-> IF t = s3 THEN b2 ELSE b1]
=============================================================================
