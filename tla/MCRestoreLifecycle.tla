------------------------- MODULE MCRestoreLifecycle -------------------------
(* Small instances of RestoreLifecycle: requests that race for one restore *)
(* from a bucket, and a restore of files beside one of an application.     *)
EXTENDS RestoreLifecycle, TLC

CONSTANTS r1, r2, u1, u2, u3

AllSpace == [r \in Restores |-> "space"]
AllS3    == [r \in Restores |-> "awss3"]

(* The requests differ in nothing but their names. *)
Symmetry == Permutations(Requests)
=============================================================================
