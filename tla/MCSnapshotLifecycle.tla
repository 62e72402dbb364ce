------------------------- MODULE MCSnapshotLifecycle -------------------------
(* Small instances of SnapshotLifecycle: snapshots of one plan in Olares   *)
(* Space, or of two plans, one there and one in a bucket.                  *)
EXTENDS SnapshotLifecycle

CONSTANTS b1, b2, s1, s2

OnePlan   == [s \in Snapshots |-> b1]
PlanEach  == [s \in Snapshots |-> IF s = s1 THEN b1 ELSE b2]
AllSpace  == [b \in Plans |-> "space"]
SpaceAndS3 == [b \in Plans |-> IF b = b1 THEN "space" ELSE "awss3"]
=============================================================================
