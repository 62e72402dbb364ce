---------------------------- MODULE MCBackupPlan ----------------------------
(* Small instances of BackupPlan: a policy that can be scheduled and one  *)
(* that the cron library refuses; all plans are added under one name.      *)
EXTENDS BackupPlan

CONSTANTS b1, b2

OneName == [b \in Plans |-> "name"]
=============================================================================
