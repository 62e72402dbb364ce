------------------------------- MODULE MCParts -------------------------------
(* Four small components that share no state, on small instances: the      *)
(* next backup time of one plan, a walk through a listing, the watcher of  *)
(* the cloud's address, and the accounts of a plan in a bucket.            *)
(* A behaviour follows one of them.                                        *)
EXTENDS BackupSchedule, Listing, SystemEnv, BucketAccounts

VARIABLE part

Clock(h, m)  == [form |-> "clock", hm |-> [h |-> h, m |-> m]]
Millis(ms)   == [form |-> "ms", ms |-> ms]
Hours        == {0, 7, 15, 16, 23}

(* Times inside a minute, at the boundaries of a day, and one that is not a *)
(* time of day; 24 is an hour that ParseToCron lets pass.                   *)
MCRequests ==
    {[freq |-> "@hourly", times |-> Clock(0, m), dow |-> 0, dom |-> 0] : m \in 0..59}
    \cup {[freq |-> f, times |-> Clock(h, m), dow |-> 0, dom |-> 0] :
              f \in {"@daily", "@yearly"}, h \in Hours \cup {24, 99}, m \in {0, 30}}
    \cup {[freq |-> "@weekly", times |-> Clock(h, 30), dow |-> d, dom |-> 0] : h \in Hours, d \in 0..7}
    \cup {[freq |-> "@monthly", times |-> Clock(h, 30), dow |-> 0, dom |-> d] :
              h \in Hours, d \in {0, 1, 28, 29, 30, 31, 32}}
    \cup {[freq |-> f, times |-> Millis(ms), dow |-> 1, dom |-> 31] :
              f \in Frequencies, ms \in {0, 59999, 48600000, 86399999, 86400000}}

(* A common year and a leap year, from a 1 January *)
MonthDays == <<31, 28, 31, 30, 31, 30, 31, 31, 30, 31, 30, 31,
               31, 29, 31, 30, 31, 30, 31, 31, 30, 31, 30, 31>>
MCMonthStart[k \in 1..25] == IF k = 1 THEN 0 ELSE MCMonthStart[k - 1] + MonthDays[k - 1]

MCInstants ==
    {2 * i + half : i \in 0..59, half \in 0..1}
    \cup {Instant(d, h, m) + half :
              d \in 0..7 \cup {27, 28, 29, 30, 31, 57, 58, 59, 89, 90, 119, 364, 365,
                         395, 396, 423, 424, 425},
              h \in {0, 15, 16, 23}, m \in {0, 30, 59}, half \in 0..1}

(* Two spellings of one endpoint, another folder of its bucket, a spelling *)
(* without region, another bucket, and a host that is not of the cloud     *)
MCEndpoints ==
    {[style |-> s, bucket |-> "b1", prefix |-> "f1"] : s \in Styles}
    \cup {[style |-> "path", bucket |-> "b1", prefix |-> "f2"],
          [style |-> "path", bucket |-> "b2", prefix |-> "f1"]}

vars == <<part, scheduleVars, listingVars, envVars, bucketVars>>

\* An hourly plan on the full hour is never scheduled
NoSchedule == request = [freq |-> "@hourly", times |-> Clock(0, 0), dow |-> 0, dom |-> 0] /\ now = 0
NoWatcher  == EnvInit /\ env = NoAddress

Init ==
    /\ ListingInit /\ BucketInit
    /\ \/ part = "schedule" /\ ScheduleInit /\ NoWatcher
       \/ part = "address" /\ NoSchedule /\ EnvInit
       \/ part \in {"listing", "bucket"} /\ NoSchedule /\ NoWatcher

Next ==
    /\ UNCHANGED part
    /\ \/ part = "schedule" /\ Tick /\ UNCHANGED <<listingVars, envVars, bucketVars>>
       \/ part = "listing"  /\ ListingStep /\ UNCHANGED <<scheduleVars, envVars, bucketVars>>
       \/ part = "address"  /\ EnvNext /\ UNCHANGED <<scheduleVars, listingVars, bucketVars>>
       \/ part = "bucket"   /\ BucketStep /\ UNCHANGED <<scheduleVars, listingVars, envVars>>

Spec == Init /\ [][Next]_vars
=============================================================================
