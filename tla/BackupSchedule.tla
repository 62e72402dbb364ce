--------------------------- MODULE BackupSchedule ---------------------------
(***************************************************************************)
(* From the policy of a request to the cron line of its plan, and the next *)
(* backup time that the API shows beside it.  The line is what the cron    *)
(* library works with; the shown time is computed on its own.  Both work   *)
(* on the clock of the container, which is UTC.                            *)
(*                                                                         *)
(* Time is counted in half minutes: an even instant is the start of a      *)
(* minute, an odd one lies inside it.  Day 0 is a Monday and a 1 January.  *)
(***************************************************************************)
EXTENDS Integers, Sequences, FiniteSets, FiniteSetsExt

CONSTANTS
    PolicyRequests,  \* BackupPolicies of the requests
    Instants,        \* the instants at which the API is asked
    MonthStart       \* the calendar: the day each month begins

ASSUME ScheduleAssumption ==
    /\ Instants \subseteq Nat /\ Instants # {}
    /\ \A r \in PolicyRequests : r.times.form = "ms" => r.times.ms \in Int

Hour == 120
Day  == 24 * Hour

Instant(day, h, m) == day * Day + h * Hour + 2 * m

DayOf(t)   == t \div Day
Weekday(d) == d % 7           \* Monday is 0

Months         == 1..(Len(MonthStart) - 1)
MonthLength(k) == MonthStart[k + 1] - MonthStart[k]
MonthOf(d)     == CHOOSE k \in Months : MonthStart[k] <= d /\ d < MonthStart[k + 1]
DateOf(d)      == d - MonthStart[MonthOf(d)] + 1

(* Months have 28 to 31 days, and of two that follow one another one has   *)
(* 31.  The calendar goes on for three months after the last instant.      *)
ASSUME CalendarAssumption ==
    /\ MonthStart \in Seq(Nat) /\ Len(MonthStart) > 3 /\ MonthStart[1] = 0
    /\ \A i, j \in DOMAIN MonthStart : i < j => MonthStart[i] < MonthStart[j]
    /\ \A k \in Months : MonthLength(k) \in 28..31
    /\ \A k \in Months : k > 1 => 31 \in {MonthLength(k - 1), MonthLength(k)}
    /\ \A t \in Instants : DayOf(t) < MonthStart[Len(MonthStart) - 3]

-----------------------------------------------------------------------------
(* The policy of a request. *)

Frequencies == {"@hourly", "@daily", "@weekly", "@monthly"}

(* Mutant: the hours of a time that is a whole day are not reduced. *)
ParseTimestampToHours(ms) == [h |-> ms \div 3600000, m |-> (ms \div 60000) % 60]

(* ParseTimestampToLocal: a time of day in milliseconds *)
ParseTimestampToLocal(ms) == [h |-> (ms \div 3600000) % 24, m |-> (ms \div 60000) % 60]

(* validBackupPolicy: of a time with a colon only the colon is checked *)
ValidBackupPolicy(r) ==
    /\ r.freq \in Frequencies
    /\ r.times.form \in {"clock", "ms"}
    /\ r.freq = "@weekly"  => r.dow \in 1..7
    /\ r.freq = "@monthly" => r.dom \in 1..31

TimesOfDay(r) == IF r.times.form = "ms" THEN ParseTimestampToLocal(r.times.ms) ELSE r.times.hm

StoredPolicy(r) == [freq |-> r.freq, h |-> TimesOfDay(r).h, m |-> TimesOfDay(r).m,
                    dow |-> r.dow, dom |-> r.dom]

(* A star in the line *)
Star == -1

NoLine == [minute |-> "none"]

(* ParseToCron: the fields of the line, or an error.  Hour 24 passes. *)
ParseToCron(p) ==
    IF p.h \notin 0..24 \/ p.m \notin 0..59 THEN NoLine
    ELSE CASE p.freq = "@hourly"  -> [minute |-> "step", every |-> p.m]
           [] p.freq = "@daily"   -> [minute |-> "at", h |-> p.h, m |-> p.m, dom |-> Star, dow |-> Star]
           [] p.freq = "@weekly"  -> [minute |-> "at", h |-> p.h, m |-> p.m, dom |-> Star, dow |-> p.dow - 1]
           [] p.freq = "@monthly" -> [minute |-> "at", h |-> p.h, m |-> p.m, dom |-> p.dom, dow |-> Star]

-----------------------------------------------------------------------------
(* The cron library, as the code uses it. *)

(* AddJob parses the line: a step is positive, an hour is at most 23 *)
CronAccepts(line) ==
    \/ line.minute = "step" /\ line.every > 0
    \/ line.minute = "at" /\ line.h \in 0..23

(* The line fires at the start of minute t; Sunday is day of week 0 *)
Fires(line, t) ==
    IF line.minute = "step"
    THEN ((t % Hour) \div 2) % line.every = 0
    ELSE /\ t % Day = Instant(0, line.h, line.m)
         /\ line.dom = Star \/ line.dom = DateOf(DayOf(t))
         /\ line.dow = Star \/ line.dow = (Weekday(DayOf(t)) + 1) % 7

(* The first firing from instant t on: every month with the date asked for *)
(* is at most two months ahead, and an hour has a minute 0.                *)
NextFiring(line, t) ==
    LET start == 2 * ((t + 1) \div 2)
        ahead == IF line.minute = "step"
                 THEN {start + 2 * i : i \in 0..60}
                 ELSE {Instant(DayOf(t) + i, line.h, line.m) : i \in 0..62}
    IN  Min({u \in ahead : u >= t /\ Fires(line, u)})

-----------------------------------------------------------------------------
(* GetNextBackupTime *)

NextByDaily(p, t) ==
    LET today == Instant(DayOf(t), p.h, p.m)
    IN  IF today < t THEN today + Day ELSE today

(* From 16:00 on the shown day is moved back by one *)
DayBefore(p) == IF p.h >= 16 THEN Day ELSE 0

(* Mutant: a month without the date is not passed over. *)
IsDateAlways(k, p) == p.h <= 23

(* time.ParseInLocation refuses a date that the month does not have, and   *)
(* an hour above 23: for that one the loop over the months never ends.     *)
IsDate(k, p) == p.dom <= MonthLength(k) /\ p.h <= 23 /\ p.m <= 59

NextByMonthly(p, t) ==
    LET k     == MonthOf(DayOf(t))
        at(i) == Instant(MonthStart[i] + p.dom - 1, p.h, p.m)
        next  == IF IsDate(k, p) /\ at(k) >= t THEN k
                 ELSE Min({i \in (k + 1)..(k + 3) : IsDate(i, p)})
    IN  at(next) - DayBefore(p)

GetFirstDayOfWeek(t) == DayOf(t) - Weekday(DayOf(t))

NextByWeekly(p, t) ==
    LET backup == Instant(GetFirstDayOfWeek(t) + p.dow - 1, p.h, p.m) - DayBefore(p)
    IN  IF backup < t THEN backup + 7 * Day ELSE backup

NextByHourly(p, t) ==
    LET minute    == (t % Hour) \div 2
        remainder == minute % p.m
    IN  2 * (t \div 2) + 2 * (p.m - remainder)

GetNextBackupTime(p, t) ==
    CASE p.freq = "@hourly"  -> NextByHourly(p, t)
      [] p.freq = "@weekly"  -> NextByWeekly(p, t)
      [] p.freq = "@monthly" -> NextByMonthly(p, t)
      [] OTHER               -> NextByDaily(p, t)

-----------------------------------------------------------------------------
(* A plan whose request was accepted is looked at while time passes. *)

VARIABLES request, now

scheduleVars == <<request, now>>

policy == StoredPolicy(request)

Later == [t \in Instants \ {Max(Instants)} |-> Min({u \in Instants : u > t})]

ScheduleInit == request \in {r \in PolicyRequests : ValidBackupPolicy(r)} /\ now = Min(Instants)

Tick ==
    /\ now \in DOMAIN Later
    /\ now' = Later[now]
    /\ UNCHANGED request

ScheduleSpec == ScheduleInit /\ [][Tick]_scheduleVars

(* The times whose computation follows the cron line: every day, every     *)
(* divisor of an hour, a weekday from 16:00 on, a date before 16:00.  The  *)
(* other ones are off by a day, or skip the firing at the full hour.       *)
Aligned(p) ==
    \/ p.freq = "@daily"
    \/ p.freq = "@hourly" /\ 60 % p.m = 0
    \/ p.freq = "@weekly" /\ p.h >= 16 /\ p.dow # 1
    \/ p.freq = "@monthly" /\ p.h < 16

(* GetNextBackupTime shows for such a plan the next firing of the line of  *)
(* ParseToCron, at the ends of hours, days, weeks, short months and years. *)
ShownIsNextFiring ==
    LET line == ParseToCron(policy)
        from == IF policy.freq = "@hourly" THEN 2 * (now \div 2) + 1 ELSE now
    IN  CronAccepts(line) /\ Aligned(policy) =>
            GetNextBackupTime(policy, now) = NextFiring(line, from)

(* A policy whose time of day was given in milliseconds is one that the    *)
(* cron library accepts, but for an hourly plan on the full hour: only a   *)
(* time with a colon is stored without its numbers having been checked.    *)
TimestampIsScheduled ==
    request.times.form = "ms" /\ ~(policy.freq = "@hourly" /\ policy.m = 0) =>
        CronAccepts(ParseToCron(policy))
=============================================================================
