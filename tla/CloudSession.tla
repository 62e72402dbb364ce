---------------------------- MODULE CloudSession ----------------------------
(***************************************************************************)
(* Backups to Olares Space and restores from it, as clients of the cloud:  *)
(* the token of the account, cached in the process and shared by all the   *)
(* tasks; the check of the quota; the loop that gets a token again when    *)
(* the cloud refuses one.  The controllers and the API get tokens through  *)
(* the same cache.  Its key is the name of the account alone, so one       *)
(* account shows all the sharing there is.                                 *)
(*                                                                         *)
(* The cache is a map that the goroutines read and write without a lock.   *)
(* Time is counted in steps in which a token comes closer to its expiry.   *)
(***************************************************************************)
EXTENDS Integers, FiniteSets

CONSTANTS
    Backups, Restores,
    AppBackups,  \* backups of applications, the others back files up
    Size,        \* of the directory of a file backup
    MaxUpload,   \* the most that one run adds to the account
    Total,       \* of the account
    Word,        \* the sizes are unsigned and wrap around at this
    Life,        \* of a token that the account is given
    Margin,      \* of IsTimestampNearingExpiration
    MaxTime,     \* bound: the end of time
    MaxRuns      \* bound: runs of tasks

Tasks == Backups \cup Restores

FileBackups == Backups \ AppBackups

ASSUME SessionAssumption ==
    /\ Backups \cap Restores = {} /\ AppBackups \subseteq Backups /\ IsFiniteSet(FileBackups)
    /\ {Size, MaxUpload, Total, Word, Life, Margin, MaxTime, MaxRuns} \subseteq Nat
    /\ Word > Total /\ Life > Margin

VARIABLES
    now,
    account,   \* the token that the account service answers with
    refused,   \* serial numbers of the tokens that the cloud refuses
    byFiles,   \* space that file backups take in the account
    byApps,    \* space that application backups take
    overdrawn, \* a file backup has passed the check on an account over its limit
    cache,     \* OlaresTokens, for this account
    pc, stage, \* where a task is, and what it wants the token for
    held,      \* the token that a task has, or has fetched
    checked,   \* compareUsage
    known,     \* the account's token when a task began
    runs

space    == <<byFiles, byApps, overdrawn>>
service  == <<account, refused, space>>
taskVars == <<pc, stage, held, checked, known, runs>>
vars     == <<now, service, cache, taskVars>>

Token == [n : Nat, exp : Nat]

(* No token: it has expired before time begins *)
NoToken == [n |-> 0, exp |-> 0]

Expired(token) == token.exp - Margin < now

Ended == {"done", "failed", "expired"}

(* The cloud honours the token *)
Accepted(token) == token.n \notin refused /\ now <= token.exp

Goto(t, l)    == pc' = [pc EXCEPT ![t] = l]
Working(t, l) == pc[t] = l

(* The task returns, and its local variables are gone *)
Return(t, why) ==
    /\ Goto(t, why)
    /\ stage'   = [stage EXCEPT ![t] = "use"]
    /\ held'    = [held EXCEPT ![t] = NoToken]
    /\ checked' = [checked EXCEPT ![t] = FALSE]

-----------------------------------------------------------------------------
(* The cloud and its user. *)

Tick ==
    /\ now < MaxTime /\ now' = now + 1
    /\ UNCHANGED <<service, cache, taskVars>>

(* The user connects the account again in LarePass.  Tokens run out before *)
(* the end of time.                                                        *)
Reconnect ==
    /\ now + Life - Margin < MaxTime
    /\ account' = [n |-> account.n + 1, exp |-> now + Life]
    /\ account.exp < now + Life
    /\ UNCHANGED <<now, refused, space, cache, taskVars>>

Revoke ==
    /\ account.n \notin refused /\ refused' = refused \cup {account.n}
    /\ UNCHANGED <<now, account, space, cache, taskVars>>

(* Snapshots are removed from the account. *)
Release ==
    /\ byFiles' \in 0..byFiles /\ byApps' \in 0..byApps
    /\ UNCHANGED <<now, account, refused, overdrawn, cache, taskVars>>

-----------------------------------------------------------------------------
(* GetIntegrationSpaceToken *)

Begin(t) ==
    /\ pc[t] \in Ended \cup {"idle"} /\ runs < MaxRuns
    /\ Goto(t, "token")
    /\ known' = [known EXCEPT ![t] = account]
    /\ runs'  = runs + 1
    /\ UNCHANGED <<now, service, cache, stage, held, checked>>

(* Mutant: the quota is checked for every task. *)
ProceedChecked(t, token) ==
    /\ held' = [held EXCEPT ![t] = token]
    /\ stage' = [stage EXCEPT ![t] = IF @ = "again" THEN "use" ELSE @]
    /\ Goto(t, CASE stage[t] = "stats" -> "stats"
                 [] stage[t] = "again" -> "token"
                 [] OTHER -> IF checked[t] THEN "call" ELSE "quota")
    /\ UNCHANGED checked

(* With the token: the loop of restoreFromSpace gets it twice after a      *)
(* refusal; backupToSpace checks the quota once, before it calls the SDK.  *)
Proceed(t, token) ==
    /\ held' = [held EXCEPT ![t] = token]
    /\ stage' = [stage EXCEPT ![t] = IF @ = "again" THEN "use" ELSE @]
    /\ Goto(t, CASE stage[t] = "stats" -> "stats"
                 [] stage[t] = "again" -> "token"
                 [] OTHER -> IF t \in Restores \/ checked[t] THEN "call" ELSE "quota")
    /\ UNCHANGED checked

(* Without one: getStats goes on, and the size of the backup stays unknown *)
GiveUp(t, why) == Return(t, IF stage[t] = "stats" THEN "done" ELSE why)

(* Mutant: a token is taken from the cache however old it is. *)
LookUpAnyAge(t) ==
    /\ Working(t, "token")
    /\ IF cache # NoToken THEN Proceed(t, cache) ELSE Goto(t, "query") /\ UNCHANGED <<stage, held, checked>>
    /\ UNCHANGED <<now, service, cache, known, runs>>

(* Mutant: an expired token in the cache is an error. *)
LookUpOnce(t) ==
    /\ Working(t, "token")
    /\ IF cache = NoToken THEN Goto(t, "query") /\ UNCHANGED <<stage, held, checked>>
       ELSE IF Expired(cache) THEN GiveUp(t, "expired") ELSE Proceed(t, cache)
    /\ UNCHANGED <<now, service, cache, known, runs>>

LookUp(t) ==
    /\ Working(t, "token")
    /\ IF Expired(cache) THEN Goto(t, "query") /\ UNCHANGED <<stage, held, checked>> ELSE Proceed(t, cache)
    /\ UNCHANGED <<now, service, cache, known, runs>>

(* query: the account service reads the account, or there is no answer *)
Query(t) ==
    /\ Working(t, "query")
    /\ \/ Goto(t, "keep") /\ held' = [held EXCEPT ![t] = account] /\ UNCHANGED <<stage, checked>>
       \/ GiveUp(t, "failed")
    /\ UNCHANGED <<now, service, cache, known, runs>>

(* The answer goes to the cache, also one that has expired *)
Keep(t) ==
    /\ Working(t, "keep")
    /\ cache' = held[t]
    /\ IF Expired(held[t]) THEN GiveUp(t, "expired") ELSE Proceed(t, held[t])
    /\ UNCHANGED <<now, service, known, runs>>

-----------------------------------------------------------------------------
(* backupToSpace and restoreFromSpace *)

Used == byFiles + byApps

Free == (Total - Used) % Word

(* checkDiskSize measures the directory of a file backup, and nothing for  *)
(* an application: the zero value stays.                                   *)
BackupSize(t) == IF t \in AppBackups THEN 0 ELSE Size

(* Mutant: only the permission is checked. *)
FitsAlways(t) == TRUE

Fits(t) == BackupSize(t) <= Free

(* CheckCloudStorageQuotaAndPermission with its retries, PlanLevel and     *)
(* CanBackup, which the service answers as it likes, and the sizes         *)
Quota(t) ==
    /\ Working(t, "quota")
    /\ \/ /\ Fits(t)
          /\ Goto(t, "call") /\ checked' = [checked EXCEPT ![t] = TRUE]
          /\ overdrawn' = (overdrawn \/ (t \in FileBackups /\ Used > Total))
          /\ UNCHANGED <<stage, held>>
       \/ Return(t, "failed") /\ UNCHANGED overdrawn
    /\ UNCHANGED <<now, account, refused, byFiles, byApps, cache, known, runs>>

(* restic stores what is new, which has no fixed ratio to the size of the  *)
(* directory.                                                              *)
Upload(t) ==
    \E s \in 0..MaxUpload :
        IF t \in AppBackups THEN byApps' = byApps + s /\ UNCHANGED byFiles
                            ELSE byFiles' = byFiles + s /\ UNCHANGED byApps

(* Backup and Restore of the SDK.  A "refresh-token error" goes back to    *)
(* the head of the loop, any other one ends the task, and what was         *)
(* uploaded before it stays.                                               *)
Call(t) ==
    /\ Working(t, "call")
    /\ \/ /\ t \in Backups /\ Accepted(held[t]) /\ Upload(t)
          /\ \/ Goto(t, "token") /\ stage' = [stage EXCEPT ![t] = "stats"] /\ UNCHANGED <<held, checked>>
             \/ Return(t, "failed")
       \/ t \in Restores /\ Accepted(held[t]) /\ Return(t, "done") /\ UNCHANGED <<byFiles, byApps>>
       \/ /\ ~Accepted(held[t])
          /\ Goto(t, "token") /\ stage' = [stage EXCEPT ![t] = IF t \in Restores THEN "again" ELSE @]
          /\ UNCHANGED <<byFiles, byApps, held, checked>>
       \/ Return(t, "failed") /\ UNCHANGED <<byFiles, byApps>>
    /\ UNCHANGED <<now, account, refused, overdrawn, cache, known, runs>>

(* getStats: an error is only logged *)
Stats(t) ==
    /\ Working(t, "stats") /\ Return(t, "done")
    /\ UNCHANGED <<now, service, cache, known, runs>>

-----------------------------------------------------------------------------
Init ==
    /\ now = 0
    /\ account \in {[n |-> 1, exp |-> e] : e \in {0, Life}} /\ refused = {}
    /\ byFiles \in 0..Total /\ byApps \in 0..(Total - byFiles) /\ overdrawn = FALSE
    /\ cache = NoToken
    /\ pc = [t \in Tasks |-> "idle"] /\ stage = [t \in Tasks |-> "use"]
    /\ held = [t \in Tasks |-> NoToken] /\ checked = [t \in Tasks |-> FALSE]
    /\ known = [t \in Tasks |-> NoToken] /\ runs = 0

TaskStep(t) == LookUp(t) \/ Query(t) \/ Keep(t) \/ Quota(t) \/ Call(t) \/ Stats(t)

Next ==
    \/ Tick \/ Reconnect \/ Revoke \/ Release
    \/ \E t \in Tasks : Begin(t) \/ TaskStep(t)

Spec == Init /\ [][Next]_vars

(* Time passes, and the goroutine of a task keeps running: its requests    *)
(* have timeouts, so each of them is answered or fails.                    *)
FairSpec == Spec /\ WF_vars(Tick) /\ \A t \in Tasks : WF_vars(TaskStep(t))

-----------------------------------------------------------------------------
(* The types; only a backup has its quota checked or asks for its size. *)
TypeOK ==
    /\ now \in Nat /\ account \in Token /\ cache \in Token
    /\ byFiles \in Nat /\ byApps \in Nat /\ overdrawn \in BOOLEAN
    /\ refused \subseteq Nat
    /\ pc \in [Tasks -> Ended \cup {"idle", "token", "query", "keep", "quota", "call", "stats"}]
    /\ stage \in [Tasks -> {"use", "again", "stats"}]
    /\ held \in [Tasks -> Token] /\ known \in [Tasks -> Token]
    /\ checked \in [Tasks -> BOOLEAN] /\ runs \in Nat
    /\ \A t \in Restores : ~checked[t] /\ pc[t] \notin {"quota", "stats"} /\ stage[t] # "stats"

(* "Access token expired. Please re-connect": a task is told so only if    *)
(* the token that the account had when the task began is now close to its  *)
(* expiry.  A user who has connected the account again is not told to,     *)
(* whatever older answers other tasks write to the cache.                  *)
ToldToReconnect == \A t \in Tasks : pc[t] = "expired" => Expired(known[t])

(* File backups that check the quota at the same time outgrow the account  *)
(* together, by less than what one run of each of them adds, whatever      *)
(* applications add unchecked and the service permits: the overrun does    *)
(* not grow with later runs.  It does once a check meets an account over   *)
(* its limit, where the difference of the sizes wraps around; from there   *)
(* on only the service's permissions stop a backup.                        *)
OverrunIsBounded ==
    ~overdrawn /\ byFiles > Total => byFiles + Size <= Total + MaxUpload * Cardinality(FileBackups)

(* Every task ends: with a token that the cloud refuses it goes round its  *)
(* loop until the token comes close to its expiry.                         *)
EverySessionEnds ==
    \A t \in Tasks : pc[t] \notin Ended \cup {"idle"} ~> pc[t] \in Ended
=============================================================================
