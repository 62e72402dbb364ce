------------------------- MODULE CloudSessionProofs -------------------------
(***************************************************************************)
(* Proofs about CloudSession for every finite set of file backups, every   *)
(* set of application backups and of restores, and every size, lifetime    *)
(* and bound.                                                              *)
(***************************************************************************)
EXTENDS CloudSession, FiniteSetTheorems, TLAPS

(* A task does not know a token newer than the account's, and the answer   *)
(* that it is about to keep is not older than the token it began with.     *)
TokenInv ==
    /\ \A t \in Tasks : known[t].exp <= account.exp
    /\ \A t \in Tasks : pc[t] = "keep" => known[t].exp <= held[t].exp

(* What a backup has done when it checks the quota or calls the SDK. *)
StageInv ==
    \A k \in Backups :
        /\ stage[k] # "again"
        /\ pc[k] \in {"quota", "call"} => stage[k] = "use"
        /\ pc[k] = "call" => checked[k]

(* The file backups that have passed the check and not yet returned *)
Admitted == {k \in FileBackups : checked[k] /\ stage[k] = "use"}

(* The space that files take or are promised.  At a check Size fits beside *)
(* all that is there, so that what is promised counts from Total - Size.   *)
QuotaInv ==
    ~overdrawn =>
        \/ byFiles <= Total /\ Admitted = {}
        \/ byFiles + Size + MaxUpload * Cardinality(Admitted)
               <= Total + MaxUpload * Cardinality(FileBackups)

LEMMA Constants ==
    /\ Size \in Nat /\ MaxUpload \in Nat /\ Total \in Nat /\ Word \in Nat /\ Life \in Nat /\ Margin \in Nat
    /\ MaxTime \in Nat /\ MaxRuns \in Nat /\ Word > Total
    /\ Backups \cap Restores = {} /\ Tasks = Backups \cup Restores
    /\ FileBackups \subseteq Backups /\ IsFiniteSet(FileBackups)
BY SessionAssumption DEF Tasks, FileBackups

-----------------------------------------------------------------------------
(* Type correctness. *)

(* The type of the space *)
SpaceOK == byFiles \in Nat /\ byApps \in Nat /\ overdrawn \in BOOLEAN

LEMMA TypeInit == Init => TypeOK
<1> SUFFICES ASSUME Init PROVE TypeOK
  OBVIOUS
<1>1. byFiles \in Nat /\ byApps \in Nat
  BY Constants DEF Init
<1>2. account \in Token /\ cache \in Token
  BY Constants DEF Init, Token, NoToken
<1>3. overdrawn \in BOOLEAN
  BY DEF Init
<1> QED
  BY <1>1, <1>2, <1>3, Constants DEF Init, TypeOK, Token, NoToken, Ended

LEMMA ReturnType ==
    ASSUME TypeOK, NEW t \in Tasks, NEW why \in Ended, Return(t, why)
    PROVE  /\ pc' \in [Tasks -> Ended \cup {"idle", "token", "query", "keep", "quota", "call", "stats"}]
           /\ stage' \in [Tasks -> {"use", "again", "stats"}]
           /\ held' \in [Tasks -> Token] /\ checked' \in [Tasks -> BOOLEAN]
           /\ \A r \in Restores : ~checked'[r] /\ pc'[r] \notin {"quota", "stats"} /\ stage'[r] # "stats"
BY Constants DEF TypeOK, Return, Goto, Token, NoToken, Ended

LEMMA ProceedType ==
    ASSUME TypeOK, NEW t \in Tasks, NEW token \in Token, Proceed(t, token)
    PROVE  /\ pc' \in [Tasks -> Ended \cup {"idle", "token", "query", "keep", "quota", "call", "stats"}]
           /\ stage' \in [Tasks -> {"use", "again", "stats"}]
           /\ held' \in [Tasks -> Token] /\ checked' \in [Tasks -> BOOLEAN]
           /\ \A r \in Restores : ~checked'[r] /\ pc'[r] \notin {"quota", "stats"} /\ stage'[r] # "stats"
BY Constants DEF TypeOK, Proceed, Goto

LEMMA UploadType ==
    ASSUME TypeOK, NEW t \in Tasks, Upload(t)
    PROVE  byFiles' \in Nat /\ byApps' \in Nat
BY Constants DEF TypeOK, Upload

LEMMA TypeStep == TypeOK /\ [Next]_vars => TypeOK'
<1> SUFFICES ASSUME TypeOK, [Next]_vars PROVE TypeOK'
  OBVIOUS
<1> USE DEF service, taskVars
<1>0. /\ SpaceOK /\ (UNCHANGED space => SpaceOK') /\ Life \in Nat /\ {"done", "failed", "expired"} = Ended
      /\ Restores \subseteq Tasks /\ Backups \cap Restores = {} /\ Tasks = Backups \cup Restores
  <2>1. {"done", "failed", "expired"} = Ended
    BY DEF Ended
  <2>2. SpaceOK /\ (UNCHANGED space => SpaceOK')
    BY DEF TypeOK, SpaceOK, space
  <2> QED
    BY <2>1, <2>2, Constants
<1>1. CASE Tick \/ Reconnect \/ Revoke
  <2>1. account \in Token /\ account.n \in Nat /\ now \in Nat /\ refused \subseteq Nat
    BY DEF TypeOK, Token
  <2>2. now' \in Nat /\ account' \in Token /\ refused' \subseteq Nat
    <3>1. CASE Tick
      BY <2>1, <3>1 DEF Tick
    <3>2. CASE Reconnect
      <4>1. now + Life \in Nat /\ account.n + 1 \in Nat
        BY <1>0, <2>1
      <4> QED
        BY <2>1, <3>2, <4>1 DEF Reconnect, Token
    <3>3. CASE Revoke
      BY <2>1, <3>3 DEF Revoke
    <3> QED
      BY <1>1, <3>1, <3>2, <3>3
  <2> QED
    BY <1>0, <1>1, <2>2 DEF TypeOK, SpaceOK, Tick, Reconnect, Revoke
<1>13. CASE Release
  BY <1>13 DEF Release, TypeOK
<1>2. ASSUME NEW t \in Tasks, Begin(t) PROVE TypeOK'
  BY <1>0, <1>2 DEF TypeOK, SpaceOK, Begin, Goto
<1>3. ASSUME NEW t \in Tasks, NEW why \in Ended, Return(t, why),
             UNCHANGED <<now, account, refused, known, runs>>, SpaceOK', cache' \in Token
      PROVE  TypeOK'
  BY <1>3, ReturnType DEF TypeOK, SpaceOK
<1>4. ASSUME NEW t \in Tasks, NEW token \in Token, Proceed(t, token),
             UNCHANGED <<now, account, refused, known, runs>>, SpaceOK', cache' \in Token
      PROVE  TypeOK'
  BY <1>4, ProceedType DEF TypeOK, SpaceOK
<1>5. ASSUME NEW t \in Tasks, NEW l \in {"token", "query", "keep"}, Goto(t, l), UNCHANGED <<now, account, refused, cache, known, runs, checked>>,
             SpaceOK', held' \in [Tasks -> Token], stage' \in [Tasks -> {"use", "again", "stats"}],
             \A r \in Restores : stage'[r] # "stats"
      PROVE  TypeOK'
  BY <1>0, <1>5 DEF TypeOK, SpaceOK, Goto
<1>6. ASSUME NEW t \in Tasks, LookUp(t) PROVE TypeOK'
  <2>1. cache \in Token /\ held \in [Tasks -> Token]
    BY DEF TypeOK
  <2> QED
    BY <1>0, <1>4, <1>5, <1>6, <2>1 DEF LookUp, TypeOK
<1>7. ASSUME NEW t \in Tasks, Query(t) PROVE TypeOK'
  BY <1>0, <1>3, <1>5, <1>7 DEF Query, GiveUp, TypeOK
<1>8. ASSUME NEW t \in Tasks, Keep(t) PROVE TypeOK'
  <2>1. held[t] \in Token
    BY DEF TypeOK
  <2> QED
    BY <1>0, <1>3, <1>4, <1>8, <2>1 DEF Keep, GiveUp
<1>9. ASSUME NEW t \in Tasks, Quota(t) PROVE TypeOK'
  <2>1. SpaceOK' /\ UNCHANGED <<now, account, refused, known, runs>> /\ cache' \in Token
    BY <1>9 DEF Quota, SpaceOK, TypeOK
  <2>2. CASE Return(t, "failed")
    BY <1>0, <1>3, <2>1, <2>2
  <2>3. CASE Goto(t, "call") /\ checked' = [checked EXCEPT ![t] = TRUE] /\ UNCHANGED <<stage, held>>
    <3>1. t \notin Restores
      BY <1>9 DEF Quota, Working, TypeOK
    <3> QED
      BY <1>0, <1>9, <2>1, <2>3, <3>1 DEF Quota, Goto, TypeOK, SpaceOK
  <2> QED
    BY <1>9, <2>2, <2>3 DEF Quota
<1>10. ASSUME NEW t \in Tasks, Call(t) PROVE TypeOK'
  <2>1. SpaceOK' /\ UNCHANGED <<now, account, refused, cache, known, runs>> /\ cache' \in Token
    <3>1. byFiles' \in Nat /\ byApps' \in Nat
      BY <1>10, UploadType DEF Call, TypeOK
    <3> QED
      BY <1>10, <3>1 DEF Call, SpaceOK, TypeOK
  <2>2. CASE Return(t, "done") \/ Return(t, "failed")
    BY <1>0, <1>3, <2>1, <2>2
  <2>3. CASE t \in Backups /\ Goto(t, "token") /\ stage' = [stage EXCEPT ![t] = "stats"] /\ UNCHANGED <<held, checked>>
    BY <1>0, <1>5, <2>1, <2>3 DEF TypeOK
  <2>4. CASE /\ Goto(t, "token") /\ stage' = [stage EXCEPT ![t] = IF t \in Restores THEN "again" ELSE @]
             /\ UNCHANGED <<held, checked>>
    BY <1>0, <1>5, <2>1, <2>4 DEF TypeOK
  <2> QED
    BY <1>10, <2>2, <2>3, <2>4 DEF Call
<1>11. ASSUME NEW t \in Tasks, Stats(t) PROVE TypeOK'
  BY <1>0, <1>3, <1>11 DEF Stats, TypeOK
<1>12. CASE UNCHANGED vars
  BY <1>0, <1>12 DEF vars, TypeOK, SpaceOK
<1> QED
  BY <1>1, <1>13, <1>2, <1>6, <1>7, <1>8, <1>9, <1>10, <1>11, <1>12 DEF Next, TaskStep

(* Every variable keeps its type, for any tasks; only a backup has its     *)
(* quota checked or asks for its size.                                     *)
THEOREM TypeCorrect == Spec => []TypeOK
BY TypeInit, TypeStep, PTL DEF Spec

-----------------------------------------------------------------------------
(* The token that a task is told about. *)

LEMMA TokenStep ==
    ASSUME TypeOK, TokenInv, ToldToReconnect, [Next]_vars PROVE TokenInv' /\ ToldToReconnect'
<1> USE DEF service, taskVars
<1>0. /\ Life \in Nat /\ Margin \in Nat /\ now \in Nat /\ account \in Token
      /\ held \in [Tasks -> Token] /\ known \in [Tasks -> Token]
      /\ \A t \in Tasks : known[t].exp \in Nat /\ held[t].exp \in Nat
      /\ account.exp \in Nat
  BY Constants DEF TypeOK, Token
<1>1. CASE Tick
  BY <1>0, <1>1 DEF Tick, TokenInv, ToldToReconnect, Expired
<1>2. CASE Reconnect
  <2>1. account'.exp = now + Life /\ account.exp < now + Life
    BY <1>2 DEF Reconnect
  <2> QED
    BY <1>0, <1>2, <2>1 DEF Reconnect, TokenInv, ToldToReconnect, Expired
<1>3. CASE Revoke \/ Release
  BY <1>3 DEF Revoke, Release, TokenInv, ToldToReconnect, Expired
<1>4. ASSUME NEW t \in Tasks, Begin(t) PROVE TokenInv' /\ ToldToReconnect'
  <2>1. pc' = [pc EXCEPT ![t] = "token"] /\ known' = [known EXCEPT ![t] = account]
        /\ UNCHANGED <<now, account, held>>
    BY <1>4 DEF Begin, Goto
  <2> QED
    BY <1>0, <2>1 DEF TokenInv, ToldToReconnect, Expired, TypeOK
<1>5. ASSUME NEW t \in Tasks, UNCHANGED <<now, account, known>>, pc'[t] \notin {"keep", "expired"},
             \A u \in Tasks : u # t => pc'[u] = pc[u] /\ held'[u] = held[u]
      PROVE  TokenInv' /\ ToldToReconnect'
  BY <1>5 DEF TokenInv, ToldToReconnect, Expired
<1>6. ASSUME NEW t \in Tasks, NEW why \in {"done", "failed", "expired"}, Return(t, why)
      PROVE  pc'[t] = why /\ \A u \in Tasks : u # t => pc'[u] = pc[u] /\ held'[u] = held[u]
  BY <1>6 DEF Return, Goto, TypeOK
<1>7. ASSUME NEW t \in Tasks, NEW token, Proceed(t, token)
      PROVE  /\ pc'[t] \notin {"keep", "expired"}
             /\ \A u \in Tasks : u # t => pc'[u] = pc[u] /\ held'[u] = held[u]
  BY <1>7 DEF Proceed, Goto, TypeOK
<1>8. ASSUME NEW t \in Tasks, NEW l, Goto(t, l), UNCHANGED held
      PROVE  pc'[t] = l /\ \A u \in Tasks : u # t => pc'[u] = pc[u] /\ held'[u] = held[u]
  BY <1>8 DEF Goto, TypeOK
<1>9. ASSUME NEW t \in Tasks, LookUp(t) PROVE TokenInv' /\ ToldToReconnect'
  BY <1>5, <1>7, <1>8, <1>9 DEF LookUp
<1>10. ASSUME NEW t \in Tasks, Query(t) PROVE TokenInv' /\ ToldToReconnect'
  <2>1. CASE Goto(t, "keep") /\ held' = [held EXCEPT ![t] = account]
    <3>1. /\ UNCHANGED <<now, account, known>> /\ held'[t] = account /\ pc'[t] = "keep"
          /\ \A u \in Tasks : u # t => pc'[u] = pc[u] /\ held'[u] = held[u]
      BY <1>10, <2>1 DEF Query, Goto, TypeOK
    <3> QED
      BY <3>1 DEF TokenInv, ToldToReconnect, Expired
  <2>2. CASE GiveUp(t, "failed")
    BY <1>5, <1>6, <1>10, <2>2 DEF Query, GiveUp
  <2> QED
    BY <1>10, <2>1, <2>2 DEF Query
<1>11. ASSUME NEW t \in Tasks, Keep(t) PROVE TokenInv' /\ ToldToReconnect'
  <2>1. CASE Proceed(t, held[t])
    BY <1>5, <1>7, <1>11, <2>1 DEF Keep
  <2>2. CASE Expired(held[t]) /\ GiveUp(t, "expired")
    <3>1. known[t].exp <= held[t].exp
      BY <1>11 DEF Keep, Working, TokenInv
    <3>2. Expired(known[t])
      BY <1>0, <2>2, <3>1 DEF Expired
    <3>3. /\ pc'[t] # "keep" /\ UNCHANGED <<now, account, known>>
          /\ \A u \in Tasks : u # t => pc'[u] = pc[u] /\ held'[u] = held[u]
      BY <1>6, <1>11, <2>2 DEF Keep, GiveUp
    <3> QED
      BY <3>2, <3>3 DEF TokenInv, ToldToReconnect, Expired
  <2> QED
    BY <1>11, <2>1, <2>2 DEF Keep
<1>12. ASSUME NEW t \in Tasks, Quota(t) PROVE TokenInv' /\ ToldToReconnect'
  BY <1>5, <1>6, <1>8, <1>12 DEF Quota
<1>13. ASSUME NEW t \in Tasks, Call(t) PROVE TokenInv' /\ ToldToReconnect'
  BY <1>5, <1>6, <1>8, <1>13 DEF Call
<1>14. ASSUME NEW t \in Tasks, Stats(t) PROVE TokenInv' /\ ToldToReconnect'
  BY <1>5, <1>6, <1>14 DEF Stats
<1>15. CASE UNCHANGED vars
  BY <1>15 DEF vars, TokenInv, ToldToReconnect, Expired
<1> QED
  BY <1>1, <1>2, <1>3, <1>4, <1>9, <1>10, <1>11, <1>12, <1>13, <1>14, <1>15 DEF Next, TaskStep

(* Nobody is told to reconnect an account whose token was good when the    *)
(* task began and still is, whatever old answers the tasks write to the    *)
(* cache.                                                                  *)
THEOREM ReconnectCorrect == Spec => []ToldToReconnect
<1>1. Init => TokenInv /\ ToldToReconnect
  BY Constants DEF Init, TokenInv, ToldToReconnect, NoToken
<1> QED
  BY <1>1, TypeInit, TypeStep, TokenStep, PTL DEF Spec

-----------------------------------------------------------------------------
(* The quota. *)

LEMMA StageStep ==
    ASSUME TypeOK, StageInv, [Next]_vars PROVE StageInv'
<1> SUFFICES ASSUME NEW k \in Backups
             PROVE  /\ stage'[k] # "again"
                    /\ pc'[k] \in {"quota", "call"} => stage'[k] = "use"
                    /\ pc'[k] = "call" => checked'[k]
  BY DEF StageInv
<1> DEFINE Goal == /\ stage'[k] # "again"
                   /\ pc'[k] \in {"quota", "call"} => stage'[k] = "use"
                   /\ pc'[k] = "call" => checked'[k]
<1> USE DEF service, taskVars, StageInv
<1>0. k \in Tasks /\ k \notin Restores
  BY Constants
<1>1. ASSUME UNCHANGED <<pc, stage, checked>> PROVE Goal
  BY <1>1
<1>2. CASE Tick \/ Reconnect \/ Revoke \/ Release \/ UNCHANGED vars
  BY <1>1, <1>2 DEF Tick, Reconnect, Revoke, Release, vars
<1>3. ASSUME NEW t \in Tasks, NEW l \in {"token", "query", "keep"}, Goto(t, l), UNCHANGED <<stage, checked>> PROVE Goal
  BY <1>0, <1>3 DEF Goto, TypeOK
<1>4. ASSUME NEW t \in Tasks, NEW why \in Ended, Return(t, why) PROVE Goal
  BY <1>0, <1>4 DEF Return, Goto, Ended, TypeOK
<1>5. ASSUME NEW t \in Tasks, NEW token, Proceed(t, token) PROVE Goal
  <2>1. CASE t = k
    <3>1. stage[k] \in {"use", "stats"} /\ stage'[k] = stage[k] /\ checked'[k] = checked[k]
      BY <1>0, <1>5, <2>1 DEF Proceed, TypeOK
    <3>2. pc'[k] = IF stage[k] = "stats" THEN "stats" ELSE IF checked[k] THEN "call" ELSE "quota"
      BY <1>0, <1>5, <2>1, <3>1 DEF Proceed, Goto, TypeOK
    <3> QED
      BY <3>1, <3>2
  <2>2. CASE t # k
    BY <1>0, <1>5, <2>2 DEF Proceed, Goto, TypeOK
  <2> QED
    BY <2>1, <2>2
<1>6. ASSUME NEW t \in Tasks, Begin(t) PROVE Goal
  BY <1>3, <1>6 DEF Begin
<1>7. ASSUME NEW t \in Tasks, LookUp(t) \/ Query(t) \/ Keep(t) \/ Stats(t) PROVE Goal
  BY <1>3, <1>4, <1>5, <1>7 DEF LookUp, Query, Keep, Stats, GiveUp, Ended
<1>8. ASSUME NEW t \in Tasks, Quota(t) PROVE Goal
  <2>1. CASE Return(t, "failed")
    BY <1>4, <2>1 DEF Ended
  <2>2. CASE Goto(t, "call") /\ checked' = [checked EXCEPT ![t] = TRUE] /\ UNCHANGED stage
    BY <1>0, <1>8, <2>2 DEF Quota, Working, Goto, TypeOK
  <2> QED
    BY <1>8, <2>1, <2>2 DEF Quota
<1>9. ASSUME NEW t \in Tasks, Call(t) PROVE Goal
  <2>1. CASE Return(t, "done") \/ Return(t, "failed")
    BY <1>4, <2>1 DEF Ended
  <2>2. CASE Goto(t, "token") /\ (stage' = [stage EXCEPT ![t] = "stats"] \/ stage' = stage) /\ UNCHANGED checked
    BY <1>0, <2>2 DEF Goto, TypeOK
  <2>3. CASE Goto(t, "token") /\ t \in Restores /\ stage' = [stage EXCEPT ![t] = "again"] /\ UNCHANGED checked
    BY <1>0, <2>3 DEF Goto, TypeOK
  <2>4. CASE Goto(t, "token") /\ stage' = [stage EXCEPT ![t] = IF t \in Restores THEN "again" ELSE @] /\ UNCHANGED checked
    BY <2>2, <2>3, <2>4 DEF TypeOK
  <2> QED
    BY <1>9, <2>1, <2>2, <2>4 DEF Call
<1> QED
  BY <1>2, <1>6, <1>7, <1>8, <1>9 DEF Next, TaskStep

LEMMA Product ==
    ASSUME NEW s \in Nat, NEW m \in Nat, NEW n \in Nat
    PROVE  /\ s * m \in Nat /\ (m <= n => s * m <= s * n)
           /\ s * (m + 1) = s * m + s
<1>1. s * m \in Nat /\ s * n \in Nat
  OBVIOUS
<1>2. s * (m + 1) = s * m + s
  OBVIOUS
<1>3. ASSUME m <= n PROVE s * m <= s * n
  <2>1. PICK d \in Nat : n = m + d
    <3>1. n - m \in Nat /\ n = m + (n - m)
      BY <1>3
    <3> QED
      BY <3>1
  <2>2. s * n = s * m + s * d /\ s * d \in Nat
    BY <2>1
  <2> QED
    BY <1>1, <2>2
<1> QED
  BY <1>1, <1>2, <1>3

(* What passes the check on an account within its limit fits in the space  *)
(* that is free at that moment.                                            *)
LEMMA FitsMeans ==
    ASSUME TypeOK, NEW t \in FileBackups, Fits(t), Used <= Total PROVE byFiles + Size <= Total
<1>1. byFiles \in Nat /\ byApps \in Nat /\ Used = byFiles + byApps
  BY DEF TypeOK, Used
<1>2. Total - Used \in 0..(Word - 1)
  BY <1>1, Constants
<1>3. (Total - Used) % Word = Total - Used
  BY <1>2, Constants
<1>4. BackupSize(t) = Size
  BY DEF BackupSize, FileBackups
<1> QED
  BY <1>1, <1>3, <1>4, Constants DEF Fits, Free

LEMMA QuotaStep ==
    ASSUME TypeOK, StageInv, QuotaInv, [Next]_vars PROVE QuotaInv'
<1> DEFINE M == Cardinality(FileBackups)  N == Cardinality(Admitted)
<1> USE DEF service, taskVars, space
<1>0. /\ Size \in Nat /\ MaxUpload \in Nat /\ Total \in Nat /\ byFiles \in Nat /\ IsFiniteSet(FileBackups)
      /\ FileBackups \subseteq Backups /\ Backups \subseteq Tasks /\ Backups \cap Restores = {}
      /\ overdrawn \in BOOLEAN
  BY Constants DEF TypeOK
<1>1. IsFiniteSet(Admitted) /\ N \in Nat /\ M \in Nat
  BY <1>0, FS_Subset, FS_CardinalityType DEF Admitted
<1>2. IsFiniteSet(Admitted') /\ Cardinality(Admitted') \in Nat /\ Cardinality(Admitted') <= M
  <2>1. Admitted' \in SUBSET FileBackups
    BY DEF Admitted
  <2> QED
    BY <1>0, <2>1, FS_Subset, FS_CardinalityType
<1>3. ASSUME byFiles' \in Nat, byFiles' <= byFiles, overdrawn' = overdrawn, Admitted' \subseteq Admitted
      PROVE  QuotaInv'
  <2>1. Cardinality(Admitted') <= N
    BY <1>1, <1>3, FS_Subset
  <2>2. /\ MaxUpload * Cardinality(Admitted') <= MaxUpload * N
        /\ MaxUpload * Cardinality(Admitted') \in Nat /\ MaxUpload * N \in Nat /\ MaxUpload * M \in Nat
    BY <1>0, <1>1, <1>2, <2>1, Product
  <2>3. Admitted = {} => Admitted' = {}
    BY <1>3
  <2> QED
    BY <1>0, <1>3, <2>2, <2>3 DEF QuotaInv
<1>4. ASSUME UNCHANGED <<byFiles, overdrawn, stage, checked>> PROVE QuotaInv'
  BY <1>0, <1>3, <1>4 DEF Admitted
<1>5. CASE Tick \/ Reconnect \/ Revoke \/ (\E t \in Tasks : Begin(t)) \/ UNCHANGED vars
  BY <1>4, <1>5 DEF Tick, Reconnect, Revoke, Begin, vars
<1>6. CASE Release
  <2>1. byFiles' \in Nat /\ byFiles' <= byFiles /\ overdrawn' = overdrawn /\ UNCHANGED <<stage, checked>>
    BY <1>0, <1>6 DEF Release
  <2> QED
    BY <1>3, <2>1 DEF Admitted
<1>7. ASSUME NEW t \in Tasks, NEW why, Return(t, why), UNCHANGED <<byFiles, overdrawn>> PROVE QuotaInv'
  <2>1. Admitted' \subseteq Admitted
    BY <1>0, <1>7 DEF Return, Admitted, TypeOK
  <2> QED
    BY <1>0, <1>3, <1>7, <2>1
<1>8. ASSUME NEW t \in Tasks, NEW token, Proceed(t, token), UNCHANGED <<byFiles, overdrawn>> PROVE QuotaInv'
  <2>1. t \in Backups => stage'[t] = stage[t]
    BY <1>0, <1>8 DEF Proceed, StageInv, TypeOK
  <2>2. Admitted' \subseteq Admitted
    BY <1>0, <1>8, <2>1 DEF Proceed, Admitted, TypeOK
  <2> QED
    BY <1>0, <1>3, <1>8, <2>2
<1>9. ASSUME NEW t \in Tasks, LookUp(t) \/ Query(t) \/ Keep(t) \/ Stats(t) PROVE QuotaInv'
  BY <1>4, <1>7, <1>8, <1>9 DEF LookUp, Query, Keep, Stats, GiveUp
<1>10. ASSUME NEW t \in Tasks, Quota(t) PROVE QuotaInv'
  <2>1. CASE Return(t, "failed") /\ UNCHANGED overdrawn
    BY <1>7, <1>10, <2>1 DEF Quota
  <2>2. CASE /\ Fits(t) /\ checked' = [checked EXCEPT ![t] = TRUE] /\ UNCHANGED <<stage, held>>
             /\ overdrawn' = (overdrawn \/ (t \in FileBackups /\ Used > Total))
    <3>1. CASE t \in FileBackups /\ Used <= Total
      <4>1. byFiles' = byFiles /\ byFiles + Size <= Total
        BY <1>10, <2>2, <3>1, FitsMeans DEF Quota
      <4>2. /\ MaxUpload * Cardinality(Admitted') <= MaxUpload * M
            /\ MaxUpload * Cardinality(Admitted') \in Nat /\ MaxUpload * M \in Nat
        BY <1>0, <1>1, <1>2, Product
      <4> QED
        BY <1>0, <4>1, <4>2 DEF QuotaInv
    <3>2. CASE t \in FileBackups /\ Used > Total
      BY <2>2, <3>2 DEF QuotaInv
    <3>3. CASE t \notin FileBackups
      <4>1. Admitted' = Admitted
        BY <1>0, <2>2, <3>3 DEF Admitted, TypeOK
      <4>2. byFiles' = byFiles /\ overdrawn' = overdrawn
        BY <1>0, <1>10, <2>2, <3>3 DEF Quota
      <4> QED
        BY <1>0, <1>3, <4>1, <4>2
    <3>4. Used <= Total \/ Used > Total
      BY <1>0 DEF Used, TypeOK
    <3> QED
      BY <3>1, <3>2, <3>3, <3>4
  <2> QED
    BY <1>10, <2>1, <2>2 DEF Quota
<1>11. ASSUME NEW t \in Tasks, Call(t) PROVE QuotaInv'
  <2>0. overdrawn' = overdrawn
    BY <1>11 DEF Call
  <2>1. CASE (Return(t, "done") \/ Return(t, "failed")) /\ UNCHANGED byFiles
    BY <1>7, <2>0, <2>1
  <2>2. CASE /\ t \in FileBackups
             /\ \E s \in 0..MaxUpload : byFiles' = byFiles + s
             /\ \/ stage' = [stage EXCEPT ![t] = "stats"] /\ UNCHANGED checked
                \/ Return(t, "failed")
    <3>1. t \in Admitted
      BY <1>0, <1>11, <2>2 DEF Call, Working, StageInv, Admitted
    <3>2. Admitted' = Admitted \ {t}
      BY <1>0, <2>2 DEF Return, Admitted, TypeOK
    <3>3. Cardinality(Admitted') = N - 1 /\ N - 1 \in Nat /\ N = (N - 1) + 1
      BY <1>1, <1>2, <3>1, <3>2, FS_RemoveElement
    <3>4. /\ MaxUpload * N = MaxUpload * (N - 1) + MaxUpload /\ MaxUpload * (N - 1) \in Nat
          /\ MaxUpload * M \in Nat
      BY <1>0, <1>1, <3>3, Product
    <3>5. byFiles' \in Nat /\ byFiles' <= byFiles + MaxUpload
      BY <1>0, <2>2
    <3> QED
      BY <1>0, <2>0, <3>1, <3>3, <3>4, <3>5 DEF QuotaInv
  <2>3. CASE /\ stage' = [stage EXCEPT ![t] = IF t \in Restores THEN "again" ELSE @]
             /\ UNCHANGED <<byFiles, checked>>
    <3>1. Admitted' \subseteq Admitted
      BY <1>0, <2>3 DEF Admitted, TypeOK
    <3> QED
      BY <1>0, <1>3, <2>0, <2>3, <3>1
  <2>4. CASE t \in AppBackups /\ UNCHANGED byFiles /\ stage' = [stage EXCEPT ![t] = "stats"] /\ UNCHANGED checked
    <3>1. Admitted' \subseteq Admitted
      BY <1>0, <2>4 DEF Admitted, FileBackups, TypeOK
    <3> QED
      BY <1>0, <1>3, <2>0, <2>4, <3>1
  <2> QED
    BY <1>11, <2>1, <2>2, <2>3, <2>4 DEF Call, Upload, FileBackups
<1> QED
  BY <1>5, <1>6, <1>9, <1>10, <1>11 DEF Next, TaskStep

LEMMA QuotaInit == Init => StageInv /\ QuotaInv
<1> SUFFICES ASSUME Init PROVE StageInv /\ QuotaInv
  OBVIOUS
<1>1. StageInv
  BY Constants DEF Init, StageInv
<1>2. Admitted = {}
  BY Constants DEF Init, Admitted
<1> QED
  BY <1>1, <1>2, Constants DEF QuotaInv, Init

(* File backups that pass the check of the quota together outgrow the      *)
(* account by less than one run of each of them, for any number of backups *)
(* and of runs, whatever applications add and the service permits, as long *)
(* as no check meets an account that is over its limit.                    *)
THEOREM OverrunCorrect == Spec => []OverrunIsBounded
<1>1. TypeOK /\ QuotaInv => OverrunIsBounded
  <2> SUFFICES ASSUME TypeOK, QuotaInv PROVE OverrunIsBounded
    OBVIOUS
  <2>1. Admitted \in SUBSET FileBackups /\ IsFiniteSet(FileBackups)
    BY Constants DEF Admitted
  <2>2. Cardinality(Admitted) \in Nat /\ Cardinality(FileBackups) \in Nat
    BY <2>1, FS_Subset, FS_CardinalityType
  <2>3. /\ MaxUpload * Cardinality(Admitted) \in Nat /\ MaxUpload * Cardinality(FileBackups) \in Nat
        /\ byFiles \in Nat
    BY <2>2, Constants, Product DEF TypeOK
  <2> QED
    BY <2>3, Constants DEF QuotaInv, OverrunIsBounded
<1> QED
  BY <1>1, TypeInit, TypeStep, QuotaInit, StageStep, QuotaStep, PTL DEF Spec
=============================================================================
