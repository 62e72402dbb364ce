------------------------- MODULE BucketAccountsProofs -------------------------
(***************************************************************************)
(* A plan stays with its repository, and a restore uses an account of the  *)
(* address.  The first needs to know what the run holds between the upload *)
(* and the record of the location; the second that a walk through accounts *)
(* that stay as they are meets them in order, and has passed over those    *)
(* that do not fit.                                                        *)
(***************************************************************************)
EXTENDS BucketAccounts, SequenceTheorems, WellFoundedInduction, TLAPS

Account == [name : Names, at : Endpoints]

(* The settings service holds one account of a name *)
AccountType ==
    /\ accounts \in Seq(Account)
    /\ \A i, j \in 1..Len(accounts) : accounts[i].name = accounts[j].name => i = j

(* What an operation on the plan holds: a plan is added once, a backup     *)
(* knows the plan as it is, and what is recorded is the account of the     *)
(* upload                                                                  *)
PlanHeld ==
    /\ tokens \in Seq(Account \cup {NoAccount})
    /\ op = "plan" /\ opc = "fetch" => plan = NoAccount
    /\ op = "backup" /\ opc \in {"fetch", "record"} => target = plan
    /\ opc = "record" =>
          /\ op = "backup"
          /\ tokens[1].name = target.name \/ tokens[1].at = target.at

(* The walk ends at an account with the endpoint, or with the bucket       *)
Fits(account) ==
    IF op = "check" THEN SameEndpoint(account.at, target) ELSE SameBucket(account.at, target)

(* How many accounts a walk has passed over *)
Passed == Len(accounts) - Len(listed)

(* A walk under way, while the accounts stay as they are: those passed     *)
(* over do not fit, the others are listed by name, in their order          *)
Walking ==
    /\ listed \in Seq(Names) /\ Len(listed) \in 1..Len(accounts)
    /\ \A i \in 1..Len(listed) : listed[i] = accounts[Passed + i].name
    /\ \A i \in 1..Passed : Parsable(accounts[i].at) /\ ~Fits(accounts[i])

(* The worker has found the name of an account with the bucket             *)
NameFound ==
    /\ op = "restore"
    /\ \E i \in 1..Len(accounts) :
          Last(tokens) = accounts[i] /\ SameBucket(accounts[i].at, target)

WalkInv ==
    /\ steady /\ op \in {"check", "restore"} /\ opc = "fetch" => Walking
    /\ steady /\ opc = "token" => NameFound
    /\ RestoreUsesItsAccount
    /\ RestoreFindsItsAccount

AccountInv == AccountType /\ PlanHeld

-----------------------------------------------------------------------------
(* Facts about the operators of the model. *)

(* A set of indices that is not empty has a least one (SelectInSeq).       *)
LEMMA LeastIndex ==
    ASSUME NEW I \in SUBSET Nat, I # {}
    PROVE  Min(I) \in I /\ \A j \in I : Min(I) <= j
<1> DEFINE R == {p \in Nat \X Nat : p[1] < p[2]}
<1>1. IsWellFoundedOn(R, Nat)
  <2>1. R = OpToRel(<, Nat)
    BY Zenon DEF OpToRel
  <2> QED
    BY <2>1, NatLessThanWellFounded, Zenon
<1>2. PICK i \in I : \A j \in I : <<j, i>> \notin R
  <2> HIDE DEF R
  <2> QED
    BY <1>1, WFMin
<1>3. \A j \in I : i <= j
  <2> SUFFICES ASSUME NEW j \in I, ~(i <= j) PROVE FALSE
    OBVIOUS
  <2>1. j \in Nat /\ i \in Nat /\ j < i
    OBVIOUS
  <2>2. <<j, i>> \in R
    BY <2>1
  <2> QED
    BY <1>2, <2>2
<1> QED
  BY <1>3 DEF Min

(* A fetch by name answers with the account of that name, or with an error *)
(* when there is none (GetIntegrationCloudToken).                          *)
LEMMA RetrieveIsNamed ==
    ASSUME AccountType, NEW n
    PROVE  \/ /\ Retrieve(n) = NoAccount
              /\ \A i \in 1..Len(accounts) : accounts[i].name # n
           \/ \E i \in 1..Len(accounts) : Retrieve(n) = accounts[i] /\ accounts[i].name = n
<1> DEFINE I == {i \in 1..Len(accounts) : accounts[i].name = n}
           at == IF I # {} THEN Min(I) ELSE 0
<1>1. Retrieve(n) = IF at = 0 THEN NoAccount ELSE accounts[at]
  BY Zenon DEF Retrieve, SelectInSeq
<1>2. I \in SUBSET Nat /\ Len(accounts) \in Nat
  BY DEF AccountType
<1>3. CASE I = {}
  BY <1>1, <1>3
<1>4. CASE I # {}
  <2>1. Min(I) \in I
    BY <1>2, <1>4, LeastIndex
  <2>2. at = Min(I) /\ at \in 1..Len(accounts) /\ accounts[at].name = n
    BY <2>1, <1>4
  <2> HIDE DEF at
  <2>3. Retrieve(n) = accounts[at]
    BY <1>1, <2>2
  <2> QED
    BY <2>2, <2>3
<1> QED
  BY <1>3, <1>4

(* The account with a name that the service lists is the one that a fetch  *)
(* returns: names are distinct (GetIntegrationCloudToken).                 *)
LEMMA RetrieveListed ==
    ASSUME AccountType, NEW i \in 1..Len(accounts)
    PROVE  Retrieve(accounts[i].name) = accounts[i]
BY RetrieveIsNamed DEF AccountType

LEMMA RetrieveType ==
    ASSUME AccountType, NEW n
    PROVE  Retrieve(n) \in Account \cup {NoAccount}
BY RetrieveIsNamed DEF AccountType

(* The elements of r stand in s, at places of their own *)
KeptFrom(r, s) ==
    \A i, j \in 1..Len(r) : i # j =>
        \E k, l \in 1..Len(s) : k # l /\ r[i] = s[k] /\ r[j] = s[l]

(* What is left when the first e is taken out of s are elements of s at    *)
(* places of their own (RemoveFirst).                                      *)
LEMMA RemoveFirstKeeps ==
    ASSUME NEW S, NEW s \in Seq(S), NEW e
    PROVE  RemoveFirst(s, e) \in Seq(S) /\ KeptFrom(RemoveFirst(s, e), s)
<1> DEFINE I == {i \in 1..Len(s) : s[i] = e}
           at == IF I # {} THEN Min(I) ELSE 0
           r  == RemoveFirst(s, e)
<1>1. CASE I = {}
  <2>1. r = s
    BY <1>1 DEF RemoveFirst
  <2> QED
    BY <2>1 DEF KeptFrom
<1>2. CASE I # {}
  <2>1. r = SubSeq(s, 1, at - 1) \o SubSeq(s, at + 1, Len(s))
    <3>1. \E i \in 1..Len(s) : s[i] = e
      BY <1>2
    <3> QED
      BY <3>1, Zenon DEF RemoveFirst, RemoveAt, SelectInSeq
  <2>2. at \in 1..Len(s) /\ Len(s) \in Nat
    <3>1. I \in SUBSET Nat
      OBVIOUS
    <3>2. Min(I) \in I
      <4> HIDE DEF I
      <4> QED
        BY <1>2, <3>1, LeastIndex
    <3> QED
      BY <1>2, <3>2
  <2> DEFINE a == SubSeq(s, 1, at - 1)
             b == SubSeq(s, at + 1, Len(s))
  <2> HIDE DEF at
  <2>3. /\ a \in Seq(S) /\ Len(a) = at - 1
        /\ \A i \in 1..(at - 1) : a[i] = s[i]
    BY <2>2
  <2>4. /\ b \in Seq(S) /\ Len(b) = Len(s) - at
        /\ \A i \in 1..(Len(s) - at) : b[i] = s[at + i]
    BY <2>2
  <2> HIDE DEF a, b
  <2>5. /\ r \in Seq(S) /\ Len(r) = Len(s) - 1
        /\ \A i \in 1..(Len(s) - 1) : r[i] = s[IF i < at THEN i ELSE i + 1]
    <3>1. r = a \o b
      BY <2>1 DEF a, b
    <3>2. r \in Seq(S) /\ Len(r) = Len(s) - 1
      BY <3>1, <2>2, <2>3, <2>4
    <3>3. ASSUME NEW i \in 1..(Len(s) - 1) PROVE r[i] = s[IF i < at THEN i ELSE i + 1]
      <4> HIDE DEF r
      <4>1. CASE i < at
        BY <4>1, <3>1, <2>2, <2>3, <2>4
      <4>2. CASE ~(i < at)
        <5>1. i - (at - 1) \in 1..(Len(s) - at) /\ at + (i - (at - 1)) = i + 1
          BY <4>2, <2>2
        <5>2. r[i] = b[i - (at - 1)]
          BY <5>1, <4>2, <3>1, <2>2, <2>3, <2>4
        <5> QED
          BY <5>1, <5>2, <4>2, <2>4
      <4> QED
        BY <4>1, <4>2
    <3> QED
      BY <3>2, <3>3
  <2> HIDE DEF r
  <2>6. ASSUME NEW i \in 1..Len(r), NEW j \in 1..Len(r), i # j
        PROVE  \E k, l \in 1..Len(s) : k # l /\ r[i] = s[k] /\ r[j] = s[l]
    <3> DEFINE k == IF i < at THEN i ELSE i + 1
               l == IF j < at THEN j ELSE j + 1
    <3>1. k \in 1..Len(s) /\ l \in 1..Len(s) /\ k # l
      BY <2>2, <2>5, <2>6
    <3>2. r[i] = s[k] /\ r[j] = s[l]
      BY <2>5
    <3> QED
      BY <3>1, <3>2
  <2>7. r \in Seq(S) /\ KeptFrom(r, s)
    BY <2>5, <2>6 DEF KeptFrom
  <2> QED
    BY <2>7 DEF r
<1> QED
  BY <1>1, <1>2

(* The account that a backup chooses is the plan's, or has the plan's      *)
(* endpoint (getIntegrationCloud).                                         *)
LEMMA ChoiceFits ==
    ASSUME tokens \in Seq(Account \cup {NoAccount}), Choice # NoAccount
    PROVE  Choice \in Account /\ (Choice.name = target.name \/ Choice.at = target.at)
<1> DEFINE I == {i \in 1..Len(tokens) : tokens[i] = NoAccount \/ tokens[i].name = target.name}
           J == {i \in 1..Len(tokens) : tokens[i].at = target.at}
           named == IF I # {} THEN Min(I) ELSE 0
           there == IF J # {} THEN Min(J) ELSE 0
<1>1. Choice = IF named # 0 THEN tokens[named]
               ELSE IF there # 0 THEN tokens[there] ELSE NoAccount
  BY Zenon DEF Choice, SelectInSeq, ByEndpoint
<1>2. I \in SUBSET Nat /\ J \in SUBSET Nat
  OBVIOUS
<1>3. named # 0 => named \in I
  <2> HIDE DEF I
  <2> QED
    BY <1>2, LeastIndex
<1>4. there # 0 => there \in J
  <2> HIDE DEF J
  <2> QED
    BY <1>2, LeastIndex
<1> HIDE DEF named, there
<1> QED
  BY <1>1, <1>3, <1>4

-----------------------------------------------------------------------------
(* The accounts keep their names apart: one is added only under a name     *)
(* that is not there (the settings service).                               *)
LEMMA AccountTypeNext ==
    ASSUME AccountType, [BucketStep]_bucketVars
    PROVE  AccountType'
<1>1. ASSUME NEW n \in Names, NEW e \in Endpoints, AddAccount(n, e)
      PROVE  AccountType'
  <2> DEFINE new == [name |-> n, at |-> e]
  <2>1. new \in Account /\ accounts' = Append(accounts, new) /\ new.name = n
    BY <1>1 DEF AddAccount, Edit, Account
  <2>2. \A i \in 1..Len(accounts) : accounts[i].name # n
    <3>1. Retrieve(n) = NoAccount
      BY <1>1 DEF AddAccount
    <3>2. \A i \in 1..Len(accounts) : accounts[i] # NoAccount
      <4>1. NoAccount \notin Account
        BY NilAssumption DEF Account
      <4> QED
        BY <4>1 DEF AccountType
    <3> QED
      BY <3>1, <3>2, RetrieveIsNamed
  <2> HIDE DEF new
  <2>3. accounts \in Seq(Account)
    BY DEF AccountType
  <2>4. /\ accounts' \in Seq(Account) /\ Len(accounts') = Len(accounts) + 1
        /\ accounts'[Len(accounts) + 1] = new
        /\ \A i \in 1..Len(accounts) : accounts'[i] = accounts[i]
    BY <2>1, <2>3
  <2>5. ASSUME NEW i \in 1..Len(accounts'), NEW j \in 1..Len(accounts'),
               accounts'[i].name = accounts'[j].name
        PROVE  i = j
    <3>1. Len(accounts) \in Nat
      BY <2>3
    <3>2. /\ i \in 1..Len(accounts) \/ i = Len(accounts) + 1
          /\ j \in 1..Len(accounts) \/ j = Len(accounts) + 1
      BY <2>4, <3>1
    <3> QED
      BY <2>1, <2>2, <2>4, <2>5, <3>1, <3>2 DEF AccountType
  <2> QED
    BY <2>4, <2>5 DEF AccountType
<1>2. ASSUME NEW n \in Names, RemoveAccount(n)
      PROVE  AccountType'
  <2> DEFINE e == Retrieve(n)
  <2>1. accounts' = RemoveFirst(accounts, e) /\ accounts \in Seq(Account)
    BY <1>2 DEF RemoveAccount, Edit, AccountType
  <2> HIDE DEF e
  <2>2. accounts' \in Seq(Account) /\ KeptFrom(accounts', accounts)
    BY <2>1, RemoveFirstKeeps
  <2>3. ASSUME NEW i \in 1..Len(accounts'), NEW j \in 1..Len(accounts'),
               accounts'[i].name = accounts'[j].name, i # j
        PROVE  FALSE
    <3>1. PICK k \in 1..Len(accounts), l \in 1..Len(accounts) :
             k # l /\ accounts'[i] = accounts[k] /\ accounts'[j] = accounts[l]
      BY <2>2, <2>3 DEF KeptFrom
    <3> QED
      BY <2>3, <3>1 DEF AccountType
  <2> QED
    BY <2>2, <2>3 DEF AccountType
<1>3. ASSUME accounts' = accounts
      PROVE  AccountType'
  BY <1>3 DEF AccountType
<1> QED
  BY <1>1, <1>2, <1>3
  DEF BucketStep, bucketVars, AddPlan, AddRestore, RunBackup, StartOp, PlanToken, BackupToken,
      FetchNext, Upload, RecordLocation, CheckToken, GetSnapshot, RestoreList, RestoreToken,
      Download, EndOp

(* A step that leaves the operation's record alone leaves what it holds.   *)
LEMMA PlanHeldFrame ==
    ASSUME PlanHeld, UNCHANGED <<plan, opVars>>
    PROVE  PlanHeld'
BY DEF PlanHeld, opVars

(* An operation begins with what it was asked about, and nothing fetched   *)
(* (queryIntegrationAccounts).                                             *)
LEMMA PlanHeldStart ==
    ASSUME NEW kind, NEW about, StartOp(kind, about),
           kind = "plan" => plan = NoAccount,
           kind = "backup" => about = plan
    PROVE  PlanHeld'
BY DEF PlanHeld, StartOp, List

(* Every step keeps what the operation holds: the next account of a walk   *)
(* is one or an error, and an upload is done with the account chosen.      *)
LEMMA PlanHeldNext ==
    ASSUME AccountType, PlanHeld, [BucketStep]_bucketVars
    PROVE  PlanHeld'
<1> DEFINE T == Account \cup {NoAccount}
<1>1. tokens \in Seq(T)
  BY DEF PlanHeld
<1>2. ASSUME NEW token \in T, NEW label, FetchNext(token, label),
             label \in {"fetch", "open", "token", "failed"}, op # "plan", opc = "fetch"
      PROVE  PlanHeld'
  <2>1. tokens' \in Seq(T)
    BY <1>1, <1>2 DEF FetchNext
  <2>2. opc' \in {"fetch", "open", "token", "failed"} /\ UNCHANGED <<plan, op, target>>
    BY <1>2 DEF FetchNext
  <2>3. op' = "backup" /\ opc' = "fetch" => target' = plan'
    BY <1>2, <2>2 DEF PlanHeld
  <2> QED
    BY <1>2, <2>1, <2>2, <2>3 DEF PlanHeld
<1>3. ASSUME NEW n \in Names,
             RemoveAccount(n) \/ AddPlan(n) \/ \E e \in Endpoints : AddAccount(n, e)
      PROVE  PlanHeld'
  <2>1. CASE AddPlan(n)
    BY <2>1, PlanHeldStart DEF AddPlan
  <2>2. CASE ~AddPlan(n)
    BY <1>3, <2>2, PlanHeldFrame DEF RemoveAccount, AddAccount, Edit
  <2> QED
    BY <2>1, <2>2
<1>4. ASSUME NEW e \in Endpoints, AddRestore(e)
      PROVE  PlanHeld'
  BY <1>4, PlanHeldStart DEF AddRestore
<1>5. CASE RunBackup
  BY <1>5, PlanHeldStart DEF RunBackup
<1>6. CASE BackupToken
  <2>1. Retrieve(Head(listed)) \in T
    BY RetrieveType
  <2>2. FetchNext(Retrieve(Head(listed)), "fetch") /\ op = "backup" /\ opc = "fetch"
    BY <1>6 DEF BackupToken, Fetching
  <2> QED
    BY <1>2, <2>1, <2>2
<1>7. CASE CheckToken
  <2>1. Retrieve(Head(listed)) \in T
    BY RetrieveType
  <2>2. FetchNext(Retrieve(Head(listed)), CloudAccount(Retrieve(Head(listed)))) /\ op = "check" /\ opc = "fetch"
    BY <1>7 DEF CheckToken, Fetching
  <2>3. CloudAccount(Retrieve(Head(listed))) \in {"fetch", "open", "token", "failed"}
    BY DEF CloudAccount
  <2> QED
    BY <1>2, <2>1, <2>2, <2>3
<1>8. CASE RestoreToken
  <2>1. Retrieve(Head(listed)) \in T
    BY RetrieveType
  <2>2. FetchNext(Retrieve(Head(listed)), NameByLocation(Retrieve(Head(listed)))) /\ op = "restore" /\ opc = "fetch"
    BY <1>8 DEF RestoreToken, Fetching
  <2>3. NameByLocation(Retrieve(Head(listed))) \in {"fetch", "open", "token", "failed"}
    BY DEF NameByLocation
  <2> QED
    BY <1>2, <2>1, <2>2, <2>3
<1>9. CASE Upload
  <2>1. CASE Choice # NoAccount /\ tokens' = <<Choice>> /\ opc' = "record"
    <3>1. Choice \in Account /\ (Choice.name = target.name \/ Choice.at = target.at)
      BY <1>1, <2>1, ChoiceFits
    <3>2. tokens' \in Seq(T) /\ tokens'[1] = Choice
      BY <2>1, <3>1
    <3> QED
      BY <1>9, <2>1, <3>1, <3>2 DEF Upload, PlanHeld, Fetching
  <2>2. CASE opc' = "failed" /\ UNCHANGED tokens
    BY <1>9, <2>2 DEF Upload, PlanHeld, Fetching
  <2> QED
    BY <1>9, <2>1, <2>2 DEF Upload
<1>10. CASE PlanToken
  BY <1>10 DEF PlanToken, PlanHeld
<1>11. CASE RecordLocation
  BY <1>11 DEF RecordLocation, PlanHeld
<1>12. CASE GetSnapshot
  BY <1>12 DEF GetSnapshot, PlanHeld
<1>13. CASE RestoreList
  BY <1>13 DEF RestoreList, List, PlanHeld
<1>14. CASE Download
  <2>1. Retrieve(Last(tokens).name) \in T
    BY RetrieveType
  <2>2. /\ tokens' = <<Retrieve(Last(tokens).name)>> /\ opc' \in {"failed", "done"}
        /\ UNCHANGED <<plan, op, target>>
    BY <1>14 DEF Download
  <2>3. tokens' \in Seq(T)
    BY <2>1, <2>2
  <2> QED
    BY <2>2, <2>3 DEF PlanHeld
<1>15. CASE EndOp
  BY <1>15 DEF EndOp, PlanHeld
<1>16. CASE UNCHANGED bucketVars
  BY <1>16, PlanHeldFrame DEF bucketVars
<1> QED
  BY <1>3, <1>4, <1>5, <1>6, <1>7, <1>8, <1>9, <1>10, <1>11, <1>12, <1>13, <1>14, <1>15, <1>16
  DEF BucketStep

(* The same facts in the first state.                                      *)
LEMMA AccountInit == BucketInit => AccountInv
BY DEF BucketInit, AccountInv, AccountType, PlanHeld

LEMMA AccountAlways == BucketSpec => []AccountInv
<1>1. AccountInv /\ [BucketStep]_bucketVars => AccountInv'
  BY AccountTypeNext, PlanHeldNext DEF AccountInv
<1> QED
  BY AccountInit, <1>1, PTL DEF BucketSpec

(* What a step may do to the plan and to the snapshots: the account that   *)
(* is recorded was found by the plan's endpoint, and an upload goes there  *)
(* or to the account that the plan names (getIntegrationCloud,             *)
(* buildLocation, UpdateTotalSize).                                        *)
LEMMA RepositoryStep ==
    ASSUME AccountInv, [BucketStep]_bucketVars
    PROVE  /\ plan # NoAccount => plan'.at = plan.at
           /\ \A e \in stored' \ stored : e = plan.at \/ tokens'[1].name = plan.name
<1>1. CASE Upload
  <2>1. plan' = plan /\ target = plan
    BY <1>1 DEF Upload, Fetching, AccountInv, PlanHeld
  <2>2. CASE Choice # NoAccount /\ stored' = stored \cup {Choice.at} /\ tokens' = <<Choice>>
    <3>1. Choice.name = target.name \/ Choice.at = target.at
      BY <2>2, ChoiceFits DEF AccountInv, PlanHeld
    <3>2. tokens'[1] = Choice
      BY <2>2
    <3> QED
      BY <2>1, <2>2, <3>1, <3>2
  <2>3. CASE stored' = stored
    BY <2>1, <2>3
  <2> QED
    BY <1>1, <2>2, <2>3 DEF Upload
<1>2. CASE RecordLocation
  BY <1>2 DEF RecordLocation, AccountInv, PlanHeld
<1>3. CASE PlanToken
  BY <1>3 DEF PlanToken, Fetching, AccountInv, PlanHeld
<1>4. CASE UNCHANGED <<plan, stored>>
  BY <1>4
<1> QED
  BY <1>1, <1>2, <1>3, <1>4
  DEF BucketStep, bucketVars, AddAccount, RemoveAccount, Edit, AddPlan, AddRestore, RunBackup,
      StartOp, BackupToken, FetchNext, CheckToken, GetSnapshot, RestoreList, RestoreToken,
      Download, EndOp

(* However the accounts come and go between the requests of a run, the     *)
(* plan stays with the repository of its endpoint.                         *)
THEOREM RepositoryCorrect == BucketSpec => RepositoryIsKept
<1> DEFINE A == /\ plan # NoAccount => plan'.at = plan.at
                /\ \A e \in stored' \ stored : e = plan.at \/ tokens'[1].name = plan.name
<1>1. AccountInv /\ [BucketStep]_bucketVars => [A]_bucketVars
  BY RepositoryStep
<1> QED
  BY AccountAlways, <1>1, PTL DEF BucketSpec, RepositoryIsKept

-----------------------------------------------------------------------------
(* A list names the accounts in their order, and none is passed over yet   *)
(* (queryIntegrationAccounts).                                             *)
LEMMA WalkBegins ==
    ASSUME AccountType, List, accounts' = accounts, accounts # <<>>
    PROVE  Walking'
<1>1. accounts \in Seq(Account) /\ Len(accounts) \in Nat \ {0}
  BY DEF AccountType
<1>2. \A i \in 1..Len(accounts) : accounts[i].name \in Names
  <2>1. \A i \in 1..Len(accounts) : accounts[i] \in Account
    BY <1>1
  <2> QED
    BY <2>1 DEF Account
<1>3. listed' \in Seq(Names) /\ Len(listed') = Len(accounts)
  BY <1>1, <1>2 DEF List
<1>4. \A i \in 1..Len(accounts) : listed'[i] = accounts[i].name
  BY <1>1 DEF List
<1>5. Passed' = 0
  BY <1>1, <1>3 DEF Passed
<1> QED
  BY <1>1, <1>3, <1>4, <1>5 DEF Walking

(* The account fetched next is the first that is not passed over           *)
(* (GetIntegrationCloudToken).                                             *)
LEMMA WalkFetches ==
    ASSUME AccountType, Walking
    PROVE  /\ Passed + 1 \in 1..Len(accounts)
           /\ Retrieve(Head(listed)) = accounts[Passed + 1]
           /\ accounts[Passed + 1] # NoAccount
<1>1. Len(accounts) \in Nat /\ listed # <<>> /\ Len(listed) \in 1..Len(accounts)
  BY DEF AccountType, Walking
<1>2. Passed \in Nat /\ Passed + 1 \in 1..Len(accounts)
  BY <1>1 DEF Passed
<1>3. Head(listed) = accounts[Passed + 1].name
  BY <1>1 DEF Walking
<1>4. accounts[Passed + 1] # NoAccount
  <2>1. NoAccount \notin Account
    BY NilAssumption DEF Account
  <2> QED
    BY <1>2, <2>1 DEF AccountType
<1> QED
  BY <1>2, <1>3, <1>4, RetrieveListed

(* A walk that goes on has passed over one more (CloudAccount,             *)
(* NameByLocation).                                                        *)
LEMMA WalkGoesOn ==
    ASSUME AccountType, Walking, UNCHANGED <<accounts, op, target>>,
           listed' = Tail(listed), Tail(listed) # <<>>,
           Parsable(accounts[Passed + 1].at), ~Fits(accounts[Passed + 1])
    PROVE  Walking'
<1>1. Len(accounts) \in Nat /\ listed \in Seq(Names) /\ listed # <<>>
      /\ Len(listed) \in 1..Len(accounts)
  BY DEF AccountType, Walking
<1>2. Tail(listed) \in Seq(Names) /\ Len(Tail(listed)) = Len(listed) - 1
  BY <1>1
<1>3. \A i \in 1..Len(Tail(listed)) : i + 1 \in 1..Len(listed) /\ Tail(listed)[i] = listed[i + 1]
  BY <1>1
<1>4. Passed \in Nat /\ Passed' = Passed + 1 /\ Len(listed') \in 1..Len(accounts')
  <2>1. Len(Tail(listed)) # 0
    BY <1>2
  <2> QED
    BY <1>1, <1>2, <2>1 DEF Passed
<1>5. ASSUME NEW i \in 1..Len(listed') PROVE listed'[i] = accounts'[Passed' + i].name
  <2>1. i + 1 \in 1..Len(listed) /\ listed'[i] = listed[i + 1]
    BY <1>3
  <2>2. listed[i + 1] = accounts[Passed + (i + 1)].name
    BY <2>1 DEF Walking
  <2>3. Passed + (i + 1) = Passed' + i
    BY <1>4, <2>1
  <2> QED
    BY <2>1, <2>2, <2>3
<1>6. ASSUME NEW i \in 1..Passed' PROVE (Parsable(accounts[i].at) /\ ~Fits(accounts[i]))'
  <2>1. i \in 1..Passed \/ i = Passed + 1
    BY <1>4
  <2>2. Parsable(accounts[i].at) /\ ~Fits(accounts[i])
    BY <2>1 DEF Walking
  <2>3. accounts' = accounts /\ op' = op /\ target' = target
    OBVIOUS
  <2> QED
    BY <2>2, <2>3 DEF Fits
<1>7. listed' \in Seq(Names)
  BY <1>2
<1> QED
  BY <1>4, <1>5, <1>6, <1>7 DEF Walking

(* A walk that ends in an error stands before an endpoint that cannot be   *)
(* parsed, or has passed over every account (GetIntegrationCloudAccount,   *)
(* GetIntegrationNameByLocation).                                          *)
LEMMA WalkFails ==
    ASSUME AccountType, Walking, UNCHANGED <<accounts, op, target>>,
           \/ ~Parsable(accounts[Passed + 1].at)
           \/ Tail(listed) = <<>> /\ ~Fits(accounts[Passed + 1])
    PROVE  RestoreFindsItsAccount'
<1>1. Len(accounts) \in Nat /\ listed \in Seq(Names) /\ listed # <<>>
      /\ Len(listed) \in 1..Len(accounts)
  BY DEF AccountType, Walking
<1>2. Passed \in Nat /\ (Tail(listed) = <<>> => Passed + 1 = Len(accounts))
  <2>1. Tail(listed) \in Seq(Names) /\ Len(Tail(listed)) = Len(listed) - 1
    BY <1>1
  <2>2. Tail(listed) = <<>> => Len(Tail(listed)) = 0
    BY <2>1
  <2> QED
    BY <1>1, <2>1, <2>2 DEF Passed
<1>3. ASSUME NEW i \in 1..Len(accounts), Suits(accounts[i])
      PROVE  \E j \in 1..(i - 1) : ~Parsable(accounts[j].at)
  <2>1. Parsable(accounts[i].at) /\ Fits(accounts[i])
    BY <1>3 DEF Suits, Fits
  <2>2. i \notin 1..Passed
    BY <2>1 DEF Walking
  <2>3. i # Passed + 1 /\ Tail(listed) # <<>> /\ ~Parsable(accounts[Passed + 1].at)
    BY <1>1, <1>2, <2>1, <2>2
  <2>4. Passed + 1 \in 1..(i - 1)
    BY <1>1, <1>2, <2>2, <2>3
  <2> QED
    BY <2>3, <2>4
<1> QED
  BY <1>3 DEF RestoreFindsItsAccount, Suits

(* addRestore's walk: an account whose endpoint cannot be parsed ends it,  *)
(* one with the endpoint of the address is used, and so is the last one    *)
(* when there is none (GetIntegrationCloudAccount).                        *)
LEMMA WalkCheck ==
    ASSUME AccountType, PlanHeld, WalkInv, CheckToken
    PROVE  WalkInv'
<1> DEFINE token == accounts[Passed + 1]
<1>1. /\ op = "check" /\ opc = "fetch"
      /\ UNCHANGED <<accounts, op, target, steady>> /\ listed' = Tail(listed)
      /\ tokens' = Append(tokens, Retrieve(Head(listed)))
      /\ opc' = CloudAccount(Retrieve(Head(listed)))
  BY DEF CheckToken, Fetching, FetchNext
<1>2. CASE ~steady
  <2>1. ~steady'
    BY <1>1, <1>2
  <2> QED
    BY <2>1 DEF WalkInv, RestoreUsesItsAccount, RestoreFindsItsAccount
<1>3. CASE steady
  <2>1. Walking
    BY <1>1, <1>3 DEF WalkInv
  <2>2. Retrieve(Head(listed)) = token /\ token # NoAccount /\ Passed + 1 \in 1..Len(accounts)
    BY <2>1, WalkFetches
  <2> HIDE DEF token
  <2>3. Fits(token) <=> SameEndpoint(token.at, target)
    BY <1>1 DEF Fits
  <2>4. CASE ~Parsable(token.at)
    <3>1. opc' = "failed"
      BY <1>1, <2>2, <2>4 DEF CloudAccount
    <3>2. RestoreFindsItsAccount'
      BY <1>1, <2>1, <2>4, WalkFails DEF token
    <3> QED
      BY <1>1, <3>1, <3>2 DEF WalkInv, RestoreUsesItsAccount
  <2>5. CASE Parsable(token.at) /\ ~Fits(token) /\ Tail(listed) # <<>>
    <3>1. opc' = "fetch"
      BY <1>1, <2>2, <2>3, <2>5 DEF CloudAccount
    <3>2. Walking'
      BY <1>1, <2>1, <2>5, WalkGoesOn DEF token
    <3> QED
      BY <1>1, <3>1, <3>2 DEF WalkInv, RestoreUsesItsAccount, RestoreFindsItsAccount
  <2>6. CASE Parsable(token.at) /\ (Fits(token) \/ Tail(listed) = <<>>)
    <3>1. opc' = "open"
      BY <1>1, <2>2, <2>3, <2>6 DEF CloudAccount
    <3>2. Last(tokens') = token
      BY <1>1, <2>2 DEF PlanHeld, Last, Account
    <3>3. Fits(token) \/ \A i \in 1..Len(accounts) : ~SameEndpoint(accounts[i].at, target)
      <4> SUFFICES ASSUME ~Fits(token), NEW i \in 1..Len(accounts)
                   PROVE  ~SameEndpoint(accounts[i].at, target)
        OBVIOUS
      <4>1. listed \in Seq(Names) /\ Tail(listed) = <<>> /\ Len(listed) \in 1..Len(accounts)
        BY <2>1, <2>6 DEF Walking
      <4>2. Len(listed) = 1 /\ Len(accounts) \in Nat
        <5>1. Len(accounts) \in Nat /\ listed \in Seq(Names) /\ listed # <<>>
          BY <4>1 DEF AccountType
        <5>2. Tail(listed) \in Seq(Names) /\ Len(Tail(listed)) = Len(listed) - 1
          BY <5>1
        <5>3. Len(Tail(listed)) = 0
          BY <4>1, <5>2, EmptySeq
        <5> QED
          BY <5>1, <5>2, <5>3
      <4>3. i \in 1..Passed \/ i = Passed + 1
        BY <4>2 DEF Passed
      <4>4. ~Fits(accounts[i])
        BY <4>3, <2>1 DEF Walking, token
      <4> QED
        BY <1>1, <4>4 DEF Fits
    <3> QED
      BY <1>1, <2>3, <3>1, <3>2, <3>3 DEF WalkInv, RestoreUsesItsAccount, RestoreFindsItsAccount
  <2> QED
    BY <2>4, <2>5, <2>6
<1> QED
  BY <1>2, <1>3

(* The worker's walk: an account with the bucket of the address gives its  *)
(* name, and there is no other end but an error                            *)
(* (GetIntegrationNameByLocation).                                         *)
LEMMA WalkRestore ==
    ASSUME AccountType, PlanHeld, WalkInv, RestoreToken
    PROVE  WalkInv'
<1> DEFINE token == accounts[Passed + 1]
<1>1. /\ op = "restore" /\ opc = "fetch"
      /\ UNCHANGED <<accounts, op, target, steady>> /\ listed' = Tail(listed)
      /\ tokens' = Append(tokens, Retrieve(Head(listed)))
      /\ opc' = NameByLocation(Retrieve(Head(listed)))
  BY DEF RestoreToken, Fetching, FetchNext
<1>2. CASE ~steady
  <2>1. ~steady'
    BY <1>1, <1>2
  <2> QED
    BY <2>1 DEF WalkInv, RestoreUsesItsAccount, RestoreFindsItsAccount
<1>3. CASE steady
  <2>1. Walking
    BY <1>1, <1>3 DEF WalkInv
  <2>2. Retrieve(Head(listed)) = token /\ token # NoAccount /\ Passed + 1 \in 1..Len(accounts)
    BY <2>1, WalkFetches
  <2> HIDE DEF token
  <2>3. Fits(token) <=> SameBucket(token.at, target)
    BY <1>1 DEF Fits
  <2>4. CASE ~Parsable(token.at) \/ (Tail(listed) = <<>> /\ ~Fits(token))
    <3>1. opc' = "failed"
      BY <1>1, <2>2, <2>3, <2>4 DEF NameByLocation
    <3>2. RestoreFindsItsAccount'
      BY <1>1, <2>1, <2>4, WalkFails DEF token
    <3> QED
      BY <1>1, <3>1, <3>2 DEF WalkInv, RestoreUsesItsAccount
  <2>5. CASE Parsable(token.at) /\ ~Fits(token) /\ Tail(listed) # <<>>
    <3>1. opc' = "fetch"
      BY <1>1, <2>2, <2>3, <2>5 DEF NameByLocation
    <3>2. Walking'
      BY <1>1, <2>1, <2>5, WalkGoesOn DEF token
    <3> QED
      BY <1>1, <3>1, <3>2 DEF WalkInv, RestoreUsesItsAccount, RestoreFindsItsAccount
  <2>6. CASE Parsable(token.at) /\ Fits(token)
    <3>1. opc' = "token"
      BY <1>1, <2>2, <2>3, <2>6 DEF NameByLocation
    <3>2. Last(tokens') = token
      BY <1>1, <2>2 DEF PlanHeld, Last, Account
    <3>3. NameFound'
      BY <1>1, <2>2, <2>3, <2>6, <3>2 DEF NameFound, token
    <3> QED
      BY <1>1, <3>1, <3>3 DEF WalkInv, RestoreUsesItsAccount, RestoreFindsItsAccount
  <2> QED
    BY <2>4, <2>5, <2>6
<1> QED
  BY <1>2, <1>3

(* The second and last fetch by name is of the account that was found      *)
(* (StorageRestore.getIntegrationCloud).                                   *)
LEMMA WalkDownload ==
    ASSUME AccountType, WalkInv, Download
    PROVE  WalkInv'
<1>1. /\ opc = "token" /\ UNCHANGED <<accounts, op, target, steady>>
      /\ opc' = IF Retrieve(Last(tokens).name) = NoAccount THEN "failed" ELSE "done"
      /\ tokens' = <<Retrieve(Last(tokens).name)>>
  BY DEF Download
<1>2. CASE ~steady
  <2>1. ~steady'
    BY <1>1, <1>2
  <2> QED
    BY <2>1 DEF WalkInv, RestoreUsesItsAccount, RestoreFindsItsAccount
<1>3. CASE steady
  <2>1. PICK i \in 1..Len(accounts) :
           Last(tokens) = accounts[i] /\ SameBucket(accounts[i].at, target)
    BY <1>1, <1>3 DEF WalkInv, NameFound
  <2>2. Retrieve(Last(tokens).name) = accounts[i]
    BY <2>1, RetrieveListed
  <2>3. accounts[i] # NoAccount
    <3>1. NoAccount \notin Account
      BY NilAssumption DEF Account
    <3> QED
      BY <3>1 DEF AccountType
  <2>4. op = "restore" /\ opc' = "done" /\ tokens'[1] = accounts[i]
    BY <1>1, <1>3, <2>2, <2>3 DEF WalkInv, NameFound
  <2> QED
    BY <1>1, <2>1, <2>4 DEF WalkInv, RestoreUsesItsAccount, RestoreFindsItsAccount
<1> QED
  BY <1>2, <1>3

(* A list begins a walk, or finds no account at all                        *)
(* (queryIntegrationAccounts).                                             *)
LEMMA WalkList ==
    ASSUME AccountType, List, accounts' = accounts
    PROVE  WalkInv'
<1>1. CASE accounts = <<>>
  <2>1. opc' = "failed" /\ accounts' = <<>>
    BY <1>1 DEF List
  <2> QED
    BY <2>1 DEF WalkInv, RestoreUsesItsAccount, RestoreFindsItsAccount
<1>2. CASE accounts # <<>>
  <2>1. opc' = "fetch" /\ Walking'
    BY <1>2, WalkBegins DEF List
  <2> QED
    BY <2>1 DEF WalkInv, RestoreUsesItsAccount, RestoreFindsItsAccount
<1> QED
  BY <1>1, <1>2

LEMMA WalkNext ==
    ASSUME AccountType, PlanHeld, WalkInv, [BucketStep]_bucketVars
    PROVE  WalkInv'
<1> USE DEF WalkInv, RestoreUsesItsAccount, RestoreFindsItsAccount
<1>1. ASSUME NEW n \in Names,
             RemoveAccount(n) \/ AddPlan(n) \/ \E e \in Endpoints : AddAccount(n, e)
      PROVE  WalkInv'
  <2>1. CASE AddPlan(n)
    BY <2>1, WalkList DEF AddPlan, StartOp
  <2>2. CASE ~AddPlan(n)
    BY <1>1, <2>2 DEF RemoveAccount, AddAccount, Edit
  <2> QED
    BY <2>1, <2>2
<1>2. ASSUME NEW e \in Endpoints, AddRestore(e)
      PROVE  WalkInv'
  BY <1>2, WalkList DEF AddRestore, StartOp
<1>3. CASE RunBackup
  BY <1>3, WalkList DEF RunBackup, StartOp
<1>4. CASE PlanToken \/ BackupToken \/ Upload
  BY <1>4 DEF PlanToken, BackupToken, FetchNext, Upload, Fetching
<1>5. CASE RecordLocation
  BY <1>5 DEF RecordLocation, PlanHeld
<1>6. CASE CheckToken
  BY <1>6, WalkCheck
<1>7. CASE GetSnapshot
  BY <1>7 DEF GetSnapshot
<1>8. CASE RestoreList
  BY <1>8, WalkList DEF RestoreList
<1>9. CASE RestoreToken
  BY <1>9, WalkRestore
<1>10. CASE Download
  BY <1>10, WalkDownload
<1>11. CASE EndOp
  BY <1>11 DEF EndOp
<1>12. CASE UNCHANGED bucketVars
  BY <1>12 DEF bucketVars, opVars, Walking, NameFound, Passed, Fits, Suits
<1> QED
  BY <1>1, <1>2, <1>3, <1>4, <1>5, <1>6, <1>7, <1>8, <1>9, <1>10, <1>11, <1>12 DEF BucketStep

LEMMA WalkAlways == BucketSpec => []WalkInv
<1>1. BucketInit => WalkInv
  BY DEF BucketInit, WalkInv, RestoreUsesItsAccount, RestoreFindsItsAccount
<1>2. AccountInv /\ WalkInv /\ [BucketStep]_bucketVars => WalkInv'
  BY WalkNext DEF AccountInv
<1> QED
  BY <1>1, <1>2, AccountAlways, PTL DEF BucketSpec

(* While the accounts stay as they are, a restore uses an account of the   *)
(* address (GetIntegrationCloudAccount, GetIntegrationNameByLocation).     *)
THEOREM AccountUsedCorrect == BucketSpec => []RestoreUsesItsAccount
<1>1. WalkInv => RestoreUsesItsAccount
  BY DEF WalkInv
<1> QED
  BY <1>1, WalkAlways, PTL

(* While the accounts stay as they are, a restore that finds none was told *)
(* so for a reason (GetIntegrationCloudAccount,                            *)
(* GetIntegrationNameByLocation).                                          *)
THEOREM AccountFoundCorrect == BucketSpec => []RestoreFindsItsAccount
<1>1. WalkInv => RestoreFindsItsAccount
  BY DEF WalkInv
<1> QED
  BY <1>1, WalkAlways, PTL
=============================================================================
