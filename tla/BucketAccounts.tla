--------------------------- MODULE BucketAccounts ---------------------------
(***************************************************************************)
(* Plans whose snapshots lie in a bucket of the user.  The keys to buckets *)
(* are accounts of the settings service, which the user adds and removes   *)
(* there at any time; the code lists the accounts and then fetches them by *)
(* name, one request each.  A plan names its account and records the       *)
(* endpoint that the account had; a restore starts from the address of a   *)
(* repository and looks for an account that fits.                          *)
(*                                                                         *)
(* One plan, and one operation at a time: the operations share nothing but *)
(* the accounts, and the worker runs one backup of a plan at a time.       *)
(***************************************************************************)
EXTENDS Naturals, Sequences, SequencesExt

CONSTANTS
    Names,       \* of accounts: their access keys
    Endpoints,   \* that accounts are given
    NoAccount,
    MaxEdits,    \* bound: changes of the accounts
    MaxOps       \* bound: operations

(* How an endpoint is spelled: with the bucket in the path or in the host, *)
(* with the bucket in the host and no region, or not as one of the cloud.  *)
Styles == {"path", "host", "global", "other"}

ASSUME EndpointAssumption == \A e \in Endpoints : e.style \in Styles

(* A nil account is none of them *)
ASSUME NilAssumption == NoAccount \notin [name : Names, at : Endpoints]

(* FormatS3, FormatCosByRawUrl: what is not a host of the cloud is an      *)
(* error; without a region the word "s3" of the host is taken for it.      *)
Parsable(e) == e.style # "other"

RepositoryInfo(e) == [region |-> IF e.style = "global" THEN "s3" ELSE "region",
                      bucket |-> e.bucket, prefix |-> e.prefix]

SameEndpoint(e, f) == RepositoryInfo(e) = RepositoryInfo(f)
SameBucket(e, f)   == /\ RepositoryInfo(e).bucket = RepositoryInfo(f).bucket
                      /\ RepositoryInfo(e).region = RepositoryInfo(f).region

VARIABLES
    accounts,    \* of one type, in the order of the service: [name, at]
    plan,        \* its location: [name, at], or NoAccount
    stored,      \* the endpoints at which snapshots of the plan lie
    op, opc,     \* the operation and where it is
    target,      \* the plan as the operation read it, or the address to restore from
    listed,      \* the names listed and not fetched yet
    tokens,      \* what was fetched: accounts, NoAccount for an error
    steady,      \* the accounts have not changed since the operation began
    edits, ops

opVars     == <<op, opc, target, listed, tokens>>
bucketVars == <<accounts, plan, stored, opVars, steady, edits, ops>>

(* GetIntegrationCloudToken *)
Retrieve(n) ==
    LET i == SelectInSeq(accounts, LAMBDA a : a.name = n)
    IN  IF i = 0 THEN NoAccount ELSE accounts[i]

-----------------------------------------------------------------------------
(* The user, in the settings service. *)

Edit(new) ==
    /\ edits < MaxEdits /\ edits' = edits + 1
    /\ accounts' = new /\ steady' = FALSE
    /\ UNCHANGED <<plan, stored, opVars, ops>>

AddAccount(n, e) == Retrieve(n) = NoAccount /\ Edit(Append(accounts, [name |-> n, at |-> e]))

RemoveAccount(n) == Retrieve(n) # NoAccount /\ Edit(RemoveFirst(accounts, Retrieve(n)))

-----------------------------------------------------------------------------
(* What the operations have in common. *)

(* queryIntegrationAccounts: no account at all is an error *)
List ==
    /\ listed' = [i \in 1..Len(accounts) |-> accounts[i].name] /\ tokens' = <<>>
    /\ opc' = IF accounts = <<>> THEN "failed" ELSE "fetch"

StartOp(kind, about) ==
    /\ opc = "idle" /\ ops < MaxOps /\ ops' = ops + 1
    /\ op' = kind /\ target' = about /\ steady' = TRUE
    /\ List
    /\ UNCHANGED <<accounts, plan, stored, edits>>

Fetching(kind) == op = kind /\ opc = "fetch"

(* The next account is fetched; the code goes on at label *)
FetchNext(token, label) ==
    /\ tokens' = Append(tokens, token) /\ listed' = Tail(listed)
    /\ opc' = label
    /\ UNCHANGED <<accounts, plan, stored, op, target, steady, edits, ops>>

(* The operation is over; its answer or its log is all that is left *)
EndOp ==
    /\ opc \in {"failed", "refused", "done"}
    /\ opc' = "idle" /\ op' = "none" /\ target' = NoAccount /\ listed' = <<>> /\ tokens' = <<>>
    /\ UNCHANGED <<accounts, plan, stored, steady, edits, ops>>

-----------------------------------------------------------------------------
(* validIntegration and buildLocationConfig: the account of the request is *)
(* among those listed, and its endpoint becomes the plan's.                *)
AddPlan(n) == plan = NoAccount /\ StartOp("plan", [name |-> n])

PlanToken ==
    LET valid == \E i \in 1..Len(listed) : listed[i] = target.name
        token == IF valid THEN Retrieve(target.name) ELSE NoAccount
    IN  /\ Fetching("plan")
        /\ plan' = token
        /\ opc' = IF token = NoAccount THEN "failed" ELSE "done"
        /\ UNCHANGED <<accounts, stored, op, target, listed, tokens, steady, edits, ops>>

-----------------------------------------------------------------------------
(* StorageBackup.getIntegrationCloud and what follows from it *)

RunBackup == plan # NoAccount /\ StartOp("backup", plan)

(* Every account is fetched, and an error leaves a nil token *)
BackupToken ==
    /\ Fetching("backup") /\ listed # <<>>
    /\ FetchNext(Retrieve(Head(listed)), "fetch")

(* Mutant: any account will do when the named one is gone. *)
ByEndpointAny(token) == TRUE

ByEndpoint(token) == token.at = target.at

(* The account that the plan names, else one with the plan's endpoint to   *)
(* the letter.  A nil token on the way is a panic, which ends the run too. *)
Choice ==
    LET named == SelectInSeq(tokens, LAMBDA t : t = NoAccount \/ t.name = target.name)
        there == SelectInSeq(tokens, LAMBDA t : ByEndpoint(t))
    IN  IF named # 0 THEN tokens[named] ELSE IF there # 0 THEN tokens[there] ELSE NoAccount

(* The SDK puts the snapshot at the endpoint of the token, or fails *)
Upload ==
    /\ Fetching("backup") /\ listed = <<>>
    /\ \/ /\ Choice # NoAccount
          /\ stored' = stored \cup {Choice.at}
          /\ tokens' = <<Choice>> /\ opc' = "record"
       \/ opc' = "failed" /\ UNCHANGED <<stored, tokens>>
    /\ UNCHANGED <<accounts, plan, op, target, listed, steady, edits, ops>>

(* buildLocation and UpdateTotalSize: the plan names the account that was  *)
(* found by its endpoint.  An error is only logged.                        *)
RecordLocation ==
    /\ opc = "record" /\ opc' = "done"
    /\ \/ plan' = IF tokens[1].name = target.name THEN plan ELSE tokens[1]
       \/ UNCHANGED plan
    /\ UNCHANGED <<accounts, stored, op, target, listed, tokens, steady, edits, ops>>

-----------------------------------------------------------------------------
(* A restore from the address of a repository: addRestore looks for the    *)
(* snapshot before it stores the restore, which the worker then runs.      *)

(* ParseBackupUrl; the user may spell the address in another way *)
AddRestore(e) ==
    /\ Parsable(e) /\ \E s \in stored : s.bucket = e.bucket /\ s.prefix = e.prefix
    /\ StartOp("check", e)

(* Mutant: the walk does not stop at the account that fits. *)
CloudAccountLast(token) ==
    IF token = NoAccount \/ ~Parsable(token.at) THEN "failed"
    ELSE IF Tail(listed) # <<>> THEN "fetch" ELSE "open"

(* GetIntegrationCloudAccount: up to the account with the endpoint of the  *)
(* address; after the last one the token at hand is used.                  *)
CloudAccount(token) ==
    IF token = NoAccount \/ ~Parsable(token.at) THEN "failed"
    ELSE IF SameEndpoint(token.at, target) THEN "open"
    ELSE IF Tail(listed) # <<>> THEN "fetch" ELSE "open"

CheckToken ==
    LET token == Retrieve(Head(listed))
    IN  Fetching("check") /\ FetchNext(token, CloudAccount(token))

(* GetSnapshot: the repository opens with the key at hand, or it does not *)
GetSnapshot ==
    /\ op = "check" /\ opc = "open"
    /\ opc' \in {"created", "refused"}
    /\ UNCHANGED <<accounts, plan, stored, op, target, listed, tokens, steady, edits, ops>>

(* prepareRestoreParams lists the accounts once more *)
RestoreList ==
    /\ opc = "created"
    /\ op' = "restore" /\ List
    /\ UNCHANGED <<accounts, plan, stored, target, steady, edits, ops>>

(* Mutant: an account with another bucket ends the walk. *)
NameByFirst(token) ==
    IF token = NoAccount \/ ~Parsable(token.at) THEN "failed"
    ELSE IF SameBucket(token.at, target) THEN "token" ELSE "failed"

(* GetIntegrationNameByLocation: bucket and region decide *)
NameByLocation(token) ==
    IF token = NoAccount \/ ~Parsable(token.at) THEN "failed"
    ELSE IF SameBucket(token.at, target) THEN "token"
    ELSE IF Tail(listed) # <<>> THEN "fetch" ELSE "failed"

RestoreToken ==
    LET token == Retrieve(Head(listed))
    IN  Fetching("restore") /\ FetchNext(token, NameByLocation(token))

(* StorageRestore.getIntegrationCloud: by name once more, then the SDK *)
Download ==
    LET token == Retrieve(Last(tokens).name)
    IN  /\ opc = "token"
        /\ opc' = IF token = NoAccount THEN "failed" ELSE "done"
        /\ tokens' = <<token>>
        /\ UNCHANGED <<accounts, plan, stored, op, target, listed, steady, edits, ops>>

-----------------------------------------------------------------------------
BucketInit ==
    /\ accounts = <<>> /\ plan = NoAccount /\ stored = {}
    /\ op = "none" /\ opc = "idle" /\ target = NoAccount /\ listed = <<>> /\ tokens = <<>>
    /\ steady = TRUE /\ edits = 0 /\ ops = 0

BucketStep ==
    \/ \E n \in Names : RemoveAccount(n) \/ AddPlan(n) \/ \E e \in Endpoints : AddAccount(n, e)
    \/ \E e \in Endpoints : AddRestore(e)
    \/ PlanToken \/ RunBackup \/ BackupToken \/ Upload \/ RecordLocation
    \/ CheckToken \/ GetSnapshot \/ RestoreList \/ RestoreToken \/ Download \/ EndOp

BucketSpec == BucketInit /\ [][BucketStep]_bucketVars

-----------------------------------------------------------------------------
(* A plan stays with its repository: whatever accounts come and go, the    *)
(* account that it is moved to has the endpoint recorded when the plan was *)
(* added, and a snapshot lies elsewhere only because the account that the  *)
(* plan names was given another endpoint.                                  *)
RepositoryIsKept ==
    [][/\ plan # NoAccount => plan'.at = plan.at
       /\ \A e \in stored' \ stored : e = plan.at \/ tokens'[1].name = plan.name]_bucketVars

(* While the accounts stay as they are, a restore uses an account of the   *)
(* address: addRestore the one with its endpoint if there is one, the      *)
(* worker one with its bucket.                                             *)
RestoreUsesItsAccount ==
    /\ steady /\ op = "check" /\ opc = "open" =>
        \/ SameEndpoint(Last(tokens).at, target)
        \/ \A i \in 1..Len(accounts) : ~SameEndpoint(accounts[i].at, target)
    /\ steady /\ op = "restore" /\ opc = "done" => SameBucket(tokens[1].at, target)

Suits(account) ==
    /\ Parsable(account.at)
    /\ IF op = "check" THEN SameEndpoint(account.at, target) ELSE SameBucket(account.at, target)

(* While the accounts stay as they are, a restore that finds none is told  *)
(* so for a reason: no account suits the address, or one in front of it    *)
(* has an endpoint that cannot be parsed, which ends the walk.             *)
RestoreFindsItsAccount ==
    steady /\ op \in {"check", "restore"} /\ opc = "failed" =>
        \A i \in 1..Len(accounts) :
            Suits(accounts[i]) => \E j \in 1..(i - 1) : ~Parsable(accounts[j].at)
=============================================================================
