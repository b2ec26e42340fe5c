----------------------------- MODULE Watchtower -----------------------------
(***************************************************************************)
(* watchtower/src: the Rust process that polls the decision feed of one    *)
(* vault, fetches the evidence behind every pending decision, and settles  *)
(* the decision or reports it, which halts the agent.                      *)
(*                                                                         *)
(* It runs against the contracts of AttestationContract, which change      *)
(* between its network calls: the agent commits, anybody settles, the      *)
(* owner resumes the agent and rotates the enclave key, and whoever may    *)
(* halts the agent or judges it. Every await of the code ends a step. A    *)
(* transaction is submitted in one step and mined in a later one, in the   *)
(* order of the account's nonces; the process only waits for the           *)
(* submission. Network calls fail, and a crash forgets all of the          *)
(* process's memory.                                                       *)
(***************************************************************************)
EXTENDS AttestationContract, Sequences

CONSTANTS
  Tower,              \* the account of PRIVATE_KEY
  Fund,               \* the vault of VELA_VAULT_ADDRESS
  ConfiguredEnclave,  \* REGISTERED_ENCLAVE_KEY, read once at the start
  ScanLimit,          \* WATCHTOWER_SCAN_LIMIT
  Blob,               \* Blob[cid]: the signed payload stored under cid, or Missing
  Missing,            \* nothing is stored, or it is not a signed payload
  MaxPool,            \* bound: submitted transactions not mined yet
  MaxFaults           \* bound: crashes, lost replies and outside judgements together

ASSUME WatchtowerAssumption ==
  /\ Tower \in WatchtowerAccounts
  /\ Fund \in Vaults
  /\ ConfiguredEnclave \in EnclaveKeys
  /\ ScanLimit \in Nat \ {0}
  /\ Blob \in [EvidenceCIDs -> Signed \cup [by : EnclaveKeys, over : {NoHash}] \cup {Missing}]
  /\ PolicyRoots # {}
  /\ MaxPool \in Nat \ {0} /\ MaxFaults \in Nat

VARIABLES
  at,        \* where the process waits: "asleep" or the call in flight
  cursor,    \* the scan reads the decision below it
  scanned,   \* how many decisions the scan has read
  queue,     \* the pending decisions to handle, newest first
  late,      \* the head's age was past attestation_timeout when it was computed
  reported,  \* the HashSet of decisions reported in this life
  pool,      \* the submitted transactions, oldest first
  overdue,   \* the decisions older than attestation_timeout
  reports,   \* history: reports[id] counts the reports of id submitted
  faults,    \* crashes and lost replies so far
  accusations,  \* history: breaks and failed outcomes that other accounts caused
  vouchers      \* history: compliant outcomes that other accounts recorded

chainVars == <<registryVars, feedVars, adminVars, outcomeVars>>
localVars == <<at, cursor, scanned, queue, late>>
towerVars == <<localVars, reported, pool, reports, faults>>
worldVars == <<overdue, accusations, vouchers>>
allVars == <<chainVars, towerVars, worldVars>>

\* What MaxFaults bounds.
Disturbances == faults + accusations + vouchers

Guarded == VaultAgent[Fund]
Committed(id) == Feed!Exists(Fund, id)
IsSettled(id) == id \in settled[Fund]
Halted == Registry!CircuitBreakerTriggered(Guarded)

Calls == {"asleep", "scan", "check", "fetch", "settle", "report", "alert"}

Transaction ==
  [kind : {"settle"}, id : Feed!Ids, sig : Signed] \cup
  [kind : {"report"}, id : Feed!Ids]
-----------------------------------------------------------------------------
(* The process.                                                            *)

Current == Head(queue)
Hash(id) == decisions[Fund][id].decisionHash
CID(id) == decisions[Fund][id].evidenceCID

\* The variables of the scan and of one decision's handling go out of scope with them.
NoScan == cursor' = 0 /\ scanned' = 0

\* The loop goes on with the decisions of q, or sleeps when there are none.
GoOnWith(q) ==
  /\ queue' = q
  /\ at' = IF q = <<>> THEN "asleep" ELSE "check"
  /\ late' = FALSE

\* Mutant of AbortTick: the queue outlives the tick.
AbortTickKeepsQueue == at' = "asleep" /\ late' = FALSE /\ UNCHANGED queue /\ NoScan

\* A `?` of tick: the rest of the queue is dropped until the next tick.
AbortTick == GoOnWith(<<>>) /\ NoScan

\* The tick starts: totalDecisions() is read.
StartTick ==
  /\ at = "asleep"
  /\ totalDecisions[Fund] > 0
  /\ at' = "scan"
  /\ cursor' = totalDecisions[Fund]
  /\ UNCHANGED <<scanned, queue, late, reported, pool, reports, faults>>

\* getDecision(cursor - 1): kept when it is pending. Only its id needs keeping,
\* for the hash, the CID and the timestamp of a decision never change.
ScanDecision ==
  /\ at = "scan"
  /\ LET id == cursor - 1
         q == IF decisions[Fund][id].status = "Pending" THEN Append(queue, id) ELSE queue
     IN IF id > 0 /\ scanned + 1 < ScanLimit
        THEN /\ queue' = q /\ cursor' = id /\ scanned' = scanned + 1
             /\ UNCHANGED <<at, late>>
        ELSE GoOnWith(q) /\ NoScan
  /\ UNCHANGED <<reported, pool, reports, faults>>

\* Mutant of CheckDecision: `reported` is not consulted.
CheckDecisionForgetful ==
  /\ at = "check"
  /\ IF IsSettled(Current)
     THEN GoOnWith(Tail(queue))
     ELSE at' = "fetch" /\ late' = (Current \in overdue) /\ UNCHANGED queue
  /\ UNCHANGED <<cursor, scanned, reported, pool, reports, faults>>

\* is_settled, then the process's own memory, then the age of the decision.
CheckDecision ==
  /\ at = "check"
  /\ IF IsSettled(Current) \/ Current \in reported
     THEN GoOnWith(Tail(queue))
     ELSE at' = "fetch" /\ late' = (Current \in overdue) /\ UNCHANGED queue
  /\ UNCHANGED <<cursor, scanned, reported, pool, reports, faults>>

\* verify_evidence: the stored payload hashes to the committed hash, and its
\* signature recovers to the enclave this process was configured with.
Verifies(id, blob) ==
  /\ blob # Missing
  /\ blob.over = Hash(id)
  /\ Recover(Hash(id), blob) = ConfiguredEnclave

\* Mutant of Dismiss: a failure is reported whatever its age.
DismissNever == at' = "report" /\ UNCHANGED <<queue, late>>

\* Mutant of Dismiss: a failure is put off whatever its age.
DismissAlways == GoOnWith(Tail(queue))

\* A failure is put off inside the timeout, and reported past it.
Dismiss ==
  IF late THEN at' = "report" /\ UNCHANGED <<queue, late>>
  ELSE GoOnWith(Tail(queue))

\* fetch_raw answers with the stored blob.
FetchEvidence ==
  /\ at = "fetch"
  /\ IF Verifies(Current, Blob[CID(Current)])
     THEN at' = "settle" /\ UNCHANGED <<queue, late>>
     ELSE Dismiss
  /\ UNCHANGED <<cursor, scanned, reported, pool, reports, faults>>

SettleTx(id) == [kind |-> "settle", id |-> id, sig |-> Blob[CID(id)]]
ReportTx(id) == [kind |-> "report", id |-> id]

\* Would the transaction succeed on the chain as it is?
Succeeds(tx) ==
  IF tx.kind = "settle" THEN MaySettle(Fund, tx.id, Hash(tx.id), tx.sig)
  ELSE MayReport(Tower, Fund)

\* send(): the gas of the transaction is estimated on the current chain, so one
\* that would revert now is refused here; the others are submitted.
Submit(tx) ==
  /\ Succeeds(tx)
  /\ Len(pool) < MaxPool   \* bound, not in the code
  /\ pool' = Append(pool, tx)

SendSettle ==
  /\ at = "settle"
  /\ Submit(SettleTx(Current))
  /\ GoOnWith(Tail(queue))
  /\ UNCHANGED <<cursor, scanned, reported, reports, faults>>

SendReport ==
  /\ at = "report"
  /\ Submit(ReportTx(Current))
  /\ reports' = [reports EXCEPT ![Current] = @ + 1]
  /\ reported' = reported \cup {Current}
  /\ at' = "alert"
  /\ UNCHANGED <<cursor, scanned, queue, late, faults>>

Alert ==
  /\ at = "alert"
  /\ GoOnWith(Tail(queue))
  /\ UNCHANGED <<cursor, scanned, reported, pool, reports, faults>>

\* A call in flight fails and leaves nothing behind. A fetch or a settlement that
\* fails is the evidence's fault; any other failure aborts the tick.
CallFails ==
  /\ \/ at \in {"scan", "check", "report", "alert"} /\ AbortTick
     \/ at \in {"fetch", "settle"} /\ Dismiss /\ UNCHANGED <<cursor, scanned>>
  /\ UNCHANGED <<reported, pool, reports, faults>>

\* The transaction is submitted and the answer of the node is lost.
ReplyLost ==
  /\ Disturbances < MaxFaults   \* bound, not in the code
  /\ faults' = faults + 1
  /\ \/ /\ at = "settle"
        /\ Submit(SettleTx(Current))
        /\ Dismiss
        /\ UNCHANGED <<cursor, scanned, reports>>
     \/ /\ at = "report"
        /\ Submit(ReportTx(Current))
        /\ reports' = [reports EXCEPT ![Current] = @ + 1]
        /\ AbortTick
  /\ UNCHANGED reported

\* The process dies and starts again with an empty memory.
Crash ==
  /\ Disturbances < MaxFaults   \* bound, not in the code
  /\ faults' = faults + 1
  /\ AbortTick
  /\ reported' = {}
  /\ UNCHANGED <<pool, reports>>

Process ==
  \/ StartTick \/ ScanDecision \/ CheckDecision \/ FetchEvidence
  \/ SendSettle \/ SendReport \/ Alert \/ CallFails \/ ReplyLost \/ Crash
-----------------------------------------------------------------------------
(* The chain and the world around it.                                      *)

Execute(tx) ==
  IF tx.kind = "settle" THEN VerifyAndSettle(Fund, tx.id, Hash(tx.id), tx.sig)
  ELSE ReportFailure(Tower, Fund, tx.id)

\* The oldest transaction of the account is mined: it takes effect or reverts.
MineTransaction ==
  /\ pool # <<>>
  /\ pool' = Tail(pool)
  /\ IF Succeeds(Head(pool)) THEN Execute(Head(pool)) ELSE UNCHANGED chainVars
  /\ UNCHANGED <<localVars, reported, reports, faults, worldVars>>

AgentCommits ==
  \E hash \in Hashes, cid \in EvidenceCIDs : Commit(Guarded, Fund, hash, cid)

\* The agent settles its own decisions in the background, and anybody else may.
SomebodySettles ==
  \E id \in Feed!Ids, sig \in Signed : VerifyAndSettle(Fund, id, sig.over, sig)

OwnerResumes ==
  /\ Registry!ResumeAgent(Guarded, Guarded)
  /\ UNCHANGED <<feedVars, adminVars, outcomeVars>>

\* The first half of a key rotation: the old key no longer settles anything.
KeyRevoked ==
  ConfiguredEnclave \in registeredEnclaveKeys /\ RevokeEnclaveKey(owner, ConfiguredEnclave)

\* The accounts of the registry other than the attestation contract: the agent's
\* owner or dashboard and the breakers halt it, the recorders judge it.
Judges == Accounts \ {Attestation}

\* A break, a failed outcome or a failure report that is not the watchtower's: the
\* last takes the owner of the attestation contract.
OthersAccuse ==
  /\ accusations' = accusations + 1 /\ UNCHANGED vouchers
  /\ \/ /\ \E sender \in Judges :
             \/ Registry!TriggerCircuitBreaker(sender, Guarded)
             \/ Registry!RecordOutcome(sender, Guarded, FALSE)
        /\ UNCHANGED <<feedVars, adminVars, outcomeVars>>
     \/ \E id \in Feed!Ids : ReportFailure(owner, Fund, id)

\* A compliant outcome that no settlement stands behind.
OthersVouch ==
  /\ vouchers' = vouchers + 1 /\ UNCHANGED accusations
  /\ \E sender \in Judges : Registry!RecordOutcome(sender, Guarded, TRUE)
  /\ UNCHANGED <<feedVars, adminVars, outcomeVars>>

OthersTransact ==
  /\ \/ /\ Disturbances < MaxFaults   \* bound, not in the code
        /\ OthersAccuse \/ OthersVouch
     \/ /\ AgentCommits \/ SomebodySettles \/ OwnerResumes \/ KeyRevoked
        /\ UNCHANGED <<accusations, vouchers>>
  /\ UNCHANGED <<towerVars, overdue>>

\* attestation_timeout elapses for a decision. The age is counted from the block
\* of its commit, so decisions age in the order of the feed.
Expire(id) ==
  /\ Committed(id)
  /\ \A older \in 0 .. id - 1 : older \in overdue
  /\ overdue' = overdue \cup {id}
  /\ UNCHANGED <<chainVars, towerVars, accusations, vouchers>>

\* The contracts as Deploy.s.sol leaves them, with the agent registered for the
\* whole day and nothing decided yet.
Deployed ==
  /\ policies = [a \in Agents |->
       Registry!Registered(a, CHOOSE root \in PolicyRoots : TRUE, 1, 0, 24)]
  /\ decisionRecorders = {RegistryOwner, Attestation}
  /\ circuitBreakers = {RegistryOwner, Attestation}
  /\ Feed!FeedInit
  /\ owner = Deployer
  /\ registeredEnclaveKeys = {ConfiguredEnclave}
  /\ watchtowers = {Tower}
  /\ settled = [v \in Vaults |-> {}]
  /\ failureReports = [v \in Vaults |-> [id \in ReportIds |-> 0]]

WatchtowerInit ==
  /\ Deployed
  /\ at = "asleep" /\ cursor = 0 /\ scanned = 0 /\ queue = <<>> /\ late = FALSE
  /\ reported = {}
  /\ pool = <<>>
  /\ overdue = {}
  /\ reports = [id \in Feed!Ids |-> 0]
  /\ faults = 0
  /\ accusations = 0 /\ vouchers = 0

WatchtowerNext ==
  \/ Process /\ UNCHANGED <<chainVars, worldVars>>
  \/ MineTransaction
  \/ OthersTransact
  \/ \E id \in Feed!Ids : Expire(id)

\* The process keeps running, time passes and blocks are mined; a read or a report
\* of one decision that is tried again and again succeeds in the end. Nothing is
\* assumed of the store, of settlements, of alerts or of the other accounts.
Quietly(A) == A /\ UNCHANGED <<chainVars, worldVars>>

WatchtowerFairness ==
  /\ WF_allVars(Quietly(Process))
  /\ WF_allVars(MineTransaction)
  /\ \A id \in Feed!Ids :
       /\ WF_allVars(Expire(id))
       /\ SF_allVars(Quietly(ScanDecision /\ cursor - 1 = id))
       /\ SF_allVars(Quietly(CheckDecision /\ Current = id))
       /\ SF_allVars(Quietly(SendReport /\ Current = id))

WatchtowerSpec == WatchtowerInit /\ [][WatchtowerNext]_allVars /\ WatchtowerFairness
-----------------------------------------------------------------------------
(* What the watchtower guarantees.                                         *)

\* Every variable stays within its type.
WatchtowerTypeOK ==
  /\ TypeOK
  /\ at \in Calls
  /\ cursor \in 0 .. MaxFeed /\ scanned \in 0 .. MaxFeed
  /\ queue \in Seq(Feed!Ids) /\ Len(queue) <= ScanLimit
  /\ late \in BOOLEAN
  /\ reported \subseteq Feed!Ids
  /\ pool \in Seq(Transaction) /\ Len(pool) <= MaxPool
  /\ overdue \subseteq Feed!Ids
  /\ reports \in [Feed!Ids -> Nat]
  /\ faults \in Nat
  /\ accusations \in Nat /\ vouchers \in Nat /\ Disturbances <= MaxFaults

\* One life of the process reports a decision at most once, although a reported
\* decision stays pending and every later tick finds it again: a second report
\* takes a crash, or an answer of the node that was lost.
OneReportPerLife ==
  \A id \in Feed!Ids : reports[id] <= 1 + faults

\* No decision is reported inside its attestation timeout, whatever fails: the
\* store, the settlement, or the evidence itself.
NothingReportedEarly ==
  \A id \in Feed!Ids : reports[id] > 0 => id \in overdue

\* Every decision the process has not reported is answered in the end: it is
\* attested or its agent is halted. Failing calls, aborted ticks, crashes,
\* reverted transactions and a revoked key delay the answer and cannot avoid it.
EveryDecisionAnswered ==
  \A id \in Feed!Ids :
    (Committed(id) /\ id \notin reported) ~> (IsSettled(id) \/ Halted)

\* README: "triggers the PolicyRegistry circuit breaker on any integrity failure".
\* A decision that is attested and whose stored evidence verifies has none: no
\* failure report the watchtower sent for it takes effect.
NoAlarmOnAttested ==
  [][\A id \in Feed!Ids :
       failureReports'[Fund][id] # failureReports[Fund][id] /\ pool' # pool =>
         ~(IsSettled(id) /\ Verifies(id, Blob[CID(id)]))]_allVars
=============================================================================
