-------------------------- MODULE WatchtowerProofs --------------------------
(***************************************************************************)
(* The watchtower for any feed, evidence, scan limit and number of faults: *)
(* nothing is reported early, and nothing twice in one life.               *)
(*                                                                         *)
(* Both are about the decision at the head of the queue while it is        *)
(* handled: `late` was read one call earlier, `reported` is written two    *)
(* calls later. The invariant says what each call may rely on.             *)
(*                                                                         *)
(* Then the system as a whole: the contracts keep what they promise while  *)
(* the process runs, and a healthy agent is not halted.                    *)
(***************************************************************************)
EXTENDS Watchtower, AttestationContractProofs, SequenceTheorems
-----------------------------------------------------------------------------
(* The contracts, as the watchtower meets them.                            *)

\* Every decision on the feed has a hash and a CID of the agent's.
FeedWritten ==
  \A id \in Feed!Ids :
    id < totalDecisions[Fund] => Hash(id) \in Hashes /\ CID(id) \in EvidenceCIDs

ChainInv == ContractInv /\ owner = Deployer /\ FeedWritten

LEMMA FundAndAgent == Fund \in Vaults /\ Guarded \in Agents /\ Guarded \in Accounts \ {Attestation}
  BY AttestationAssumption, WatchtowerAssumption DEF Guarded, Registry!RegistryAssumption

\* The deployed contracts with a registered agent are in the contracts' invariant.
LEMMA DeployedSound == Deployed => ChainInv
<1> SUFFICES ASSUME Deployed PROVE ChainInv
  OBVIOUS
<1>1. /\ totalDecisions = [v \in Vaults |-> 0]
      /\ decisions = [v \in Vaults |-> [id \in Feed!Ids |-> Feed!Unwritten]]
      /\ settled = [v \in Vaults |-> {}]
      /\ failureReports = [v \in Vaults |-> [id \in ReportIds |-> 0]]
      /\ owner = Deployer /\ registeredEnclaveKeys = {ConfiguredEnclave}
      /\ watchtowers = {Tower}
  BY DEF Deployed, Feed!FeedInit
<1>2. FeedInv
  <2>1. Feed!Unwritten \in Feed!DecisionRecord /\ Feed!Unwritten.status = "Pending"
    BY DEF Feed!Unwritten, Feed!Pending, Feed!DecisionRecord
  <2>2. FeedTypes
    BY <1>1, <2>1, AttestationAssumption DEF FeedTypes
  <2>3. SettlementAgrees
    BY <1>1, <2>1 DEF SettlementAgrees, Feed!Ids
  <2> QED
    BY <2>2, <2>3 DEF FeedInv
<1>3. AdminTypes
  BY <1>1, AttestationAssumption, WatchtowerAssumption DEF AdminTypes, ReportIds
<1>4. RegistryInv
  <2> DEFINE root == CHOOSE r \in PolicyRoots : TRUE
  <2>1. root \in PolicyRoots
    BY WatchtowerAssumption
  <2> HIDE DEF root
  <2>2. ASSUME NEW a \in Agents
        PROVE  Bodies!Sound(Bodies!Registered(a, root, 1, 0, 24))
    <3>1. a \in Accounts
      BY AttestationAssumption DEF Registry!RegistryAssumption
    <3>2. 1 \in Bodies!EnabledTiers /\ Bodies!ValidActiveHours(0, 24)
      BY DEF Bodies!EnabledTiers, Bodies!ValidActiveHours
    <3> QED
      BY <2>1, <3>1, <3>2, SameAssumption, Bodies!RegisteredSound
  <2>3. policies = [a \in Agents |-> Bodies!Registered(a, root, 1, 0, 24)]
    BY DEF Deployed, Registry!Registered, Bodies!Registered, root
  <2>4. /\ decisionRecorders = {RegistryOwner, Attestation}
        /\ circuitBreakers = {RegistryOwner, Attestation}
    BY DEF Deployed
  <2>5. Bodies!RegistryInv
    BY <2>2, <2>3, <2>4, AttestationAssumption
       DEF Bodies!RegistryInv, Bodies!TypeOK, Bodies!PoliciesConsistent, Bodies!Sound,
           Registry!RegistryAssumption
  <2> QED
    BY <2>5, SameInvariant
<1>5. FeedWritten
  BY <1>1, FundAndAgent DEF FeedWritten, Feed!Ids
<1> QED
  BY <1>1, <1>2, <1>3, <1>4, <1>5 DEF ChainInv, ContractInv

\* What a transaction of the watchtower does, a call of the contracts does.
LEMMA ExecuteIsCall ==
  ASSUME ChainInv, NEW tx \in Transaction, Succeeds(tx), Execute(tx)
  PROVE  DecisionStep /\ owner' = owner
<1>1. CASE tx.kind = "settle"
  <2>1. tx.id \in Feed!Ids /\ tx.sig \in Signed
    BY <1>1 DEF Transaction
  <2>2. VerifyAndSettle(Fund, tx.id, Hash(tx.id), tx.sig)
    BY <1>1 DEF Execute
  <2>3. tx.id < totalDecisions[Fund]
    BY <1>1 DEF Succeeds, MaySettle, Feed!Exists
  <2>4. Hash(tx.id) \in Hashes
    BY <2>1, <2>3 DEF ChainInv, FeedWritten
  <2>5. DecisionStep
    BY <2>1, <2>2, <2>4, FundAndAgent DEF DecisionStep
  <2> QED
    BY <2>2, <2>5 DEF VerifyAndSettle, adminVars
<1>2. CASE tx.kind = "report"
  <2>1. tx.id \in Feed!Ids
    BY <1>2 DEF Transaction
  <2>2. tx.id \in ReportIds
    BY <2>1, AttestationAssumption DEF Feed!Ids, ReportIds
  <2>3. ReportFailure(Tower, Fund, tx.id)
    BY <1>2 DEF Execute
  <2>4. Tower \in Accounts
    BY AttestationAssumption, WatchtowerAssumption
  <2>5. DecisionStep
    BY <2>2, <2>3, <2>4, FundAndAgent DEF DecisionStep
  <2> QED
    BY <2>3, <2>5 DEF ReportFailure, adminVars
<1> QED
  BY <1>1, <1>2 DEF Transaction

\* So are the steps of the others.
LEMMA OthersAreCalls ==
  ASSUME ChainInv, OthersTransact
  PROVE  Next /\ owner' = owner
<1>1. CASE AgentCommits
  BY <1>1, FundAndAgent DEF AgentCommits, Next, DecisionStep, Commit, adminVars
<1>2. CASE SomebodySettles
  <2>1. PICK id \in Feed!Ids, sig \in Signed : VerifyAndSettle(Fund, id, sig.over, sig)
    BY <1>2 DEF SomebodySettles
  <2>2. sig.over \in Hashes
    BY AttestationAssumption
  <2>3. DecisionStep
    BY <2>1, <2>2, FundAndAgent DEF DecisionStep
  <2> QED
    BY <2>1, <2>3 DEF Next, VerifyAndSettle, adminVars
<1>3. CASE OwnerResumes
  <2>1. Registry!PolicyCall(Guarded, Guarded)
    BY <1>3 DEF OwnerResumes, Registry!PolicyCall
  <2>2. UNCHANGED <<feedVars, adminVars, outcomeVars>>
    BY <1>3 DEF OwnerResumes
  <2>3. RegistryStep
    BY <2>1, <2>2, FundAndAgent DEF RegistryStep
  <2> QED
    BY <2>2, <2>3 DEF Next, adminVars
<1>4. CASE KeyRevoked
  <2>1. Deployer \in Accounts /\ owner = Deployer /\ ConfiguredEnclave \in EnclaveKeys
    BY AttestationAssumption, WatchtowerAssumption DEF ChainInv
  <2>2. RevokeEnclaveKey(owner, ConfiguredEnclave)
    BY <1>4 DEF KeyRevoked
  <2>3. AdminStep
    BY <2>1, <2>2 DEF AdminStep
  <2> QED
    BY <2>2, <2>3 DEF Next, RevokeEnclaveKey
<1>5. CASE OthersAccuse
  <2>1. ASSUME NEW sender \in Judges,
               \/ Registry!TriggerCircuitBreaker(sender, Guarded)
               \/ Registry!RecordOutcome(sender, Guarded, FALSE),
               UNCHANGED <<feedVars, adminVars, outcomeVars>>
        PROVE  Next /\ owner' = owner
    <3>1. Registry!PolicyCall(sender, Guarded)
      BY <2>1 DEF Registry!PolicyCall
    <3>2. RegistryStep
      BY <2>1, <3>1, FundAndAgent DEF RegistryStep, Judges
    <3> QED
      BY <2>1, <3>2 DEF Next, adminVars
  <2>2. ASSUME NEW id \in Feed!Ids, ReportFailure(owner, Fund, id)
        PROVE  Next /\ owner' = owner
    <3>1. owner \in Accounts
      BY AttestationAssumption DEF ChainInv
    <3>2. DecisionStep
      BY <2>2, <3>1, FundAndAgent DEF DecisionStep, ReportIds
    <3> QED
      BY <2>2, <3>2 DEF Next, ReportFailure, adminVars
  <2> QED
    BY <1>5, <2>1, <2>2 DEF OthersAccuse
<1>6. CASE OthersVouch
  <2>1. PICK sender \in Judges : Registry!RecordOutcome(sender, Guarded, TRUE)
    BY <1>6 DEF OthersVouch
  <2>2. UNCHANGED <<feedVars, adminVars, outcomeVars>>
    BY <1>6 DEF OthersVouch
  <2>3. Registry!PolicyCall(sender, Guarded)
    BY <2>1 DEF Registry!PolicyCall
  <2>4. RegistryStep
    BY <2>2, <2>3, FundAndAgent DEF RegistryStep, Judges
  <2> QED
    BY <2>2, <2>4 DEF Next, adminVars
<1> QED
  BY <1>1, <1>2, <1>3, <1>4, <1>5, <1>6 DEF OthersTransact

\* The feed grows and its decisions keep their CID.
FeedKept ==
  /\ totalDecisions'[Fund] >= totalDecisions[Fund]
  /\ \A id \in Feed!Ids :
       id < totalDecisions[Fund] =>
         decisions'[Fund][id].evidenceCID = decisions[Fund][id].evidenceCID

\* A decision of the feed keeps its hash and CID; a new one comes with its own.
LEMMA WrittenKeeps ==
  ASSUME ChainInv, [Next]_vars
  PROVE  FeedWritten' /\ FeedKept
<1>0. /\ totalDecisions \in [Vaults -> 0 .. MaxFeed]
      /\ decisions \in [Vaults -> [Feed!Ids -> Feed!DecisionRecord]]
      /\ Fund \in Vaults /\ MaxFeed \in Nat
  BY FundAndAgent, AttestationAssumption DEF ChainInv, ContractInv, FeedInv, FeedTypes
<1>1. CASE UNCHANGED feedVars
  BY <1>0, <1>1 DEF ChainInv, FeedWritten, FeedKept, Hash, CID, feedVars, Feed!Ids
<1>2. ASSUME NEW sender \in Agents, NEW v \in Vaults, NEW hash \in Hashes,
             NEW cid \in EvidenceCIDs, Commit(sender, v, hash, cid)
      PROVE  FeedWritten' /\ FeedKept
  <2> DEFINE n == totalDecisions[v]
             d == Feed!Pending(hash, cid)
  <2>1. /\ n \in Feed!Ids
        /\ totalDecisions' = [totalDecisions EXCEPT ![v] = n + 1]
        /\ decisions' = [decisions EXCEPT ![v] = [decisions[v] EXCEPT ![n] = d]]
    BY <1>0, <1>2 DEF Commit, Feed!CommitDecision, Feed!Ids
  <2>2. d.decisionHash \in Hashes /\ d.evidenceCID \in EvidenceCIDs
    BY DEF Feed!Pending
  <2> HIDE DEF d
  <2>3. ASSUME NEW id \in Feed!Ids, id < totalDecisions'[Fund]
        PROVE  /\ decisions'[Fund][id].decisionHash \in Hashes
               /\ decisions'[Fund][id].evidenceCID \in EvidenceCIDs
    <3>1. CASE v = Fund /\ id = n
      <4>1. decisions'[Fund][id] = d
        BY <1>0, <2>1, <3>1
      <4> QED
        BY <2>2, <4>1
    <3>2. CASE ~(v = Fund /\ id = n)
      <4>1. decisions'[Fund][id] = decisions[Fund][id]
        BY <1>0, <2>1, <3>2
      <4>2. id < totalDecisions[Fund]
        BY <1>0, <2>1, <2>3, <3>2 DEF Feed!Ids
      <4> QED
        BY <4>1, <4>2 DEF ChainInv, FeedWritten, Hash, CID
    <3> QED
      BY <3>1, <3>2
  <2>4. FeedWritten'
    BY <2>3 DEF FeedWritten, Hash, CID, Feed!Ids
  <2>5. totalDecisions'[Fund] >= totalDecisions[Fund]
    BY <1>0, <2>1
  <2>6. ASSUME NEW id \in Feed!Ids, id < totalDecisions[Fund]
        PROVE  decisions'[Fund][id] = decisions[Fund][id]
    BY <1>0, <2>1, <2>6 DEF Feed!Ids
  <2> QED
    BY <2>4, <2>5, <2>6 DEF FeedKept
<1>3. ASSUME NEW v \in Vaults, NEW id \in Feed!Ids, NEW hash \in Hashes,
             NEW sig \in Signed, VerifyAndSettle(v, id, hash, sig)
      PROVE  FeedWritten' /\ FeedKept
  <2> DEFINE d == decisions[v][id]
             e == Feed!Attested(d, hash)
  <2>1. /\ decisions' = [decisions EXCEPT ![v] = [decisions[v] EXCEPT ![id] = e]]
        /\ totalDecisions' = totalDecisions
    BY <1>3 DEF VerifyAndSettle, Feed!MarkAttested
  <2>2. e.decisionHash = d.decisionHash /\ e.evidenceCID = d.evidenceCID
    <3>1. d \in Feed!DecisionRecord
      BY <1>0
    <3> QED
      BY <3>1 DEF Feed!Attested, Feed!DecisionRecord
  <2> HIDE DEF e
  <2>3. ASSUME NEW i \in Feed!Ids
        PROVE  /\ decisions'[Fund][i].decisionHash = decisions[Fund][i].decisionHash
               /\ decisions'[Fund][i].evidenceCID = decisions[Fund][i].evidenceCID
    BY <1>0, <2>1, <2>2
  <2>4. FeedWritten'
    BY <2>1, <2>3 DEF ChainInv, FeedWritten, Hash, CID, Feed!Ids
  <2> QED
    BY <1>0, <2>1, <2>3, <2>4 DEF FeedKept
<1> QED
  BY <1>1, <1>2, <1>3, StepCases

LEMMA ChainKeeps ==
  ASSUME ChainInv, [Next]_vars, owner' = owner
  PROVE  ChainInv' /\ FeedKept
<1>1. ContractInv'
  BY FeedNextKeeps, RegistryNextKeeps, AdminNextKeeps DEF ContractInv, ChainInv
<1> QED
  BY <1>1, WrittenKeeps DEF ChainInv
-----------------------------------------------------------------------------
(* The process.                                                            *)

Handling == {"check", "fetch", "settle", "report", "alert"}
Judging == {"fetch", "settle", "report"}

\* What the scan has queued is on the feed, and while a decision is handled there
\* is one: it is not reported yet, and `late` is true only of an overdue one.
QueueInv ==
  /\ queue \in Seq(Feed!Ids)
  /\ \A i \in 1 .. Len(queue) : queue[i] < totalDecisions[Fund]
  /\ at \in Handling => queue # << >>
  /\ at \in Judging => Current \notin reported
  /\ at \in Judging /\ late => Current \in overdue
  /\ at = "report" => late
  /\ at = "settle" => Blob[CID(Current)] # Missing

\* The scan goes down from the newest decision and queues at most what it has read.
ScanInv ==
  /\ cursor \in 0 .. MaxFeed /\ scanned \in 0 .. MaxFeed
  /\ at = "scan" => /\ cursor > 0 /\ cursor <= totalDecisions[Fund]
                    /\ scanned + cursor <= MaxFeed
                    /\ scanned < ScanLimit
                    /\ Len(queue) <= scanned
  /\ at # "scan" => scanned = 0
  /\ at = "asleep" => queue = << >>
  /\ Len(queue) <= ScanLimit

TowerTypes ==
  /\ at \in Calls /\ late \in BOOLEAN
  /\ reported \subseteq Feed!Ids /\ overdue \subseteq Feed!Ids
  /\ reports \in [Feed!Ids -> Nat] /\ faults \in Nat

PoolInv == pool \in Seq(Transaction) /\ Len(pool) <= MaxPool

\* A report is of an overdue decision; beyond the one in `reported`, a fault each.
ReportsInv ==
  \A id \in Feed!Ids :
    /\ reports[id] > 0 => id \in overdue
    /\ reports[id] <= faults + (IF id \in reported THEN 1 ELSE 0)

TowerInv == TowerTypes /\ QueueInv /\ ScanInv /\ PoolInv /\ ReportsInv

\* What the bound counts stays within it.
CountsInv == accusations \in Nat /\ vouchers \in Nat /\ Disturbances <= MaxFaults

WatchtowerInv == ChainInv /\ TowerInv /\ CountsInv

LEMMA WatchtowerInitially == WatchtowerInit => WatchtowerInv
<1> SUFFICES ASSUME WatchtowerInit PROVE WatchtowerInv
  OBVIOUS
<1>1. ChainInv
  BY DeployedSound DEF WatchtowerInit
<1>2. /\ at = "asleep" /\ cursor = 0 /\ scanned = 0 /\ queue = << >> /\ late = FALSE
      /\ reported = {} /\ pool = << >> /\ overdue = {} /\ faults = 0
      /\ reports = [id \in Feed!Ids |-> 0]
  BY DEF WatchtowerInit
<1>3. TowerInv
  <2>1. << >> \in Seq(Feed!Ids) /\ << >> \in Seq(Transaction) /\ Len(<< >>) = 0
    BY EmptySeq
  <2>2. TowerTypes
    <3>1. reports \in [Feed!Ids -> Nat]
      BY <1>2
    <3> QED
      BY <1>2, <3>1 DEF TowerTypes, Calls
  <2>3. QueueInv
    BY <1>2, <2>1 DEF QueueInv, Handling, Judging
  <2>4. ScanInv
    BY <1>2, <2>1, WatchtowerAssumption, AttestationAssumption DEF ScanInv
  <2>5. PoolInv
    BY <1>2, <2>1, WatchtowerAssumption DEF PoolInv
  <2>6. ReportsInv
    BY <1>2 DEF ReportsInv
  <2> QED
    BY <2>2, <2>3, <2>4, <2>5, <2>6 DEF TowerInv
<1>4. CountsInv
  BY WatchtowerAssumption DEF WatchtowerInit, CountsInv, Disturbances
<1> QED
  BY <1>1, <1>3, <1>4 DEF WatchtowerInv

LEMMA WatchtowerImplies ==
  WatchtowerInv => WatchtowerTypeOK /\ OneReportPerLife /\ NothingReportedEarly
<1> SUFFICES ASSUME WatchtowerInv
             PROVE  WatchtowerTypeOK /\ OneReportPerLife /\ NothingReportedEarly
  OBVIOUS
<1>1. TypeOK
  BY DEF WatchtowerInv, ChainInv, ContractInv, FeedInv, FeedTypes, RegistryInv,
         AdminTypes, TypeOK
<1>2. WatchtowerTypeOK
  BY <1>1 DEF WatchtowerInv, TowerInv, TowerTypes, QueueInv, ScanInv, PoolInv, CountsInv,
              WatchtowerTypeOK
<1>3. OneReportPerLife
  <2> SUFFICES ASSUME NEW id \in Feed!Ids PROVE reports[id] <= 1 + faults
    BY DEF OneReportPerLife
  <2>1. reports[id] \in Nat /\ faults \in Nat
    BY DEF WatchtowerInv, TowerInv, TowerTypes
  <2>2. reports[id] <= faults + (IF id \in reported THEN 1 ELSE 0)
    BY DEF WatchtowerInv, TowerInv, ReportsInv
  <2> QED
    BY <2>1, <2>2
<1> QED
  BY <1>2, <1>3 DEF WatchtowerInv, TowerInv, ReportsInv, NothingReportedEarly
-----------------------------------------------------------------------------
(* The queue.                                                              *)

\* The head of the queue is on the feed, and so is the rest of it.
LEMMA QueueSplit ==
  ASSUME QueueInv, queue # << >>
  PROVE  /\ Current \in Feed!Ids /\ Current < totalDecisions[Fund]
         /\ Tail(queue) \in Seq(Feed!Ids) /\ Len(Tail(queue)) <= Len(queue)
         /\ \A i \in 1 .. Len(Tail(queue)) : Tail(queue)[i] < totalDecisions[Fund]
<1>1. queue \in Seq(Feed!Ids) /\ Len(queue) \in Nat \ {0}
  BY EmptySeq DEF QueueInv
<1>2. Current = queue[1]
  BY <1>1 DEF Current
<1>3. /\ Tail(queue) \in Seq(Feed!Ids) /\ Len(Tail(queue)) = Len(queue) - 1
      /\ \A i \in 1 .. Len(Tail(queue)) : Tail(queue)[i] = queue[i + 1]
  BY <1>1, HeadTailProperties
<1>4. 1 \in 1 .. Len(queue)
  BY <1>1
<1>5. Current \in Feed!Ids
  BY <1>1, <1>2, <1>4
<1>6. Current < totalDecisions[Fund]
  BY <1>2, <1>4 DEF QueueInv
<1>7. ASSUME NEW i \in 1 .. Len(Tail(queue))
      PROVE  Tail(queue)[i] < totalDecisions[Fund]
  <2>1. i + 1 \in 1 .. Len(queue)
    BY <1>1, <1>3
  <2> QED
    BY <1>3, <2>1 DEF QueueInv
<1> QED
  BY <1>1, <1>3, <1>5, <1>6, <1>7

\* Going on with a sound queue, outside a scan.
LEMMA GoOnKeeps ==
  ASSUME NEW q \in Seq(Feed!Ids), GoOnWith(q), UNCHANGED totalDecisions,
         \A i \in 1 .. Len(q) : q[i] < totalDecisions[Fund],
         Len(q) <= ScanLimit, cursor' \in 0 .. MaxFeed, scanned' = 0, MaxFeed \in Nat
  PROVE  QueueInv' /\ ScanInv' /\ at' \in Calls /\ late' \in BOOLEAN
<1>1. queue' = q /\ late' = FALSE /\ at' = IF q = << >> THEN "asleep" ELSE "check"
  BY DEF GoOnWith
<1>2. at' \notin Judging /\ at' # "scan"
  BY <1>1 DEF Judging
<1>3. QueueInv'
  BY <1>1, <1>2 DEF QueueInv, Judging, Handling, Feed!Ids
<1>4. ScanInv'
  BY <1>1, <1>2 DEF ScanInv
<1> QED
  BY <1>1, <1>3, <1>4 DEF Calls

\* ... in particular with the rest of the queue, or with nothing.
LEMMA NextKeeps ==
  ASSUME TowerInv, at \in Handling, GoOnWith(Tail(queue)),
         UNCHANGED <<totalDecisions, cursor, scanned>>
  PROVE  QueueInv' /\ ScanInv' /\ at' \in Calls /\ late' \in BOOLEAN
<1>1. QueueInv /\ ScanInv /\ queue # << >> /\ MaxFeed \in Nat /\ at # "scan"
  BY AttestationAssumption DEF TowerInv, QueueInv, Handling
<1>2. Len(queue) \in Nat /\ Len(Tail(queue)) \in Nat /\ ScanLimit \in Nat
  BY <1>1, QueueSplit, LenProperties, WatchtowerAssumption DEF QueueInv
<1>3. Len(Tail(queue)) <= ScanLimit
  BY <1>1, <1>2, QueueSplit DEF ScanInv
<1>4. scanned' = 0 /\ cursor' \in 0 .. MaxFeed
  BY <1>1 DEF ScanInv
<1> QED
  BY <1>1, <1>3, <1>4, QueueSplit, GoOnKeeps

LEMMA AbortKeeps ==
  ASSUME TowerInv, AbortTick, UNCHANGED totalDecisions
  PROVE  QueueInv' /\ ScanInv' /\ at' \in Calls /\ late' \in BOOLEAN
<1>1. GoOnWith(<< >>) /\ cursor' = 0 /\ scanned' = 0
  BY DEF AbortTick, NoScan
<1>2. << >> \in Seq(Feed!Ids) /\ Len(<< >>) = 0
  BY EmptySeq
<1>3. MaxFeed \in Nat /\ ScanLimit \in Nat
  BY AttestationAssumption, WatchtowerAssumption
<1>4. \A i \in 1 .. Len(<< >>) : (<< >>)[i] < totalDecisions[Fund]
  BY <1>2
<1>5. Len(<< >>) <= ScanLimit /\ cursor' \in 0 .. MaxFeed
  BY <1>1, <1>2, <1>3
<1> QED
  BY <1>1, <1>2, <1>3, <1>4, <1>5, GoOnKeeps, Zenon

\* A failure inside the timeout passes on; past it, the report is of an overdue decision.
LEMMA DismissKeeps ==
  ASSUME TowerInv, at \in Judging, Dismiss,
         UNCHANGED <<totalDecisions, cursor, scanned, reported, overdue, decisions>>
  PROVE  QueueInv' /\ ScanInv' /\ at' \in Calls /\ late' \in BOOLEAN
<1>0. QueueInv /\ ScanInv /\ at \in Handling /\ at # "scan" /\ late \in BOOLEAN
  BY DEF TowerInv, TowerTypes, Handling, Judging
<1>1. CASE ~late
  BY <1>0, <1>1, NextKeeps DEF Dismiss
<1>2. CASE late
  <2>1. at' = "report" /\ queue' = queue /\ late' = late
    BY <1>2 DEF Dismiss
  <2>2. QueueInv'
    BY <1>0, <1>2, <2>1 DEF QueueInv, Handling, Judging, Current, Feed!Ids
  <2>3. ScanInv'
    BY <1>0, <2>1 DEF ScanInv
  <2> QED
    BY <1>0, <2>1, <2>2, <2>3 DEF Calls
<1> QED
  BY <1>0, <1>1, <1>2
-----------------------------------------------------------------------------
(* The pool.                                                               *)

LEMMA SubmitKeeps ==
  ASSUME PoolInv, NEW tx \in Transaction, Submit(tx)
  PROVE  PoolInv'
<1>1. Len(pool) < MaxPool /\ pool' = Append(pool, tx) /\ Len(pool) \in Nat /\ MaxPool \in Nat
  BY WatchtowerAssumption, LenProperties DEF Submit, PoolInv
<1>2. pool' \in Seq(Transaction) /\ Len(pool') = Len(pool) + 1
  BY <1>1, AppendProperties DEF PoolInv
<1> QED
  BY <1>1, <1>2 DEF PoolInv

\* A settlement that would succeed carries a signature of the enclave's.
LEMMA SettlementIsTransaction ==
  ASSUME WatchtowerInv, at = "settle", Succeeds(SettleTx(Current))
  PROVE  SettleTx(Current) \in Transaction
<1> DEFINE sig == Blob[CID(Current)]
<1>1. Current \in Feed!Ids /\ Current < totalDecisions[Fund] /\ sig # Missing
  BY QueueSplit DEF WatchtowerInv, TowerInv, QueueInv, Handling
<1>2. Hash(Current) \in Hashes /\ CID(Current) \in EvidenceCIDs
  BY <1>1 DEF WatchtowerInv, ChainInv, FeedWritten
<1>3. sig \in Signed \cup [by : EnclaveKeys, over : {NoHash}]
  BY <1>1, <1>2, WatchtowerAssumption
<1>4. Recover(Hash(Current), sig) \in EnclaveKeys
  <2>1. MaySettle(Fund, Current, Hash(Current), sig)
    BY DEF Succeeds, SettleTx
  <2>2. Recover(Hash(Current), sig) \in registeredEnclaveKeys
    BY <2>1 DEF MaySettle
  <2>3. registeredEnclaveKeys \subseteq EnclaveKeys
    BY DEF WatchtowerInv, ChainInv, ContractInv, AdminTypes
  <2> QED
    BY <2>2, <2>3
<1>5. sig.over = Hash(Current)
  BY <1>4, AttestationAssumption DEF Recover
<1>6. sig.over # NoHash
  BY <1>2, <1>5, AttestationAssumption
<1>7. sig \in Signed
  BY <1>3, <1>6
<1> QED
  BY <1>1, <1>7 DEF SettleTx, Transaction

LEMMA ReportIsTransaction ==
  ASSUME QueueInv, at = "report"
  PROVE  ReportTx(Current) \in Transaction /\ Current \in Feed!Ids
<1>1. Current \in Feed!Ids
  BY QueueSplit DEF QueueInv, Handling
<1> QED
  BY <1>1 DEF ReportTx, Transaction
-----------------------------------------------------------------------------
(* The steps.                                                              *)

OutsideKept == UNCHANGED <<totalDecisions, decisions, overdue>>

\* A step that only moves the process on.
LEMMA MoveKeeps ==
  ASSUME TowerInv, UNCHANGED <<reported, pool, reports, faults, overdue>>,
         QueueInv' /\ ScanInv' /\ at' \in Calls /\ late' \in BOOLEAN
  PROVE  TowerInv'
<1>1. TowerTypes'
  BY DEF TowerInv, TowerTypes, Feed!Ids
<1>2. PoolInv'
  BY DEF TowerInv, PoolInv, Transaction, Feed!Ids
<1>3. ReportsInv'
  BY DEF TowerInv, ReportsInv, Feed!Ids
<1> QED
  BY <1>1, <1>2, <1>3 DEF TowerInv

LEMMA StartKeeps ==
  ASSUME WatchtowerInv, OutsideKept, StartTick
  PROVE  TowerInv'
<1>1. /\ at = "asleep" /\ at' = "scan" /\ cursor' = totalDecisions[Fund]
      /\ totalDecisions[Fund] > 0 /\ scanned = 0 /\ queue = << >>
      /\ UNCHANGED <<scanned, queue, late, reported, pool, reports, faults>>
  BY DEF StartTick, WatchtowerInv, TowerInv, ScanInv
<1>2. totalDecisions[Fund] \in 0 .. MaxFeed /\ MaxFeed \in Nat /\ ScanLimit \in Nat \ {0}
  BY FundAndAgent, AttestationAssumption, WatchtowerAssumption
     DEF WatchtowerInv, ChainInv, ContractInv, FeedInv, FeedTypes
<1>3. Len(queue) = 0
  BY <1>1, EmptySeq
<1>4. QueueInv'
  BY <1>1 DEF OutsideKept, WatchtowerInv, TowerInv, QueueInv, Handling, Judging, Feed!Ids
<1>5. ScanInv'
  BY <1>1, <1>2, <1>3 DEF OutsideKept, ScanInv
<1> QED
  BY <1>1, <1>4, <1>5, MoveKeeps
     DEF OutsideKept, WatchtowerInv, TowerInv, TowerTypes, Calls

LEMMA ScanKeeps ==
  ASSUME WatchtowerInv, OutsideKept, ScanDecision
  PROVE  TowerInv'
<1> DEFINE id == cursor - 1
           q == IF decisions[Fund][id].status = "Pending" THEN Append(queue, id) ELSE queue
<1>1. /\ cursor \in 1 .. MaxFeed /\ cursor <= totalDecisions[Fund]
      /\ scanned \in Nat /\ scanned + cursor <= MaxFeed /\ scanned < ScanLimit
      /\ queue \in Seq(Feed!Ids) /\ Len(queue) \in Nat /\ Len(queue) <= scanned
      /\ MaxFeed \in Nat /\ ScanLimit \in Nat
      /\ totalDecisions[Fund] \in Nat
  BY FundAndAgent, AttestationAssumption, WatchtowerAssumption, LenProperties
     DEF ScanDecision, WatchtowerInv, TowerInv, ScanInv, QueueInv,
         ChainInv, ContractInv, FeedInv, FeedTypes
<1>2. id \in Feed!Ids /\ id < totalDecisions[Fund] /\ id \in Nat
  BY <1>1 DEF Feed!Ids
<1>3. \A i \in 1 .. Len(queue) : queue[i] < totalDecisions[Fund]
  BY DEF WatchtowerInv, TowerInv, QueueInv
<1> HIDE DEF id
<1>4. /\ q \in Seq(Feed!Ids) /\ Len(q) \in Nat /\ Len(q) <= scanned + 1
      /\ \A i \in 1 .. Len(q) : q[i] < totalDecisions[Fund]
  <2>1. CASE q = queue
    BY <1>1, <1>3, <2>1
  <2>2. CASE q = Append(queue, id)
    <3>1. /\ Append(queue, id) \in Seq(Feed!Ids)
          /\ Len(Append(queue, id)) = Len(queue) + 1
          /\ \A i \in 1 .. Len(queue) : Append(queue, id)[i] = queue[i]
          /\ Append(queue, id)[Len(queue) + 1] = id
      BY <1>1, <1>2, AppendProperties
    <3>2. ASSUME NEW i \in 1 .. Len(q)
          PROVE  q[i] < totalDecisions[Fund]
      <4>1. i \in 1 .. Len(queue) \/ i = Len(queue) + 1
        BY <1>1, <2>2, <3>1
      <4> QED
        BY <1>2, <1>3, <2>2, <3>1, <4>1
    <3> QED
      BY <1>1, <2>2, <3>1, <3>2
  <2> QED
    BY <2>1, <2>2
<1> HIDE DEF q
<1>5. /\ at = "scan"
      /\ IF id > 0 /\ scanned + 1 < ScanLimit
         THEN /\ queue' = q /\ cursor' = id /\ scanned' = scanned + 1
              /\ UNCHANGED <<at, late>>
         ELSE GoOnWith(q) /\ NoScan
      /\ UNCHANGED <<reported, pool, reports, faults>>
  BY DEF ScanDecision, id, q
<1>6. CASE id > 0 /\ scanned + 1 < ScanLimit
  <2>1. /\ queue' = q /\ cursor' = id /\ scanned' = scanned + 1
        /\ at' = "scan" /\ late' = late
    BY <1>5, <1>6
  <2>2. QueueInv'
    BY <1>4, <2>1 DEF OutsideKept, QueueInv, Handling, Judging, Feed!Ids
  <2>3. id + 1 = cursor
    BY <1>1 DEF id
  <2>4. ScanInv'
    <3>1. id \in 0 .. MaxFeed /\ scanned + 1 \in 0 .. MaxFeed
      BY <1>1, <1>2, <1>6, <2>3
    <3> QED
      BY <1>1, <1>2, <1>4, <1>6, <2>1, <2>3, <3>1 DEF OutsideKept, ScanInv
  <2> QED
    BY <1>5, <2>1, <2>2, <2>4, MoveKeeps
       DEF OutsideKept, WatchtowerInv, TowerInv, TowerTypes, Calls
<1>7. CASE ~(id > 0 /\ scanned + 1 < ScanLimit)
  <2>1. GoOnWith(q) /\ cursor' = 0 /\ scanned' = 0
    BY <1>5, <1>7 DEF NoScan
  <2>2. Len(q) <= ScanLimit /\ cursor' \in 0 .. MaxFeed
    BY <1>1, <1>4, <2>1
  <2> QED
    BY <1>1, <1>4, <1>5, <2>1, <2>2, GoOnKeeps, MoveKeeps
       DEF OutsideKept, WatchtowerInv
<1> QED
  BY <1>6, <1>7

LEMMA CheckKeeps ==
  ASSUME WatchtowerInv, OutsideKept, CheckDecision
  PROVE  TowerInv'
<1>1. TowerInv /\ at = "check" /\ at \in Handling
      /\ UNCHANGED <<cursor, scanned, reported, pool, reports, faults>>
  BY DEF WatchtowerInv, CheckDecision, Handling
<1>2. CASE IsSettled(Current) \/ Current \in reported
  <2>1. GoOnWith(Tail(queue))
    BY <1>2 DEF CheckDecision
  <2> QED
    BY <1>1, <2>1, NextKeeps, MoveKeeps DEF OutsideKept
<1>3. CASE ~(IsSettled(Current) \/ Current \in reported)
  <2>1. at' = "fetch" /\ late' = (Current \in overdue) /\ queue' = queue
    BY <1>3 DEF CheckDecision
  <2>2. QueueInv'
    BY <1>1, <1>3, <2>1
       DEF OutsideKept, TowerInv, QueueInv, Handling, Judging, Current, Feed!Ids
  <2>3. ScanInv'
    BY <1>1, <2>1 DEF TowerInv, ScanInv
  <2> QED
    BY <1>1, <2>1, <2>2, <2>3, MoveKeeps DEF OutsideKept, Calls
<1> QED
  BY <1>2, <1>3

LEMMA FetchKeeps ==
  ASSUME WatchtowerInv, OutsideKept, FetchEvidence
  PROVE  TowerInv'
<1>1. TowerInv /\ at = "fetch" /\ at \in Judging
      /\ UNCHANGED <<cursor, scanned, reported, pool, reports, faults>>
  BY DEF WatchtowerInv, FetchEvidence, Judging
<1>2. CASE Verifies(Current, Blob[CID(Current)])
  <2>1. at' = "settle" /\ late' = late /\ queue' = queue
    BY <1>2 DEF FetchEvidence
  <2>2. Blob[CID(Current)] # Missing
    BY <1>2 DEF Verifies
  <2>3. QueueInv'
    BY <1>1, <2>1, <2>2
       DEF OutsideKept, TowerInv, QueueInv, Handling, Judging, Current, CID, Feed!Ids
  <2>4. ScanInv'
    BY <1>1, <2>1 DEF TowerInv, ScanInv
  <2> QED
    BY <1>1, <2>1, <2>3, <2>4, MoveKeeps DEF OutsideKept, TowerInv, TowerTypes, Calls
<1>3. CASE ~Verifies(Current, Blob[CID(Current)])
  <2>1. Dismiss
    BY <1>3 DEF FetchEvidence
  <2> QED
    BY <1>1, <2>1, DismissKeeps, MoveKeeps DEF OutsideKept
<1> QED
  BY <1>2, <1>3

\* Types when a step changes more than the place in the code.
LEMMA TypesKeep ==
  ASSUME TowerInv, at' \in Calls, late' \in BOOLEAN, overdue' = overdue,
         reported' \subseteq Feed!Ids, reports' \in [Feed!Ids -> Nat],
         faults' \in Nat
  PROVE  TowerTypes'
  BY DEF TowerInv, TowerTypes, Feed!Ids

LEMMA SettleSendKeeps ==
  ASSUME WatchtowerInv, OutsideKept, SendSettle
  PROVE  TowerInv'
<1>1. /\ TowerInv /\ at = "settle" /\ at \in Handling
      /\ Submit(SettleTx(Current)) /\ GoOnWith(Tail(queue))
      /\ UNCHANGED <<cursor, scanned, reported, reports, faults>>
  BY DEF WatchtowerInv, SendSettle, Handling
<1>2. PoolInv'
  BY <1>1, SettlementIsTransaction, SubmitKeeps DEF TowerInv, Submit
<1>3. QueueInv' /\ ScanInv' /\ at' \in Calls /\ late' \in BOOLEAN
  BY <1>1, NextKeeps DEF OutsideKept
<1>4. TowerTypes' /\ ReportsInv'
  BY <1>1, <1>3 DEF OutsideKept, TowerInv, TowerTypes, ReportsInv, Feed!Ids
<1> QED
  BY <1>2, <1>3, <1>4 DEF TowerInv

LEMMA AlertKeeps ==
  ASSUME WatchtowerInv, OutsideKept, Alert
  PROVE  TowerInv'
  BY NextKeeps, MoveKeeps DEF OutsideKept, WatchtowerInv, Alert, Handling

LEMMA FailureKeeps ==
  ASSUME WatchtowerInv, OutsideKept, CallFails
  PROVE  TowerInv'
<1>1. TowerInv /\ UNCHANGED <<reported, pool, reports, faults>>
  BY DEF WatchtowerInv, CallFails
<1>2. CASE AbortTick
  BY <1>1, <1>2, AbortKeeps, MoveKeeps DEF OutsideKept
<1>3. CASE at \in {"fetch", "settle"} /\ Dismiss /\ UNCHANGED <<cursor, scanned>>
  BY <1>1, <1>3, DismissKeeps, MoveKeeps DEF OutsideKept, Judging
<1> QED
  BY <1>2, <1>3 DEF CallFails

\* What a report relies on: its decision is overdue and not in the memory yet.
LEMMA ReportingFacts ==
  ASSUME TowerInv, at = "report"
  PROVE  /\ Current \in Feed!Ids /\ Current \in overdue /\ Current \notin reported
         /\ queue # << >>
         /\ reports[Current] \in Nat /\ faults \in Nat /\ reports[Current] <= faults
<1>1. Current \in Feed!Ids
  BY ReportIsTransaction DEF TowerInv
<1>2. Current \in overdue /\ Current \notin reported /\ queue # << >>
  BY DEF TowerInv, QueueInv, Judging, Handling
<1>3. reports[Current] \in Nat /\ faults \in Nat
  BY <1>1 DEF TowerInv, TowerTypes
<1>4. reports[Current] <= faults + 0
  BY <1>1, <1>2 DEF TowerInv, ReportsInv
<1> QED
  BY <1>1, <1>2, <1>3, <1>4

LEMMA ReportSendKeeps ==
  ASSUME WatchtowerInv, OutsideKept, SendReport
  PROVE  TowerInv'
<1>1. /\ TowerInv /\ at = "report" /\ Submit(ReportTx(Current))
      /\ reports' = [reports EXCEPT ![Current] = @ + 1]
      /\ reported' = reported \cup {Current} /\ at' = "alert"
      /\ UNCHANGED <<cursor, scanned, queue, late, faults>>
  BY DEF WatchtowerInv, SendReport
<1>2. /\ Current \in Feed!Ids /\ Current \in overdue /\ Current \notin reported
      /\ queue # << >>
      /\ reports[Current] \in Nat /\ faults \in Nat /\ reports[Current] <= faults
  BY <1>1, ReportingFacts
<1>3. PoolInv'
  BY <1>1, ReportIsTransaction, SubmitKeeps DEF TowerInv
<1>4. QueueInv'
  BY <1>1, <1>2 DEF OutsideKept, TowerInv, QueueInv, Handling, Judging, Feed!Ids
<1>5. ScanInv'
  BY <1>1 DEF TowerInv, ScanInv
<1>6. TowerTypes'
  <2>1. reports' \in [Feed!Ids -> Nat] /\ reported' \subseteq Feed!Ids
    BY <1>1, <1>2 DEF TowerInv, TowerTypes
  <2> QED
    BY <1>1, <2>1, TypesKeep DEF OutsideKept, TowerInv, TowerTypes, Calls
<1>7. ReportsInv'
  <2> SUFFICES ASSUME NEW id \in Feed!Ids
               PROVE  /\ reports'[id] > 0 => id \in overdue'
                      /\ reports'[id] <= faults' + (IF id \in reported' THEN 1 ELSE 0)
    BY DEF ReportsInv, Feed!Ids
  <2>1. CASE id = Current
    BY <1>1, <1>2, <2>1 DEF OutsideKept, TowerInv, TowerTypes
  <2>2. CASE id # Current
    <3>1. reports'[id] = reports[id] /\ (id \in reported' <=> id \in reported)
      BY <1>1, <2>2 DEF TowerInv, TowerTypes
    <3> QED
      BY <1>1, <3>1 DEF OutsideKept, TowerInv, ReportsInv
  <2> QED
    BY <2>1, <2>2
<1> QED
  BY <1>3, <1>4, <1>5, <1>6, <1>7 DEF TowerInv

\* A fault more leaves room for a report nobody remembers.
LEMMA LostKeeps ==
  ASSUME WatchtowerInv, OutsideKept, ReplyLost
  PROVE  TowerInv'
<1>1. /\ TowerInv /\ faults' = faults + 1 /\ reported' = reported
      /\ faults \in Nat /\ faults' \in Nat
  BY DEF WatchtowerInv, ReplyLost, TowerInv, TowerTypes
<1>2. CASE /\ at = "settle" /\ Submit(SettleTx(Current)) /\ Dismiss
           /\ UNCHANGED <<cursor, scanned, reports>>
  <2>1. PoolInv'
    BY <1>1, <1>2, SettlementIsTransaction, SubmitKeeps DEF TowerInv, Submit
  <2>2. QueueInv' /\ ScanInv' /\ at' \in Calls /\ late' \in BOOLEAN
    BY <1>1, <1>2, DismissKeeps DEF OutsideKept, Judging
  <2>3. TowerTypes'
    BY <1>1, <1>2, <2>2, TypesKeep DEF OutsideKept, TowerInv, TowerTypes
  <2>4. ReportsInv'
    <3> SUFFICES ASSUME NEW id \in Feed!Ids
                 PROVE  /\ reports'[id] > 0 => id \in overdue'
                        /\ reports'[id] <= faults' + (IF id \in reported' THEN 1 ELSE 0)
      BY DEF ReportsInv, Feed!Ids
    <3>1. reports[id] \in Nat
      BY <1>1 DEF TowerInv, TowerTypes
    <3> QED
      BY <1>1, <1>2, <3>1 DEF OutsideKept, TowerInv, ReportsInv
  <2> QED
    BY <2>1, <2>2, <2>3, <2>4 DEF TowerInv
<1>3. CASE /\ at = "report" /\ Submit(ReportTx(Current))
           /\ reports' = [reports EXCEPT ![Current] = @ + 1]
           /\ AbortTick
  <2>1. /\ Current \in Feed!Ids /\ Current \in overdue
        /\ reports[Current] \in Nat /\ reports[Current] <= faults
    BY <1>1, <1>3, ReportingFacts
  <2>2. PoolInv'
    BY <1>1, <1>3, ReportIsTransaction, SubmitKeeps DEF TowerInv
  <2>3. QueueInv' /\ ScanInv' /\ at' \in Calls /\ late' \in BOOLEAN
    BY <1>1, <1>3, AbortKeeps DEF OutsideKept
  <2>4. TowerTypes'
    <3>1. reports' \in [Feed!Ids -> Nat]
      BY <1>1, <1>3, <2>1 DEF TowerInv, TowerTypes
    <3> QED
      BY <1>1, <2>3, <3>1, TypesKeep DEF OutsideKept, TowerInv, TowerTypes
  <2>5. ReportsInv'
    <3> SUFFICES ASSUME NEW id \in Feed!Ids
                 PROVE  /\ reports'[id] > 0 => id \in overdue'
                        /\ reports'[id] <= faults' + (IF id \in reported' THEN 1 ELSE 0)
      BY DEF ReportsInv, Feed!Ids
    <3>1. CASE id = Current
      BY <1>1, <1>3, <2>1, <3>1 DEF OutsideKept, TowerInv, TowerTypes
    <3>2. CASE id # Current
      <4>1. reports'[id] = reports[id] /\ reports[id] \in Nat
        BY <1>1, <1>3, <3>2 DEF TowerInv, TowerTypes
      <4> QED
        BY <1>1, <4>1 DEF OutsideKept, TowerInv, ReportsInv
    <3> QED
      BY <3>1, <3>2
  <2> QED
    BY <2>2, <2>3, <2>4, <2>5 DEF TowerInv
<1> QED
  BY <1>2, <1>3 DEF ReplyLost

\* A crash forgets what was reported and is a fault itself.
LEMMA CrashKeeps ==
  ASSUME WatchtowerInv, OutsideKept, Crash
  PROVE  TowerInv'
<1>1. /\ TowerInv /\ faults' = faults + 1 /\ reported' = {}
      /\ faults \in Nat /\ faults' \in Nat
      /\ AbortTick /\ UNCHANGED <<pool, reports>>
  BY DEF WatchtowerInv, Crash, TowerInv, TowerTypes
<1>2. QueueInv' /\ ScanInv' /\ at' \in Calls /\ late' \in BOOLEAN
  BY <1>1, AbortKeeps DEF OutsideKept
<1>3. TowerTypes'
  BY <1>1, <1>2, TypesKeep DEF OutsideKept, TowerInv, TowerTypes
<1>4. PoolInv'
  BY <1>1 DEF TowerInv, PoolInv, Transaction, Feed!Ids
<1>5. ReportsInv'
  <2> SUFFICES ASSUME NEW id \in Feed!Ids
               PROVE  /\ reports'[id] > 0 => id \in overdue'
                      /\ reports'[id] <= faults' + (IF id \in reported' THEN 1 ELSE 0)
    BY DEF ReportsInv, Feed!Ids
  <2>1. reports[id] \in Nat /\ reports[id] <= faults + (IF id \in reported THEN 1 ELSE 0)
    BY <1>1 DEF TowerInv, TowerTypes, ReportsInv
  <2> QED
    BY <1>1, <2>1 DEF OutsideKept, TowerInv, ReportsInv
<1> QED
  BY <1>2, <1>3, <1>4, <1>5 DEF TowerInv
-----------------------------------------------------------------------------
\* While the contracts change, the process keeps what it relies on.
LEMMA WorldKeeps ==
  ASSUME ChainInv, TowerInv, FeedKept, ChainInv', PoolInv',
         UNCHANGED <<localVars, reported, reports, faults>>,
         overdue \subseteq overdue', overdue' \subseteq Feed!Ids
  PROVE  TowerInv'
<1>0. /\ UNCHANGED <<at, cursor, scanned, queue, late, reported, reports, faults>>
      /\ totalDecisions[Fund] \in Nat /\ totalDecisions'[Fund] \in Nat
      /\ Feed!Ids \subseteq Int
  BY FundAndAgent, AttestationAssumption
     DEF localVars, ChainInv, ContractInv, FeedInv, FeedTypes, Feed!Ids
<1>1. TowerTypes'
  BY <1>0 DEF TowerInv, TowerTypes, Feed!Ids
<1>2. ScanInv'
  BY <1>0, AttestationAssumption DEF FeedKept, TowerInv, ScanInv
<1>3. ReportsInv'
  BY <1>0 DEF TowerInv, ReportsInv, Feed!Ids
<1>4. QueueInv'
  <2>1. ASSUME NEW i \in 1 .. Len(queue) PROVE queue[i] < totalDecisions'[Fund]
    <3>1. queue[i] < totalDecisions[Fund]
      BY DEF TowerInv, QueueInv
    <3>2. queue[i] \in Feed!Ids
      <4>1. queue \in Seq(Feed!Ids)
        BY DEF TowerInv, QueueInv
      <4> QED
        BY <4>1
    <3>3. queue[i] \in Int
      BY <1>0, <3>2
    <3> QED
      BY <1>0, <3>1, <3>3 DEF FeedKept
  <2>2. at = "settle" => Blob[CID(Current)'] # Missing
    <3> SUFFICES ASSUME at = "settle" PROVE Blob[CID(Current)'] # Missing
      OBVIOUS
    <3>1. Blob[CID(Current)] # Missing /\ queue # << >> /\ QueueInv
      BY DEF TowerInv, QueueInv, Handling
    <3>2. Current \in Feed!Ids /\ Current < totalDecisions[Fund]
      BY <3>1, QueueSplit
    <3>3. decisions'[Fund][Current].evidenceCID = decisions[Fund][Current].evidenceCID
      BY <3>2 DEF FeedKept
    <3> QED
      BY <1>0, <3>1, <3>3 DEF CID, Current
  <2> QED
    BY <1>0, <2>1, <2>2 DEF TowerInv, QueueInv, Judging, Handling, Current, Feed!Ids
<1> QED
  BY <1>1, <1>2, <1>3, <1>4 DEF TowerInv

LEMMA MineKeeps ==
  ASSUME WatchtowerInv, MineTransaction
  PROVE  ChainInv' /\ TowerInv'
<1>1. /\ ChainInv /\ TowerInv /\ pool \in Seq(Transaction) /\ pool # << >>
      /\ pool' = Tail(pool)
      /\ UNCHANGED <<localVars, reported, reports, faults, overdue>>
  BY DEF WatchtowerInv, TowerInv, PoolInv, MineTransaction, worldVars
<1>2. /\ Head(pool) \in Transaction
      /\ Tail(pool) \in Seq(Transaction) /\ Len(Tail(pool)) = Len(pool) - 1
  BY <1>1, HeadTailProperties
<1>3. Len(pool) \in Nat /\ Len(pool) <= MaxPool /\ MaxPool \in Nat
  BY <1>1, LenProperties, WatchtowerAssumption DEF TowerInv, PoolInv
<1>4. PoolInv'
  BY <1>1, <1>2, <1>3 DEF PoolInv, Transaction, Feed!Ids
<1>5. [Next]_vars /\ owner' = owner
  <2>1. CASE Succeeds(Head(pool))
    <3>1. Execute(Head(pool))
      BY <2>1 DEF MineTransaction
    <3> QED
      BY <1>1, <1>2, <2>1, <3>1, ExecuteIsCall DEF Next
  <2>2. CASE ~Succeeds(Head(pool))
    BY <2>2 DEF MineTransaction, chainVars, vars, adminVars
  <2> QED
    BY <2>1, <2>2
<1>6. ChainInv' /\ FeedKept
  BY <1>1, <1>5, ChainKeeps
<1>7. overdue \subseteq overdue' /\ overdue' \subseteq Feed!Ids
  BY <1>1 DEF TowerInv, TowerTypes
<1> QED
  BY <1>1, <1>4, <1>6, <1>7, WorldKeeps DEF WatchtowerInv

LEMMA OthersKeep ==
  ASSUME WatchtowerInv, OthersTransact
  PROVE  ChainInv' /\ TowerInv'
<1>1. ChainInv /\ TowerInv /\ UNCHANGED <<towerVars, overdue>>
  BY DEF WatchtowerInv, OthersTransact
<1>2. ChainInv' /\ FeedKept
  BY <1>1, OthersAreCalls, ChainKeeps
<1>3. PoolInv' /\ overdue \subseteq overdue' /\ overdue' \subseteq Feed!Ids
  BY <1>1 DEF TowerInv, TowerTypes, PoolInv, towerVars, Transaction, Feed!Ids
<1> QED
  BY <1>1, <1>2, <1>3, WorldKeeps DEF WatchtowerInv, towerVars

LEMMA ExpireKeeps ==
  ASSUME WatchtowerInv, NEW id \in Feed!Ids, Expire(id)
  PROVE  ChainInv' /\ TowerInv'
<1>1. /\ ChainInv /\ TowerInv /\ UNCHANGED <<chainVars, towerVars>>
      /\ overdue' = overdue \cup {id}
  BY DEF WatchtowerInv, Expire
<1>2. UNCHANGED vars /\ owner' = owner
  BY <1>1 DEF chainVars, vars, adminVars
<1>3. ChainInv' /\ FeedKept
  BY <1>1, <1>2, ChainKeeps
<1>4. PoolInv' /\ overdue \subseteq overdue' /\ overdue' \subseteq Feed!Ids
  BY <1>1 DEF TowerInv, TowerTypes, PoolInv, towerVars, Transaction, Feed!Ids
<1> QED
  BY <1>1, <1>3, <1>4, WorldKeeps DEF WatchtowerInv, towerVars

LEMMA ProcessKeeps ==
  ASSUME WatchtowerInv, Process, UNCHANGED <<chainVars, overdue>>
  PROVE  ChainInv' /\ TowerInv'
<1>1. UNCHANGED vars /\ owner' = owner /\ OutsideKept
  BY DEF chainVars, vars, adminVars, feedVars, OutsideKept
<1>2. ChainInv'
  BY <1>1, ChainKeeps DEF WatchtowerInv
<1>3. TowerInv'
  BY <1>1, StartKeeps, ScanKeeps, CheckKeeps, FetchKeeps, SettleSendKeeps,
     ReportSendKeeps, AlertKeeps, FailureKeeps, LostKeeps, CrashKeeps DEF Process
<1> QED
  BY <1>2, <1>3 DEF WatchtowerInv

\* A fault, an accusation or a voucher takes room under the bound.
LEMMA CountsKeep ==
  ASSUME WatchtowerInv, [WatchtowerNext]_allVars
  PROVE  CountsInv'
<1>1. /\ faults \in Nat /\ accusations \in Nat /\ vouchers \in Nat /\ MaxFaults \in Nat
      /\ faults + accusations + vouchers <= MaxFaults
  BY WatchtowerAssumption DEF WatchtowerInv, TowerInv, TowerTypes, CountsInv, Disturbances
<1>2. CASE UNCHANGED <<faults, accusations, vouchers>>
  BY <1>1, <1>2 DEF CountsInv, Disturbances
<1>3. CASE faults' = faults + 1 /\ UNCHANGED worldVars /\ Disturbances < MaxFaults
  BY <1>1, <1>3 DEF CountsInv, Disturbances, worldVars
<1>4. CASE Process /\ UNCHANGED <<chainVars, worldVars>>
  <2>1. CASE ReplyLost \/ Crash
    BY <1>3, <1>4, <2>1 DEF ReplyLost, Crash
  <2>2. CASE ~(ReplyLost \/ Crash)
    <3>1. faults' = faults
      BY <1>4, <2>2 DEF Process, StartTick, ScanDecision, CheckDecision, FetchEvidence,
                        SendSettle, SendReport, Alert, CallFails
    <3> QED
      BY <1>2, <1>4, <3>1 DEF worldVars
  <2> QED
    BY <2>1, <2>2
<1>5. CASE OthersTransact
  <2>1. faults' = faults
    BY <1>5 DEF OthersTransact, towerVars
  <2>2. CASE (OthersAccuse \/ OthersVouch) /\ Disturbances < MaxFaults
    <3>1. \/ accusations' = accusations + 1 /\ vouchers' = vouchers
          \/ accusations' = accusations /\ vouchers' = vouchers + 1
      BY <2>2 DEF OthersAccuse, OthersVouch
    <3>2. faults + accusations + vouchers < MaxFaults
      BY <2>2 DEF Disturbances
    <3> QED
      BY <1>1, <2>1, <3>1, <3>2 DEF CountsInv, Disturbances
  <2> QED
    BY <1>2, <1>5, <2>1, <2>2 DEF OthersTransact
<1> QED
  BY <1>2, <1>4, <1>5 DEF WatchtowerNext, MineTransaction, Expire, allVars, towerVars, worldVars

LEMMA WatchtowerStep ==
  ASSUME WatchtowerInv, [WatchtowerNext]_allVars
  PROVE  WatchtowerInv'
<1>0. SUFFICES ChainInv' /\ TowerInv'
  BY CountsKeep DEF WatchtowerInv
<1>1. CASE UNCHANGED allVars
  <2>1. ChainInv /\ TowerInv
    BY DEF WatchtowerInv
  <2>2. UNCHANGED vars /\ owner' = owner /\ UNCHANGED <<towerVars, overdue>>
    BY <1>1 DEF allVars, worldVars, chainVars, vars, adminVars
  <2>3. ChainInv' /\ FeedKept
    BY <2>1, <2>2, ChainKeeps
  <2>4. PoolInv' /\ overdue \subseteq overdue' /\ overdue' \subseteq Feed!Ids
    BY <2>1, <2>2 DEF TowerInv, TowerTypes, PoolInv, towerVars, Transaction, Feed!Ids
  <2> QED
    BY <2>1, <2>2, <2>3, <2>4, WorldKeeps DEF WatchtowerInv, towerVars
<1> QED
  BY <1>1, ProcessKeeps, MineKeeps, OthersKeep, ExpireKeeps DEF WatchtowerNext, worldVars

LEMMA WatchtowerInvariant == WatchtowerSpec => []WatchtowerInv
<1>1. WatchtowerInv /\ [WatchtowerNext]_allVars => WatchtowerInv'
  BY WatchtowerStep
<1> QED
  BY <1>1, WatchtowerInitially, PTL DEF WatchtowerSpec

\* Every variable of the watchtower and of the contracts it watches keeps its type:
\* the queue is never empty while a decision is handled, nor longer than the scan.
THEOREM WatchtowerWellTyped == WatchtowerSpec => []WatchtowerTypeOK
  BY WatchtowerImplies, WatchtowerInvariant, PTL

\* One life reports a decision once: beyond it, every report took a crash or an
\* answer that was lost. main.rs marks a decision after the send and reads the mark
\* several calls earlier; the proof is that nothing else marks or handles it between.
THEOREM ReportedOncePerLife == WatchtowerSpec => []OneReportPerLife
  BY WatchtowerImplies, WatchtowerInvariant, PTL

\* No decision is reported inside its timeout, although its age is computed before
\* the fetch and used after it: an age only grows.
THEOREM ReportedOnlyLate == WatchtowerSpec => []NothingReportedEarly
  BY WatchtowerImplies, WatchtowerInvariant, PTL
-----------------------------------------------------------------------------
(* The contracts under the watchtower. Their own proofs are about Spec,    *)
(* where every call is free; here calls come from a process that fails.    *)

\* Whatever happens in the system, happens to the contracts as one of their calls.
LEMMA ChainSteps == WatchtowerInv /\ [WatchtowerNext]_allVars => [Next]_vars
<1> SUFFICES ASSUME WatchtowerInv, [WatchtowerNext]_allVars PROVE [Next]_vars
  OBVIOUS
<1>1. CASE UNCHANGED chainVars
  BY <1>1 DEF chainVars, vars
<1>2. CASE MineTransaction
  <2>1. pool \in Seq(Transaction) /\ pool # << >> /\ ChainInv
    BY <1>2 DEF WatchtowerInv, TowerInv, PoolInv, MineTransaction
  <2>2. Head(pool) \in Transaction
    BY <2>1, HeadTailProperties
  <2>3. CASE Succeeds(Head(pool))
    <3>1. Execute(Head(pool))
      BY <1>2, <2>3 DEF MineTransaction
    <3> QED
      BY <2>1, <2>2, <2>3, <3>1, ExecuteIsCall DEF Next
  <2>4. CASE ~Succeeds(Head(pool))
    BY <1>1, <1>2, <2>4 DEF MineTransaction
  <2> QED
    BY <2>3, <2>4
<1>3. CASE OthersTransact
  BY <1>3, OthersAreCalls DEF WatchtowerInv
<1> QED
  BY <1>1, <1>2, <1>3 DEF WatchtowerNext, Expire, allVars

\* The deployed contracts have settled nothing.
LEMMA DeployedRecorded == Deployed => SettlementsRecorded
<1> SUFFICES ASSUME Deployed, NEW a \in Agents
             PROVE  Cardinality(SettledOf(a)) <= policies[a].compliantDecisions
  BY DEF SettlementsRecorded
<1>1. SettledOf(a) = {}
  BY DEF Deployed, SettledOf
<1>2. policies[a].compliantDecisions = 0
  BY DEF Deployed, Registry!Registered
<1> QED
  BY <1>1, <1>2, FS_EmptySet

\* The feed the process polls is a ledger while it polls: what it has read of a
\* decision stays true, and what it settles is settled once. Crashes, reverted
\* transactions and lost replies are steps of the ledger or none.
THEOREM LedgerUnderWatch == WatchtowerSpec => ImplementsLedger
<1>1. WatchtowerInit => Ledger!Init
  BY EmptyLedger DEF WatchtowerInit, Deployed
<1>2. WatchtowerInv /\ [WatchtowerNext]_allVars => [Ledger!Next]_(Ledger!vars)
  BY ChainSteps, LedgerStep DEF WatchtowerInv, ChainInv
<1> QED
  BY <1>1, <1>2, WatchtowerInvariant, PTL
     DEF WatchtowerSpec, ImplementsLedger, Ledger!Spec

\* A report that is mined halts the agent and records the failure, a settlement
\* that is mined had the evidence and the key at that moment, both records of the
\* settlements agree and no commitment is replaced: the transactions may have waited
\* while the key was revoked, the agent halted or resumed, or the decision settled by
\* somebody else.
THEOREM ContractsUnderWatch ==
  WatchtowerSpec => /\ ReportHalts /\ SettledOnEvidence /\ Registry!CommitmentFixed
                    /\ []SettlementAgrees /\ []SettlementsRecorded
<1>1. WatchtowerInv => ContractInv /\ SettlementAgrees
  BY DEF WatchtowerInv, ChainInv, ContractInv, FeedInv
<1>2. WatchtowerSpec => []ContractInv /\ [][Next]_vars /\ []SettlementAgrees
  BY <1>1, ChainSteps, WatchtowerInvariant, PTL DEF WatchtowerSpec
<1>3. WatchtowerInit => SettlementsRecorded
  BY DeployedRecorded DEF WatchtowerInit
<1>4. WatchtowerSpec => []SettlementsRecorded
  BY <1>2, <1>3, RecordedStep, PTL DEF WatchtowerSpec
<1> QED
  BY <1>2, <1>4, ReportsHalt, CallsNeedEvidence, CommitmentsStay, PTL
-----------------------------------------------------------------------------
(* A healthy system stays up. The deployed breaker has three hands: a      *)
(* report, a falling score, and whoever else may break or judge. A         *)
(* settlement moves none of them.                                          *)

\* Some decision has outlived its timeout and was reported.
Suspected == \E id \in Feed!Ids : reports[id] > 0 /\ id \in overdue

\* The non-compliant outcomes of a record.
Failed(p) == p.totalDecisions - p.compliantDecisions

\* A policy with no more failures than accusations n, halted only after one.
ClearOf(p, n) == Failed(p) <= n /\ (p.circuitBreaker => n > 0)

NoReportWaits(s) == \A i \in 1 .. Len(s) : s[i].kind # "report"

\* Until a decision is suspected, whatever the agent is charged with comes from
\* others, and no report of the process is on its way.
ClearInv ==
  ~Suspected => ClearOf(policies[Guarded], accusations) /\ NoReportWaits(pool)

\* One more compliant outcome on a record without failures: the score is full, and
\* no floor is above a full score.
LEMMA FullScoreStands ==
  ASSUME AutoBreakScore <= MaxComplianceScore, NEW n \in Nat \ {0}
  PROVE  ~Registry!MustAutoBreak(n, Registry!Score(n, n))
<1>1. MaxComplianceScore \in Nat /\ AutoBreakScore \in Nat
  BY SameAssumption DEF Bodies!RegistryAssumption
<1>2. n * MaxComplianceScore \in Nat /\ AutoBreakScore * n <= n * MaxComplianceScore
  BY <1>1
<1>3. ~((n * MaxComplianceScore) \div n < AutoBreakScore)
  BY <1>1, <1>2, Bodies!FloorBelow
<1> QED
  BY <1>3 DEF Registry!MustAutoBreak, Registry!Score

\* So a compliant outcome leaves a policy as clear as it was: without accusations
\* the record is spotless and cannot fall, with one a halt is accounted for.
LEMMA CompliantKeepsClear ==
  ASSUME AutoBreakScore <= MaxComplianceScore, RegistryInv,
         NEW a \in Agents, NEW n \in Nat, ClearOf(policies[a], n)
  PROVE  ClearOf(Registry!OutcomeRecorded(policies[a], TRUE), n)
<1> DEFINE p == policies[a]
           m == p.totalDecisions + 1
           good == p.compliantDecisions + 1
           q == Registry!OutcomeRecorded(p, TRUE)
<1>1. p \in Bodies!PolicyCommitment /\ Bodies!Sound(p)
  BY SameInvariant, SameAssumption, Bodies!SoundPolicy DEF Bodies!Sound
<1>2. /\ p.totalDecisions \in Nat /\ p.compliantDecisions \in Nat
      /\ p.circuitBreaker \in BOOLEAN
  BY <1>1 DEF Bodies!PolicyCommitment
<1>3. /\ q.compliantDecisions = good /\ q.totalDecisions = m
      /\ q.circuitBreaker = (p.circuitBreaker \/ Registry!MustAutoBreak(m, Registry!Score(good, m)))
  BY <1>1 DEF Registry!OutcomeRecorded, Bodies!PolicyCommitment
<1>4. Failed(q) <= n
  <2>1. p.totalDecisions - p.compliantDecisions <= n
    BY DEF ClearOf, Failed
  <2> HIDE DEF p, q
  <2> QED
    BY <1>2, <1>3, <2>1 DEF Failed
<1>5. ASSUME q.circuitBreaker, n = 0 PROVE FALSE
  <2>1. p.compliantDecisions <= p.totalDecisions
    <3>1. p = Bodies!NoPolicy \/ Bodies!ScoreFresh(p)
      BY <1>1 DEF Bodies!Sound, Bodies!Consistent
    <3> QED
      BY <3>1 DEF Bodies!NoPolicy, Bodies!ScoreFresh
  <2>2. good = m /\ m \in Nat \ {0} /\ ~p.circuitBreaker
    BY <1>2, <1>5, <2>1 DEF ClearOf, Failed
  <2> HIDE DEF p, q, m, good
  <2>3. ~Registry!MustAutoBreak(m, Registry!Score(good, m))
    BY <2>2, FullScoreStands
  <2> QED
    BY <1>3, <1>5, <2>2, <2>3
<1> HIDE DEF p, q
<1>6. q.circuitBreaker => n > 0
  BY <1>5
<1>7. ClearOf(q, n)
  BY <1>4, <1>6 DEF ClearOf
<1> QED
  BY <1>7 DEF q, p

LEMMA ChainPolicies ==
  ASSUME ChainInv
  PROVE  /\ RegistryInv /\ Guarded \in Agents /\ DOMAIN policies = Agents
         /\ policies[Guarded] \in Registry!PolicyCommitment
  BY FundAndAgent DEF ChainInv, ContractInv, RegistryInv, Registry!TypeOK

\* A compliant outcome by anybody, through the attestation contract or directly.
LEMMA RecordingKeepsClear ==
  ASSUME AutoBreakScore <= MaxComplianceScore, ChainInv,
         NEW n \in Nat, ClearOf(policies[Guarded], n),
         NEW sender, Registry!RecordOutcome(sender, Guarded, TRUE)
  PROVE  ClearOf(policies'[Guarded], n)
<1>1. policies' = [policies EXCEPT ![Guarded] =
                     Registry!OutcomeRecorded(policies[Guarded], TRUE)]
  BY DEF Registry!RecordOutcome
<1>2. ClearOf(Registry!OutcomeRecorded(policies[Guarded], TRUE), n)
  BY ChainPolicies, CompliantKeepsClear
<1> QED
  BY <1>1, <1>2, ChainPolicies

LEMMA SettlementKeepsClear ==
  ASSUME AutoBreakScore <= MaxComplianceScore, ChainInv,
         NEW n \in Nat, ClearOf(policies[Guarded], n),
         NEW id, NEW hash, NEW sig, VerifyAndSettle(Fund, id, hash, sig)
  PROVE  ClearOf(policies'[Guarded], n)
  BY RecordingKeepsClear DEF VerifyAndSettle, Guarded

\* An accusation adds one failure at most, and is counted.
LEMMA AccusationKeepsClear ==
  ASSUME ChainInv, NEW n \in Nat, ClearOf(policies[Guarded], n), OthersAccuse
  PROVE  ClearOf(policies'[Guarded], n + 1)
<1> DEFINE p == policies[Guarded]
           bad == Registry!OutcomeRecorded(p, FALSE)
<1>1. /\ Guarded \in Agents /\ DOMAIN policies = Agents
      /\ p \in Registry!PolicyCommitment
      /\ p.totalDecisions \in Nat /\ p.compliantDecisions \in Nat
  BY ChainPolicies DEF Registry!PolicyCommitment
<1>2. Failed(Registry!Broken(p)) <= n
  BY <1>1 DEF Registry!Broken, Registry!PolicyCommitment, ClearOf, Failed
<1>3. Failed(bad) <= n + 1 /\ Failed(Registry!Broken(bad)) <= n + 1
  <2>1. /\ bad.totalDecisions = p.totalDecisions + 1
        /\ bad.compliantDecisions = p.compliantDecisions + 0
        /\ Registry!Broken(bad).totalDecisions = bad.totalDecisions
        /\ Registry!Broken(bad).compliantDecisions = bad.compliantDecisions
    BY <1>1 DEF Registry!OutcomeRecorded, Registry!Broken, Registry!PolicyCommitment
  <2>2. Failed(p) <= n
    BY DEF ClearOf
  <2> HIDE DEF bad, p
  <2> QED
    BY <1>1, <2>1, <2>2 DEF Failed
<1>4. policies'[Guarded] \in {Registry!Broken(p), bad, Registry!Broken(bad)}
  <2>1. CASE \E sender \in Judges : Registry!TriggerCircuitBreaker(sender, Guarded)
    BY <1>1, <2>1 DEF Registry!TriggerCircuitBreaker
  <2>2. CASE \E sender \in Judges : Registry!RecordOutcome(sender, Guarded, FALSE)
    BY <1>1, <2>2 DEF Registry!RecordOutcome
  <2>3. CASE \E id \in Feed!Ids : ReportFailure(owner, Fund, id)
    BY <1>1, <2>3 DEF ReportFailure, FailedPolicy, Guarded
  <2> QED
    BY <2>1, <2>2, <2>3 DEF OthersAccuse
<1> HIDE DEF bad
<1>5. Failed(policies'[Guarded]) <= n + 1
  <2>1. Registry!Broken(p).totalDecisions = p.totalDecisions
        /\ Registry!Broken(p).compliantDecisions = p.compliantDecisions
    BY <1>1 DEF Registry!Broken, Registry!PolicyCommitment
  <2>2. Failed(Registry!Broken(p)) <= n + 1
    BY <1>1, <1>2, <2>1 DEF Failed
  <2> QED
    BY <1>3, <1>4, <2>2
<1> QED
  BY <1>5 DEF ClearOf

\* Nobody else charges the agent: the owner can only resume it.
LEMMA OthersKeepClear ==
  ASSUME AutoBreakScore <= MaxComplianceScore, ChainInv, accusations \in Nat,
         ClearOf(policies[Guarded], accusations), OthersTransact
  PROVE  ClearOf(policies'[Guarded], accusations')
<1>1. CASE AgentCommits /\ UNCHANGED accusations
  BY <1>1 DEF AgentCommits, Commit, registryVars
<1>2. CASE SomebodySettles /\ UNCHANGED accusations
  BY <1>2, SettlementKeepsClear DEF SomebodySettles
<1>3. CASE OwnerResumes /\ UNCHANGED accusations
  <2>1. /\ policies' = [policies EXCEPT ![Guarded] = Registry!Resumed(policies[Guarded])]
        /\ Guarded \in Agents /\ DOMAIN policies = Agents
        /\ policies[Guarded] \in Registry!PolicyCommitment
    BY <1>3, ChainPolicies DEF OwnerResumes, Registry!ResumeAgent
  <2> QED
    BY <1>3, <2>1 DEF Registry!Resumed, Registry!PolicyCommitment, ClearOf, Failed
<1>4. CASE KeyRevoked /\ UNCHANGED accusations
  BY <1>4 DEF KeyRevoked, RevokeEnclaveKey, registryVars
<1>5. CASE OthersAccuse
  BY <1>5, AccusationKeepsClear DEF OthersAccuse
<1>6. CASE OthersVouch
  BY <1>6, RecordingKeepsClear DEF OthersVouch
<1> QED
  BY <1>1, <1>2, <1>3, <1>4, <1>5, <1>6 DEF OthersTransact

\* A report is sent at the moment its decision is counted as reported.
LEMMA SendingSuspects ==
  ASSUME WatchtowerInv, OutsideKept, at = "report",
         reports' = [reports EXCEPT ![Current] = @ + 1]
  PROVE  Suspected'
<1>1. /\ Current \in Feed!Ids /\ Current \in overdue /\ reports[Current] \in Nat
  BY ReportingFacts DEF WatchtowerInv
<1>2. reports'[Current] > 0 /\ Current \in overdue'
  BY <1>1 DEF OutsideKept, WatchtowerInv, TowerInv, TowerTypes
<1> QED
  BY <1>1, <1>2 DEF Suspected, Feed!Ids

\* Everything else the process submits is a settlement.
LEMMA ProcessSubmits ==
  ASSUME WatchtowerInv, OutsideKept, Process, ~Suspected'
  PROVE  /\ reports' = reports
         /\ pool' = pool \/ pool' = Append(pool, SettleTx(Current))
<1>1. CASE StartTick \/ ScanDecision \/ CheckDecision \/ FetchEvidence \/ Alert \/ CallFails
           \/ Crash
  BY <1>1 DEF StartTick, ScanDecision, CheckDecision, FetchEvidence, Alert, CallFails, Crash
<1>2. CASE SendSettle
  BY <1>2 DEF SendSettle, Submit
<1>3. CASE SendReport
  BY <1>3, SendingSuspects DEF SendReport
<1>4. CASE ReplyLost
  BY <1>4, SendingSuspects DEF ReplyLost, Submit
<1> QED
  BY <1>1, <1>2, <1>3, <1>4 DEF Process

LEMMA ClearInitially == WatchtowerInit => ClearInv
<1> SUFFICES ASSUME WatchtowerInit PROVE ClearInv
  OBVIOUS
<1>1. ClearOf(policies[Guarded], accusations)
  BY FundAndAgent DEF WatchtowerInit, Deployed, Registry!Registered, ClearOf, Failed
<1>2. Len(pool) = 0
  BY EmptySeq DEF WatchtowerInit
<1> QED
  BY <1>1, <1>2 DEF ClearInv, NoReportWaits

LEMMA ClearStep ==
  ASSUME AutoBreakScore <= MaxComplianceScore,
         WatchtowerInv, ClearInv, [WatchtowerNext]_allVars
  PROVE  ClearInv'
<1> DEFINE Clear(p) == ClearOf(p, accusations)
<1>0. /\ ChainInv /\ TowerInv /\ pool \in Seq(Transaction) /\ accusations \in Nat
      /\ Feed!Ids' = Feed!Ids /\ Guarded' = Guarded
  BY DEF WatchtowerInv, TowerInv, PoolInv, CountsInv, Feed!Ids, Guarded
<1>1. SUFFICES ASSUME ~Suspected'
               PROVE  ClearOf(policies'[Guarded], accusations') /\ NoReportWaits(pool')
  BY DEF ClearInv, ClearOf, Failed, NoReportWaits, Guarded
<1>2. ASSUME UNCHANGED reports, overdue \subseteq overdue'
      PROVE  ClearOf(policies[Guarded], accusations) /\ NoReportWaits(pool)
  BY <1>1, <1>2 DEF ClearInv, Suspected, Feed!Ids
<1>3. CASE Process /\ UNCHANGED <<chainVars, worldVars>>
  <2>1. OutsideKept /\ UNCHANGED <<policies, overdue, accusations>>
    BY <1>3 DEF chainVars, worldVars, feedVars, registryVars, OutsideKept
  <2>2. reports' = reports /\ (pool' = pool \/ pool' = Append(pool, SettleTx(Current)))
    BY <1>1, <1>3, <2>1, ProcessSubmits
  <2>3. ClearOf(policies[Guarded], accusations) /\ NoReportWaits(pool)
    BY <1>2, <2>1, <2>2
  <2>4. CASE pool' = Append(pool, SettleTx(Current))
    <3>1. SettleTx(Current).kind = "settle"
      BY DEF SettleTx
    <3>2. NoReportWaits(pool')
      BY <1>0, <2>3, <2>4, <3>1 DEF NoReportWaits
    <3> QED
      BY <2>1, <2>3, <3>2
  <2> QED
    BY <2>1, <2>2, <2>3, <2>4
<1>4. CASE MineTransaction
  <2>1. /\ pool # << >> /\ pool' = Tail(pool)
        /\ UNCHANGED <<reports, overdue, accusations>>
    BY <1>4 DEF MineTransaction, worldVars
  <2>2. ClearOf(policies[Guarded], accusations) /\ NoReportWaits(pool)
    BY <1>2, <2>1
  <2>3. NoReportWaits(pool') /\ Head(pool).kind # "report" /\ Head(pool) \in Transaction
    BY <1>0, <2>1, <2>2 DEF NoReportWaits
  <2>4. Head(pool).kind = "settle"
    BY <2>3 DEF Transaction
  <2>5. CASE Succeeds(Head(pool))
    <3>1. VerifyAndSettle(Fund, Head(pool).id, Hash(Head(pool).id), Head(pool).sig)
      BY <1>4, <2>4, <2>5 DEF MineTransaction, Execute
    <3> QED
      BY <1>0, <2>1, <2>2, <2>3, <3>1, SettlementKeepsClear
  <2>6. CASE ~Succeeds(Head(pool))
    BY <1>4, <2>1, <2>2, <2>3, <2>6 DEF MineTransaction, chainVars, registryVars
  <2> QED
    BY <2>5, <2>6
<1>5. CASE OthersTransact
  <2>1. UNCHANGED <<reports, overdue, pool>>
    BY <1>5 DEF OthersTransact, towerVars
  <2>2. ClearOf(policies[Guarded], accusations) /\ NoReportWaits(pool)
    BY <1>2, <2>1
  <2> QED
    BY <1>0, <1>5, <2>1, <2>2, OthersKeepClear
<1>6. CASE (\E id \in Feed!Ids : Expire(id)) \/ UNCHANGED allVars
  <2>1. UNCHANGED <<policies, reports, pool, accusations>> /\ overdue \subseteq overdue'
    BY <1>6 DEF Expire, allVars, worldVars, chainVars, registryVars, towerVars
  <2> QED
    BY <1>2, <2>1
<1> QED
  BY <1>3, <1>4, <1>5, <1>6 DEF WatchtowerNext

\* The watchtower harms no healthy agent. As long as no decision outlived its
\* timeout and was reported, the agent has no more failed outcomes than other
\* accounts put on its record, and it is halted only if one of them broke or judged
\* it: the owner, the dashboard, a recorder or the owner of the attestation contract.
\* Fetches that fail, transactions that revert, crashes, a revoked key and
\* settlements by anybody add nothing. The hypothesis is true of the two constants of
\* PolicyRegistry.sol, 200 and 1000.
THEOREM HaltedOnlyForCause ==
  ASSUME AutoBreakScore <= MaxComplianceScore
  PROVE  WatchtowerSpec =>
           [](~(\E id \in Feed!Ids : reports[id] > 0 /\ id \in overdue)
                => /\ policies[Guarded].totalDecisions - policies[Guarded].compliantDecisions
                        <= accusations
                   /\ Halted => accusations > 0)
<1> DEFINE ForCause ==
      ~(\E id \in Feed!Ids : reports[id] > 0 /\ id \in overdue)
        => /\ policies[Guarded].totalDecisions - policies[Guarded].compliantDecisions
                <= accusations
           /\ Halted => accusations > 0
<1>1. WatchtowerInv /\ ClearInv /\ [WatchtowerNext]_allVars => ClearInv'
  BY ClearStep
<1>2. ClearInv => ForCause
  BY DEF ClearInv, Suspected, ClearOf, Failed, Halted, Registry!CircuitBreakerTriggered
<1> QED
  BY <1>1, <1>2, ClearInitially, WatchtowerInvariant, PTL DEF WatchtowerSpec
=============================================================================
