--------------------- MODULE AttestationContractProofs ---------------------
(***************************************************************************)
(* AttestationContract for any vaults, keys, agents and number of          *)
(* decisions: the two records of a settlement agree, a settlement rests on *)
(* evidence, a report halts, the ledger of decisions is implemented, and   *)
(* no commitment is replaced.                                              *)
(***************************************************************************)
EXTENDS AttestationContract, FiniteSetTheorems, TLAPS

\* The lemmas about the bodies of the registry's functions.
Bodies == INSTANCE PolicyRegistryProofs

\* The part of the state that commits and settlements write.
FeedTypes ==
  /\ totalDecisions \in [Vaults -> 0 .. MaxFeed]
  /\ decisions \in [Vaults -> [Feed!Ids -> Feed!DecisionRecord]]
  /\ settled \in [Vaults -> SUBSET Feed!Ids]

FeedInv == FeedTypes /\ SettlementAgrees

\* Other steps leave that part alone.
LEMMA FeedUntouched ==
  ASSUME FeedInv, UNCHANGED feedVars, UNCHANGED settled
  PROVE  FeedInv'
  BY DEF FeedInv, FeedTypes, SettlementAgrees, feedVars, Feed!Ids, Feed!DecisionRecord

\* Committing writes a pending record at an id nobody has settled.
LEMMA CommitKeeps ==
  ASSUME FeedInv, NEW sender \in Agents, NEW v \in Vaults, NEW hash \in Hashes,
         NEW cid \in EvidenceCIDs, Commit(sender, v, hash, cid)
  PROVE  FeedInv'
<1> DEFINE n == totalDecisions[v]
           d == Feed!Pending(hash, cid)
<1>1. /\ n \in Feed!Ids /\ n + 1 \in 0 .. MaxFeed
      /\ totalDecisions' = [totalDecisions EXCEPT ![v] = n + 1]
      /\ decisions' = [decisions EXCEPT ![v] = [decisions[v] EXCEPT ![n] = d]]
      /\ settled' = settled
  BY AttestationAssumption
     DEF FeedInv, FeedTypes, Commit, Feed!CommitDecision, Feed!Ids, outcomeVars
<1>2. d \in Feed!DecisionRecord /\ d.status = "Pending"
  BY DEF Feed!Pending, Feed!DecisionRecord
<1> HIDE DEF n, d
<1>3. FeedTypes'
  <2>1. [decisions[v] EXCEPT ![n] = d] \in [Feed!Ids -> Feed!DecisionRecord]
    BY <1>1, <1>2 DEF FeedInv, FeedTypes
  <2> QED
    BY <1>1, <2>1 DEF FeedInv, FeedTypes, Feed!Ids, Feed!DecisionRecord
<1>4. ASSUME NEW w \in Vaults, NEW id \in Feed!Ids
      PROVE  LET e == decisions'[w][id]
             IN /\ (id \in settled'[w]) <=> (e.status = "Attested")
                /\ id \in settled'[w] => /\ id < totalDecisions'[w]
                                         /\ e.attestationHash = e.decisionHash
  <2>1. /\ (id \in settled[w]) <=> (decisions[w][id].status = "Attested")
        /\ id \in settled[w] =>
             /\ id < totalDecisions[w]
             /\ decisions[w][id].attestationHash = decisions[w][id].decisionHash
    BY DEF FeedInv, SettlementAgrees
  <2>2. CASE w = v /\ id = n
    <3>1. id \notin settled[w]
      BY <2>1, <2>2, <1>1 DEF n, FeedInv, FeedTypes
    <3>2. decisions'[w][id] = d
      BY <2>2, <1>1 DEF FeedInv, FeedTypes
    <3> QED
      BY <3>1, <3>2, <1>1, <1>2
  <2>3. CASE ~(w = v /\ id = n)
    <3>1. decisions'[w][id] = decisions[w][id]
      BY <2>3, <1>1 DEF FeedInv, FeedTypes
    <3>2. totalDecisions'[w] >= totalDecisions[w] /\ totalDecisions[w] \in Nat
      BY <1>1 DEF n, FeedInv, FeedTypes
    <3>3. id \in settled[w] => id < totalDecisions'[w]
      <4>1. id \in Int /\ totalDecisions'[w] \in Int
        BY <1>3, AttestationAssumption DEF FeedTypes, Feed!Ids
      <4> QED
        BY <4>1, <2>1, <3>2
    <3> QED
      BY <2>1, <3>1, <3>3, <1>1
  <2> QED
    BY <2>2, <2>3
<1>5. SettlementAgrees'
  BY <1>4 DEF SettlementAgrees, Feed!Ids
<1> QED
  BY <1>3, <1>5 DEF FeedInv

\* Settling writes `settled` and the status of one record, with its own hash.
LEMMA SettleKeeps ==
  ASSUME FeedInv, NEW v \in Vaults, NEW id \in Feed!Ids, NEW hash \in Hashes,
         NEW sig \in Signed, VerifyAndSettle(v, id, hash, sig)
  PROVE  FeedInv'
<1> DEFINE d == decisions[v][id]
           e == Feed!Attested(d, hash)
<1>1. /\ id < totalDecisions[v] /\ d.decisionHash = hash
      /\ decisions' = [decisions EXCEPT ![v] = [decisions[v] EXCEPT ![id] = e]]
      /\ settled' = [settled EXCEPT ![v] = settled[v] \cup {id}]
      /\ totalDecisions' = totalDecisions
  BY DEF FeedInv, FeedTypes, VerifyAndSettle, MaySettle, Feed!MarkAttested, Feed!Exists
<1>2. d \in Feed!DecisionRecord
  BY DEF FeedInv, FeedTypes
<1>3. /\ e \in Feed!DecisionRecord /\ e.status = "Attested"
      /\ e.attestationHash = hash /\ e.decisionHash = d.decisionHash
  BY <1>2 DEF Feed!Attested, Feed!DecisionRecord
<1> HIDE DEF d, e
<1>4. FeedTypes'
  <2>1. [decisions[v] EXCEPT ![id] = e] \in [Feed!Ids -> Feed!DecisionRecord]
    BY <1>3 DEF FeedInv, FeedTypes
  <2> QED
    BY <1>1, <2>1 DEF FeedInv, FeedTypes, Feed!Ids, Feed!DecisionRecord
<1>5. ASSUME NEW w \in Vaults, NEW i \in Feed!Ids
      PROVE  LET f == decisions'[w][i]
             IN /\ (i \in settled'[w]) <=> (f.status = "Attested")
                /\ i \in settled'[w] => /\ i < totalDecisions'[w]
                                        /\ f.attestationHash = f.decisionHash
  <2>1. /\ (i \in settled[w]) <=> (decisions[w][i].status = "Attested")
        /\ i \in settled[w] =>
             /\ i < totalDecisions[w]
             /\ decisions[w][i].attestationHash = decisions[w][i].decisionHash
    BY DEF FeedInv, SettlementAgrees
  <2>2. CASE w = v /\ i = id
    <3>1. decisions'[w][i] = e /\ i \in settled'[w]
      BY <2>2, <1>1 DEF FeedInv, FeedTypes
    <3> QED
      BY <2>2, <3>1, <1>1, <1>3
  <2>3. CASE ~(w = v /\ i = id)
    <3>1. decisions'[w][i] = decisions[w][i] /\ (i \in settled'[w] <=> i \in settled[w])
      BY <2>3, <1>1 DEF FeedInv, FeedTypes
    <3> QED
      BY <2>1, <3>1, <1>1
  <2> QED
    BY <2>2, <2>3
<1>6. SettlementAgrees'
  BY <1>5 DEF SettlementAgrees, Feed!Ids
<1> QED
  BY <1>4, <1>6 DEF FeedInv
-----------------------------------------------------------------------------
\* Every step is one of these four.
LEMMA StepCases ==
  ASSUME [Next]_vars
  PROVE  \/ UNCHANGED feedVars /\ UNCHANGED settled
         \/ \E sender \in Agents, v \in Vaults, hash \in Hashes, cid \in EvidenceCIDs :
              Commit(sender, v, hash, cid)
         \/ \E v \in Vaults, id \in Feed!Ids, hash \in Hashes, sig \in Signed :
              VerifyAndSettle(v, id, hash, sig)
<1>1. CASE UNCHANGED vars
  BY <1>1 DEF vars, outcomeVars
<1>2. CASE AdminStep
  BY <1>2 DEF AdminStep, RegisterEnclaveKey, RevokeEnclaveKey, SetWatchtower,
              ChangeOwner, outcomeVars
<1>3. CASE RegistryStep
  BY <1>3 DEF RegistryStep, outcomeVars
<1>4. ASSUME NEW sender \in Accounts, NEW v \in Vaults, NEW id \in ReportIds,
             ReportFailure(sender, v, id)
      PROVE  UNCHANGED feedVars /\ UNCHANGED settled
  BY <1>4 DEF ReportFailure
<1> QED
  BY <1>1, <1>2, <1>3, <1>4 DEF Next, DecisionStep

LEMMA FeedNextKeeps == FeedInv /\ [Next]_vars => FeedInv'
  BY StepCases, FeedUntouched, CommitKeeps, SettleKeeps

LEMMA FeedInitially == Init => FeedInv
<1> SUFFICES ASSUME Init PROVE FeedInv
  OBVIOUS
<1>1. /\ totalDecisions = [v \in Vaults |-> 0]
      /\ decisions = [v \in Vaults |-> [id \in Feed!Ids |-> Feed!Unwritten]]
      /\ settled = [v \in Vaults |-> {}]
  BY DEF Init, Feed!FeedInit
<1>2. Feed!Unwritten \in Feed!DecisionRecord /\ Feed!Unwritten.status = "Pending"
  BY DEF Feed!Unwritten, Feed!Pending, Feed!DecisionRecord
<1>3. FeedTypes
  BY <1>1, <1>2, AttestationAssumption DEF FeedTypes
<1>4. SettlementAgrees
  BY <1>1, <1>2 DEF SettlementAgrees
<1> QED
  BY <1>3, <1>4 DEF FeedInv

\* The contract's `settled` and the vault's status agree about every decision,
\* and what a settlement attested is what the agent committed.
THEOREM SettlementRecordsAgree == Spec => []SettlementAgrees
<1>1. FeedInv => SettlementAgrees
  BY DEF FeedInv
<1> QED
  BY <1>1, FeedInitially, FeedNextKeeps, PTL DEF Spec

\* The feed keeps its types and agrees with `settled` in every reachable state.
THEOREM FeedInvariant == Spec => []FeedInv
  BY FeedInitially, FeedNextKeeps, PTL DEF Spec
-----------------------------------------------------------------------------
(* The registry, called through the attestation contract.  Its definitions *)
(* are the same as those its own proofs are about.                         *)

RegistryInv == Registry!TypeOK /\ Registry!PoliciesConsistent

LEMMA SameAssumption == Bodies!RegistryAssumption
  BY AttestationAssumption DEF Registry!RegistryAssumption, Bodies!RegistryAssumption

LEMMA SameTypes ==
  /\ Registry!PolicyCommitment = Bodies!PolicyCommitment
  /\ Registry!EnabledTiers = Bodies!EnabledTiers
  BY DEF Registry!PolicyCommitment, Registry!EnabledTiers,
         Bodies!PolicyCommitment, Bodies!EnabledTiers

LEMMA SameConsistent ==
  ASSUME NEW p PROVE Registry!Consistent(p) <=> Bodies!Consistent(p)
  BY DEF Registry!Consistent, Registry!NoPolicy, Registry!FlagsAgree,
         Registry!ScoreFresh, Registry!Score, Registry!WindowOpens,
         Registry!ValidActiveHours,
         Bodies!Consistent, Bodies!NoPolicy, Bodies!FlagsAgree,
         Bodies!ScoreFresh, Bodies!Score, Bodies!WindowOpens,
         Bodies!ValidActiveHours

LEMMA SameInvariant == RegistryInv <=> Bodies!RegistryInv
  BY SameTypes, SameConsistent
     DEF RegistryInv, Registry!TypeOK, Registry!PoliciesConsistent,
         Bodies!RegistryInv, Bodies!TypeOK, Bodies!PoliciesConsistent

LEMMA SameInvariantPrimed == RegistryInv' <=> Bodies!RegistryInv'
  BY SameTypes, SameConsistent
     DEF RegistryInv, Registry!TypeOK, Registry!PoliciesConsistent,
         Bodies!RegistryInv, Bodies!TypeOK, Bodies!PoliciesConsistent

LEMMA SameBodies ==
  ASSUME NEW p, NEW compliant
  PROVE  /\ Registry!OutcomeRecorded(p, compliant) = Bodies!OutcomeRecorded(p, compliant)
         /\ Registry!Broken(p) = Bodies!Broken(p)
  BY DEF Registry!OutcomeRecorded, Registry!Broken, Registry!Score,
         Registry!MustAutoBreak,
         Bodies!OutcomeRecorded, Bodies!Broken, Bodies!Score, Bodies!MustAutoBreak

LEMMA SameRegister ==
  ASSUME NEW a, NEW root, NEW tier, NEW start, NEW end
  PROVE  Registry!RegisterAgent(a, root, tier, start, end)
           <=> Bodies!RegisterAgent(a, root, tier, start, end)
  BY DEF Registry!RegisterAgent, Registry!Registered, Registry!IsRegistered,
         Registry!EnabledTiers, Registry!ValidActiveHours,
         Bodies!RegisterAgent, Bodies!Registered, Bodies!IsRegistered,
         Bodies!EnabledTiers, Bodies!ValidActiveHours

LEMMA SamePolicyCall ==
  ASSUME NEW sender, NEW a
  PROVE  Registry!PolicyCall(sender, a) <=> Bodies!PolicyCall(sender, a)
  BY DEF Registry!PolicyCall, Registry!TriggerCircuitBreaker, Registry!MayBreak,
         Registry!IsRegistered, Registry!Broken, Registry!ResumeAgent,
         Registry!Resumed, Registry!SetTradingHours, Registry!Rescheduled,
         Registry!ValidActiveHours, Registry!RecordOutcome, Registry!MayRecord,
         Registry!OutcomeRecorded, Registry!Score, Registry!MustAutoBreak,
         Bodies!PolicyCall, Bodies!TriggerCircuitBreaker, Bodies!MayBreak,
         Bodies!IsRegistered, Bodies!Broken, Bodies!ResumeAgent,
         Bodies!Resumed, Bodies!SetTradingHours, Bodies!Rescheduled,
         Bodies!ValidActiveHours, Bodies!RecordOutcome, Bodies!MayRecord,
         Bodies!OutcomeRecorded, Bodies!Score, Bodies!MustAutoBreak

LEMMA SameAdminCall ==
  ASSUME NEW sender, NEW account
  PROVE  Registry!AdminCall(sender, account) <=> Bodies!AdminCall(sender, account)
  BY DEF Registry!AdminCall, Registry!SetContracts, Registry!SetDecisionRecorder,
         Registry!SetCircuitBreaker,
         Bodies!AdminCall, Bodies!SetContracts, Bodies!SetDecisionRecorder,
         Bodies!SetCircuitBreaker

\* What a failed report leaves of a policy: sound, one bad outcome more, halted.
LEMMA FailedPolicySound ==
  ASSUME RegistryInv, NEW a \in Agents, Registry!IsRegistered(a)
  PROVE  LET p == policies[a]
             q == FailedPolicy(p)
         IN /\ Bodies!Sound(q) /\ q.owner = p.owner /\ q.circuitBreaker
            /\ q.compliantDecisions = p.compliantDecisions
            /\ q.totalDecisions = p.totalDecisions + 1
<1> DEFINE p == policies[a]
           r == Bodies!OutcomeRecorded(p, FALSE)
           q == Bodies!Broken(r)
<1>1. p \in Bodies!PolicyCommitment /\ Bodies!Consistent(p)
  BY SameInvariant, SameAssumption, Bodies!SoundPolicy
<1>2. p.owner # NoAccount
  BY DEF Registry!IsRegistered
<1> HIDE DEF p
<1>3. Bodies!Sound(r)
  BY <1>1, <1>2, SameAssumption, Bodies!OutcomeRecordedSound
<1>4. /\ r.owner = p.owner /\ r.compliantDecisions = p.compliantDecisions
      /\ r.totalDecisions = p.totalDecisions + 1
  BY <1>1 DEF Bodies!OutcomeRecorded, Bodies!PolicyCommitment
<1> HIDE DEF r
<1>5. Bodies!Sound(q)
  BY <1>2, <1>3, <1>4, SameAssumption, Bodies!BrokenSound DEF Bodies!Sound
<1>6. /\ q.owner = r.owner /\ q.circuitBreaker
      /\ q.compliantDecisions = r.compliantDecisions
      /\ q.totalDecisions = r.totalDecisions
  BY <1>3 DEF Bodies!Broken, Bodies!Sound, Bodies!PolicyCommitment
<1>7. FailedPolicy(p) = q
  BY SameBodies DEF FailedPolicy, r
<1> QED
  BY <1>4, <1>5, <1>6, <1>7 DEF p

\* A report is two calls of the registry in one transaction.
FailedReport ==
  /\ \E b \in Agents : /\ Registry!IsRegistered(b)
                       /\ policies' = [policies EXCEPT ![b] = FailedPolicy(policies[b])]
  /\ UNCHANGED <<decisionRecorders, circuitBreakers>>

\* Seen from the registry, every other step is one of its calls, or none.
LEMMA SeenFromRegistry == [Next]_vars => [Bodies!Next]_(Bodies!registryVars) \/ FailedReport
<1> SUFFICES ASSUME [Next]_vars
             PROVE  [Bodies!Next]_(Bodies!registryVars) \/ FailedReport
  OBVIOUS
<1>1. CASE UNCHANGED registryVars
  BY <1>1 DEF registryVars, Bodies!registryVars
<1>2. CASE AdminStep
  BY <1>1, <1>2 DEF AdminStep, RegisterEnclaveKey, RevokeEnclaveKey, SetWatchtower,
                    ChangeOwner
<1>3. CASE RegistryStep
  <2>1. ASSUME NEW a \in Agents, NEW root \in PolicyRoots, NEW tier \in TierInputs,
               NEW start \in HourInputs, NEW end \in HourInputs,
               Registry!RegisterAgent(a, root, tier, start, end)
        PROVE  Bodies!Next
    BY <2>1, SameRegister DEF Bodies!Next
  <2>2. ASSUME NEW sender \in Accounts \ {Attestation}, NEW a \in Agents,
               Registry!PolicyCall(sender, a)
        PROVE  Bodies!Next
    BY <2>2, SamePolicyCall DEF Bodies!Next
  <2>3. ASSUME Registry!AdminCall(RegistryOwner, Attestation) PROVE Bodies!Next
    BY <2>3, SameAdminCall, AttestationAssumption DEF Registry!RegistryAssumption, Bodies!Next
  <2> QED
    BY <1>3, <2>1, <2>2, <2>3 DEF RegistryStep
<1>4. ASSUME NEW v \in Vaults, NEW id \in Feed!Ids, NEW hash \in Hashes,
             NEW sig \in Signed, VerifyAndSettle(v, id, hash, sig)
      PROVE  Bodies!Next
  <2>1. VaultAgent[v] \in Agents /\ Attestation \in Accounts
    BY AttestationAssumption
  <2>2. Registry!PolicyCall(Attestation, VaultAgent[v])
    BY <1>4 DEF VerifyAndSettle, Registry!PolicyCall
  <2> QED
    BY <2>1, <2>2, SamePolicyCall DEF Bodies!Next
<1>5. ASSUME NEW sender \in Accounts, NEW v \in Vaults, NEW id \in ReportIds,
             ReportFailure(sender, v, id)
      PROVE  FailedReport
  BY <1>5, AttestationAssumption DEF ReportFailure, MayReport, Registry!MayBreak, FailedReport
<1>6. ASSUME NEW sender \in Agents, NEW v \in Vaults, NEW hash \in Hashes,
             NEW cid \in EvidenceCIDs, Commit(sender, v, hash, cid)
      PROVE  UNCHANGED registryVars
  BY <1>6 DEF Commit
<1> QED
  BY <1>1, <1>2, <1>3, <1>4, <1>5, <1>6, Zenon DEF Next, DecisionStep, vars

LEMMA RegistryNextKeeps == RegistryInv /\ [Next]_vars => RegistryInv'
<1> SUFFICES ASSUME RegistryInv, [Next]_vars PROVE RegistryInv'
  OBVIOUS
<1> USE SameAssumption
<1>1. Bodies!RegistryInv
  BY SameInvariant
<1>2. CASE [Bodies!Next]_(Bodies!registryVars)
  BY <1>1, <1>2, Bodies!NextKeeps, SameInvariantPrimed
<1>3. CASE FailedReport
  <2>1. PICK b \in Agents : /\ Registry!IsRegistered(b)
                            /\ policies' = [policies EXCEPT ![b] = FailedPolicy(policies[b])]
    BY <1>3 DEF FailedReport
  <2> DEFINE q == FailedPolicy(policies[b])
  <2>2. Bodies!Sound(q)
    BY <2>1, FailedPolicySound
  <2>3. policies' = [policies EXCEPT ![b] = q]
    BY <2>1
  <2> HIDE DEF q
  <2>4. Bodies!RegistryInv'
    BY <1>1, <1>3, <2>2, <2>3, Bodies!WriteSound DEF FailedReport
  <2> QED
    BY <2>4, SameInvariantPrimed
<1> QED
  BY <1>2, <1>3, SeenFromRegistry

LEMMA RegistryInitially == Init => RegistryInv
<1>1. Registry!Init => Bodies!Init
  BY DEF Registry!Init, Bodies!Init, Registry!NoPolicy, Bodies!NoPolicy
<1>2. Bodies!Init => Bodies!RegistryInv
  <2>1. Bodies!Sound(Bodies!NoPolicy)
    BY SameAssumption, Bodies!NoPolicySound
  <2> QED
    BY <2>1, SameAssumption
       DEF Bodies!Init, Bodies!RegistryInv, Bodies!TypeOK, Bodies!PoliciesConsistent,
           Bodies!Sound, Bodies!RegistryAssumption
<1> QED
  BY <1>1, <1>2, SameInvariant DEF Init
-----------------------------------------------------------------------------
(* Types.                                                                  *)

AdminTypes ==
  /\ owner \in Accounts \cup {NoAccount}
  /\ registeredEnclaveKeys \subseteq EnclaveKeys
  /\ watchtowers \subseteq WatchtowerAccounts
  /\ failureReports \in [Vaults -> [ReportIds -> Nat]]

LEMMA AdminNextKeeps == AdminTypes /\ [Next]_vars => AdminTypes'
<1> SUFFICES ASSUME AdminTypes, [Next]_vars PROVE AdminTypes'
  OBVIOUS
<1> USE DEF AdminTypes, ReportIds
<1>1. CASE UNCHANGED vars
  BY <1>1 DEF vars, adminVars, outcomeVars
<1>2. CASE AdminStep
  <2> SUFFICES ASSUME NEW sender \in Accounts,
                      \/ \E key \in EnclaveKeys :
                           \/ RegisterEnclaveKey(sender, key)
                           \/ RevokeEnclaveKey(sender, key)
                      \/ \E account \in WatchtowerAccounts, authorized \in BOOLEAN :
                           SetWatchtower(sender, account, authorized)
                      \/ \E to \in Successors \cup {NoAccount} : ChangeOwner(sender, to)
               PROVE  AdminTypes'
    BY <1>2 DEF AdminStep
  <2>1. ASSUME NEW key \in EnclaveKeys,
               RegisterEnclaveKey(sender, key) \/ RevokeEnclaveKey(sender, key)
        PROVE  AdminTypes'
    BY <2>1 DEF RegisterEnclaveKey, RevokeEnclaveKey, outcomeVars
  <2>2. ASSUME NEW account \in WatchtowerAccounts, NEW authorized \in BOOLEAN,
               SetWatchtower(sender, account, authorized)
        PROVE  AdminTypes'
    BY <2>2 DEF SetWatchtower, outcomeVars
  <2>3. ASSUME NEW to \in Successors \cup {NoAccount}, ChangeOwner(sender, to)
        PROVE  AdminTypes'
    BY <2>3, AttestationAssumption DEF ChangeOwner, outcomeVars
  <2> QED
    BY <2>1, <2>2, <2>3
<1>3. CASE RegistryStep
  BY <1>3 DEF RegistryStep, adminVars, outcomeVars
<1>4. ASSUME NEW sender \in Agents, NEW v \in Vaults, NEW hash \in Hashes,
             NEW cid \in EvidenceCIDs, Commit(sender, v, hash, cid)
      PROVE  AdminTypes'
  BY <1>4 DEF Commit, adminVars, outcomeVars
<1>5. ASSUME NEW v \in Vaults, NEW id \in Feed!Ids, NEW hash \in Hashes,
             NEW sig \in Signed, VerifyAndSettle(v, id, hash, sig)
      PROVE  AdminTypes'
  BY <1>5 DEF VerifyAndSettle, adminVars
<1>6. ASSUME NEW sender \in Accounts, NEW v \in Vaults, NEW id \in ReportIds,
             ReportFailure(sender, v, id)
      PROVE  AdminTypes'
  <2>1. failureReports[v] \in [ReportIds -> Nat]
    OBVIOUS
  <2>2. [failureReports[v] EXCEPT ![id] = @ + 1] \in [ReportIds -> Nat]
    BY <2>1
  <2>3. failureReports' \in [Vaults -> [ReportIds -> Nat]]
    BY <1>6, <2>2 DEF ReportFailure
  <2> QED
    BY <1>6, <2>3 DEF ReportFailure, adminVars
<1> QED
  BY <1>1, <1>2, <1>3, <1>4, <1>5, <1>6 DEF Next, DecisionStep

ContractInv == FeedInv /\ RegistryInv /\ AdminTypes

LEMMA ContractInvariant == Spec => []ContractInv
<1>1. Init => AdminTypes
  BY AttestationAssumption DEF Init, AdminTypes, ReportIds
<1>2. Init => ContractInv
  BY <1>1, FeedInitially, RegistryInitially DEF ContractInv
<1>3. ContractInv /\ [Next]_vars => ContractInv'
  BY FeedNextKeeps, RegistryNextKeeps, AdminNextKeeps DEF ContractInv
<1> QED
  BY <1>2, <1>3, PTL DEF Spec

\* In every reachable state of the three contracts the variables have their types.
THEOREM ContractsWellTyped == Spec => []TypeOK
<1>1. ContractInv => TypeOK
  BY DEF ContractInv, FeedInv, FeedTypes, RegistryInv, AdminTypes, TypeOK
<1> QED
  BY <1>1, ContractInvariant, PTL
-----------------------------------------------------------------------------
(* What one step may do.                                                   *)

\* Whatever else acts, as long as the contracts are only called.
LEMMA ReportsHalt == []ContractInv /\ [][Next]_vars => ReportHalts
<1> DEFINE Halted(v) ==
      LET a == VaultAgent[v]
      IN /\ Registry!CircuitBreakerTriggered(a)'
         /\ policies'[a].compliantDecisions = policies[a].compliantDecisions
         /\ policies'[a].totalDecisions = policies[a].totalDecisions + 1
<1>1. ContractInv /\ [Next]_vars =>
        [\A v \in Vaults : failureReports'[v] # failureReports[v] => Halted(v)]_vars
  <2> SUFFICES ASSUME ContractInv, Next, NEW v \in Vaults,
                      failureReports'[v] # failureReports[v]
               PROVE  Halted(v)
    BY DEF vars
  <2>1. PICK sender \in Accounts, w \in Vaults, id \in ReportIds :
             ReportFailure(sender, w, id)
    <3>1. failureReports' # failureReports
      OBVIOUS
    <3>2. ~AdminStep /\ ~RegistryStep
      BY <3>1 DEF AdminStep, RegistryStep, RegisterEnclaveKey, RevokeEnclaveKey,
                  SetWatchtower, ChangeOwner, outcomeVars
    <3> QED
      BY <3>1, <3>2 DEF Next, DecisionStep, Commit, VerifyAndSettle, outcomeVars
  <2>2. w = v
    BY <2>1 DEF ContractInv, AdminTypes, ReportFailure
  <2> DEFINE a == VaultAgent[v]
             q == FailedPolicy(policies[a])
  <2>3. /\ a \in Agents /\ Registry!IsRegistered(a)
        /\ policies' = [policies EXCEPT ![a] = q]
    BY <2>1, <2>2, AttestationAssumption
       DEF ReportFailure, MayReport, Registry!MayBreak
  <2>4. /\ q.owner # NoAccount /\ q.circuitBreaker
        /\ q.compliantDecisions = policies[a].compliantDecisions
        /\ q.totalDecisions = policies[a].totalDecisions + 1
    BY <2>3, FailedPolicySound DEF ContractInv, Registry!IsRegistered
  <2>5. policies'[a] = q
    BY <2>3 DEF ContractInv, RegistryInv, Registry!TypeOK
  <2> QED
    BY <2>4, <2>5 DEF Registry!CircuitBreakerTriggered, Registry!IsRegistered
<1> QED
  BY <1>1, PTL DEF ReportHalts

\* A report halts the agent and records one bad outcome in the same step, for any
\* assignment of roles and in any state.
THEOREM FailureReportHalts == Spec => ReportHalts
  BY ReportsHalt, ContractInvariant, PTL DEF Spec

\* No call settles anything without evidence.
LEMMA CallsNeedEvidence == []ContractInv /\ [][Next]_vars => SettledOnEvidence
<1> DEFINE Justified(v, id) ==
      /\ Registry!IsActive(VaultAgent[v])
      /\ \E sig \in Signed : /\ sig.by \in registeredEnclaveKeys
                             /\ sig.over = decisions[v][id].decisionHash
<1>1. ContractInv /\ [Next]_vars =>
        [\A v \in Vaults : \A id \in settled'[v] \ settled[v] : Justified(v, id)]_vars
  <2> SUFFICES ASSUME ContractInv, Next, NEW v \in Vaults,
                      NEW id \in settled'[v] \ settled[v]
               PROVE  Justified(v, id)
    BY DEF vars
  <2>1. PICK w \in Vaults, i \in Feed!Ids, hash \in Hashes, sig \in Signed :
             VerifyAndSettle(w, i, hash, sig)
    <3>1. settled' # settled
      OBVIOUS
    <3>2. ~AdminStep /\ ~RegistryStep
      BY <3>1 DEF AdminStep, RegistryStep, RegisterEnclaveKey, RevokeEnclaveKey,
                  SetWatchtower, ChangeOwner, outcomeVars
    <3> QED
      BY <3>1, <3>2 DEF Next, DecisionStep, Commit, ReportFailure, outcomeVars
  <2>2. w = v /\ i = id
    BY <2>1 DEF VerifyAndSettle, ContractInv, FeedInv, FeedTypes
  <2>3. /\ Recover(hash, sig) \in registeredEnclaveKeys
        /\ decisions[v][id].decisionHash = hash
        /\ Registry!IsRegistered(VaultAgent[v]) /\ policies[VaultAgent[v]].active
    BY <2>1, <2>2 DEF VerifyAndSettle, MaySettle, Registry!MayRecord
  <2>4. sig.over = hash /\ sig.by \in registeredEnclaveKeys
    BY <2>3, AttestationAssumption DEF Recover, ContractInv, AdminTypes
  <2>5. Registry!IsActive(VaultAgent[v])
    <3>1. VaultAgent[v] \in Agents
      BY AttestationAssumption
    <3>2. Registry!FlagsAgree(policies[VaultAgent[v]])
      BY <2>3, <3>1 DEF ContractInv, RegistryInv, Registry!PoliciesConsistent,
                        Registry!Consistent, Registry!IsRegistered
    <3>3. policies[VaultAgent[v]] \in Registry!PolicyCommitment
      BY <3>1 DEF ContractInv, RegistryInv, Registry!TypeOK
    <3> QED
      BY <2>3, <3>2, <3>3 DEF Registry!FlagsAgree, Registry!IsActive, Registry!PolicyCommitment
  <2> QED
    BY <2>3, <2>4, <2>5
<1> QED
  BY <1>1, PTL DEF SettledOnEvidence

\* A decision is settled only while its agent trades and a registered key has
\* signed what was committed.
THEOREM SettlementNeedsEvidence == Spec => SettledOnEvidence
  BY CallsNeedEvidence, ContractInvariant, PTL DEF Spec
-----------------------------------------------------------------------------
(* The contracts implement DecisionLedger.                                 *)

LedgerContent == [v \in Vaults |-> [id \in Feed!Ids |-> decisions[v][id].decisionHash]]
LedgerAttested == [v \in Vaults |-> {id \in Feed!Ids : decisions[v][id].status = "Attested"}]

LEMMA LedgerAtCommit ==
  ASSUME FeedInv, NEW sender \in Agents, NEW v \in Vaults, NEW hash \in Hashes,
         NEW cid \in EvidenceCIDs, Commit(sender, v, hash, cid)
  PROVE  Ledger!Commit(v, hash)
<1> DEFINE n == totalDecisions[v]
           d == Feed!Pending(hash, cid)
<1>1. /\ n \in Feed!Ids
      /\ totalDecisions' = [totalDecisions EXCEPT ![v] = @ + 1]
      /\ decisions' = [decisions EXCEPT ![v] = [decisions[v] EXCEPT ![n] = d]]
  BY AttestationAssumption
     DEF FeedInv, FeedTypes, Commit, Feed!CommitDecision, Feed!Ids
<1>2. d.decisionHash = hash /\ d.status = "Pending"
  BY DEF Feed!Pending
<1>3. decisions[v][n].status # "Attested"
  BY <1>1 DEF FeedInv, FeedTypes, SettlementAgrees
<1> HIDE DEF n, d
<1>4. ASSUME NEW w \in Vaults, NEW id \in Feed!Ids
      PROVE  decisions'[w][id] = IF w = v /\ id = n THEN d ELSE decisions[w][id]
  BY <1>1 DEF FeedInv, FeedTypes
<1>5. LedgerContent' = [LedgerContent EXCEPT ![v] = [LedgerContent[v] EXCEPT ![n] = hash]]
  <2>1. ASSUME NEW w \in Vaults, NEW id \in Feed!Ids
        PROVE  decisions'[w][id].decisionHash =
                 IF w = v /\ id = n THEN hash ELSE decisions[w][id].decisionHash
    BY <1>2, <1>4
  <2>2. ASSUME NEW w \in Vaults
        PROVE  [id \in Feed!Ids |-> decisions'[w][id].decisionHash]
                 = IF w = v THEN [LedgerContent[v] EXCEPT ![n] = hash]
                   ELSE LedgerContent[w]
    <3>1. LedgerContent[w] = [id \in Feed!Ids |-> decisions[w][id].decisionHash]
      BY DEF LedgerContent
    <3> QED
      BY <1>1, <2>1, <3>1
  <2>3. LedgerContent' = [w \in Vaults |->
                            [id \in Feed!Ids |-> decisions'[w][id].decisionHash]]
    BY DEF LedgerContent, Feed!Ids
  <2>4. LedgerContent = [w \in Vaults |-> LedgerContent[w]]
    BY DEF LedgerContent
  <2> QED
    BY <2>2, <2>3, <2>4
<1>6. LedgerAttested' = LedgerAttested
  <2>1. ASSUME NEW w \in Vaults, NEW id \in Feed!Ids
        PROVE  (decisions'[w][id].status = "Attested")
                 <=> (decisions[w][id].status = "Attested")
    BY <1>2, <1>3, <1>4
  <2> QED
    BY <2>1 DEF LedgerAttested, Feed!Ids
<1> QED
  BY <1>1, <1>5, <1>6 DEF Ledger!Commit, LedgerContent, LedgerAttested, n

LEMMA LedgerAtSettle ==
  ASSUME FeedInv, NEW v \in Vaults, NEW id \in Feed!Ids, NEW hash \in Hashes,
         NEW sig \in Signed, VerifyAndSettle(v, id, hash, sig),
         registeredEnclaveKeys \subseteq EnclaveKeys
  PROVE  Ledger!Attest(v, id)
<1> DEFINE d == decisions[v][id]
           e == Feed!Attested(d, hash)
<1>1. /\ id < totalDecisions[v] /\ d.decisionHash = hash /\ d.status = "Pending"
      /\ decisions' = [decisions EXCEPT ![v] = [decisions[v] EXCEPT ![id] = e]]
      /\ totalDecisions' = totalDecisions
  BY DEF FeedInv, FeedTypes, VerifyAndSettle, MaySettle, Feed!MarkAttested, Feed!Exists
<1>2. sig.over = hash
  BY AttestationAssumption DEF VerifyAndSettle, MaySettle, Recover
<1>3. e.decisionHash = d.decisionHash /\ e.status = "Attested"
  <2>1. d \in Feed!DecisionRecord
    BY DEF FeedInv, FeedTypes
  <2> QED
    BY <2>1 DEF Feed!Attested, Feed!DecisionRecord
<1> HIDE DEF e
<1>4. ASSUME NEW w \in Vaults, NEW i \in Feed!Ids
      PROVE  decisions'[w][i] = IF w = v /\ i = id THEN e ELSE decisions[w][i]
  BY <1>1 DEF FeedInv, FeedTypes
<1>5. LedgerContent' = LedgerContent
  <2>1. ASSUME NEW w \in Vaults, NEW i \in Feed!Ids
        PROVE  decisions'[w][i].decisionHash = decisions[w][i].decisionHash
    BY <1>3, <1>4
  <2> QED
    BY <2>1 DEF LedgerContent, Feed!Ids
<1>6. LedgerAttested' = [LedgerAttested EXCEPT ![v] = LedgerAttested[v] \cup {id}]
  <2>1. ASSUME NEW w \in Vaults, NEW i \in Feed!Ids
        PROVE  (decisions'[w][i].status = "Attested")
                 <=> (decisions[w][i].status = "Attested" \/ (w = v /\ i = id))
    BY <1>3, <1>4
  <2>2. ASSUME NEW w \in Vaults
        PROVE  {i \in Feed!Ids : decisions'[w][i].status = "Attested"}
                 = IF w = v THEN LedgerAttested[v] \cup {id} ELSE LedgerAttested[w]
    BY <2>1 DEF LedgerAttested
  <2> QED
    BY <2>2 DEF LedgerAttested, Feed!Ids
<1>7. id \notin LedgerAttested[v] /\ LedgerContent[v][id] \in {s.over : s \in Signed}
  BY <1>1, <1>2 DEF LedgerAttested, LedgerContent
<1> QED
  BY <1>1, <1>5, <1>6, <1>7 DEF Ledger!Attest, LedgerContent, LedgerAttested

\* An empty feed is an empty ledger.
LEMMA EmptyLedger == Feed!FeedInit => Ledger!Init
<1> SUFFICES ASSUME Feed!FeedInit PROVE Ledger!Init
  OBVIOUS
<1>1. /\ totalDecisions = [v \in Vaults |-> 0]
      /\ decisions = [v \in Vaults |-> [id \in Feed!Ids |-> Feed!Unwritten]]
  BY DEF Feed!FeedInit
<1>2. Feed!Unwritten.decisionHash = NoHash /\ Feed!Unwritten.status = "Pending"
  BY DEF Feed!Unwritten, Feed!Pending
<1> QED
  BY <1>1, <1>2 DEF Ledger!Init

\* Every call of the contracts is a step of the ledger, or none.
LEMMA LedgerStep == ContractInv /\ [Next]_vars => [Ledger!Next]_(Ledger!vars)
<1> SUFFICES ASSUME ContractInv, [Next]_vars PROVE [Ledger!Next]_(Ledger!vars)
  OBVIOUS
<1>1. CASE UNCHANGED feedVars /\ UNCHANGED settled
  BY <1>1 DEF feedVars, Ledger!vars, Feed!Ids
<1>2. ASSUME NEW sender \in Agents, NEW v \in Vaults, NEW hash \in Hashes,
             NEW cid \in EvidenceCIDs, Commit(sender, v, hash, cid)
      PROVE  Ledger!Next
  BY <1>2, LedgerAtCommit DEF ContractInv, Ledger!Next
<1>3. ASSUME NEW v \in Vaults, NEW id \in Feed!Ids, NEW hash \in Hashes,
             NEW sig \in Signed, VerifyAndSettle(v, id, hash, sig)
      PROVE  Ledger!Next
  BY <1>3, LedgerAtSettle DEF ContractInv, AdminTypes, Ledger!Next
<1> QED
  BY <1>1, <1>2, <1>3, StepCases

\* For every vault, agent, key and schedule of calls, the three contracts together
\* are a ledger: append-only, and attested once, forever, on a signature.
THEOREM ContractsImplementLedger == Spec => ImplementsLedger
<1>1. Init => Ledger!Init
  BY EmptyLedger DEF Init
<1> QED
  BY <1>1, LedgerStep, ContractInvariant, PTL DEF Spec, ImplementsLedger, Ledger!Spec
-----------------------------------------------------------------------------
(* Every settlement is in the compliance record of its agent.              *)

LEMMA RegistryStepGrows ==
  ASSUME RegistryInv, Bodies!Next, NEW a \in Agents
  PROVE  policies'[a].compliantDecisions >= policies[a].compliantDecisions
<1> USE SameAssumption
<1>1. Bodies!RegistryInv
  BY SameInvariant
<1>2. policies[a] \in Bodies!PolicyCommitment /\ Bodies!Consistent(policies[a])
  BY <1>1, Bodies!SoundPolicy
<1>3. policies[a].compliantDecisions \in Nat
  BY <1>2 DEF Bodies!PolicyCommitment
<1>4. ASSUME NEW b \in Agents, NEW q, policies' = [policies EXCEPT ![b] = q],
             Bodies!Touches(policies[b], q, b)
      PROVE  policies'[a].compliantDecisions >= policies[a].compliantDecisions
  <2>1. policies'[a] = IF a = b THEN q ELSE policies[a]
    BY <1>4 DEF RegistryInv, Registry!TypeOK
  <2>2. CASE a # b
    BY <1>3, <2>1, <2>2
  <2>3. CASE a = b /\ policies[a].owner # NoAccount
    <3>1. Bodies!Continues(policies[a], q)
      BY <1>2, <1>4, <2>3, Bodies!TouchesContinues
    <3> QED
      BY <2>1, <2>3, <3>1 DEF Bodies!Continues
  <2>4. CASE a = b /\ policies[a].owner = NoAccount
    <3>1. policies[a].compliantDecisions = 0
      BY <1>2, <2>4 DEF Bodies!Consistent, Bodies!NoPolicy
    <3>2. \/ q = policies[a]
          \/ \E root \in PolicyRoots, tier \in Bodies!EnabledTiers, start, end \in 0 .. 255 :
               q = Bodies!Registered(b, root, tier, start, end)
      BY <1>4, <2>4 DEF Bodies!Touches
    <3>3. ASSUME NEW root, NEW tier, NEW start, NEW end
          PROVE  Bodies!Registered(b, root, tier, start, end).compliantDecisions = 0
      BY DEF Bodies!Registered
    <3>4. q = policies[a] \/ q.compliantDecisions = 0
      BY <3>2, <3>3, Zenon
    <3> QED
      BY <2>1, <2>4, <3>1, <3>4
  <2> QED
    BY <2>2, <2>3, <2>4
<1>5. \/ UNCHANGED policies
      \/ \E b \in Agents : \E q : /\ policies' = [policies EXCEPT ![b] = q]
                                  /\ Bodies!Touches(policies[b], q, b)
  BY <1>1, Bodies!StepTouchesOne
<1> QED
  BY <1>3, <1>4, <1>5

\* No step takes a compliant outcome back.
LEMMA CompliantGrows ==
  ASSUME RegistryInv, [Next]_vars, NEW a \in Agents
  PROVE  policies'[a].compliantDecisions >= policies[a].compliantDecisions
<1>1. policies[a].compliantDecisions \in Nat
  BY DEF RegistryInv, Registry!TypeOK, Registry!PolicyCommitment
<1>2. CASE FailedReport
  <2>1. PICK b \in Agents : /\ Registry!IsRegistered(b)
                            /\ policies' = [policies EXCEPT ![b] = FailedPolicy(policies[b])]
    BY <1>2 DEF FailedReport
  <2> DEFINE q == FailedPolicy(policies[b])
  <2>2. q.compliantDecisions = policies[b].compliantDecisions
    BY <2>1, FailedPolicySound
  <2>3. policies' = [policies EXCEPT ![b] = q]
    BY <2>1
  <2> HIDE DEF q
  <2>4. policies'[a].compliantDecisions = policies[a].compliantDecisions
    BY <2>2, <2>3 DEF RegistryInv, Registry!TypeOK
  <2> QED
    BY <1>1, <2>4
<1>3. CASE [Bodies!Next]_(Bodies!registryVars)
  BY <1>1, <1>3, RegistryStepGrows DEF Bodies!registryVars
<1> QED
  BY <1>2, <1>3, SeenFromRegistry

LEMMA SettledFinite ==
  ASSUME NEW a
  PROVE  IsFiniteSet(SettledOf(a)) /\ Cardinality(SettledOf(a)) \in Nat
<1>1. IsFiniteSet(Feed!Ids)
  BY AttestationAssumption, FS_Interval DEF Feed!Ids
<1>2. IsFiniteSet(Feed!Ids \X Vaults)
  BY <1>1, AttestationAssumption, FS_Product
<1>3. SettledOf(a) \subseteq Feed!Ids \X Vaults
  BY DEF SettledOf
<1>4. IsFiniteSet(SettledOf(a))
  BY <1>2, <1>3, FS_Subset
<1> QED
  BY <1>4, FS_CardinalityType

\* Settling adds one pair to the settled ones and one compliant outcome.
LEMMA RecordedAtSettle ==
  ASSUME ContractInv, SettlementsRecorded, NEW a \in Agents,
         NEW v \in Vaults, NEW id \in Feed!Ids, NEW hash \in Hashes,
         NEW sig \in Signed, VerifyAndSettle(v, id, hash, sig), a = VaultAgent[v]
  PROVE  Cardinality(SettledOf(a)') <= policies'[a].compliantDecisions
<1>1. SettledOf(a)' = SettledOf(a) \cup {<<id, v>>}
  BY DEF SettledOf, Feed!Ids, VerifyAndSettle, ContractInv, FeedInv, FeedTypes
<1>2. Cardinality(SettledOf(a) \cup {<<id, v>>}) <= Cardinality(SettledOf(a)) + 1
  <2>1. IsFiniteSet(SettledOf(a)) /\ Cardinality(SettledOf(a)) \in Nat
    BY SettledFinite
  <2> DEFINE S == SettledOf(a)
             c == Cardinality(S)
  <2>2. \/ Cardinality(S \cup {<<id, v>>}) = c
        \/ Cardinality(S \cup {<<id, v>>}) = c + 1
    BY <2>1, FS_AddElement
  <2> QED
    BY <2>1, <2>2
<1>3. Cardinality(SettledOf(a) \cup {<<id, v>>}) \in Nat
  BY SettledFinite, FS_AddElement, FS_CardinalityType
<1>4. policies'[a].compliantDecisions = policies[a].compliantDecisions + 1
  <2>1. policies[a] \in Registry!PolicyCommitment
    BY DEF ContractInv, RegistryInv, Registry!TypeOK
  <2>2. policies'[a] = Registry!OutcomeRecorded(policies[a], TRUE)
    BY DEF VerifyAndSettle, Registry!RecordOutcome, ContractInv, RegistryInv, Registry!TypeOK
  <2> QED
    BY <2>1, <2>2 DEF Registry!OutcomeRecorded, Registry!PolicyCommitment
<1>5. /\ policies[a].compliantDecisions \in Nat
      /\ Cardinality(SettledOf(a)) <= policies[a].compliantDecisions
  BY DEF ContractInv, RegistryInv, Registry!TypeOK, Registry!PolicyCommitment,
         SettlementsRecorded
<1> QED
  BY <1>1, <1>2, <1>3, <1>4, <1>5, SettledFinite

\* A call that settles a decision records it.
LEMMA RecordedStep == ContractInv /\ SettlementsRecorded /\ [Next]_vars => SettlementsRecorded'
<1> SUFFICES ASSUME ContractInv, SettlementsRecorded, [Next]_vars, NEW a \in Agents
             PROVE  Cardinality(SettledOf(a)') <= policies'[a].compliantDecisions
  BY DEF SettlementsRecorded
<1>1. ASSUME SettledOf(a)' = SettledOf(a)
      PROVE  Cardinality(SettledOf(a)') <= policies'[a].compliantDecisions
  <2>1. policies'[a].compliantDecisions >= policies[a].compliantDecisions
    BY CompliantGrows DEF ContractInv
  <2>2. RegistryInv'
    BY RegistryNextKeeps DEF ContractInv
  <2>3. /\ policies[a].compliantDecisions \in Nat
        /\ policies'[a].compliantDecisions \in Nat
    BY <2>2 DEF ContractInv, RegistryInv, Registry!TypeOK, Registry!PolicyCommitment
  <2> QED
    BY <1>1, <2>1, <2>3, SettledFinite DEF SettlementsRecorded
<1>2. CASE UNCHANGED settled
  BY <1>1, <1>2 DEF SettledOf, Feed!Ids
<1>3. ASSUME NEW v \in Vaults, NEW id \in Feed!Ids, NEW hash \in Hashes,
             NEW sig \in Signed, VerifyAndSettle(v, id, hash, sig)
      PROVE  Cardinality(SettledOf(a)') <= policies'[a].compliantDecisions
  <2>1. CASE a = VaultAgent[v]
    BY <1>3, <2>1, RecordedAtSettle
  <2>2. CASE a # VaultAgent[v]
    <3>1. SettledOf(a)' = SettledOf(a)
      BY <1>3, <2>2 DEF SettledOf, Feed!Ids, VerifyAndSettle, ContractInv, FeedInv, FeedTypes
    <3> QED
      BY <1>1, <3>1
  <2> QED
    BY <2>1, <2>2
<1>4. ASSUME NEW sender \in Agents, NEW v \in Vaults, NEW hash \in Hashes,
             NEW cid \in EvidenceCIDs, Commit(sender, v, hash, cid)
      PROVE  UNCHANGED settled
  BY <1>4 DEF Commit, outcomeVars
<1> QED
  BY <1>2, <1>3, <1>4, StepCases

\* An agent's record counts at least as many compliant outcomes as its vaults
\* have settled decisions, however many vaults and calls there are.
THEOREM SettlementsAreRecorded == Spec => []SettlementsRecorded
<1>1. Init => SettlementsRecorded
  <2> SUFFICES ASSUME Init, NEW a \in Agents
               PROVE  Cardinality(SettledOf(a)) <= policies[a].compliantDecisions
    BY DEF SettlementsRecorded
  <2>1. SettledOf(a) = {}
    BY DEF Init, SettledOf
  <2>2. policies[a].compliantDecisions = 0
    BY DEF Init, Registry!Init, Registry!NoPolicy
  <2> QED
    BY <2>1, <2>2, FS_EmptySet
<1> QED
  BY <1>1, RecordedStep, ContractInvariant, PTL DEF Spec
-----------------------------------------------------------------------------
(* A commitment outlives every call of the three contracts.                *)

\* A report adds an outcome and halts; owner, operator, root and tier stay.
LEMMA FailedReportContinues ==
  ASSUME RegistryInv, FailedReport, NEW a \in Agents, Registry!IsRegistered(a)
  PROVE  Registry!Continues(policies[a], policies'[a])
<1>1. PICK b \in Agents : /\ Registry!IsRegistered(b)
                          /\ policies' = [policies EXCEPT ![b] = FailedPolicy(policies[b])]
  BY DEF FailedReport
<1>2. policies \in [Agents -> Registry!PolicyCommitment]
  BY DEF RegistryInv, Registry!TypeOK
<1> DEFINE p == policies[a]
<1>3. p \in Registry!PolicyCommitment
  BY <1>2
<1>4. CASE a = b
  <2> DEFINE q == FailedPolicy(p)
  <2>1. policies'[a] = q
    BY <1>1, <1>2, <1>4
  <2>2. /\ q.compliantDecisions = p.compliantDecisions
        /\ q.totalDecisions = p.totalDecisions + 1
    BY FailedPolicySound
  <2>3. Registry!Commitment(q) = Registry!Commitment(p)
    BY <1>3 DEF FailedPolicy, Registry!Broken, Registry!OutcomeRecorded,
                Registry!Commitment, Registry!PolicyCommitment
  <2> HIDE DEF q
  <2> QED
    BY <1>3, <2>1, <2>2, <2>3 DEF Registry!Continues, Registry!PolicyCommitment
<1>5. CASE a # b
  <2>1. policies'[a] = p
    BY <1>1, <1>2, <1>5
  <2> QED
    BY <1>3, <2>1 DEF Registry!Continues, Registry!PolicyCommitment
<1> QED
  BY <1>4, <1>5

LEMMA CommitmentsStay == []ContractInv /\ [][Next]_vars => Registry!CommitmentFixed
<1>1. ASSUME ContractInv, [Next]_vars, NEW a \in Agents, Registry!IsRegistered(a)
      PROVE  Registry!Continues(policies[a], policies'[a])
  <2>1. RegistryInv
    BY <1>1 DEF ContractInv
  <2>2. CASE [Bodies!Next]_(Bodies!registryVars)
    <3>1. Bodies!Continues(policies[a], policies'[a])
      BY <1>1, <2>1, <2>2, SameAssumption, SameInvariant, Bodies!StepContinues
         DEF Registry!IsRegistered, Bodies!IsRegistered
    <3> QED
      BY <3>1 DEF Bodies!Continues, Bodies!Commitment, Registry!Continues, Registry!Commitment
  <2>3. CASE FailedReport
    BY <1>1, <2>1, <2>3, FailedReportContinues
  <2> QED
    BY <1>1, <2>2, <2>3, SeenFromRegistry
<1>2. ContractInv /\ [Next]_vars =>
        [\A a \in Agents : Registry!IsRegistered(a) =>
           Registry!Continues(policies[a], policies'[a])]_(Registry!registryVars)
  BY <1>1
<1> QED
  BY <1>2, PTL DEF Registry!CommitmentFixed

\* A failure report calls the registry twice in one transaction, a settlement once,
\* and its roles are granted and revoked between them: none of it replaces the policy
\* an agent is committed to, or takes an outcome back.
THEOREM ContractsKeepCommitments == Spec => Registry!CommitmentFixed
  BY CommitmentsStay, ContractInvariant, PTL DEF Spec
=============================================================================
