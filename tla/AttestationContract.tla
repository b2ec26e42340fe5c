------------------------ MODULE AttestationContract ------------------------
(***************************************************************************)
(* contracts/src/AttestationContract.sol, with the two contracts it calls: *)
(* PolicyRegistry and the decision feed of every vault. One transaction is *)
(* one step, with every call it makes: when the registry refuses, nothing  *)
(* of the transaction happens.                                             *)
(*                                                                         *)
(* Agents commit decisions; anybody settles a decision with a signature of *)
(* a registered enclave key over its committed hash; the owner and the     *)
(* watchtowers report failures, which halt the agent.                      *)
(***************************************************************************)
EXTENDS Integers, FiniteSets

CONSTANTS
  Accounts, Agents, RegistryOwner, NoAccount, PolicyRoots, NoRoot,
  TierInputs, HourInputs,
  MaxComplianceScore, AutoBreakScore, AutoBreakMinDecisions, MaxDecisions,
  Vaults, VaultAgent, Hashes, NoHash, EvidenceCIDs, NoCID, MaxFeed,
  Attestation,     \* the contract's own address
  Deployer,        \* the first `owner()` of the contract
  Successors,      \* the accounts ownership may be transferred to
  EnclaveKeys,     \* the addresses of enclave signing keys
  WatchtowerAccounts,  \* the accounts that run a watchtower
  Signed           \* the signatures made: records [by, over]

VARIABLES
  policies, decisionRecorders, circuitBreakers,   \* PolicyRegistry
  totalDecisions, decisions,                      \* the vaults' feeds
  owner,                  \* Ownable's owner(), NoAccount once renounced
  registeredEnclaveKeys,  \* the keys whose signatures settle a decision
  watchtowers,            \* the accounts that may report a failure
  settled,                \* settled[v]: the settled ids of vault v
  failureReports          \* the AttestationFailure events: counts by vault and id

registryVars == <<policies, decisionRecorders, circuitBreakers>>
feedVars == <<totalDecisions, decisions>>
adminVars == <<owner, registeredEnclaveKeys, watchtowers>>
outcomeVars == <<settled, failureReports>>
vars == <<registryVars, feedVars, adminVars, outcomeVars>>

Registry == INSTANCE PolicyRegistry
Feed == INSTANCE DecisionFeed

ASSUME AttestationAssumption ==
  /\ Registry!RegistryAssumption
  /\ VaultAgent \in [Vaults -> Agents]
  /\ Attestation \in Accounts \ (Agents \cup {RegistryOwner})
  /\ Deployer \in Accounts
  /\ Successors \subseteq Accounts
  /\ WatchtowerAccounts \subseteq Accounts
  /\ NoAccount \notin EnclaveKeys
  /\ Signed \subseteq [by : EnclaveKeys, over : Hashes]
  /\ IsFiniteSet(Vaults)
  /\ NoHash \notin Hashes /\ NoCID \notin EvidenceCIDs
  /\ MaxFeed \in Nat

\* Ids reports may name: reportFailure does not check that the decision exists,
\* so these are the free ids of a feed too.
ReportIds == Feed!Ids

\* ECDSA recovery: over any other digest a signature yields a stray address.
Recover(hash, sig) == IF sig.over = hash THEN sig.by ELSE NoAccount
-----------------------------------------------------------------------------
RegisterEnclaveKey(sender, key) ==
  /\ sender = owner
  /\ registeredEnclaveKeys' = registeredEnclaveKeys \cup {key}
  /\ UNCHANGED <<registryVars, feedVars, owner, watchtowers, outcomeVars>>

RevokeEnclaveKey(sender, key) ==
  /\ sender = owner
  /\ registeredEnclaveKeys' = registeredEnclaveKeys \ {key}
  /\ UNCHANGED <<registryVars, feedVars, owner, watchtowers, outcomeVars>>

\* Mutant of SetWatchtower: msg.sender is authorized in place of the argument.
SetWatchtowerSelf(sender, account, authorized) ==
  /\ sender = owner
  /\ watchtowers' = IF authorized THEN watchtowers \cup {sender}
                    ELSE watchtowers \ {account}
  /\ UNCHANGED <<registryVars, feedVars, owner, registeredEnclaveKeys, outcomeVars>>

SetWatchtower(sender, account, authorized) ==
  /\ sender = owner
  /\ watchtowers' = IF authorized THEN watchtowers \cup {account}
                    ELSE watchtowers \ {account}
  /\ UNCHANGED <<registryVars, feedVars, owner, registeredEnclaveKeys, outcomeVars>>

\* OpenZeppelin's Ownable: transferOwnership, and renounceOwnership to nobody.
ChangeOwner(sender, to) ==
  /\ sender = owner
  /\ owner' = to
  /\ UNCHANGED <<registryVars, feedVars, registeredEnclaveKeys, watchtowers, outcomeVars>>

Commit(sender, v, hash, cid) ==
  /\ Feed!CommitDecision(sender, v, hash, cid,
                         Registry!CircuitBreakerTriggered(VaultAgent[v]))
  /\ UNCHANGED <<registryVars, adminVars, outcomeVars>>

\* Mutant of MaySettle: the provided hash is not compared with the committed one.
MaySettleAnyHash(v, id, hash, sig) ==
  /\ id \notin settled[v]
  /\ Recover(hash, sig) \in registeredEnclaveKeys
  /\ Feed!Exists(v, id)
  /\ Registry!MayRecord(Attestation, VaultAgent[v])

\* Mutant of MaySettle: the signer is recovered and its registration not checked.
MaySettleAnyKey(v, id, hash, sig) ==
  /\ id \notin settled[v]
  /\ Recover(hash, sig) # NoAccount
  /\ Feed!Exists(v, id)
  /\ decisions[v][id].decisionHash = hash
  /\ Registry!MayRecord(Attestation, VaultAgent[v])

MaySettle(v, id, hash, sig) ==
  /\ id \notin settled[v]
  /\ Recover(hash, sig) \in registeredEnclaveKeys
  /\ Feed!Exists(v, id)
  /\ decisions[v][id].decisionHash = hash
  /\ Registry!MayRecord(Attestation, VaultAgent[v])

\* Mutant of VerifyAndSettle: the vault is told and the registry is not.
VerifyAndSettleUnrecorded(v, id, hash, sig) ==
  /\ MaySettle(v, id, hash, sig)
  /\ settled' = [settled EXCEPT ![v] = @ \cup {id}]
  /\ Feed!MarkAttested(v, id, hash)
  /\ UNCHANGED <<registryVars, adminVars, failureReports>>

\* Anybody may call it.
VerifyAndSettle(v, id, hash, sig) ==
  /\ MaySettle(v, id, hash, sig)
  /\ settled' = [settled EXCEPT ![v] = @ \cup {id}]
  /\ Feed!MarkAttested(v, id, hash)
  /\ Registry!RecordOutcome(Attestation, VaultAgent[v], TRUE)
  /\ UNCHANGED <<adminVars, failureReports>>

MayReport(sender, v) ==
  /\ sender = owner \/ sender \in watchtowers
  /\ Registry!MayRecord(Attestation, VaultAgent[v])
  /\ Registry!MayBreak(Attestation, VaultAgent[v])

\* Mutant of FailedPolicy: the outcome is recorded and the breaker forgotten.
FailedPolicyUnbroken(p) == Registry!OutcomeRecorded(p, FALSE)

\* A non-compliant outcome, then the breaker: two registry calls, one policy.
FailedPolicy(p) == Registry!Broken(Registry!OutcomeRecorded(p, FALSE))

ReportFailure(sender, v, id) ==
  /\ MayReport(sender, v)
  /\ failureReports' = [failureReports EXCEPT ![v][id] = @ + 1]
  /\ policies' = [policies EXCEPT ![VaultAgent[v]] = FailedPolicy(@)]
  /\ UNCHANGED <<decisionRecorders, circuitBreakers, feedVars, adminVars, settled>>
-----------------------------------------------------------------------------
Init ==
  /\ Registry!Init
  /\ Feed!FeedInit
  /\ owner = Deployer
  /\ registeredEnclaveKeys = {}
  /\ watchtowers = {}
  /\ settled = [v \in Vaults |-> {}]
  /\ failureReports = [v \in Vaults |-> [id \in ReportIds |-> 0]]

AdminStep ==
  \E sender \in Accounts :
    \/ \E key \in EnclaveKeys :
         RegisterEnclaveKey(sender, key) \/ RevokeEnclaveKey(sender, key)
    \/ \E account \in WatchtowerAccounts, authorized \in BOOLEAN :
         SetWatchtower(sender, account, authorized)
    \/ \E to \in Successors \cup {NoAccount} : ChangeOwner(sender, to)

\* Calls made on the registry directly, not through the attestation contract.
\* The registry owner administers the attestation contract's two roles.
RegistryStep ==
  /\ \/ \E a \in Agents, root \in PolicyRoots, tier \in TierInputs,
           start, end \in HourInputs :
          Registry!RegisterAgent(a, root, tier, start, end)
     \/ \E sender \in Accounts \ {Attestation}, a \in Agents :
          Registry!PolicyCall(sender, a)
     \/ Registry!AdminCall(RegistryOwner, Attestation)
  /\ UNCHANGED <<feedVars, adminVars, outcomeVars>>

DecisionStep ==
  \/ \E sender \in Agents, v \in Vaults, hash \in Hashes, cid \in EvidenceCIDs :
       Commit(sender, v, hash, cid)
  \/ \E v \in Vaults, id \in Feed!Ids, hash \in Hashes, sig \in Signed :
       VerifyAndSettle(v, id, hash, sig)
  \/ \E sender \in Accounts, v \in Vaults, id \in ReportIds : ReportFailure(sender, v, id)

Next == AdminStep \/ RegistryStep \/ DecisionStep

Spec == Init /\ [][Next]_vars
-----------------------------------------------------------------------------
(* What the three contracts guarantee together.                            *)

\* Every variable stays within its type.
TypeOK ==
  /\ Registry!TypeOK
  /\ totalDecisions \in [Vaults -> 0 .. MaxFeed]
  /\ decisions \in [Vaults -> [Feed!Ids -> Feed!DecisionRecord]]
  /\ owner \in Accounts \cup {NoAccount}
  /\ registeredEnclaveKeys \subseteq EnclaveKeys
  /\ watchtowers \subseteq WatchtowerAccounts
  /\ settled \in [Vaults -> SUBSET Feed!Ids]
  /\ failureReports \in [Vaults -> [ReportIds -> Nat]]

\* The attestation contract and the vault never disagree about a decision:
\* `settled` there is status Attested here, and what was attested is exactly what
\* was committed. The watchtower reads one of the two and the site the other.
SettlementAgrees ==
  \A v \in Vaults, id \in Feed!Ids :
    LET d == decisions[v][id]
    IN /\ (id \in settled[v]) <=> (d.status = "Attested")
       /\ id \in settled[v] =>
            id < totalDecisions[v] /\ d.attestationHash = d.decisionHash

SettledOf(a) ==
  {s \in Feed!Ids \X Vaults : VaultAgent[s[2]] = a /\ s[1] \in settled[s[2]]}

\* Every settlement of an agent, in whichever of its vaults, is in its compliance
\* record: the record counts at least as many compliant outcomes.
SettlementsRecorded ==
  \A a \in Agents :
    Cardinality(SettledOf(a)) <= policies[a].compliantDecisions

\* A failure report is atomic. Once its event is out, the agent is halted and one
\* more non-compliant outcome is recorded: no mix of revoked recorder and breaker
\* roles leaves the record without the halt or the halt without the record.
ReportHalts ==
  [][\A v \in Vaults : failureReports'[v] # failureReports[v] =>
       LET a == VaultAgent[v]
       IN /\ Registry!CircuitBreakerTriggered(a)'
          /\ policies'[a].compliantDecisions = policies[a].compliantDecisions
          /\ policies'[a].totalDecisions = policies[a].totalDecisions + 1]_vars

\* A decision is settled only while its agent trades, by a key that is registered
\* at that moment and signed the very hash the agent committed: revocation, a halt
\* and a replayed signature for another decision all stop it.
SettledOnEvidence ==
  [][\A v \in Vaults : \A id \in settled'[v] \ settled[v] :
       /\ Registry!IsActive(VaultAgent[v])
       /\ \E sig \in Signed : /\ sig.by \in registeredEnclaveKeys
                              /\ sig.over = decisions[v][id].decisionHash]_vars

\* The three contracts implement the public ledger of decisions.
Ledger == INSTANCE DecisionLedger WITH
  Ids <- Feed!Ids,
  Endorsed <- {sig.over : sig \in Signed},
  length <- totalDecisions,
  content <- [v \in Vaults |-> [id \in Feed!Ids |-> decisions[v][id].decisionHash]],
  attested <- [v \in Vaults |-> {id \in Feed!Ids : decisions[v][id].status = "Attested"}]

ImplementsLedger == Ledger!Spec
=============================================================================
