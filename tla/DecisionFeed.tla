---------------------------- MODULE DecisionFeed ----------------------------
(***************************************************************************)
(* The decision feed of contracts/src/VelaVault.sol: totalDecisions and    *)
(* the mapping _decisions of every deployed vault. Its two writers are the *)
(* vault's agent (commitDecision) and the attestation contract             *)
(* (markAttested). The vault's shares and positions are not here.          *)
(***************************************************************************)
EXTENDS Integers

CONSTANTS
  Vaults,        \* the deployed vaults
  VaultAgent,    \* VaultAgent[v]: the immutable `agent` of vault v
  Hashes,        \* the decision hashes agents commit to
  NoHash,        \* bytes32(0)
  EvidenceCIDs,  \* the non-empty 0G content addresses agents commit to
  NoCID,         \* the empty string
  MaxFeed        \* bound: decisions per vault

VARIABLES
  totalDecisions,   \* totalDecisions[v]: the id the next decision gets
  decisions         \* decisions[v][id]: the DecisionRecord, zeros if unwritten

feedVars == <<totalDecisions, decisions>>

Ids == 0 .. MaxFeed - 1

DecisionRecord ==
  [ decisionHash : Hashes \cup {NoHash},
    evidenceCID : EvidenceCIDs \cup {NoCID},
    status : {"Pending", "Attested"},
    attestationHash : Hashes \cup {NoHash} ]

\* The explanation is text and the timestamp is Watchtower's `overdue`.
Pending(hash, cid) ==
  [ decisionHash |-> hash, evidenceCID |-> cid, status |-> "Pending",
    attestationHash |-> NoHash ]

Unwritten == Pending(NoHash, NoCID)

FeedInit ==
  /\ totalDecisions = [v \in Vaults |-> 0]
  /\ decisions = [v \in Vaults |-> [id \in Ids |-> Unwritten]]

Exists(v, id) == id \in Ids /\ id < totalDecisions[v]

\* Mutant of CommitDecision: from the second on, a commit writes over the last entry.
CommitDecisionOverLast(sender, v, hash, cid, halted) ==
  /\ sender = VaultAgent[v]
  /\ ~halted
  /\ cid # NoCID
  /\ totalDecisions[v] < MaxFeed
  /\ LET id == IF totalDecisions[v] = 0 THEN 0 ELSE totalDecisions[v] - 1
     IN decisions' = [decisions EXCEPT ![v][id] = Pending(hash, cid)]
  /\ totalDecisions' = [totalDecisions EXCEPT ![v] = @ + 1]

\* The vault reads the circuit breaker of its agent: `halted` is its answer.
CommitDecision(sender, v, hash, cid, halted) ==
  /\ sender = VaultAgent[v]
  /\ ~halted
  /\ cid # NoCID
  /\ totalDecisions[v] < MaxFeed   \* bound, not in the code
  /\ decisions' = [decisions EXCEPT ![v][totalDecisions[v]] = Pending(hash, cid)]
  /\ totalDecisions' = [totalDecisions EXCEPT ![v] = @ + 1]

Attested(d, hash) ==
  [d EXCEPT !.status = "Attested", !.attestationHash = hash]

\* The caller is the attestation contract the vault was deployed with.
MarkAttested(v, id, hash) ==
  /\ Exists(v, id)
  /\ decisions[v][id].status = "Pending"
  /\ decisions' = [decisions EXCEPT ![v][id] = Attested(@, hash)]
  /\ UNCHANGED totalDecisions
=============================================================================
