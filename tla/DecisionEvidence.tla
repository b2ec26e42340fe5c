-------------------------- MODULE DecisionEvidence --------------------------
(***************************************************************************)
(* What stands behind a committed decision. agent.ts with its two clients, *)
(* zero-g-compute.ts and zero-g.ts, turns an answer of the model into a    *)
(* record in 0G storage, a commitment in the vault's feed, a trade and a   *)
(* settlement; the execution route and the three injection scripts commit  *)
(* decisions of their own; the watchtower and the attestation contract     *)
(* judge them all by the record the commitment names.                      *)
(*                                                                         *)
(* Storage is content-addressed, so a record is its own root hash. The     *)
(* EIP-191 hash of a text is that text; what is hashed otherwise is no     *)
(* text's. Optional parts are sets of at most one. VelaAgent and           *)
(* Watchtower have the transactions, the retries and the crashes, which    *)
(* this module leaves out.                                                 *)
(***************************************************************************)
EXTENDS Integers, Sequences, FiniteSets

CONSTANTS
  Texts,        \* what the model may answer, word for word
  Reads,        \* Reads[t]: the decision JSON.parse finds in t, or Unreadable
  Unreadable,
  Enclave,      \* the registered key, and REGISTERED_ENCLAVE_KEY of the watchtower
  OtherKey,     \* another
  Signatures,   \* what a signature may turn out to be: by whom, over which text
  NoSignature,  \* the empty text, or one that is not 65 bytes
  PoolName,     \* this.pool.name
  MaxValue,     \* maxValuePerTxUsdc of the agent's policy
  PolicyRoot,   \* and its root
  DemoRoot,     \* the root of the scripts' records
  Documents,    \* allowed_pools of what policyURI may be decoded to; {} if it cannot be
  BadText,      \* the signed payload of inject-violation
  MaxFeed,      \* bound: decisions committed
  MaxStored     \* bound: records uploaded

ASSUME EvidenceAssumption ==
  /\ Enclave # OtherKey /\ BadText \in Texts
  /\ \A t \in Texts :
       Reads[t] # Unreadable => Reads[t].action \in {"swap", "rebalance", "hold"}
  /\ Signatures \subseteq [by : {Enclave, OtherKey}, over : Texts]
  /\ \A d \in Documents : d \subseteq STRING
  /\ MaxValue \in Nat /\ MaxFeed \in Nat /\ MaxStored \in Nat

VARIABLES
  stored,    \* the records in 0G storage
  feed,      \* the vault's decisions: the hash, the evidence CID, and who committed
  settled,   \* the decisions attested on chain
  halted,    \* the agent's circuit breaker
  stage,     \* where the agent's iteration stands
  run,       \* its local variables
  settling,  \* settlements in the background
  trades,    \* history: the swaps of the agent, by decision id
  script,    \* the injection script that is running
  overdue,   \* the decisions older than attestation_timeout
  reported   \* the decisions the watchtower has reported

agentVars == <<stage, run, settling>>
chainVars == <<feed, settled, halted>>
evidenceVars == <<stored, chainVars, agentVars, trades, script, overdue, reported>>

-----------------------------------------------------------------------------
(* zero-g.ts and the record of a decision.                                 *)

\* Mutant of RecordOf: the attestation is left out.
RecordOfPayloadOnly(text, signature, checks) ==
  [signed_payload |-> {text}, decision |-> {Reads[text]}, policy_root |-> PolicyRoot,
   constraints_evaluated |-> checks, tee_attestation |-> {}]

\* The payload is the answer as it was signed, not the decision read from it.
RecordOf(text, signature, checks) ==
  [signed_payload |-> {text}, decision |-> {Reads[text]}, policy_root |-> PolicyRoot,
   constraints_evaluated |-> checks, tee_attestation |-> {signature}]

\* contentHash of uploadDecisionRecord.
ContentHash(record) == record.signed_payload

Room == Cardinality(stored) < MaxStored

\* Mutant of Uploaded: the error of the upload is not looked at.
UploadedAnyway(record) == Room /\ stored' \in {stored, stored \cup {record}}

\* indexer.upload has returned without an error.
Uploaded(record) == Room /\ stored' = stored \cup {record}

\* It fails, before the record was stored or after.
UploadFailed(record) == stored' = stored \/ Uploaded(record)

\* fetchDecisionRecord and fetch_raw: what a CID names, or nothing.
Fetched(cid) == cid \cap stored
-----------------------------------------------------------------------------
(* The contracts, of which VelaVault and AttestationContract have the rest. *)

MayCommit == ~halted /\ Len(feed) < MaxFeed
Committed(hash, cid, who) ==
  feed' = Append(feed, [hash |-> hash, cid |-> cid, who |-> who])

\* Nothing is recorded of a halted agent: neither a settlement nor a report.
MaySettle(id, hash, signature) ==
  /\ ~halted
  /\ id \in DOMAIN feed \ settled /\ feed[id].hash = hash /\ hash # {}
  /\ signature # NoSignature /\ signature.by = Enclave /\ {signature.over} = hash
-----------------------------------------------------------------------------
(* agent.ts: one iteration.                                                *)

Blank == [pools |-> {}, text |-> {}, signature |-> NoSignature, record |-> {}, id |-> 0]

\* The exception is logged and the loop sleeps.
EndIteration == stage' = "idle" /\ run' = Blank

\* _fetchPolicyConstraints: a document that cannot be had, or names no pools,
\* stands for the configured pool.
FetchPolicyConstraints ==
  /\ stage = "idle"
  /\ \E pools \in Documents :
       run' = [run EXCEPT !.pools = IF pools = {} THEN {PoolName} ELSE pools]
  /\ stage' = "market"
  /\ UNCHANGED <<stored, chainVars, settling, trades, script, overdue, reported>>

\* _fetchMarketData needs the price; figures it cannot get are made up.
FetchMarketData ==
  /\ stage = "market"
  /\ \/ stage' = "inference" /\ UNCHANGED run
     \/ EndIteration
  /\ UNCHANGED <<stored, chainVars, settling, trades, script, overdue, reported>>

\* The signature in the response, and if it has none the one that is fetched.
TeeSignature(own, fetched) == IF own = NoSignature THEN fetched ELSE own

\* requestDecision: any of its calls may fail. processResponse has to say that the
\* response is genuine; the signature that is kept has to have 65 bytes, and is
\* not compared with anything.
RequestDecision ==
  /\ stage = "inference"
  /\ \/ \E text \in Texts \ {BadText}, own, fetched \in Signatures \cup {NoSignature} :
          /\ Reads[text] # Unreadable
          /\ TeeSignature(own, fetched) # NoSignature
          /\ run' = [run EXCEPT !.text = {text}, !.signature = TeeSignature(own, fetched)]
          /\ stage' = "decided"
     \/ EndIteration
  /\ UNCHANGED <<stored, chainVars, settling, trades, script, overdue, reported>>

\* A decision to hold, or a trade too soon after the last one, ends the iteration.
\* The checks are recorded, whatever they say; the one of the hour is left out.
UploadRecord ==
  /\ stage = "decided"
  /\ \/ EndIteration /\ UNCHANGED stored
     \/ \E text \in run.text :
          LET decision == Reads[text]
              record == RecordOf(text, run.signature,
                                 [value_check |-> decision.value <= MaxValue,
                                  pool_check |-> decision.pool \in run.pools])
          IN /\ decision.action # "hold"
             /\ \/ Uploaded(record) /\ run' = [run EXCEPT !.record = {record}]
                                    /\ stage' = "upload"
                \/ UploadFailed(record) /\ EndIteration
  /\ UNCHANGED <<chainVars, settling, trades, script, overdue, reported>>

\* Mutant of DecisionId: the ids are one too high.
DecisionIdOneHigh == Len(feed) + 2

\* _parseDecisionId: the id in the event of the commitment, the next free one.
DecisionId == Len(feed) + 1

CommitDecision ==
  /\ stage = "upload"
  /\ \/ /\ MayCommit
        /\ \E record \in run.record : Committed(ContentHash(record), {record}, "agent")
        /\ run' = [run EXCEPT !.id = DecisionId]
        /\ stage' = "commit"
     \/ EndIteration /\ UNCHANGED feed
  /\ UNCHANGED <<stored, settled, halted, settling, trades, script, overdue, reported>>

\* _executeTrade, of the configured pool only; the hook and the vault may refuse.
\* After the trade the settlement is begun.
ExecuteTrade ==
  /\ stage = "commit"
  /\ \/ \E text \in run.text, record \in run.record :
          /\ Reads[text].pool = PoolName /\ ~halted
          /\ trades' = Append(trades, [id |-> run.id, value |-> Reads[text].value])
          /\ settling' = settling \cup
               {[id |-> run.id, hash |-> ContentHash(record), signature |-> run.signature]}
     \/ UNCHANGED <<trades, settling>>
  /\ EndIteration
  /\ UNCHANGED <<stored, chainVars, script, overdue, reported>>

\* _settleAsync: it reverts, or fails, and is not tried again.
SettleAsync ==
  /\ \E s \in settling :
       /\ settling' = settling \ {s}
       /\ \/ MaySettle(s.id, s.hash, s.signature) /\ settled' = settled \cup {s.id}
          \/ UNCHANGED settled
  /\ UNCHANGED <<stored, feed, halted, stage, run, trades, script, overdue, reported>>
-----------------------------------------------------------------------------
(* The others who commit with the agent's key.                             *)

\* api/agent/execute: a hash of its own, and a CID that names nothing.
RouteCommits ==
  /\ MayCommit
  /\ Committed({}, {}, "route")
  /\ UNCHANGED <<stored, settled, halted, agentVars, trades, script, overdue, reported>>

NoScript == [name |-> "none", left |-> << >>]

\* Of a script's record only what the judges look at, and its own name, is kept.
ScriptRecord(payload, attestation, name) ==
  [signed_payload |-> payload, decision |-> {}, policy_root |-> DemoRoot,
   constraints_evaluated |-> name, tee_attestation |-> attestation]

\* The random bytes the scripts put for a signature.
Random == [by |-> OtherKey, over |-> BadText]

\* The uploads each script makes, before its commitment and after: the commitment
\* names the first.
Injections ==
  { [name |-> "tamper", left |-> << ScriptRecord({}, {Random}, "valid"),
                                    ScriptRecord({}, {Random}, "tampered") >>],
    [name |-> "missing", left |-> << ScriptRecord({}, {}, "missing") >>],
    [name |-> "violation", left |-> << ScriptRecord({BadText}, {Random}, "violating") >>] }

\* The script starts: its first record is uploaded, or it exits.
StartScript ==
  /\ script = NoScript
  /\ \E injection \in Injections :
       LET record == Head(injection.left)
       IN \/ Uploaded(record) /\ script' = injection
          \/ UploadFailed(record) /\ UNCHANGED script
  /\ UNCHANGED <<chainVars, agentVars, trades, overdue, reported>>

\* hashRecord: of the signed payload in one script, in the others of a text that
\* is not the one uploaded. The commitment fails, or the script goes on.
ScriptCommits ==
  /\ script.name \in {"tamper", "missing", "violation"}
  /\ LET record == Head(script.left)
     IN \/ /\ MayCommit
           /\ Committed(ContentHash(record), {record}, script.name)
           /\ script' = IF Tail(script.left) = << >> THEN NoScript
                        ELSE [name |-> "after", left |-> Tail(script.left)]
        \/ script' = NoScript /\ UNCHANGED feed
  /\ UNCHANGED <<stored, settled, halted, agentVars, trades, overdue, reported>>

\* The tampered record is uploaded under a CID of its own. (The swap the other
\* script attempts is a static call: it moves nothing, blocked or not.)
ScriptEnds ==
  /\ script.name = "after"
  /\ Uploaded(Head(script.left)) \/ UploadFailed(Head(script.left))
  /\ script' = NoScript
  /\ UNCHANGED <<chainVars, agentVars, trades, overdue, reported>>
-----------------------------------------------------------------------------
(* The watchtower.                                                         *)

\* verify_evidence.
VerifyEvidence(record, hash) ==
  /\ record.signed_payload # {} /\ record.signed_payload = hash
  /\ \E signature \in record.tee_attestation :
       /\ signature # NoSignature
       /\ signature.by = Enclave /\ {signature.over} = hash

Verified(id) == \E record \in Fetched(feed[id].cid) : VerifyEvidence(record, feed[id].hash)

\* Mutant of Failures: evidence that cannot be fetched is waited for.
FailuresOfEvidence(id) == {} # Fetched(feed[id].cid) /\ ~Verified(id)

\* Evidence that is unavailable or does not verify.
Failures(id) == ~Verified(id)

\* attestation_timeout elapses.
Expire ==
  /\ \E id \in DOMAIN feed : id \notin overdue /\ overdue' = overdue \cup {id}
  /\ UNCHANGED <<stored, chainVars, agentVars, trades, script, reported>>

\* A pending decision whose evidence verifies is settled.
TowerSettles ==
  /\ \E id \in DOMAIN feed \ (settled \cup reported) :
       \E record \in Fetched(feed[id].cid) :
         /\ VerifyEvidence(record, feed[id].hash)
         /\ \E signature \in record.tee_attestation :
              MaySettle(id, feed[id].hash, signature)
         /\ settled' = settled \cup {id}
  /\ UNCHANGED <<stored, feed, halted, agentVars, trades, script, overdue, reported>>

\* report_failure. A report that would revert is not sent, and tried again in the
\* next poll.
ReportFailure(id) ==
  /\ ~halted
  /\ id \in DOMAIN feed \ (settled \cup reported)
  /\ reported' = reported \cup {id}
  /\ halted' = TRUE
  /\ UNCHANGED <<stored, feed, settled, agentVars, trades, script, overdue>>

\* A decision whose evidence does not verify is reported past the timeout.
TowerReports(id) == id \in overdue /\ Failures(id) /\ ReportFailure(id)

\* So is one whose evidence does, when its fetch or its settlement fails that late.
TowerDespairs(id) == id \in overdue /\ Verified(id) /\ ReportFailure(id)

OwnerResumes ==
  /\ halted /\ halted' = FALSE
  /\ UNCHANGED <<stored, feed, settled, agentVars, trades, script, overdue, reported>>
-----------------------------------------------------------------------------
EvidenceInit ==
  /\ stored = {} /\ feed = << >> /\ settled = {} /\ halted = FALSE
  /\ stage = "idle" /\ run = Blank /\ settling = {}
  /\ trades = << >> /\ script = NoScript
  /\ overdue = {} /\ reported = {}

EvidenceNext ==
  \/ FetchPolicyConstraints \/ FetchMarketData \/ RequestDecision \/ UploadRecord
  \/ CommitDecision \/ ExecuteTrade \/ SettleAsync
  \/ RouteCommits \/ StartScript \/ ScriptCommits \/ ScriptEnds
  \/ Expire \/ TowerSettles \/ OwnerResumes
  \/ \E id \in 1 .. MaxFeed : TowerReports(id) \/ TowerDespairs(id)

\* Time passes, and the watchtower's polls come to every decision.
EvidenceFairness ==
  WF_evidenceVars(Expire) /\ \A id \in 1 .. MaxFeed : WF_evidenceVars(TowerReports(id))

EvidenceSpec == EvidenceInit /\ [][EvidenceNext]_evidenceVars /\ EvidenceFairness
-----------------------------------------------------------------------------
\* Type invariant: what is settled, reported or traded was committed.
EvidenceTypeOK ==
  /\ \A record \in stored \cup run.record : record.policy_root \in {PolicyRoot, DemoRoot}
  /\ Len(feed) <= MaxFeed
  /\ settled \cup overdue \cup reported \subseteq DOMAIN feed
  /\ run.signature \in Signatures \cup {NoSignature} /\ run.text \subseteq Texts
  /\ \A s \in settling : s.id \in DOMAIN feed
  /\ \A k \in DOMAIN trades : trades[k].id \in DOMAIN feed

\* What is attested on chain can be checked by anybody at any later time: the
\* record under the committed CID is in storage, and its payload and signature
\* pass the very check the watchtower makes, for the agent settles with the hash
\* and the signature it has put on record.
AttestedVerifies == \A id \in settled : Verified(id)

\* The agent trades nothing it has not put on record before: the trade's decision
\* names a record that storage holds, made under the policy of the registry, and
\* the text signed in it reads as that very trade. (The checks in it may say FAIL.)
TradeOnRecord ==
  \A k \in DOMAIN trades :
    \E record \in Fetched(feed[trades[k].id].cid) :
      /\ record.policy_root = PolicyRoot
      /\ \E text \in record.signed_payload :
           /\ feed[trades[k].id].hash = {text}
           /\ Reads[text].value = trades[k].value /\ Reads[text].pool = PoolName
           /\ Reads[text].action \in {"swap", "rebalance"}

\* A decision of a script or of the route, none of which can ever be attested, is
\* reported in the end, if the owner resumes the agent after each halt: a halt for
\* another decision only puts the report off.
InjectedReported ==
  []<>(~halted) =>
    \A id \in 1 .. MaxFeed :
      (id \in DOMAIN feed /\ feed[id].who # "agent") ~> (id \in reported \ settled)
=============================================================================
