----------------------- MODULE DecisionEvidenceProofs -----------------------
(***************************************************************************)
(* The records behind decisions, for any texts, signatures, policies and   *)
(* any number of decisions and records.                                    *)
(*                                                                         *)
(* Neither AttestedVerifies nor TradeOnRecord is inductive: a settlement   *)
(* in the background, and the trade itself, use what the iteration kept of *)
(* its record and of its commitment. What it kept must therefore be what   *)
(* storage and the feed hold, from the upload on, and must stay so: storage *)
(* and the feed only grow.                                                 *)
(***************************************************************************)
EXTENDS DecisionEvidence, TLAPS

IsSequence(s) == \E S : s \in Seq(S)

\* The record is one the agent makes of this text.
Recorded(record, text, signature) ==
  /\ record.signed_payload = {text} /\ record.policy_root = PolicyRoot
  /\ record.tee_attestation = {signature}

\* A committed decision names a record in storage with this payload and signature.
OnRecord(id, hash, signature) ==
  /\ id \in DOMAIN feed /\ feed[id].hash = hash
  /\ \E record \in stored :
       /\ feed[id].cid = {record}
       /\ record.signed_payload = hash /\ record.tee_attestation = {signature}

RunInv ==
  /\ run = [pools |-> run.pools, text |-> run.text, signature |-> run.signature,
            record |-> run.record, id |-> run.id]
  /\ run.signature \in Signatures \cup {NoSignature}
  /\ run.text \subseteq Texts /\ run.record \subseteq stored
  /\ stage \in {"decided", "upload", "commit"} =>
       \E text \in Texts : run.text = {text} /\ Reads[text] # Unreadable
  /\ stage \in {"upload", "commit"} =>
       \E text \in Texts : \E record \in stored :
         /\ run.text = {text} /\ run.record = {record}
         /\ Recorded(record, text, run.signature)
         /\ Reads[text].action \in {"swap", "rebalance"}
  /\ stage = "commit" =>
       run.id \in DOMAIN feed /\ feed[run.id].cid = run.record /\ feed[run.id].hash = run.text

SettlingInv == \A s \in settling : OnRecord(s.id, s.hash, s.signature)

TradedInv ==
  /\ IsSequence(trades)
  /\ \A k \in DOMAIN trades : trades[k].id \in DOMAIN feed

ScriptInv ==
  \/ script = NoScript \/ script \in Injections
  \/ script.name = "after" /\ script.left = << ScriptRecord({}, {Random}, "tampered") >>

HistoryInv ==
  /\ IsSequence(feed) /\ Len(feed) <= MaxFeed
  /\ settled \cup overdue \cup reported \subseteq DOMAIN feed
  /\ \A record \in stored : record.policy_root \in {PolicyRoot, DemoRoot}

EvidenceInv ==
  /\ HistoryInv /\ RunInv /\ SettlingInv /\ TradedInv /\ ScriptInv
  /\ AttestedVerifies /\ TradeOnRecord

Grows ==
  /\ stored \subseteq stored'
  /\ \A id \in DOMAIN feed : id \in DOMAIN feed' /\ feed'[id] = feed[id]
-----------------------------------------------------------------------------
\* Appending to a sequence adds one element and keeps the others.
LEMMA Appended ==
  ASSUME NEW s, IsSequence(s), NEW e
  PROVE  /\ IsSequence(Append(s, e))
         /\ DOMAIN s = 1 .. Len(s) /\ Len(s) \in Nat
         /\ Len(Append(s, e)) = Len(s) + 1
         /\ DOMAIN Append(s, e) = DOMAIN s \cup {Len(s) + 1}
         /\ Append(s, e)[Len(s) + 1] = e
         /\ \A k \in DOMAIN s : Append(s, e)[k] = s[k]
<1>1. PICK S : s \in Seq(S)
  BY DEF IsSequence
<1> DEFINE T == S \cup {e}
<1>2. s \in Seq(T) /\ e \in T
  BY <1>1
<1>3. Append(s, e) \in Seq(T)
  BY <1>2
<1>4. DOMAIN s = 1 .. Len(s) /\ Len(s) \in Nat /\ Len(Append(s, e)) = Len(s) + 1
  BY <1>2
<1>5. DOMAIN Append(s, e) = 1 .. Len(s) + 1
  BY <1>3, <1>4
<1>6. Append(s, e)[Len(s) + 1] = e /\ \A k \in 1 .. Len(s) : Append(s, e)[k] = s[k]
  BY <1>2
<1>. QED BY <1>3, <1>4, <1>5, <1>6 DEF IsSequence

\* Whatever commits a decision appends it to the feed.
LEMMA CommittedGrows ==
  ASSUME IsSequence(feed), Len(feed) <= MaxFeed, NEW hash, NEW cid, NEW who,
         MayCommit, Committed(hash, cid, who)
  PROVE  /\ IsSequence(feed') /\ Len(feed') <= MaxFeed
         /\ DOMAIN feed \subseteq DOMAIN feed'
         /\ \A id \in DOMAIN feed : feed'[id] = feed[id]
         /\ DecisionId \in DOMAIN feed'
         /\ feed'[DecisionId].hash = hash /\ feed'[DecisionId].cid = cid
<1> DEFINE e == [hash |-> hash, cid |-> cid, who |-> who]
<1>1. feed' = Append(feed, e) /\ Len(feed) < MaxFeed /\ MaxFeed \in Nat
  BY EvidenceAssumption DEF Committed, MayCommit
<1>. QED BY <1>1, Appended DEF DecisionId

\* What is on record stays there while storage and the feed grow.
LEMMA OnRecordStays ==
  ASSUME Grows, NEW id, NEW hash, NEW signature, OnRecord(id, hash, signature)
  PROVE  OnRecord(id, hash, signature)'
  BY DEF Grows, OnRecord

\* Whatever verifies now verifies later.
LEMMA VerifiedStays ==
  ASSUME Grows, NEW id \in DOMAIN feed, Verified(id)
  PROVE  Verified(id)'
<1>1. PICK record \in feed[id].cid \cap stored : VerifyEvidence(record, feed[id].hash)
  BY DEF Verified, Fetched
<1>2. record \in feed'[id].cid \cap stored' /\ VerifyEvidence(record, feed'[id].hash)
  BY <1>1 DEF Grows
<1>. QED BY <1>2 DEF Verified, Fetched

\* What has been said of trades stays true of them.
LEMMA TradesStay ==
  ASSUME Grows, TradedInv, TradeOnRecord, UNCHANGED trades
  PROVE  TradedInv' /\ TradeOnRecord'
<1>1. TradedInv'
  BY DEF TradedInv, Grows
<1>2. ASSUME NEW k \in DOMAIN trades'
      PROVE  \E record \in feed'[trades'[k].id].cid \cap stored' :
               /\ record.policy_root = PolicyRoot
               /\ \E text \in record.signed_payload :
                    /\ feed'[trades'[k].id].hash = {text}
                    /\ Reads[text].value = trades'[k].value /\ Reads[text].pool = PoolName
                    /\ Reads[text].action \in {"swap", "rebalance"}
  <2>1. trades' = trades /\ k \in DOMAIN trades /\ trades[k].id \in DOMAIN feed
    BY <1>2 DEF TradedInv
  <2>2. PICK record \in feed[trades[k].id].cid \cap stored :
          /\ record.policy_root = PolicyRoot
          /\ \E text \in record.signed_payload :
               /\ feed[trades[k].id].hash = {text}
               /\ Reads[text].value = trades[k].value /\ Reads[text].pool = PoolName
               /\ Reads[text].action \in {"swap", "rebalance"}
    BY <2>1 DEF TradeOnRecord, Fetched
  <2>3. feed'[trades[k].id] = feed[trades[k].id] /\ stored \subseteq stored'
    BY <2>1 DEF Grows
  <2>. QED BY <2>1, <2>2, <2>3
<1>. QED BY <1>1, <1>2 DEF TradeOnRecord, Fetched

\* A step that leaves the iteration alone, or ends it, keeps what is said of it.
LEMMA RunStays ==
  ASSUME Grows, RunInv, UNCHANGED <<stage, run>> \/ EndIteration
  PROVE  RunInv'
<1>1. CASE UNCHANGED <<stage, run>>
  <2>1. run' = run /\ stage' = stage
    BY <1>1
  <2>. QED BY <2>1 DEF RunInv, Recorded, Grows
<1>2. CASE EndIteration
  BY <1>2 DEF EndIteration, Blank, RunInv
<1>. QED BY <1>1, <1>2
-----------------------------------------------------------------------------
\* What the agent uploads, and what a script has left to upload, names a policy
\* root of its own.
LEMMA UploadedRoots ==
  ASSUME HistoryInv, NEW record, record.policy_root \in {PolicyRoot, DemoRoot},
         Uploaded(record) \/ UploadFailed(record)
  PROVE  /\ stored \subseteq stored'
         /\ \A r \in stored' : r.policy_root \in {PolicyRoot, DemoRoot}
  BY DEF Uploaded, UploadFailed, HistoryInv

LEMMA ScriptRecords ==
  ASSUME ScriptInv, script # NoScript
  PROVE  Head(script.left).policy_root \in {PolicyRoot, DemoRoot}
<1>1. CASE script \in Injections
  BY <1>1 DEF Injections, ScriptRecord
<1>2. CASE script.left = << ScriptRecord({}, {Random}, "tampered") >>
  BY <1>2 DEF ScriptRecord
<1>. QED BY <1>1, <1>2 DEF ScriptInv

\* Storage and the feed grow with every step, and settlements and reports are
\* of decisions.
LEMMA HistoryNext ==
  ASSUME EvidenceInv, [EvidenceNext]_evidenceVars
  PROVE  Grows /\ HistoryInv'
<1> USE DEF EvidenceInv
<1>1. ASSUME stored \subseteq stored', UNCHANGED <<feed, settled, overdue, reported>>,
             \A r \in stored' : r.policy_root \in {PolicyRoot, DemoRoot}
      PROVE  Grows /\ HistoryInv'
  BY <1>1 DEF Grows, HistoryInv
<1>2. ASSUME UNCHANGED <<stored, settled, overdue, reported>>, MayCommit,
             NEW hash, NEW cid, NEW who, Committed(hash, cid, who)
      PROVE  Grows /\ HistoryInv'
  <2>1. IsSequence(feed)' /\ Len(feed') <= MaxFeed /\ DOMAIN feed \subseteq DOMAIN feed'
        /\ \A id \in DOMAIN feed : feed'[id] = feed[id]
    BY <1>2, CommittedGrows DEF HistoryInv, IsSequence
  <2>. QED BY <1>2, <2>1 DEF Grows, HistoryInv
<1>3. ASSUME UNCHANGED <<stored, feed>>,
             settled' \cup overdue' \cup reported' \subseteq DOMAIN feed
      PROVE  Grows /\ HistoryInv'
  BY <1>3 DEF Grows, HistoryInv
<1>4. ASSUME UNCHANGED <<stored, feed, settled, overdue, reported>>
      PROVE  Grows /\ HistoryInv'
  BY <1>3, <1>4 DEF HistoryInv
<1>5. CASE FetchPolicyConstraints \/ FetchMarketData \/ RequestDecision \/ ExecuteTrade
           \/ OwnerResumes \/ UNCHANGED evidenceVars
  BY <1>4, <1>5
  DEF FetchPolicyConstraints, FetchMarketData, RequestDecision, ExecuteTrade, OwnerResumes,
      evidenceVars, chainVars
<1>6. CASE UploadRecord
  <2>1. UNCHANGED <<feed, settled, overdue, reported>>
    BY <1>6 DEF UploadRecord, chainVars
  <2>2. CASE UNCHANGED stored
    BY <2>1, <2>2, <1>4
  <2>3. CASE ~UNCHANGED stored
    <3>1. PICK text \in run.text :
            LET record == RecordOf(text, run.signature,
                                   [value_check |-> Reads[text].value <= MaxValue,
                                    pool_check |-> Reads[text].pool \in run.pools])
            IN Uploaded(record) \/ UploadFailed(record)
      BY <1>6, <2>3, Zenon DEF UploadRecord
    <3> DEFINE record == RecordOf(text, run.signature,
                                  [value_check |-> Reads[text].value <= MaxValue,
                                   pool_check |-> Reads[text].pool \in run.pools])
    <3>2. record.policy_root \in {PolicyRoot, DemoRoot}
      BY DEF RecordOf
    <3>3. stored \subseteq stored' /\ \A r \in stored' : r.policy_root \in {PolicyRoot, DemoRoot}
      BY <3>1, <3>2, UploadedRoots
    <3>. QED BY <2>1, <3>3, <1>1
  <2>. QED BY <2>2, <2>3
<1>7. CASE CommitDecision
  <2>1. UNCHANGED <<stored, settled, overdue, reported>>
    BY <1>7 DEF CommitDecision
  <2>2. CASE UNCHANGED feed
    BY <2>1, <2>2, <1>4
  <2>3. CASE ~UNCHANGED feed
    <3>1. MayCommit /\ \E record \in run.record : Committed(ContentHash(record), {record}, "agent")
      BY <1>7, <2>3 DEF CommitDecision
    <3>. QED BY <2>1, <3>1, <1>2
  <2>. QED BY <2>2, <2>3
<1>8. CASE SettleAsync
  <2>1. UNCHANGED <<stored, feed, overdue, reported>>
    BY <1>8 DEF SettleAsync
  <2>2. settled' \subseteq settled \cup DOMAIN feed
    BY <1>8 DEF SettleAsync, MaySettle
  <2>. QED BY <2>1, <2>2, <1>3 DEF HistoryInv
<1>9. CASE RouteCommits
  BY <1>9, <1>2 DEF RouteCommits
<1>10. CASE StartScript
  <2>1. UNCHANGED <<feed, settled, overdue, reported>>
    BY <1>10 DEF StartScript, chainVars
  <2>2. PICK injection \in Injections :
          Uploaded(Head(injection.left)) \/ UploadFailed(Head(injection.left))
    BY <1>10 DEF StartScript
  <2>3. Head(injection.left).policy_root \in {PolicyRoot, DemoRoot}
    BY DEF Injections, ScriptRecord
  <2>4. stored \subseteq stored' /\ \A r \in stored' : r.policy_root \in {PolicyRoot, DemoRoot}
    BY <2>2, <2>3, UploadedRoots
  <2>. QED BY <2>1, <2>4, <1>1
<1>11. CASE ScriptCommits
  <2>1. UNCHANGED <<stored, settled, overdue, reported>>
    BY <1>11 DEF ScriptCommits
  <2>2. CASE UNCHANGED feed
    BY <2>1, <2>2, <1>4
  <2>3. CASE ~UNCHANGED feed
    <3>1. MayCommit /\ Committed(ContentHash(Head(script.left)), {Head(script.left)}, script.name)
      BY <1>11, <2>3, Zenon DEF ScriptCommits
    <3>. QED BY <2>1, <3>1, <1>2
  <2>. QED BY <2>2, <2>3
<1>12. CASE ScriptEnds
  <2>1. UNCHANGED <<feed, settled, overdue, reported>>
    BY <1>12 DEF ScriptEnds, chainVars
  <2>2. script # NoScript /\ (Uploaded(Head(script.left)) \/ UploadFailed(Head(script.left)))
    BY <1>12 DEF ScriptEnds, NoScript
  <2>3. stored \subseteq stored' /\ \A r \in stored' : r.policy_root \in {PolicyRoot, DemoRoot}
    BY <2>2, ScriptRecords, UploadedRoots
  <2>. QED BY <2>1, <2>3, <1>1
<1>13. CASE Expire
  BY <1>13, <1>3 DEF Expire, HistoryInv, chainVars
<1>14. CASE TowerSettles
  BY <1>14, <1>3 DEF TowerSettles, HistoryInv
<1>15. CASE \E id \in 1 .. MaxFeed : TowerReports(id) \/ TowerDespairs(id)
  BY <1>15, <1>3 DEF TowerReports, TowerDespairs, ReportFailure, HistoryInv
<1>. QED
  BY <1>5, <1>6, <1>7, <1>8, <1>9, <1>10, <1>11, <1>12, <1>13, <1>14, <1>15 DEF EvidenceNext

\* A script has at most its second record left.
LEMMA ScriptNext ==
  ASSUME ScriptInv, [EvidenceNext]_evidenceVars
  PROVE  ScriptInv'
<1>1. CASE StartScript
  BY <1>1 DEF StartScript, ScriptInv
<1>2. CASE ScriptCommits
  <2>1. script \in Injections
    BY <1>2 DEF ScriptCommits, ScriptInv, NoScript
  <2>2. \/ script' = NoScript
        \/ /\ Tail(script.left) # << >>
           /\ script' = [name |-> "after", left |-> Tail(script.left)]
    <3>1. \/ script' = IF Tail(script.left) = << >> THEN NoScript
                      ELSE [name |-> "after", left |-> Tail(script.left)]
          \/ script' = NoScript
      <4> HIDE DEF NoScript
      <4>. QED BY <1>2, Zenon DEF ScriptCommits
    <3>2. CASE Tail(script.left) = << >>
      BY <3>1, <3>2
    <3>3. CASE Tail(script.left) # << >>
      BY <3>1, <3>3
    <3>. QED BY <3>2, <3>3
  <2>3. Tail(script.left) # << >> =>
          Tail(script.left) = << ScriptRecord({}, {Random}, "tampered") >>
    <3>1. \A a, b : Tail(<<a>>) = << >> /\ Tail(<<a, b>>) = <<b>>
      OBVIOUS
    <3>2. \/ \E a : script.left = <<a>>
          \/ \E a : script.left = << a, ScriptRecord({}, {Random}, "tampered") >>
      BY <2>1 DEF Injections
    <3>. QED BY <3>1, <3>2
  <2>4. script' = [name |-> "after", left |-> Tail(script.left)]
          => script'.name = "after" /\ script'.left = Tail(script.left)
    OBVIOUS
  <2>5. \/ script' = NoScript
        \/ /\ script'.name = "after"
           /\ script'.left = << ScriptRecord({}, {Random}, "tampered") >>
    <3> HIDE DEF NoScript
    <3>. QED BY <2>2, <2>3, <2>4
  <2>. QED BY <2>5 DEF ScriptInv
<1>3. CASE ScriptEnds
  BY <1>3 DEF ScriptEnds, ScriptInv
<1>4. CASE UNCHANGED script
  BY <1>4 DEF ScriptInv
<1>. QED
  BY <1>1, <1>2, <1>3, <1>4
  DEF EvidenceNext, FetchPolicyConstraints, FetchMarketData, RequestDecision, UploadRecord,
      CommitDecision, ExecuteTrade, SettleAsync, RouteCommits, Expire, TowerSettles,
      TowerReports, TowerDespairs, ReportFailure, OwnerResumes, evidenceVars

\* From the upload on, what the iteration keeps is what storage and the feed hold.
LEMMA RunNext ==
  ASSUME EvidenceInv, Grows, [EvidenceNext]_evidenceVars
  PROVE  RunInv'
<1> USE DEF EvidenceInv
<1> DEFINE Shape == run = [pools |-> run.pools, text |-> run.text, signature |-> run.signature,
                           record |-> run.record, id |-> run.id]
<1>0. Shape
  BY DEF RunInv
<1>1. CASE FetchPolicyConstraints
  <2>1. PICK pools : run' = [run EXCEPT !.pools = pools]
    BY <1>1 DEF FetchPolicyConstraints
  <2>2. run' = [pools |-> pools, text |-> run.text, signature |-> run.signature,
                record |-> run.record, id |-> run.id]
    BY <1>0, <2>1
  <2>3. stage' = "market" /\ UNCHANGED stored
    BY <1>1 DEF FetchPolicyConstraints
  <2>. QED BY <2>2, <2>3 DEF RunInv
<1>2. CASE FetchMarketData
  <2>1. CASE EndIteration
    BY <2>1, RunStays
  <2>2. CASE stage' = "inference" /\ UNCHANGED <<run, stored>>
    BY <2>2 DEF RunInv
  <2>. QED BY <1>2, <2>1, <2>2 DEF FetchMarketData
<1>3. CASE RequestDecision
  <2>1. CASE EndIteration
    BY <2>1, RunStays
  <2>2. CASE ~EndIteration
    <3>1. PICK text \in Texts \ {BadText}, own, fetched \in Signatures \cup {NoSignature} :
            /\ Reads[text] # Unreadable
            /\ run' = [run EXCEPT !.text = {text}, !.signature = TeeSignature(own, fetched)]
            /\ stage' = "decided"
      BY <1>3, <2>2 DEF RequestDecision
    <3>2. TeeSignature(own, fetched) \in Signatures \cup {NoSignature}
      BY DEF TeeSignature
    <3>3. run' = [pools |-> run.pools, text |-> {text}, signature |-> TeeSignature(own, fetched),
                  record |-> run.record, id |-> run.id]
      BY <1>0, <3>1
    <3>4. UNCHANGED stored
      BY <1>3 DEF RequestDecision
    <3>5. run.record \subseteq stored'
      BY <3>4 DEF RunInv
    <3>6. /\ run'.text = {text} /\ run'.signature = TeeSignature(own, fetched)
          /\ run'.record = run.record
          /\ run' = [pools |-> run'.pools, text |-> run'.text, signature |-> run'.signature,
                     record |-> run'.record, id |-> run'.id]
      BY <3>3
    <3>. QED BY <3>1, <3>2, <3>5, <3>6 DEF RunInv
  <2>. QED BY <2>1, <2>2
<1>4. CASE UploadRecord
  <2>1. CASE EndIteration
    BY <2>1, RunStays
  <2>2. CASE ~EndIteration
    <3>1. PICK text \in run.text :
            LET record == RecordOf(text, run.signature,
                                   [value_check |-> Reads[text].value <= MaxValue,
                                    pool_check |-> Reads[text].pool \in run.pools])
            IN /\ Reads[text].action # "hold" /\ Uploaded(record)
               /\ run' = [run EXCEPT !.record = {record}] /\ stage' = "upload"
      BY <1>4, <2>2, Zenon DEF UploadRecord
    <3> DEFINE record == RecordOf(text, run.signature,
                                  [value_check |-> Reads[text].value <= MaxValue,
                                   pool_check |-> Reads[text].pool \in run.pools])
    <3>2. stage = "decided"
      BY <1>4 DEF UploadRecord
    <3>3. run.text = {text} /\ text \in Texts /\ Reads[text] # Unreadable
      BY <3>1, <3>2 DEF RunInv
    <3>4. Reads[text].action \in {"swap", "rebalance"}
      BY <3>1, <3>3, EvidenceAssumption
    <3>5. record \in stored' /\ Recorded(record, text, run.signature)
      BY <3>1 DEF Uploaded, Recorded, RecordOf
    <3> HIDE DEF record
    <3>6. run' = [pools |-> run.pools, text |-> run.text, signature |-> run.signature,
                  record |-> {record}, id |-> run.id] /\ stage' = "upload"
      BY <1>0, <3>1 DEF record
    <3>. QED BY <3>3, <3>4, <3>5, <3>6 DEF RunInv, Recorded
  <2>. QED BY <2>1, <2>2
<1>5. CASE CommitDecision
  <2>1. CASE EndIteration
    BY <2>1, RunStays
  <2>2. CASE ~EndIteration
    <3>1. /\ MayCommit /\ stage = "upload" /\ stage' = "commit" /\ UNCHANGED stored
          /\ \E r \in run.record : Committed(ContentHash(r), {r}, "agent")
          /\ run' = [run EXCEPT !.id = DecisionId]
      BY <1>5, <2>2 DEF CommitDecision
    <3>2. PICK text \in Texts :
            \E r \in stored :
              /\ run.text = {text} /\ run.record = {r} /\ Recorded(r, text, run.signature)
              /\ Reads[text].action \in {"swap", "rebalance"}
      BY <3>1 DEF RunInv
    <3>3. PICK r \in stored :
            /\ run.text = {text} /\ run.record = {r} /\ Recorded(r, text, run.signature)
            /\ Reads[text].action \in {"swap", "rebalance"}
      BY <3>2
    <3>4. Committed({text}, {r}, "agent")
      BY <3>1, <3>3 DEF ContentHash, Recorded
    <3>5. DecisionId \in DOMAIN feed' /\ feed'[DecisionId].hash = {text}
          /\ feed'[DecisionId].cid = {r}
      BY <3>1, <3>4, CommittedGrows DEF HistoryInv
    <3>6. run' = [pools |-> run.pools, text |-> run.text, signature |-> run.signature,
                  record |-> run.record, id |-> DecisionId]
      BY <1>0, <3>1
    <3>7. run.signature \in Signatures \cup {NoSignature} /\ Reads[text] # Unreadable
          /\ stored' = stored
      BY <3>1, <3>3 DEF RunInv
    <3> HIDE DEF Shape
    <3>. QED BY <3>1, <3>3, <3>5, <3>6, <3>7 DEF RunInv, Recorded
  <2>. QED BY <2>1, <2>2
<1>6. CASE ExecuteTrade
  BY <1>6, RunStays DEF ExecuteTrade
<1>7. CASE UNCHANGED <<stage, run>>
  BY <1>7, RunStays
<1>. QED
  BY <1>1, <1>2, <1>3, <1>4, <1>5, <1>6, <1>7
  DEF EvidenceNext, SettleAsync, RouteCommits, StartScript, ScriptCommits, ScriptEnds, Expire,
      TowerSettles, TowerReports, TowerDespairs, ReportFailure, OwnerResumes, evidenceVars, agentVars

\* What the agent is about to settle, and what it has traded, is on record.
LEMMA TradeNext ==
  ASSUME EvidenceInv, Grows, [EvidenceNext]_evidenceVars
  PROVE  SettlingInv' /\ TradedInv' /\ TradeOnRecord'
<1> USE DEF EvidenceInv
<1>1. ASSUME UNCHANGED trades, settling' \subseteq settling
      PROVE  SettlingInv' /\ TradedInv' /\ TradeOnRecord'
  <2>1. SettlingInv'
    BY <1>1, OnRecordStays DEF SettlingInv
  <2>. QED BY <2>1, <1>1, TradesStay
<1>2. CASE ExecuteTrade
  <2>1. UNCHANGED <<stored, feed>> /\ stage = "commit"
    BY <1>2 DEF ExecuteTrade, chainVars
  <2>2. CASE UNCHANGED <<trades, settling>>
    BY <2>2, <1>1
  <2>3. CASE ~UNCHANGED <<trades, settling>>
    <3>1. PICK text \in run.text, record \in run.record :
            /\ Reads[text].pool = PoolName
            /\ trades' = Append(trades, [id |-> run.id, value |-> Reads[text].value])
            /\ settling' = settling \cup
                 {[id |-> run.id, hash |-> ContentHash(record), signature |-> run.signature]}
      BY <1>2, <2>3 DEF ExecuteTrade
    <3>2. /\ text \in Texts /\ record \in stored
          /\ run.text = {text} /\ run.record = {record}
          /\ Recorded(record, text, run.signature)
          /\ Reads[text].action \in {"swap", "rebalance"}
          /\ run.id \in DOMAIN feed /\ feed[run.id].cid = {record} /\ feed[run.id].hash = {text}
      BY <2>1, <3>1 DEF RunInv
    <3>3. OnRecord(run.id, ContentHash(record), run.signature)
      BY <3>2 DEF OnRecord, ContentHash, Recorded
    <3>4. SettlingInv'
      <4>1. ASSUME NEW s \in settling'
            PROVE  OnRecord(s.id, s.hash, s.signature)
        <5>1. CASE s \in settling
          BY <5>1 DEF SettlingInv
        <5>2. CASE s = [id |-> run.id, hash |-> ContentHash(record), signature |-> run.signature]
          BY <5>2, <3>3
        <5>. QED BY <3>1, <4>1, <5>1, <5>2
      <4>2. \A s \in settling' : OnRecord(s.id, s.hash, s.signature)'
        BY <4>1, OnRecordStays
      <4>. QED BY <4>2 DEF SettlingInv
    <3> DEFINE e == [id |-> run.id, value |-> Reads[text].value]
    <3>5. /\ IsSequence(trades')
          /\ DOMAIN trades' = DOMAIN trades \cup {Len(trades) + 1}
          /\ trades'[Len(trades) + 1] = e
          /\ \A k \in DOMAIN trades : trades'[k] = trades[k]
      BY <3>1, Appended DEF TradedInv
    <3>6. TradedInv'
      BY <2>1, <3>2, <3>5 DEF TradedInv, IsSequence
    <3>7. ASSUME NEW k \in DOMAIN trades'
          PROVE  \E r \in feed[trades'[k].id].cid \cap stored :
                   /\ r.policy_root = PolicyRoot
                   /\ \E t \in r.signed_payload :
                        /\ feed[trades'[k].id].hash = {t}
                        /\ Reads[t].value = trades'[k].value /\ Reads[t].pool = PoolName
                        /\ Reads[t].action \in {"swap", "rebalance"}
      <4>1. CASE k \in DOMAIN trades
        BY <4>1, <3>5 DEF TradeOnRecord, Fetched
      <4>2. CASE k = Len(trades) + 1
        <5>1. trades'[k].id = run.id /\ trades'[k].value = Reads[text].value
          BY <4>2, <3>5
        <5>2. record \in feed[run.id].cid \cap stored
              /\ record.policy_root = PolicyRoot /\ text \in record.signed_payload
          BY <3>2 DEF Recorded
        <5>. QED BY <3>1, <3>2, <5>1, <5>2
      <4>. QED BY <3>5, <3>7, <4>1, <4>2
    <3>8. TradeOnRecord'
      BY <2>1, <3>7, Zenon DEF TradeOnRecord, Fetched
    <3>. QED BY <3>4, <3>6, <3>8
  <2>. QED BY <2>2, <2>3
<1>3. CASE SettleAsync
  BY <1>3, <1>1 DEF SettleAsync
<1>4. CASE UNCHANGED <<trades, settling>>
  BY <1>4, <1>1
<1>. QED
  BY <1>2, <1>3, <1>4
  DEF EvidenceNext, FetchPolicyConstraints, FetchMarketData, RequestDecision, UploadRecord,
      CommitDecision, RouteCommits, StartScript, ScriptCommits, ScriptEnds, Expire, TowerSettles,
      TowerReports, TowerDespairs, ReportFailure, OwnerResumes, evidenceVars, agentVars

\* Who settles, settles with what is on record, or has verified it.
LEMMA AttestedNext ==
  ASSUME EvidenceInv, Grows, [EvidenceNext]_evidenceVars
  PROVE  AttestedVerifies'
<1> USE DEF EvidenceInv
<1>0. \A id \in settled : id \in DOMAIN feed /\ Verified(id)
  BY DEF HistoryInv, AttestedVerifies
<1>1. \A id \in settled : Verified(id)'
  BY <1>0, VerifiedStays
<1>2. ASSUME NEW id \in DOMAIN feed, Verified(id), settled' = settled \cup {id}
      PROVE  AttestedVerifies'
  <2>1. Verified(id)'
    BY <1>2, VerifiedStays
  <2>. QED BY <1>1, <1>2, <2>1 DEF AttestedVerifies
<1>3. CASE UNCHANGED settled
  BY <1>1, <1>3 DEF AttestedVerifies
<1>4. CASE SettleAsync
  <2>1. CASE ~UNCHANGED settled
    <3>1. PICK s \in settling : MaySettle(s.id, s.hash, s.signature) /\ settled' = settled \cup {s.id}
      BY <1>4, <2>1 DEF SettleAsync
    <3>2. PICK record \in stored :
            /\ feed[s.id].cid = {record}
            /\ record.signed_payload = s.hash /\ record.tee_attestation = {s.signature}
      BY <3>1 DEF SettlingInv, OnRecord
    <3>3. VerifyEvidence(record, feed[s.id].hash)
      BY <3>1, <3>2 DEF MaySettle, VerifyEvidence
    <3>4. s.id \in DOMAIN feed /\ Verified(s.id)
      BY <3>1, <3>2, <3>3 DEF Verified, Fetched, MaySettle
    <3>. QED BY <3>1, <3>4, <1>2
  <2>. QED BY <2>1, <1>3
<1>5. CASE TowerSettles
  <2>1. PICK id \in DOMAIN feed \ (settled \cup reported) :
          /\ \E record \in Fetched(feed[id].cid) : VerifyEvidence(record, feed[id].hash)
          /\ settled' = settled \cup {id}
    BY <1>5 DEF TowerSettles
  <2>. QED BY <2>1, <1>2 DEF Verified
<1>. QED
  BY <1>3, <1>4, <1>5
  DEF EvidenceNext, FetchPolicyConstraints, FetchMarketData, RequestDecision, UploadRecord,
      CommitDecision, ExecuteTrade, RouteCommits, StartScript, ScriptCommits, ScriptEnds, Expire,
      TowerReports, TowerDespairs, ReportFailure, OwnerResumes, evidenceVars, chainVars
-----------------------------------------------------------------------------
LEMMA EvidenceInvInit ==
  EvidenceInit => EvidenceInv
<1> SUFFICES ASSUME EvidenceInit PROVE EvidenceInv
  OBVIOUS
<1> USE DEF EvidenceInit
<1>1. IsSequence(<< >>) /\ DOMAIN << >> = {} /\ Len(<< >>) = 0
  <2>1. << >> \in Seq({})
    OBVIOUS
  <2>. QED BY <2>1 DEF IsSequence
<1>2. HistoryInv
  BY <1>1, EvidenceAssumption DEF HistoryInv
<1>3. RunInv
  BY DEF RunInv, Blank
<1>4. SettlingInv /\ TradedInv /\ ScriptInv
  BY <1>1 DEF SettlingInv, TradedInv, ScriptInv
<1>5. AttestedVerifies /\ TradeOnRecord
  BY <1>1 DEF AttestedVerifies, TradeOnRecord
<1>. QED BY <1>2, <1>3, <1>4, <1>5 DEF EvidenceInv

LEMMA EvidenceInvNext ==
  EvidenceInv /\ [EvidenceNext]_evidenceVars => EvidenceInv'
<1> SUFFICES ASSUME EvidenceInv, [EvidenceNext]_evidenceVars PROVE EvidenceInv'
  OBVIOUS
<1>1. Grows /\ HistoryInv'
  BY HistoryNext
<1>. QED
  BY <1>1, ScriptNext, RunNext, TradeNext, AttestedNext DEF EvidenceInv

LEMMA EvidenceInvariant == EvidenceSpec => []EvidenceInv
  BY EvidenceInvInit, EvidenceInvNext, PTL DEF EvidenceSpec

\* What is settled, reported or traded was committed, whatever texts, signatures and
\* policies there are.
THEOREM EvidenceWellTyped == EvidenceSpec => []EvidenceTypeOK
<1>1. EvidenceInv => EvidenceTypeOK
  BY DEF EvidenceInv, HistoryInv, RunInv, SettlingInv, OnRecord, TradedInv, EvidenceTypeOK
<1>. QED BY <1>1, EvidenceInvariant, PTL

\* Whatever is attested on chain passes the watchtower's check at any later time.
THEOREM AttestedCanBeChecked == EvidenceSpec => []AttestedVerifies
<1>1. EvidenceInv => AttestedVerifies
  BY DEF EvidenceInv
<1>. QED BY <1>1, EvidenceInvariant, PTL

\* Whatever the agent trades was put on record, signed and committed before.
THEOREM TradesAreOnRecord == EvidenceSpec => []TradeOnRecord
<1>1. EvidenceInv => TradeOnRecord
  BY DEF EvidenceInv
<1>. QED BY <1>1, EvidenceInvariant, PTL
=============================================================================
