-------------------------- MODULE VelaAgentProofs --------------------------
(***************************************************************************)
(* The agent's loop, the execution route and the terminal's retries, for   *)
(* any number of attempts, decisions, faults and transactions in flight.   *)
(*                                                                         *)
(* A decision goes from the feed to a flow, from the flow to a swap in the *)
(* pool and from there to the swaps that took effect. The invariant says   *)
(* that it is at one of these places at a time, and that whoever waits for *)
(* a transaction is waited for by one, even after lost receipts, restarts  *)
(* and a second request of the terminal.                                   *)
(*                                                                         *)
(* A second invariant counts what the loop has lost sight of: each restart *)
(* or lost receipt pays for one trade that comes too soon after another.   *)
(***************************************************************************)
EXTENDS VelaAgent, SequenceTheorems, FiniteSetTheorems, TLAPS
-----------------------------------------------------------------------------
(* The invariant.                                                          *)

OnFeed(id, f) == Exists(Fund, id) /\ decisions[Fund][id].decisionHash = HashOf(f)

Traded(id) == \E k \in 1 .. Len(swaps) : swaps[k].id = id

\* Flow f has a decision and has not sent its swap.
Ready(f) == decision[f] # NoId /\ stage[f] # "swapping"

FlowOK(f) ==
  /\ stage[f] \notin {"committing", "swapping"} => receipt[f] = "none"
  /\ (decision[f] # NoId) <=> \/ stage[f] \in {"swap", "swapping"}
                              \/ stage[f] = "committing" /\ receipt[f] = "success"
  /\ decision[f] # NoId => OnFeed(decision[f], f)
  /\ stage[f] = "swapping" /\ receipt[f] = "success" => Traded(decision[f])
  /\ Ready(f) => /\ ~Traded(decision[f])
                 /\ \A k \in 1 .. Len(pool) :
                      pool[k].kind = "swap" => pool[k].id # decision[f]

FlowInv ==
  /\ \A f \in Flows : FlowOK(f)
  /\ \A f, g \in Flows : decision[f] # NoId /\ decision[f] = decision[g] => f = g

\* What flow f waits for while tx is in the pool.
WaitedFor(tx) ==
  /\ receipt[tx.by] = "none"
  /\ \/ tx.kind = "commit" /\ stage[tx.by] = "committing"
     \/ tx.kind = "swap" /\ stage[tx.by] = "swapping" /\ tx.id = decision[tx.by]

TxOK(tx) ==
  /\ tx.awaited => WaitedFor(tx)
  /\ tx.kind = "swap" => OnFeed(tx.id, tx.by) /\ ~Traded(tx.id)
  /\ tx.kind = "settle" => tx.id \in Ids /\ Traded(tx.id)

PoolInv ==
  /\ \A k \in 1 .. Len(pool) : TxOK(pool[k])
  /\ \A k, l \in 1 .. Len(pool) :
       /\ pool[k].awaited /\ pool[l].awaited /\ pool[k].by = pool[l].by => k = l
       /\ pool[k].kind = "swap" /\ pool[l].kind = "swap" /\ pool[k].id = pool[l].id => k = l

\* The next attempt of the terminal is a new request.
RetryInv ==
  /\ \A i \in 1 .. Attempts : current # 0 /\ i > current => stage[i] = "idle"
  /\ stage[1] = "idle" => current = 0 /\ \A i \in 1 .. Attempts : stage[i] = "idle"

TradeInv ==
  /\ CommittedBeforeCapital
  /\ AttestedWasTraded
  /\ \A id \in settling : Traded(id)

\* The types, without those that the terminal and the clock alone write.
FlowTypes ==
  /\ stage \in [Flows -> Stages]
  /\ decision \in [Flows -> Ids \cup {NoId}]
  /\ receipt \in [Flows -> {"none", "success", "reverted"}]

PoolTypes == pool \in Seq(Transaction) /\ Len(pool) <= MaxPool

ChainTypes ==
  /\ swaps \in Seq(Swap)
  /\ totalDecisions \in [Vaults -> 0 .. MaxFeed]
  /\ decisions \in [Vaults -> [Ids -> DecisionRecord]]

LocalTypes ==
  /\ lastTrade \in {Never} \cup 0 .. MaxClock
  /\ settling \subseteq Ids
  /\ current \in 0 .. Attempts
  /\ clock \in 0 .. MaxClock /\ faults \in 0 .. MaxFaults

AgentInv ==
  /\ FlowTypes /\ PoolTypes /\ ChainTypes /\ LocalTypes
  /\ FlowInv /\ PoolInv /\ RetryInv /\ TradeInv

LEMMA AgentImplies ==
  AgentInv => TypeOK /\ CommittedBeforeCapital /\ AttestedWasTraded
<1> SUFFICES ASSUME AgentInv PROVE TypeOK /\ CommittedBeforeCapital /\ AttestedWasTraded
  OBVIOUS
<1>1. \A k, l \in 1 .. Len(pool) :
        pool[k].awaited /\ pool[l].awaited /\ pool[k].by = pool[l].by => k = l
  BY DEF AgentInv, PoolInv
<1>2. TypeOK
  BY <1>1 DEF AgentInv, FlowTypes, PoolTypes, ChainTypes, LocalTypes, TypeOK
<1> QED
  BY <1>2 DEF AgentInv, TradeInv

LEMMA AgentInitially == Init => AgentInv
<1> SUFFICES ASSUME Init PROVE AgentInv
  OBVIOUS
<1>1. /\ stage = [f \in Flows |-> "idle"] /\ decision = [f \in Flows |-> NoId]
      /\ receipt = [f \in Flows |-> "none"] /\ lastTrade = Never /\ settling = {}
      /\ current = 0 /\ pool = << >> /\ swaps = << >> /\ clock = 0 /\ faults = 0
      /\ totalDecisions = [v \in Vaults |-> 0]
      /\ decisions = [v \in Vaults |-> [id \in Ids |-> Unwritten]]
  BY DEF Init, FeedInit
<1>2. /\ << >> \in Seq(Transaction) /\ << >> \in Seq(Swap) /\ Len(<< >>) = 0
  BY EmptySeq
<1>3. Unwritten \in DecisionRecord /\ Unwritten.status = "Pending"
  BY DEF Unwritten, Pending, DecisionRecord
<1>4. FlowTypes
  BY <1>1 DEF FlowTypes, Stages
<1>5. PoolTypes
  BY <1>1, <1>2, AgentAssumption DEF PoolTypes
<1>6. ChainTypes
  <2>1. 0 \in 0 .. MaxFeed
    BY AgentAssumption
  <2> QED
    BY <1>1, <1>2, <1>3, <2>1 DEF ChainTypes
<1>7. LocalTypes
  BY <1>1, AgentAssumption DEF LocalTypes
<1>8. FlowInv
  BY <1>1 DEF FlowInv, FlowOK, Ready
<1>9. PoolInv
  BY <1>1, <1>2 DEF PoolInv
<1>10. RetryInv
  BY <1>1, AgentAssumption DEF RetryInv, Flows
<1>11. TradeInv
  <2>1. CommittedBeforeCapital
    BY <1>1, <1>2 DEF CommittedBeforeCapital
  <2>2. AttestedWasTraded
    BY <1>1, <1>3, AgentAssumption DEF AttestedWasTraded
  <2> QED
    BY <1>1, <2>1, <2>2 DEF TradeInv
<1> QED
  BY <1>4, <1>5, <1>6, <1>7, <1>8, <1>9, <1>10, <1>11 DEF AgentInv
-----------------------------------------------------------------------------
(* Flows that move without the chain.                                      *)

ChainKept == UNCHANGED <<totalDecisions, decisions, swaps>>

\* The transactions in the pool are as they were, but some are no longer awaited,
\* those of flow f among them.
PoolKept(f) ==
  /\ pool' \in Seq(Transaction) /\ Len(pool') = Len(pool)
  /\ \A k \in 1 .. Len(pool) :
       /\ pool'[k].kind = pool[k].kind /\ pool'[k].by = pool[k].by
       /\ pool'[k].id = pool[k].id
       /\ pool'[k].awaited => pool[k].awaited /\ pool[k].by # f

\* Flow f moves to a place where it waits for nothing, with its decision or without.
Moves(f) ==
  \E s \in Stages \ {"committing", "swapping"}, d \in {decision[f], NoId} :
    /\ (d # NoId) <=> (s = "swap")
    /\ stage' = [stage EXCEPT ![f] = s]
    /\ decision' = [decision EXCEPT ![f] = d]
    /\ receipt' = [receipt EXCEPT ![f] = "none"]

LEMMA TxType ==
  ASSUME NEW tx \in Transaction
  PROVE  /\ tx.kind \in {"commit", "swap", "settle"} /\ tx.by \in Flows
         /\ tx.id \in Ids \cup {NoId} /\ tx.awaited \in BOOLEAN
  BY DEF Transaction

LEMMA FlowMoves ==
  ASSUME AgentInv, NEW f \in Flows, Moves(f), PoolKept(f), ChainKept, Ready(f) \/ decision'[f] = NoId
  PROVE  FlowTypes' /\ PoolTypes' /\ FlowInv' /\ PoolInv'
<1>1. PICK s \in Stages \ {"committing", "swapping"}, d \in {decision[f], NoId} :
        /\ (d # NoId) <=> (s = "swap")
        /\ stage' = [stage EXCEPT ![f] = s]
        /\ decision' = [decision EXCEPT ![f] = d]
        /\ receipt' = [receipt EXCEPT ![f] = "none"]
  BY Zenon DEF Moves
<1>2. FlowTypes /\ FlowTypes'
  BY <1>1 DEF AgentInv, FlowTypes
<1>3. /\ stage'[f] = s /\ decision'[f] = d /\ receipt'[f] = "none"
      /\ \A g \in Flows : g # f => /\ stage'[g] = stage[g] /\ decision'[g] = decision[g]
                                   /\ receipt'[g] = receipt[g]
  BY <1>1, <1>2 DEF FlowTypes
<1>4. PoolTypes'
  BY DEF AgentInv, PoolTypes, PoolKept, Transaction, Flows, Ids
<1>5. /\ \A id, g : OnFeed(id, g)' <=> OnFeed(id, g)
      /\ \A id : Traded(id)' <=> Traded(id)
  BY DEF ChainKept, OnFeed, Traded, Exists, HashOf, Ids
<1>6. \A k \in 1 .. Len(pool) : pool[k] \in Transaction
  BY DEF AgentInv, PoolTypes
<1>7. ASSUME NEW g \in Flows PROVE FlowOK(g)'
  <2>1. FlowOK(g)
    BY DEF AgentInv, FlowInv
  <2>2. CASE g # f
    <3>1. /\ stage'[g] = stage[g] /\ decision'[g] = decision[g] /\ receipt'[g] = receipt[g]
      BY <1>3, <2>2
    <3>2. Ready(g)' <=> Ready(g)
      BY <3>1 DEF Ready
    <3> QED
      BY <1>5, <2>1, <3>1, <3>2 DEF FlowOK, PoolKept
  <2>3. CASE g = f
    <3>1. decision'[f] = NoId \/ (decision'[f] = decision[f] /\ Ready(f))
      BY <1>1, <1>3
    <3>2. CASE decision'[f] = NoId
      BY <1>1, <1>3, <2>3, <3>2 DEF FlowOK, Ready
    <3>3. CASE decision'[f] = decision[f] /\ Ready(f)
      BY <1>1, <1>3, <1>5, <2>1, <2>3, <3>3 DEF FlowOK, Ready, PoolKept
    <3> QED
      BY <3>1, <3>2, <3>3
  <2> QED
    BY <2>2, <2>3
<1>8. ASSUME NEW g \in Flows, NEW h \in Flows, decision'[g] # NoId, decision'[g] = decision'[h]
      PROVE  g = h
  <2>1. decision[g] = decision'[g] /\ decision[h] = decision'[h]
    BY <1>1, <1>3, <1>8
  <2> QED
    BY <1>8, <2>1 DEF AgentInv, FlowInv
<1>9. FlowInv'
  BY <1>7, <1>8 DEF FlowInv, Flows
<1>10. ASSUME NEW k \in 1 .. Len(pool') PROVE TxOK(pool[k])'
  <2>1. k \in 1 .. Len(pool) /\ TxOK(pool[k]) /\ pool[k].by \in Flows
    BY <1>6, TxType DEF PoolKept, AgentInv, PoolInv
  <2>2. /\ pool'[k].kind = pool[k].kind /\ pool'[k].by = pool[k].by
        /\ pool'[k].id = pool[k].id
        /\ pool'[k].awaited => pool[k].awaited /\ pool[k].by # f
    BY <2>1 DEF PoolKept
  <2>3. pool'[k].awaited => WaitedFor(pool[k])'
    BY <1>3, <2>1, <2>2 DEF TxOK, WaitedFor
  <2> QED
    BY <1>5, <2>1, <2>2, <2>3 DEF TxOK, Ids
<1>11. PoolInv'
  BY <1>10 DEF PoolInv, PoolKept, AgentInv
<1> QED
  BY <1>2, <1>4, <1>9, <1>11

\* A flow that waits for nothing has no transaction that is awaited.
LEMMA NothingAwaited ==
  ASSUME AgentInv, NEW f \in Flows, pool' = pool,
         stage[f] \notin {"committing", "swapping"} \/ receipt[f] # "none"
  PROVE  PoolKept(f)
<1>1. ASSUME NEW k \in 1 .. Len(pool) PROVE ~(pool[k].awaited /\ pool[k].by = f)
  BY DEF AgentInv, PoolInv, TxOK, WaitedFor
<1> QED
  BY <1>1 DEF AgentInv, PoolTypes, PoolKept

LEMMA AbandonKept ==
  ASSUME AgentInv, NEW f \in Flows, Abandon(f)
  PROVE  PoolKept(f)
<1>1. /\ pool \in Seq(Transaction) /\ Len(pool) \in Nat
      /\ \A k \in 1 .. Len(pool) : pool[k] \in Transaction
  BY LenProperties DEF AgentInv, PoolTypes
<1> DEFINE new(k) == IF pool[k].by = f THEN [pool[k] EXCEPT !.awaited = FALSE] ELSE pool[k]
<1>2. ASSUME NEW k \in 1 .. Len(pool)
      PROVE  /\ new(k) \in Transaction
             /\ new(k).kind = pool[k].kind /\ new(k).by = pool[k].by
             /\ new(k).id = pool[k].id
             /\ new(k).awaited => pool[k].awaited /\ pool[k].by # f
  BY <1>1 DEF Transaction
<1>3. pool' = [k \in 1 .. Len(pool) |-> new(k)]
  BY DEF Abandon
<1> HIDE DEF new
<1>4. pool' \in Seq(Transaction) /\ Len(pool') = Len(pool)
  BY <1>1, <1>2, <1>3
<1>5. \A k \in 1 .. Len(pool) : pool'[k] = new(k)
  BY <1>3
<1> QED
  BY <1>2, <1>4, <1>5 DEF PoolKept

\* What stays true while the chain does not move.
LEMMA ChainUnmoved ==
  ASSUME AgentInv, ChainKept
  PROVE  /\ ChainTypes' /\ CommittedBeforeCapital' /\ AttestedWasTraded'
         /\ \A id : Traded(id)' <=> Traded(id)
<1>1. ChainTypes'
  BY DEF AgentInv, ChainTypes, ChainKept, Swap, Flows, Ids, DecisionRecord
<1>2. CommittedBeforeCapital'
  BY DEF AgentInv, TradeInv, ChainKept, CommittedBeforeCapital, Exists, HashOf, Ids
<1>3. AttestedWasTraded'
  BY DEF AgentInv, TradeInv, ChainKept, AttestedWasTraded, Ids
<1> QED
  BY <1>1, <1>2, <1>3 DEF ChainKept, Traded

\* No step of a flow makes an attempt idle, or moves one that is.
LEMMA RetryKept ==
  ASSUME AgentInv, NEW f \in Flows, NEW s \in Stages,
         stage' = [stage EXCEPT ![f] = s], current' = current,
         f = Loop \/ (stage[f] # "idle" /\ s # "idle")
  PROVE  RetryInv'
<1>1. /\ stage \in [Flows -> Stages] /\ Loop \notin 1 .. Attempts /\ 1 \in 1 .. Attempts
      /\ \A i \in 1 .. Attempts : i \in Flows
  BY AgentAssumption DEF AgentInv, FlowTypes, Flows
<1>2. \A i \in 1 .. Attempts : (stage'[i] = "idle") <=> (stage[i] = "idle")
  BY <1>1
<1> QED
  BY <1>1, <1>2 DEF AgentInv, RetryInv

\* A step that moves flow f and leaves the chain and the locals of the others.
LEMMA MoveStep ==
  ASSUME AgentInv, NEW f \in Flows, Moves(f), PoolKept(f), ChainKept,
         Ready(f) \/ decision'[f] = NoId,
         f = Loop \/ (stage[f] # "idle" /\ stage'[f] # "idle"),
         current' = current, LocalTypes',
         \A id \in settling' : Traded(id)
  PROVE  AgentInv'
<1>1. FlowTypes' /\ PoolTypes' /\ FlowInv' /\ PoolInv'
  BY FlowMoves
<1>2. PICK s \in Stages : stage' = [stage EXCEPT ![f] = s]
  BY Zenon DEF Moves
<1>3. stage'[f] = s
  BY <1>2 DEF AgentInv, FlowTypes
<1>4. RetryInv'
  BY <1>2, <1>3, RetryKept
<1>5. ChainTypes' /\ TradeInv'
  BY ChainUnmoved DEF TradeInv
<1> QED
  BY <1>1, <1>4, <1>5 DEF AgentInv

\* What an ended flow, a loop back at its start and a new request have in common.
LEMMA MovesTo ==
  ASSUME NEW f \in Flows, NEW s \in Stages \ {"committing", "swapping", "swap"},
         FlowTypes, stage' = [stage EXCEPT ![f] = s], decision[f] = NoId \/ decision'[f] = NoId,
         decision' = [decision EXCEPT ![f] = NoId], receipt' = [receipt EXCEPT ![f] = "none"]
  PROVE  Moves(f) /\ decision'[f] = NoId /\ stage'[f] = s
  BY DEF Moves, FlowTypes

LEMMA EndsMove ==
  ASSUME AgentInv, NEW f \in Flows, NEW s \in {"idle", "done", "failed"}, End(f, s)
  PROVE  Moves(f) /\ decision'[f] = NoId /\ stage'[f] = s
  BY MovesTo DEF End, GoTo, AgentInv, FlowTypes, Stages

LEMMA ThrowMoves ==
  ASSUME AgentInv, NEW f \in Flows, Throw(f)
  PROVE  /\ Moves(f) /\ decision'[f] = NoId
         /\ f = Loop \/ stage'[f] # "idle"
<1>1. CASE f = Loop
  BY <1>1, EndsMove DEF Throw
<1>2. CASE f # Loop
  BY <1>2, EndsMove DEF Throw
<1> QED
  BY <1>1, <1>2

\* A flow that waits for nothing and has no decision: setting it so changes nothing.
LEMMA StageMoves ==
  ASSUME AgentInv, NEW f \in Flows, NEW s \in {"idle", "decide", "commit"},
         stage[f] \in {"idle", "decide", "commit", "done", "failed"},
         GoTo(f, s), UNCHANGED <<decision, receipt>>
  PROVE  Moves(f) /\ decision'[f] = NoId /\ stage'[f] = s
<1>1. FlowTypes /\ FlowOK(f)
  BY DEF AgentInv, FlowInv
<1>2. decision[f] = NoId /\ receipt[f] = "none"
  BY <1>1 DEF FlowOK
<1>3. /\ decision' = [decision EXCEPT ![f] = NoId] /\ receipt' = [receipt EXCEPT ![f] = "none"]
      /\ stage' = [stage EXCEPT ![f] = s]
  BY <1>1, <1>2 DEF GoTo, FlowTypes
<1> QED
  BY <1>1, <1>2, <1>3, MovesTo DEF Stages

LEMMA LoopIsFlow == Loop \in Flows /\ \A i \in 1 .. Attempts : i \in Flows /\ i # Loop
  BY AgentAssumption DEF Flows

LEMMA LocalsUnmoved ==
  ASSUME AgentInv, UNCHANGED <<lastTrade, settling, current, clock>>,
         faults' \in 0 .. MaxFaults
  PROVE  LocalTypes' /\ \A id \in settling' : Traded(id)
  BY DEF AgentInv, LocalTypes, TradeInv, Ids, Never

LEMMA StartKeeps ==
  ASSUME AgentInv, StartIteration \/ Decide
  PROVE  AgentInv'
<1>1. /\ UNCHANGED <<decision, receipt, pool, totalDecisions, decisions, swaps>>
      /\ UNCHANGED <<lastTrade, settling, current, clock, faults>>
      /\ \E s \in {"idle", "decide", "commit"} : GoTo(Loop, s)
      /\ stage[Loop] \in {"idle", "decide"}
  BY DEF StartIteration, Decide, agentVars, chainVars, feedVars
<1>2. PICK s \in {"idle", "decide", "commit"} : GoTo(Loop, s)
  BY <1>1
<1>3. Moves(Loop) /\ decision'[Loop] = NoId
  BY <1>1, <1>2, LoopIsFlow, StageMoves
<1>4. PoolKept(Loop)
  BY <1>1, LoopIsFlow, NothingAwaited
<1>5. faults' \in 0 .. MaxFaults
  BY <1>1 DEF AgentInv, LocalTypes
<1> QED
  BY <1>1, <1>3, <1>4, <1>5, LoopIsFlow, LocalsUnmoved, MoveStep DEF ChainKept

LEMMA CallFailureKeeps ==
  ASSUME AgentInv, NEW f \in Flows, CallFails(f)
  PROVE  AgentInv'
<1>1. /\ stage[f] \in {"decide", "commit", "swap"} /\ Throw(f)
      /\ UNCHANGED <<lastTrade, settling, current, clock, faults>>
      /\ UNCHANGED <<pool, totalDecisions, decisions, swaps>>
  BY DEF CallFails, agentVars, chainVars, feedVars
<1>2. faults' \in 0 .. MaxFaults
  BY <1>1 DEF AgentInv, LocalTypes
<1>3. PoolKept(f)
  BY <1>1, NothingAwaited
<1> QED
  BY <1>1, <1>2, <1>3, ThrowMoves, LocalsUnmoved, MoveStep DEF ChainKept

LEMMA ReceiptLostKeeps ==
  ASSUME AgentInv, NEW f \in Flows, ReceiptLost(f)
  PROVE  AgentInv'
<1>1. /\ stage[f] \in {"committing", "swapping"} /\ Throw(f) /\ Abandon(f)
      /\ UNCHANGED <<lastTrade, settling, current, clock>>
      /\ UNCHANGED <<totalDecisions, decisions, swaps>>
      /\ faults < MaxFaults /\ faults' = faults + 1
  BY DEF ReceiptLost, agentVars, chainVars, feedVars
<1>2. faults' \in 0 .. MaxFaults
  BY <1>1, AgentAssumption DEF AgentInv, LocalTypes
<1>3. PoolKept(f)
  BY <1>1, AbandonKept
<1> QED
  BY <1>1, <1>2, <1>3, ThrowMoves, LocalsUnmoved, MoveStep DEF ChainKept

LEMMA RestartKeeps ==
  ASSUME AgentInv, Restart
  PROVE  AgentInv'
<1>1. /\ End(Loop, "idle") /\ Abandon(Loop) /\ lastTrade' = Never /\ settling' = {}
      /\ UNCHANGED <<current, clock>>
      /\ UNCHANGED <<totalDecisions, decisions, swaps>>
      /\ faults < MaxFaults /\ faults' = faults + 1
  BY DEF Restart, chainVars, feedVars
<1>2. LocalTypes'
  BY <1>1, AgentAssumption DEF AgentInv, LocalTypes, Never
<1>3. PoolKept(Loop) /\ Moves(Loop) /\ decision'[Loop] = NoId
  BY <1>1, LoopIsFlow, AbandonKept, EndsMove
<1> QED
  BY <1>1, <1>2, <1>3, LoopIsFlow, MoveStep DEF ChainKept

LEMMA ReceiveKeeps ==
  ASSUME AgentInv, NEW f \in Flows, Receive(f)
  PROVE  AgentInv'
<1>1. /\ stage[f] \in {"committing", "swapping"} /\ receipt[f] # "none"
      /\ UNCHANGED <<current, pool, clock, faults>> /\ ChainKept
  BY DEF Receive, ReceiveCommit, ReceiveSwap, chainVars, feedVars, ChainKept
<1>2. PoolKept(f) /\ FlowOK(f) /\ FlowTypes /\ faults' \in 0 .. MaxFaults
  BY <1>1, NothingAwaited DEF AgentInv, FlowInv, LocalTypes
<1>3. CASE Throw(f) /\ UNCHANGED agentVars
  BY <1>1, <1>2, <1>3, ThrowMoves, LocalsUnmoved, MoveStep DEF agentVars
<1>4. CASE stage[f] = "committing" /\ receipt[f] = "success" /\ Proceed(f) /\ UNCHANGED agentVars
  <2>1. decision[f] # NoId /\ Ready(f)
    BY <1>2, <1>4 DEF FlowOK, Ready
  <2>2. decision' = [decision EXCEPT ![f] = decision[f]]
    BY <1>2, <1>4 DEF Proceed, FlowTypes
  <2>3. Moves(f) /\ stage'[f] # "idle"
    BY <1>2, <1>4, <2>1, <2>2 DEF Moves, Proceed, GoTo, Stages, FlowTypes
  <2> QED
    BY <1>1, <1>2, <1>4, <2>1, <2>3, LocalsUnmoved, MoveStep DEF agentVars
<1>5. CASE f = Loop /\ stage[f] = "swapping" /\ receipt[f] = "success" /\ End(f, "idle") /\ TradeDone
  <2>1. Traded(decision[f]) /\ decision[f] \in Ids
    BY <1>2, <1>5 DEF FlowOK, OnFeed, Exists
  <2>2. lastTrade' = clock /\ settling' = settling \cup {decision[f]}
    BY <1>5 DEF TradeDone
  <2>3. LocalTypes'
    BY <1>1, <2>1, <2>2 DEF AgentInv, LocalTypes, Ids, Never
  <2>4. \A id \in settling' : Traded(id)
    BY <2>1, <2>2 DEF AgentInv, TradeInv
  <2>5. Moves(f) /\ decision'[f] = NoId
    BY <1>5, EndsMove
  <2> QED
    BY <1>1, <1>2, <1>5, <2>3, <2>4, <2>5, MoveStep
<1>6. CASE f # Loop /\ End(f, "done") /\ UNCHANGED agentVars
  <2>1. Moves(f) /\ decision'[f] = NoId /\ stage'[f] # "idle"
    BY <1>6, EndsMove
  <2> QED
    BY <1>1, <1>2, <1>6, <2>1, LocalsUnmoved, MoveStep DEF agentVars
<1> QED
  BY <1>3, <1>4, <1>5, <1>6 DEF Receive, ReceiveCommit, ReceiveSwap
-----------------------------------------------------------------------------
(* The terminal and the clock.                                             *)

LEMMA StillKeeps ==
  ASSUME AgentInv, UNCHANGED <<stage, decision, receipt, pool>>, ChainKept,
         LocalTypes', settling' = settling, current' \in {0, current}
  PROVE  AgentInv'
<1>1. FlowTypes' /\ PoolTypes'
  BY DEF AgentInv, FlowTypes, PoolTypes, Transaction, Flows, Ids, Stages
<1>2. ChainTypes' /\ TradeInv'
  BY ChainUnmoved DEF AgentInv, TradeInv
<1>3. FlowInv' /\ PoolInv'
  <2>1. /\ \A id, g : OnFeed(id, g)' <=> OnFeed(id, g)
        /\ \A id : Traded(id)' <=> Traded(id)
    BY DEF ChainKept, OnFeed, Traded, Exists, HashOf, Ids
  <2>2. ASSUME NEW g \in Flows PROVE FlowOK(g)'
    <3>1. FlowOK(g)
      BY DEF AgentInv, FlowInv
    <3>2. Ready(g)' <=> Ready(g)
      BY DEF Ready
    <3> QED
      BY <2>1, <3>1, <3>2 DEF FlowOK
  <2>3. ASSUME NEW k \in 1 .. Len(pool) PROVE TxOK(pool[k])'
    <3>1. TxOK(pool[k])
      BY DEF AgentInv, PoolInv
    <3>2. WaitedFor(pool[k])' <=> WaitedFor(pool[k])
      BY DEF WaitedFor
    <3> QED
      BY <2>1, <3>1, <3>2 DEF TxOK, Ids
  <2>4. FlowInv'
    BY <2>2 DEF AgentInv, FlowInv, Flows
  <2>5. PoolInv'
    BY <2>3 DEF AgentInv, PoolInv
  <2> QED
    BY <2>4, <2>5
<1>4. RetryInv'
  BY DEF AgentInv, RetryInv
<1> QED
  BY <1>1, <1>2, <1>3, <1>4 DEF AgentInv

LEMMA RequestKeeps ==
  ASSUME AgentInv, NEW i \in 1 .. Attempts, Request(i), i = 1 \/ stage[1] # "idle",
         \A j \in 1 .. Attempts : j >= i => stage[j] = "idle",
         UNCHANGED <<decision, receipt, agentVars, pool, chainVars, clock>>,
         faults' \in 0 .. MaxFaults
  PROVE  AgentInv'
<1>1. i \in Flows /\ i \in Nat /\ stage[i] = "idle" /\ current' = i /\ GoTo(i, "commit")
  BY LoopIsFlow, AgentAssumption DEF Request
<1>2. Moves(i) /\ decision'[i] = NoId /\ stage'[i] = "commit"
  BY <1>1, StageMoves
<1>3. PoolKept(i) /\ ChainKept
  BY <1>1, NothingAwaited DEF chainVars, feedVars, ChainKept
<1>4. FlowTypes' /\ PoolTypes' /\ FlowInv' /\ PoolInv'
  BY <1>1, <1>2, <1>3, FlowMoves
<1>5. LocalTypes'
  BY <1>1, AgentAssumption DEF AgentInv, LocalTypes, agentVars, Never, Ids
<1>6. ChainTypes' /\ TradeInv'
  BY <1>3, ChainUnmoved DEF AgentInv, TradeInv, agentVars
<1>7. RetryInv'
  <2>1. \A j \in 1 .. Attempts : j # i => stage'[j] = stage[j]
    BY <1>1, LoopIsFlow DEF GoTo, AgentInv, FlowTypes
  <2>2. \A j \in 1 .. Attempts : j > i => stage'[j] = "idle"
    BY <1>1, <2>1
  <2>3. stage'[1] # "idle"
    BY <1>1, <1>2, <2>1, AgentAssumption
  <2> QED
    BY <1>1, <2>2, <2>3 DEF RetryInv
<1> QED
  BY <1>4, <1>5, <1>6, <1>7 DEF AgentInv

LEMMA AnsweredKeeps ==
  ASSUME AgentInv, Answered, UNCHANGED <<decision, receipt, agentVars, pool, chainVars, clock>>,
         faults' \in 0 .. MaxFaults
  PROVE  AgentInv'
<1>1. LocalTypes'
  BY AgentAssumption DEF Answered, AgentInv, LocalTypes, agentVars, Never, Ids
<1> QED
  BY <1>1, StillKeeps DEF Answered, agentVars, chainVars, feedVars, ChainKept

LEMMA RetryKeeps ==
  ASSUME AgentInv, Retry, current # 0,
         UNCHANGED <<decision, receipt, agentVars, pool, chainVars, clock>>,
         faults' \in 0 .. MaxFaults
  PROVE  AgentInv'
<1>0. current \in 0 .. Attempts /\ Attempts \in Nat \ {0}
  BY AgentAssumption DEF AgentInv, LocalTypes
<1>1. CASE current < Attempts
  <2>1. Request(current + 1) /\ current + 1 \in 1 .. Attempts
    BY <1>0, <1>1 DEF Retry
  <2>2. \A j \in 1 .. Attempts : j >= current + 1 => stage[j] = "idle"
    BY <1>0 DEF AgentInv, RetryInv
  <2>3. stage[1] # "idle"
    BY DEF AgentInv, RetryInv
  <2> QED
    BY <2>1, <2>2, <2>3, RequestKeeps
<1>2. CASE ~(current < Attempts)
  BY <1>2, AnsweredKeeps DEF Retry
<1> QED
  BY <1>1, <1>2

LEMMA TerminalKeeps ==
  ASSUME AgentInv, Confirm \/ ReceiveAnswer \/ FetchFails
  PROVE  AgentInv'
<1>0. faults \in 0 .. MaxFaults /\ MaxFaults \in Nat
  BY AgentAssumption DEF AgentInv, LocalTypes
<1>1. CASE Confirm
  <2>1. Request(1) /\ stage[1] = "idle" /\ faults' = faults
    BY <1>1 DEF Confirm
  <2>2. 1 \in 1 .. Attempts /\ \A j \in 1 .. Attempts : stage[j] = "idle"
    BY <2>1, AgentAssumption DEF AgentInv, RetryInv
  <2> QED
    BY <1>0, <1>1, <2>1, <2>2, RequestKeeps DEF Confirm
<1>2. CASE ReceiveAnswer
  BY <1>0, <1>2, RetryKeeps, AnsweredKeeps DEF ReceiveAnswer
<1>3. CASE FetchFails
  <2>1. faults' \in 0 .. MaxFaults
    BY <1>0, <1>3 DEF FetchFails
  <2> QED
    BY <1>3, <2>1, RetryKeeps, AnsweredKeeps DEF FetchFails
<1> QED
  BY <1>1, <1>2, <1>3

LEMMA TickKeeps ==
  ASSUME AgentInv, Tick
  PROVE  AgentInv'
<1>1. LocalTypes'
  BY AgentAssumption DEF Tick, AgentInv, LocalTypes, agentVars, Never, Ids
<1> QED
  BY <1>1, StillKeeps DEF Tick, flowVars, agentVars, chainVars, feedVars, ChainKept
-----------------------------------------------------------------------------
(* Transactions are submitted.                                             *)

\* The pool after a submission: what was there, and the new transaction at the end.
LEMMA Submitted ==
  ASSUME AgentInv, NEW tx \in Transaction, pool' = Append(pool, tx), Len(pool) < MaxPool
  PROVE  /\ PoolTypes'
         /\ Len(pool') = Len(pool) + 1 /\ Len(pool) \in Nat
         /\ pool'[Len(pool) + 1] = tx
         /\ \A k \in 1 .. Len(pool) : pool'[k] = pool[k]
<1>1. pool \in Seq(Transaction) /\ Len(pool) \in Nat /\ MaxPool \in Nat
  BY LenProperties, AgentAssumption DEF AgentInv, PoolTypes
<1>2. /\ pool' \in Seq(Transaction) /\ Len(pool') = Len(pool) + 1
      /\ pool'[Len(pool) + 1] = tx
      /\ \A k \in 1 .. Len(pool) : pool'[k] = pool[k]
  BY <1>1, AppendProperties
<1>3. PoolTypes'
  BY <1>1, <1>2 DEF PoolTypes, Transaction, Flows, Ids
<1> QED
  BY <1>1, <1>2, <1>3

\* A new transaction that is sound itself and does not repeat one in the pool.
LEMMA SendKeeps ==
  ASSUME AgentInv, NEW tx \in Transaction, PoolTypes', ChainKept, LocalTypes',
         Len(pool') = Len(pool) + 1, Len(pool) \in Nat, pool'[Len(pool) + 1] = tx,
         \A k \in 1 .. Len(pool) : pool'[k] = pool[k],
         settling' \subseteq settling, current' = current,
         FlowTypes', FlowInv', RetryInv', TxOK(tx)',
         \A k \in 1 .. Len(pool) : pool[k].awaited => WaitedFor(pool[k])',
         \A k \in 1 .. Len(pool) :
           /\ ~(tx.awaited /\ pool[k].awaited /\ pool[k].by = tx.by)
           /\ ~(tx.kind = "swap" /\ pool[k].kind = "swap" /\ pool[k].id = tx.id)
  PROVE  AgentInv'
<1>1. /\ ChainTypes' /\ CommittedBeforeCapital' /\ AttestedWasTraded'
      /\ \A id : Traded(id)' <=> Traded(id)
      /\ \A id, g : OnFeed(id, g)' <=> OnFeed(id, g)
  BY ChainUnmoved DEF ChainKept, OnFeed, Exists, HashOf, Ids
<1>2. TradeInv'
  BY <1>1 DEF AgentInv, TradeInv
<1>3. ASSUME NEW k \in 1 .. Len(pool') PROVE k \in 1 .. Len(pool) \/ k = Len(pool) + 1
  OBVIOUS
<1>4. ASSUME NEW k \in 1 .. Len(pool) PROVE TxOK(pool[k])'
  <2>1. TxOK(pool[k]) /\ pool'[k] = pool[k]
    BY DEF AgentInv, PoolInv
  <2>2. pool'[k].awaited => WaitedFor(pool[k])'
    BY <2>1
  <2> QED
    BY <1>1, <2>1, <2>2 DEF TxOK, Ids
<1>5. PoolInv'
  <2>1. ASSUME NEW k \in 1 .. Len(pool') PROVE TxOK(pool[k])'
    <3>1. CASE k \in 1 .. Len(pool)
      BY <1>4, <3>1
    <3>2. CASE k = Len(pool) + 1
      BY <3>2 DEF TxOK, WaitedFor
    <3> QED
      BY <1>3, <3>1, <3>2
  <2>2. ASSUME NEW k \in 1 .. Len(pool'), NEW l \in 1 .. Len(pool')
        PROVE  /\ pool'[k].awaited /\ pool'[l].awaited /\ pool'[k].by = pool'[l].by => k = l
               /\ (pool'[k].kind = "swap" /\ pool'[l].kind = "swap"
                     /\ pool'[k].id = pool'[l].id) => k = l
    <3>1. CASE k \in 1 .. Len(pool) /\ l \in 1 .. Len(pool)
      BY <3>1 DEF AgentInv, PoolInv
    <3>2. CASE k = Len(pool) + 1 /\ l \in 1 .. Len(pool)
      BY <3>2
    <3>3. CASE k \in 1 .. Len(pool) /\ l = Len(pool) + 1
      BY <3>3
    <3> QED
      BY <1>3, <3>1, <3>2, <3>3
  <2> QED
    BY <2>1, <2>2 DEF PoolInv
<1> QED
  BY <1>1, <1>2, <1>5 DEF AgentInv

\* Flow f sends its commitment, or the swap of its decision, and waits for it.
LEMMA FlowSends ==
  ASSUME AgentInv, NEW f \in Flows, NEW kind \in {"commit", "swap"},
         NEW s \in {"committing", "swapping"},
         \/ kind = "commit" /\ s = "committing" /\ stage[f] = "commit"
         \/ kind = "swap" /\ s = "swapping" /\ stage[f] = "swap",
         Submit(kind, f, decision[f], TRUE), GoTo(f, s), UNCHANGED <<decision, receipt>>,
         UNCHANGED <<lastTrade, settling, current, clock, faults>>, ChainKept
  PROVE  AgentInv'
<1>1. /\ FlowTypes /\ FlowOK(f) /\ decision[f] \in Ids \cup {NoId} /\ stage[f] \in {"commit", "swap"}
      /\ \A g \in Flows : FlowOK(g)
  BY DEF AgentInv, FlowTypes, FlowInv
<1>2. PICK tx \in Transaction :
        tx = [kind |-> kind, by |-> f, id |-> decision[f], awaited |-> TRUE]
  BY <1>1 DEF Transaction
<1>3. tx.kind = kind /\ tx.by = f /\ tx.id = decision[f] /\ tx.awaited = TRUE
  BY <1>2
<1>4. /\ PoolTypes' /\ Len(pool') = Len(pool) + 1 /\ Len(pool) \in Nat
      /\ pool'[Len(pool) + 1] = tx
      /\ \A k \in 1 .. Len(pool) : pool'[k] = pool[k]
  BY <1>2, Submitted DEF Submit
<1>5. /\ stage' = [stage EXCEPT ![f] = s] /\ stage'[f] = s /\ s # "idle" /\ s \in Stages
      /\ \A g \in Flows : g # f => stage'[g] = stage[g]
      /\ \A g \in Flows : decision'[g] = decision[g] /\ receipt'[g] = receipt[g]
  BY <1>1 DEF GoTo, FlowTypes, Stages
<1>6. FlowTypes'
  BY <1>1, <1>5 DEF FlowTypes
<1>7. receipt[f] = "none"
  BY <1>1 DEF FlowOK
<1>8. /\ \A id : Traded(id)' <=> Traded(id)
      /\ \A id, g : OnFeed(id, g)' <=> OnFeed(id, g)
  BY DEF ChainKept, Traded, OnFeed, Exists, HashOf, Ids
<1>9. ASSUME NEW g \in Flows PROVE FlowOK(g)'
  <2>1. CASE g = f
    BY <1>1, <1>5, <1>7, <1>8, <2>1 DEF FlowOK, Ready
  <2>2. CASE g # f
    <3>1. stage'[g] = stage[g] /\ decision'[g] = decision[g] /\ receipt'[g] = receipt[g]
      BY <1>5, <2>2
    <3>2. Ready(g)' <=> Ready(g)
      BY <3>1 DEF Ready
    <3>3. ASSUME Ready(g), NEW k \in 1 .. Len(pool'), pool'[k].kind = "swap"
          PROVE  pool'[k].id # decision'[g]
      <4>1. CASE k \in 1 .. Len(pool)
        BY <1>1, <1>4, <3>1, <3>3, <4>1 DEF FlowOK
      <4>2. CASE k = Len(pool) + 1
        <5>1. decision[g] # NoId
          BY <3>3 DEF Ready
        <5>2. decision[g] # decision[f]
          BY <2>2, <5>1 DEF AgentInv, FlowInv
        <5> QED
          BY <1>3, <1>4, <3>1, <4>2, <5>2
      <4> QED
        BY <1>4, <4>1, <4>2
    <3> QED
      BY <1>1, <1>8, <3>1, <3>2, <3>3 DEF FlowOK
  <2> QED
    BY <2>1, <2>2
<1>10. FlowInv'
  BY <1>5, <1>9 DEF AgentInv, FlowInv, Flows
<1>11. LocalTypes' /\ RetryInv'
  <2>1. faults' \in 0 .. MaxFaults
    BY DEF AgentInv, LocalTypes
  <2> QED
    BY <1>1, <1>5, <2>1, LocalsUnmoved, RetryKept
<1>12. \A k \in 1 .. Len(pool) : ~(pool[k].awaited /\ pool[k].by = f)
  BY <1>1 DEF AgentInv, PoolInv, TxOK, WaitedFor
<1>13. ASSUME NEW k \in 1 .. Len(pool), pool[k].awaited PROVE WaitedFor(pool[k])'
  <2>1. TxOK(pool[k]) /\ pool[k].by # f /\ pool[k].by \in Flows
    BY <1>12, <1>13, TxType DEF AgentInv, PoolInv, PoolTypes
  <2> QED
    BY <1>4, <1>5, <1>13, <2>1 DEF TxOK, WaitedFor
<1>14. TxOK(tx)'
  BY <1>1, <1>3, <1>5, <1>7, <1>8 DEF TxOK, WaitedFor, FlowOK, Ready
<1>15. ASSUME NEW k \in 1 .. Len(pool), kind = "swap", pool[k].kind = "swap"
       PROVE  pool[k].id # decision[f]
  BY <1>1, <1>15 DEF FlowOK, Ready
<1>16. \A k \in 1 .. Len(pool) :
         /\ ~(tx.awaited /\ pool[k].awaited /\ pool[k].by = tx.by)
         /\ ~(tx.kind = "swap" /\ pool[k].kind = "swap" /\ pool[k].id = tx.id)
  BY <1>3, <1>12, <1>15
<1> QED
  BY <1>2, <1>4, <1>6, <1>10, <1>11, <1>13, <1>14, <1>16, SendKeeps

LEMMA FlowSendKeeps ==
  ASSUME AgentInv, NEW f \in Flows, SendCommit(f) \/ SendSwap(f)
  PROVE  AgentInv'
<1>1. CASE SendCommit(f)
  <2>1. decision[f] = NoId
    BY <1>1 DEF AgentInv, FlowInv, FlowOK, SendCommit
  <2> QED
    BY <1>1, <2>1, FlowSends DEF SendCommit, agentVars, chainVars, feedVars, ChainKept
<1>2. CASE SendSwap(f)
  BY <1>2, FlowSends DEF SendSwap, agentVars, chainVars, feedVars, ChainKept
<1> QED
  BY <1>1, <1>2

LEMMA SettleKeeps ==
  ASSUME AgentInv, NEW id \in Ids, Settle(id)
  PROVE  AgentInv'
<1>1. /\ id \in settling /\ settling' = settling \ {id}
      /\ UNCHANGED <<stage, decision, receipt, lastTrade, current, clock, faults>> /\ ChainKept
      /\ Submit("settle", Loop, id, FALSE) \/ pool' = pool
  BY DEF Settle, flowVars, chainVars, feedVars, ChainKept
<1>2. LocalTypes'
  BY <1>1 DEF AgentInv, LocalTypes, Never, Ids
<1>3. CASE pool' = pool
  <2>1. FlowTypes' /\ PoolTypes' /\ FlowInv' /\ PoolInv' /\ RetryInv' /\ ChainTypes'
    <3>1. /\ \A i, g : OnFeed(i, g)' <=> OnFeed(i, g)
          /\ \A i : Traded(i)' <=> Traded(i)
      BY <1>1 DEF ChainKept, OnFeed, Traded, Exists, HashOf, Ids
    <3>2. FlowInv'
      BY <1>1, <1>3, <3>1 DEF AgentInv, FlowInv, FlowOK, Ready, Flows
    <3>3. PoolInv'
      BY <1>1, <1>3, <3>1 DEF AgentInv, PoolInv, TxOK, WaitedFor, Ids
    <3>4. RetryInv' /\ ChainTypes'
      BY <1>1, ChainUnmoved DEF AgentInv, RetryInv
    <3> QED
      BY <1>1, <1>3, <3>2, <3>3, <3>4
         DEF AgentInv, FlowTypes, PoolTypes, Transaction, Flows, Ids, Stages
  <2>2. TradeInv'
    BY <1>1, ChainUnmoved DEF AgentInv, TradeInv
  <2> QED
    BY <1>2, <2>1, <2>2 DEF AgentInv
<1>4. CASE Submit("settle", Loop, id, FALSE)
  <2>1. PICK tx \in Transaction :
          tx = [kind |-> "settle", by |-> Loop, id |-> id, awaited |-> FALSE]
    BY LoopIsFlow DEF Transaction
  <2>2. tx.kind = "settle" /\ tx.by = Loop /\ tx.id = id /\ tx.awaited = FALSE
    BY <2>1
  <2>3. /\ PoolTypes' /\ Len(pool') = Len(pool) + 1 /\ Len(pool) \in Nat
        /\ pool'[Len(pool) + 1] = tx
        /\ \A k \in 1 .. Len(pool) : pool'[k] = pool[k]
    BY <1>4, <2>1, Submitted DEF Submit
  <2>4. /\ \A i : Traded(i)' <=> Traded(i)
        /\ \A i, g : OnFeed(i, g)' <=> OnFeed(i, g)
    BY <1>1 DEF ChainKept, Traded, OnFeed, Exists, HashOf, Ids
  <2>5. FlowInv'
    <3>1. ASSUME NEW k \in 1 .. Len(pool'), pool'[k].kind = "swap"
          PROVE  k \in 1 .. Len(pool) /\ pool'[k] = pool[k]
      BY <2>2, <2>3, <3>1
    <3>2. ASSUME NEW g \in Flows PROVE FlowOK(g)'
      <4>1. FlowOK(g)
        BY DEF AgentInv, FlowInv
      <4>2. Ready(g)' <=> Ready(g)
        BY <1>1 DEF Ready
      <4> QED
        BY <1>1, <2>4, <3>1, <4>1, <4>2 DEF FlowOK
    <3> QED
      BY <1>1, <3>2 DEF AgentInv, FlowInv, Flows
  <2>6. FlowTypes' /\ RetryInv'
    BY <1>1 DEF AgentInv, FlowTypes, RetryInv, Flows, Ids, Stages
  <2>7. TxOK(tx)'
    BY <1>1, <2>2, <2>4 DEF AgentInv, TradeInv, TxOK, Ids
  <2>8. ASSUME NEW k \in 1 .. Len(pool), pool[k].awaited PROVE WaitedFor(pool[k])'
    <3>1. WaitedFor(pool[k])
      BY <2>8 DEF AgentInv, PoolInv, TxOK
    <3> QED
      BY <1>1, <2>3, <3>1 DEF WaitedFor
  <2>9. settling' \subseteq settling /\ current' = current
    BY <1>1
  <2> QED
    BY <1>1, <1>2, <2>1, <2>2, <2>3, <2>5, <2>6, <2>7, <2>8, <2>9, SendKeeps
<1> QED
  BY <1>1, <1>3, <1>4
-----------------------------------------------------------------------------
(* Transactions are mined.                                                 *)

\* The pool without its oldest transaction tx.
Mined(tx) ==
  /\ tx \in Transaction /\ TxOK(tx)
  /\ 1 \in 1 .. Len(pool) /\ pool[1] = tx
  /\ PoolTypes' /\ Len(pool') = Len(pool) - 1
  /\ \A k \in 1 .. Len(pool') : k + 1 \in 1 .. Len(pool) /\ k + 1 # 1 /\ pool'[k] = pool[k + 1]
  /\ UNCHANGED <<stage, lastTrade, settling, current, clock, faults>>

LEMMA HeadMined ==
  ASSUME AgentInv, MineTransaction
  PROVE  Mined(Head(pool))
<1>1. pool \in Seq(Transaction) /\ pool # << >> /\ pool' = Tail(pool) /\ Len(pool) \in Nat
  BY LenProperties DEF AgentInv, PoolTypes, MineTransaction
<1>2. /\ pool' \in Seq(Transaction) /\ Len(pool') = Len(pool) - 1
      /\ \A k \in 1 .. Len(pool') : pool'[k] = pool[k + 1]
  BY <1>1, HeadTailProperties
<1>3. Len(pool) >= 1 /\ Head(pool) = pool[1] /\ Head(pool) \in Transaction
  BY <1>1, HeadTailProperties, EmptySeq
<1>4. TxOK(Head(pool))
  BY <1>1, <1>3 DEF AgentInv, PoolInv
<1>5. PoolTypes'
  BY <1>1, <1>2, AgentAssumption DEF AgentInv, PoolTypes, Transaction, Flows, Ids
<1>6. UNCHANGED <<stage, lastTrade, settling, current, clock, faults>>
  BY DEF MineTransaction, agentVars
<1> QED
  BY <1>1, <1>2, <1>3, <1>4, <1>5, <1>6 DEF Mined

\* The feed keeps what is on it, only tx can add a trade, and the flows that do not
\* wait for tx notice nothing.
LEMMA MinedKeeps ==
  ASSUME AgentInv, NEW tx \in Transaction, Mined(tx),
         \A id, g : OnFeed(id, g) => OnFeed(id, g)',
         \A id : Traded(id) => Traded(id)',
         \A id : Traded(id)' => Traded(id) \/ (tx.kind = "swap" /\ id = tx.id),
         \A g \in Flows : g # tx.by \/ ~tx.awaited =>
            decision'[g] = decision[g] /\ receipt'[g] = receipt[g],
         tx.awaited => FlowOK(tx.by)',
         \A f, g \in Flows : decision'[f] # NoId /\ decision'[f] = decision'[g] => f = g,
         FlowTypes', ChainTypes', TradeInv'
  PROVE  AgentInv'
<1>1. /\ \A g \in Flows : FlowOK(g)
      /\ \A k \in 1 .. Len(pool) : TxOK(pool[k]) /\ pool[k] \in Transaction
      /\ tx.by \in Flows
  BY TxType DEF AgentInv, FlowInv, PoolInv, PoolTypes
<1>2. ASSUME NEW g \in Flows PROVE FlowOK(g)'
  <2>1. CASE g = tx.by /\ tx.awaited
    BY <2>1
  <2>2. CASE ~(g = tx.by /\ tx.awaited)
    <3>1. stage'[g] = stage[g] /\ decision'[g] = decision[g] /\ receipt'[g] = receipt[g]
      BY <2>2 DEF Mined
    <3>2. Ready(g)' <=> Ready(g)
      BY <3>1 DEF Ready
    <3>3. ASSUME Ready(g)
          PROVE  /\ ~Traded(decision[g])'
                 /\ \A k \in 1 .. Len(pool') :
                      pool'[k].kind = "swap" => pool'[k].id # decision[g]
      <4>1. /\ ~Traded(decision[g])
            /\ \A k \in 1 .. Len(pool) : pool[k].kind = "swap" => pool[k].id # decision[g]
        BY <1>1, <3>3 DEF FlowOK
      <4>2. tx.kind = "swap" => tx.id # decision[g]
        BY <4>1 DEF Mined
      <4>3. PICK d \in Ids \cup {NoId} : d = decision[g]
        BY DEF AgentInv, FlowTypes
      <4>4. ~Traded(d)'
        BY <4>1, <4>2, <4>3
      <4>5. Traded(decision[g])' <=> Traded(d)'
        BY <3>1, <4>3 DEF Traded
      <4> QED
        BY <3>1, <4>1, <4>4, <4>5 DEF Mined
    <3> QED
      BY <1>1, <3>1, <3>2, <3>3 DEF FlowOK
  <2> QED
    BY <2>1, <2>2
<1>3. FlowInv'
  BY <1>2 DEF FlowInv, Flows
<1>4. ASSUME NEW k \in 1 .. Len(pool') PROVE TxOK(pool[k])'
  <2>1. /\ k + 1 \in 1 .. Len(pool) /\ k + 1 # 1 /\ 1 \in 1 .. Len(pool)
        /\ pool'[k] = pool[k + 1] /\ pool[1] = tx
    BY DEF Mined
  <2>2. PICK new \in Transaction : new = pool[k + 1] /\ TxOK(new)
    BY <1>1, <2>1
  <2>3. /\ ~(new.awaited /\ tx.awaited /\ new.by = tx.by)
        /\ ~(new.kind = "swap" /\ tx.kind = "swap" /\ new.id = tx.id)
    BY <2>1, <2>2 DEF AgentInv, PoolInv
  <2>4. new.awaited => WaitedFor(new)'
    <3> SUFFICES ASSUME new.awaited PROVE WaitedFor(new)'
      OBVIOUS
    <3>1. WaitedFor(new) /\ new.by \in Flows
      BY <2>2, TxType DEF TxOK
    <3>2. /\ decision'[new.by] = decision[new.by] /\ receipt'[new.by] = receipt[new.by]
          /\ stage'[new.by] = stage[new.by]
      BY <2>3, <3>1 DEF Mined
    <3> QED
      BY <3>1, <3>2 DEF WaitedFor
  <2>5. new.kind = "swap" => OnFeed(new.id, new.by)' /\ ~Traded(new.id)'
    BY <2>2, <2>3 DEF TxOK
  <2>6. new.kind = "settle" => new.id \in Ids /\ Traded(new.id)'
    BY <2>2 DEF TxOK
  <2>7. TxOK(new)'
    BY <2>4, <2>5, <2>6 DEF TxOK, Ids
  <2>8. pool'[k] = new
    BY <2>1, <2>2
  <2> QED
    BY <2>7, <2>8 DEF TxOK, WaitedFor
<1>5. ASSUME NEW k \in 1 .. Len(pool'), NEW l \in 1 .. Len(pool')
      PROVE  /\ pool'[k].awaited /\ pool'[l].awaited /\ pool'[k].by = pool'[l].by => k = l
             /\ (pool'[k].kind = "swap" /\ pool'[l].kind = "swap"
                   /\ pool'[k].id = pool'[l].id) => k = l
  <2>1. /\ k + 1 \in 1 .. Len(pool) /\ l + 1 \in 1 .. Len(pool)
        /\ pool'[k] = pool[k + 1] /\ pool'[l] = pool[l + 1]
        /\ (k + 1 = l + 1) => k = l
    BY DEF Mined
  <2> QED
    BY <2>1 DEF AgentInv, PoolInv
<1>6. PoolInv'
  BY <1>4, <1>5 DEF PoolInv
<1>7. LocalTypes' /\ RetryInv'
  BY DEF Mined, AgentInv, LocalTypes, RetryInv, Never, Ids
<1> QED
  BY <1>3, <1>6, <1>7 DEF Mined, AgentInv

LEMMA NotifyFacts ==
  ASSUME AgentInv, NEW tx \in Transaction, NEW result \in {"success", "reverted"},
         Notify(tx, result)
  PROVE  /\ receipt' \in [Flows -> {"none", "success", "reverted"}]
         /\ \A g \in Flows : g # tx.by \/ ~tx.awaited => receipt'[g] = receipt[g]
         /\ tx.awaited => receipt'[tx.by] = result
<1>1. receipt \in [Flows -> {"none", "success", "reverted"}] /\ tx.by \in Flows
  BY TxType DEF AgentInv, FlowTypes
<1>2. CASE tx.awaited
  BY <1>1, <1>2 DEF Notify
<1>3. CASE ~tx.awaited
  BY <1>1, <1>3 DEF Notify
<1> QED
  BY <1>2, <1>3

LEMMA RevertKeeps ==
  ASSUME AgentInv, NEW tx \in Transaction, Mined(tx), Reverts(tx)
  PROVE  AgentInv'
<1>1. Notify(tx, "reverted") /\ decision' = decision /\ ChainKept /\ stage' = stage
  BY DEF Reverts, chainVars, feedVars, ChainKept, Mined
<1>2. /\ \A id, g : OnFeed(id, g)' <=> OnFeed(id, g)
      /\ \A id : Traded(id)' <=> Traded(id)
  BY <1>1 DEF ChainKept, OnFeed, Traded, Exists, HashOf, Ids
<1>3. FlowTypes'
  BY <1>1, NotifyFacts DEF AgentInv, FlowTypes, Mined, Flows, Ids, Stages
<1>4. ChainTypes' /\ TradeInv'
  BY <1>1, ChainUnmoved DEF AgentInv, TradeInv, Mined
<1>5. tx.by \in Flows /\ tx.awaited \in BOOLEAN
  BY TxType
<1>6. ASSUME tx.awaited PROVE FlowOK(tx.by)'
  <2>1. FlowOK(tx.by) /\ WaitedFor(tx)
    BY <1>5, <1>6 DEF Mined, TxOK, AgentInv, FlowInv
  <2>2. receipt'[tx.by] = "reverted"
    BY <1>1, <1>6, NotifyFacts
  <2>3. Ready(tx.by)' <=> Ready(tx.by)
    BY <1>1 DEF Ready
  <2>4. ~Ready(tx.by)
    BY <2>1 DEF FlowOK, WaitedFor, Ready
  <2> QED
    BY <1>1, <1>2, <2>1, <2>2, <2>3, <2>4 DEF FlowOK, WaitedFor
<1>7. \A g \in Flows : g # tx.by \/ ~tx.awaited =>
        decision'[g] = decision[g] /\ receipt'[g] = receipt[g]
  BY <1>1, NotifyFacts
<1>8. \A f, g \in Flows : decision'[f] # NoId /\ decision'[f] = decision'[g] => f = g
  BY <1>1 DEF AgentInv, FlowInv
<1> QED
  BY <1>2, <1>3, <1>4, <1>6, <1>7, <1>8, MinedKeeps

LEMMA SettlementKeeps ==
  ASSUME AgentInv, NEW tx \in Transaction, Mined(tx), Settles(tx)
  PROVE  AgentInv'
<1> DEFINE d == decisions[Fund][tx.id]
           e == Attested(d, LoopHash)
<1>1. /\ tx.kind = "settle" /\ tx.id \in Ids /\ tx.id < totalDecisions[Fund]
      /\ decisions' = [decisions EXCEPT ![Fund] = [decisions[Fund] EXCEPT ![tx.id] = e]]
      /\ totalDecisions' = totalDecisions
      /\ UNCHANGED <<stage, decision, receipt, swaps>>
  BY DEF Settles, MarkAttested, Exists, Mined
<1>2. /\ decisions \in [Vaults -> [Ids -> DecisionRecord]] /\ Fund \in Vaults
      /\ LoopHash \in Hashes
  BY AgentAssumption DEF AgentInv, ChainTypes
<1>3. e \in DecisionRecord /\ e.decisionHash = d.decisionHash
  <2>1. d \in DecisionRecord
    BY <1>1, <1>2
  <2> HIDE DEF d
  <2> QED
    BY <1>2, <2>1 DEF Attested, DecisionRecord
<1> HIDE DEF e
<1>4. /\ decisions' \in [Vaults -> [Ids -> DecisionRecord]]
      /\ \A id \in Ids : /\ decisions'[Fund][id].decisionHash = decisions[Fund][id].decisionHash
                         /\ id # tx.id => decisions'[Fund][id] = decisions[Fund][id]
  <2>1. [decisions[Fund] EXCEPT ![tx.id] = e] \in [Ids -> DecisionRecord]
    BY <1>2, <1>3
  <2> QED
    BY <1>1, <1>2, <1>3, <2>1
<1>5. ChainTypes'
  BY <1>1, <1>4 DEF AgentInv, ChainTypes, Swap, Flows, Ids, DecisionRecord
<1>6. /\ \A id, g : OnFeed(id, g) => OnFeed(id, g)'
      /\ \A id : Traded(id)' <=> Traded(id)
  BY <1>1, <1>4 DEF OnFeed, Traded, Exists, HashOf, Ids
<1>7. CommittedBeforeCapital'
  BY <1>1, <1>4 DEF AgentInv, TradeInv, CommittedBeforeCapital, Exists, HashOf, Ids
<1>8. AttestedWasTraded'
  <2>1. Traded(tx.id)
    BY <1>1 DEF Mined, TxOK
  <2>2. ASSUME NEW id \in Ids, decisions'[Fund][id].status = "Attested"
        PROVE  \E k \in 1 .. Len(swaps) : swaps[k].id = id
    <3>1. CASE id = tx.id
      BY <2>1, <3>1 DEF Traded
    <3>2. CASE id # tx.id
      BY <1>4, <2>2, <3>2 DEF AgentInv, TradeInv, AttestedWasTraded
    <3> QED
      BY <3>1, <3>2
  <2> QED
    BY <1>1, <2>2 DEF AttestedWasTraded, Ids
<1>9. TradeInv'
  BY <1>6, <1>7, <1>8 DEF AgentInv, TradeInv, Mined
<1>10. FlowTypes' /\ ~tx.awaited
  <2>1. ~tx.awaited
    BY <1>1, TxType DEF Mined, TxOK, WaitedFor
  <2>2. FlowTypes'
    BY <1>1 DEF AgentInv, FlowTypes, Flows, Ids, Stages
  <2> QED
    BY <2>1, <2>2
<1>11. \A f, g \in Flows : decision'[f] # NoId /\ decision'[f] = decision'[g] => f = g
  BY <1>1 DEF AgentInv, FlowInv
<1> QED
  BY <1>1, <1>5, <1>6, <1>9, <1>10, <1>11, MinedKeeps

LEMMA SwapKeeps ==
  ASSUME AgentInv, NEW tx \in Transaction, Mined(tx), Swaps(tx)
  PROVE  AgentInv'
<1>1. /\ tx.kind = "swap" /\ decision' = decision /\ stage' = stage
      /\ UNCHANGED <<totalDecisions, decisions>> /\ Notify(tx, "success")
  BY DEF Swaps, feedVars, Mined
<1>2. tx.by \in Flows /\ tx.awaited \in BOOLEAN /\ OnFeed(tx.id, tx.by) /\ ~Traded(tx.id)
      /\ tx.id \in Ids
  BY <1>1, TxType DEF Mined, TxOK, OnFeed, Exists
<1>3. PICK new \in Swap : new = [by |-> tx.by, id |-> tx.id, at |-> clock]
  BY <1>2 DEF Swap, AgentInv, LocalTypes
<1>4. /\ swaps' \in Seq(Swap) /\ Len(swaps') = Len(swaps) + 1 /\ Len(swaps) \in Nat
      /\ swaps'[Len(swaps) + 1] = new
      /\ \A k \in 1 .. Len(swaps) : swaps'[k] = swaps[k]
  <2>1. swaps \in Seq(Swap) /\ swaps' = Append(swaps, new) /\ Len(swaps) \in Nat
    BY <1>3, LenProperties DEF AgentInv, ChainTypes, Swaps
  <2> QED
    BY <2>1, AppendProperties
<1>5. new.by = tx.by /\ new.id = tx.id
  BY <1>3
<1>6. \A k \in 1 .. Len(swaps') : k \in 1 .. Len(swaps) \/ k = Len(swaps) + 1
  BY <1>4
<1>7. \A id : Traded(id)' <=> (Traded(id) \/ id = tx.id)
  <2> TAKE id
  <2>1. ASSUME Traded(id)' PROVE Traded(id) \/ id = tx.id
    <3>1. PICK k \in 1 .. Len(swaps') : swaps'[k].id = id
      BY <2>1 DEF Traded
    <3> QED
      BY <1>4, <1>5, <1>6, <3>1 DEF Traded
  <2>2. ASSUME Traded(id) PROVE Traded(id)'
    <3>1. PICK k \in 1 .. Len(swaps) : swaps[k].id = id
      BY <2>2 DEF Traded
    <3>2. k \in 1 .. Len(swaps') /\ swaps'[k].id = id
      BY <1>4, <3>1
    <3> QED
      BY <3>2 DEF Traded
  <2>3. Traded(tx.id)'
    <3>1. Len(swaps) + 1 \in 1 .. Len(swaps') /\ swaps'[Len(swaps) + 1].id = tx.id
      BY <1>4, <1>5
    <3> QED
      BY <3>1 DEF Traded
  <2> QED
    BY <2>1, <2>2, <2>3
<1>8. \A id, g : OnFeed(id, g)' <=> OnFeed(id, g)
  BY <1>1 DEF OnFeed, Exists, HashOf, Ids
<1>9. CommittedBeforeCapital'
  <2>1. ASSUME NEW k \in 1 .. Len(swaps')
        PROVE  OnFeed(swaps'[k].id, swaps'[k].by)
    BY <1>2, <1>4, <1>5, <1>6 DEF AgentInv, TradeInv, CommittedBeforeCapital, OnFeed
  <2>2. ASSUME NEW k \in 1 .. Len(swaps'), NEW l \in 1 .. Len(swaps'),
               swaps'[l].id = swaps'[k].id
        PROVE  l = k
    <3>1. \A i \in 1 .. Len(swaps) : swaps[i].id # tx.id
      BY <1>2 DEF Traded
    <3>2. CASE k \in 1 .. Len(swaps) /\ l \in 1 .. Len(swaps)
      BY <1>4, <2>2, <3>2 DEF AgentInv, TradeInv, CommittedBeforeCapital
    <3>3. CASE k = Len(swaps) + 1 /\ l \in 1 .. Len(swaps)
      BY <1>4, <1>5, <2>2, <3>1, <3>3
    <3>4. CASE l = Len(swaps) + 1 /\ k \in 1 .. Len(swaps)
      BY <1>4, <1>5, <2>2, <3>1, <3>4
    <3> QED
      BY <1>6, <3>2, <3>3, <3>4
  <2> QED
    BY <1>1, <2>1, <2>2 DEF CommittedBeforeCapital, OnFeed, Exists, HashOf, Ids
<1>10. AttestedWasTraded'
  <2>1. ASSUME NEW id \in Ids, decisions[Fund][id].status = "Attested" PROVE Traded(id)'
    BY <1>7, <2>1 DEF AgentInv, TradeInv, AttestedWasTraded, Traded
  <2> QED
    BY <1>1, <2>1 DEF AttestedWasTraded, Traded, Ids
<1>11. TradeInv'
  BY <1>7, <1>9, <1>10 DEF AgentInv, TradeInv, Mined
<1>12. ChainTypes'
  BY <1>1, <1>4 DEF AgentInv, ChainTypes, Swap, Flows, Ids, DecisionRecord
<1>13. FlowTypes'
  BY <1>1, NotifyFacts DEF AgentInv, FlowTypes, Flows, Ids, Stages
<1>14. ASSUME tx.awaited PROVE FlowOK(tx.by)'
  <2>1. FlowOK(tx.by) /\ WaitedFor(tx)
    BY <1>2, <1>14 DEF Mined, TxOK, AgentInv, FlowInv
  <2>2. receipt'[tx.by] = "success"
    BY <1>1, <1>14, NotifyFacts
  <2>3. stage[tx.by] = "swapping" /\ decision[tx.by] = tx.id
    BY <1>1, <2>1 DEF WaitedFor
  <2>4. ~Ready(tx.by)'
    BY <1>1, <2>3 DEF Ready
  <2>5. PICK d \in Ids : d = tx.id /\ Traded(d)' /\ OnFeed(d, tx.by)'
    BY <1>2, <1>7, <1>8
  <2>6. Traded(decision[tx.by])' /\ OnFeed(decision[tx.by], tx.by)'
    BY <1>1, <2>3, <2>5 DEF Traded, OnFeed, Exists, HashOf, Ids
  <2> QED
    BY <1>1, <2>1, <2>2, <2>3, <2>4, <2>6 DEF FlowOK
<1>15. \A g \in Flows : g # tx.by \/ ~tx.awaited =>
         decision'[g] = decision[g] /\ receipt'[g] = receipt[g]
  BY <1>1, NotifyFacts
<1>16. \A f, g \in Flows : decision'[f] # NoId /\ decision'[f] = decision'[g] => f = g
  BY <1>1 DEF AgentInv, FlowInv
<1>17. /\ \A id, g : OnFeed(id, g) => OnFeed(id, g)'
       /\ \A id : Traded(id) => Traded(id)'
       /\ \A id : Traded(id)' => Traded(id) \/ (tx.kind = "swap" /\ id = tx.id)
  BY <1>1, <1>7, <1>8
<1> QED
  BY <1>11, <1>12, <1>13, <1>14, <1>15, <1>16, <1>17, MinedKeeps

LEMMA CommitKeeps ==
  ASSUME AgentInv, NEW tx \in Transaction, Mined(tx), Commits(tx)
  PROVE  AgentInv'
<1>0. /\ totalDecisions \in [Vaults -> 0 .. MaxFeed] /\ Fund \in Vaults /\ MaxFeed \in Nat
      /\ decisions \in [Vaults -> [Ids -> DecisionRecord]]
      /\ tx.by \in Flows /\ HashOf(tx.by) \in Hashes /\ CIDOf(tx.by) \in EvidenceCIDs
  BY TxType, AgentAssumption DEF AgentInv, ChainTypes, HashOf, CIDOf
<1>1. PICK n \in Ids : n = totalDecisions[Fund] /\ n < MaxFeed /\ n + 1 \in 0 .. MaxFeed
  BY <1>0 DEF Commits, CommitDecision, Ids
<1>2. PICK new \in DecisionRecord :
        new = Pending(HashOf(tx.by), CIDOf(tx.by)) /\ new.status = "Pending"
          /\ new.decisionHash = HashOf(tx.by)
  <2>1. Pending(HashOf(tx.by), CIDOf(tx.by)) \in DecisionRecord
    BY <1>0 DEF Pending, DecisionRecord
  <2> QED
    BY <2>1 DEF Pending
<1>3. /\ tx.kind = "commit" /\ swaps' = swaps /\ stage' = stage /\ Notify(tx, "success")
      /\ decisions' = [decisions EXCEPT ![Fund] = [decisions[Fund] EXCEPT ![n] = new]]
      /\ totalDecisions' = [totalDecisions EXCEPT ![Fund] = n + 1]
      /\ decision' = IF tx.awaited THEN [decision EXCEPT ![tx.by] = n] ELSE decision
  BY <1>1, <1>2 DEF Commits, CommitDecision, Mined
<1>4. /\ totalDecisions' \in [Vaults -> 0 .. MaxFeed] /\ totalDecisions'[Fund] = n + 1
      /\ decisions' \in [Vaults -> [Ids -> DecisionRecord]] /\ decisions'[Fund][n] = new
      /\ \A id \in Ids : id # n => decisions'[Fund][id] = decisions[Fund][id]
  <2>1. [decisions[Fund] EXCEPT ![n] = new] \in [Ids -> DecisionRecord]
    BY <1>0
  <2> QED
    BY <1>0, <1>1, <1>3, <2>1
<1>5. ChainTypes'
  BY <1>3, <1>4 DEF AgentInv, ChainTypes, Swap, Flows, Ids, DecisionRecord
<1>6. ASSUME NEW id, NEW g, OnFeed(id, g) PROVE OnFeed(id, g)' /\ id # n
  <2>1. id \in Ids /\ id < n /\ n \in Int /\ id \in Int
    BY <1>1, <1>6, AgentAssumption DEF OnFeed, Exists, Ids
  <2> QED
    BY <1>4, <1>6, <2>1 DEF OnFeed, Exists, HashOf, Ids
<1>7. \A id : Traded(id)' <=> Traded(id)
  BY <1>3 DEF Traded
<1>8. \A k \in 1 .. Len(swaps) : OnFeed(swaps[k].id, swaps[k].by)
  BY DEF AgentInv, TradeInv, CommittedBeforeCapital, OnFeed
<1>9. CommittedBeforeCapital'
  <2>1. ASSUME NEW k \in 1 .. Len(swaps)
        PROVE  OnFeed(swaps[k].id, swaps[k].by)'
    <3>1. PICK id, g : id = swaps[k].id /\ g = swaps[k].by
      OBVIOUS
    <3>2. OnFeed(id, g)'
      BY <1>6, <1>8, <3>1
    <3> QED
      BY <1>3, <3>1, <3>2 DEF OnFeed, Exists, HashOf, Ids
  <2> QED
    BY <1>3, <2>1 DEF AgentInv, TradeInv, CommittedBeforeCapital, OnFeed, Exists, HashOf, Ids
<1>10. AttestedWasTraded'
  BY <1>2, <1>3, <1>4 DEF AgentInv, TradeInv, AttestedWasTraded, Ids
<1>11. TradeInv'
  BY <1>7, <1>9, <1>10 DEF AgentInv, TradeInv, Mined
<1>12. /\ \A g \in Flows : g # tx.by \/ ~tx.awaited =>
            decision'[g] = decision[g] /\ receipt'[g] = receipt[g]
       /\ tx.awaited => decision'[tx.by] = n /\ receipt'[tx.by] = "success"
       /\ FlowTypes'
  <2>1. /\ receipt' \in [Flows -> {"none", "success", "reverted"}]
        /\ \A g \in Flows : g # tx.by \/ ~tx.awaited => receipt'[g] = receipt[g]
        /\ tx.awaited => receipt'[tx.by] = "success"
    BY <1>3, NotifyFacts
  <2>2. decision \in [Flows -> Ids \cup {NoId}] /\ stage \in [Flows -> Stages]
    BY DEF AgentInv, FlowTypes
  <2>3. /\ decision' \in [Flows -> Ids \cup {NoId}]
        /\ \A g \in Flows : g # tx.by \/ ~tx.awaited => decision'[g] = decision[g]
        /\ tx.awaited => decision'[tx.by] = n
    <3>1. CASE tx.awaited
      BY <1>0, <1>3, <2>2, <3>1
    <3>2. CASE ~tx.awaited
      BY <1>0, <1>3, <2>2, <3>2
    <3> QED
      BY <3>1, <3>2
  <2>4. FlowTypes'
    BY <1>3, <2>1, <2>2, <2>3 DEF FlowTypes, Flows, Ids, Stages
  <2> QED
    BY <2>1, <2>3, <2>4
<1>13. ASSUME tx.awaited PROVE FlowOK(tx.by)'
  <2>1. stage[tx.by] = "committing"
    BY <1>3, <1>13 DEF Mined, TxOK, WaitedFor
  <2>2. n # NoId
    BY <1>1, AgentAssumption DEF Ids, NoId
  <2>3. OnFeed(n, tx.by)'
    BY <1>1, <1>2, <1>4, AgentAssumption DEF OnFeed, Exists, HashOf, Ids
  <2>4. OnFeed(decision[tx.by], tx.by)'
    BY <1>12, <1>13, <2>3 DEF OnFeed, Exists, HashOf, Ids
  <2>5. ~Traded(n)
    BY <1>6, <1>8 DEF Traded
  <2>6. ~Traded(decision[tx.by])'
    BY <1>3, <1>12, <1>13, <2>5 DEF Traded
  <2>7. ASSUME NEW k \in 1 .. Len(pool'), pool'[k].kind = "swap"
        PROVE  pool'[k].id # n
    <3>1. k + 1 \in 1 .. Len(pool) /\ pool'[k] = pool[k + 1]
      BY DEF Mined
    <3>2. OnFeed(pool[k + 1].id, pool[k + 1].by)
      BY <2>7, <3>1 DEF AgentInv, PoolInv, TxOK
    <3> QED
      BY <1>6, <3>1, <3>2
  <2> QED
    BY <1>3, <1>12, <1>13, <2>1, <2>2, <2>4, <2>6, <2>7 DEF FlowOK, Ready
<1>14. ASSUME NEW f \in Flows, NEW g \in Flows, decision'[f] # NoId, decision'[f] = decision'[g]
       PROVE  f = g
  <2>1. \A h \in Flows : decision[h] # NoId => decision[h] # n
    BY <1>6 DEF AgentInv, FlowInv, FlowOK
  <2>2. CASE tx.awaited /\ (f = tx.by \/ g = tx.by)
    BY <1>12, <1>14, <2>1, <2>2
  <2>3. CASE ~(tx.awaited /\ (f = tx.by \/ g = tx.by))
    <3>1. decision'[f] = decision[f] /\ decision'[g] = decision[g]
      BY <1>12, <2>3
    <3> QED
      BY <1>14, <3>1 DEF AgentInv, FlowInv
  <2> QED
    BY <2>2, <2>3
<1>15. \A id, g : OnFeed(id, g) => OnFeed(id, g)'
  BY <1>6
<1> QED
  BY <1>5, <1>7, <1>11, <1>12, <1>13, <1>14, <1>15, MinedKeeps

LEMMA MineKeeps ==
  ASSUME AgentInv, MineTransaction
  PROVE  AgentInv'
<1>1. PICK tx \in Transaction : tx = Head(pool) /\ Mined(tx)
  BY HeadMined DEF Mined
<1>2. Reverts(tx) \/ Commits(tx) \/ Swaps(tx) \/ Settles(tx)
  BY <1>1 DEF MineTransaction
<1> QED
  BY <1>1, <1>2, RevertKeeps, CommitKeeps, SwapKeeps, SettlementKeeps
-----------------------------------------------------------------------------
LEMMA AgentStep ==
  ASSUME AgentInv, [Next]_vars
  PROVE  AgentInv'
<1>1. CASE UNCHANGED vars
  <2>1. LocalTypes'
    BY <1>1 DEF vars, agentVars, AgentInv, LocalTypes, Never, Ids
  <2> QED
    BY <1>1, <2>1, StillKeeps DEF vars, flowVars, agentVars, chainVars, feedVars, ChainKept
<1>2. CASE Next
  BY <1>2, LoopIsFlow, StartKeeps, RestartKeeps, SettleKeeps, FlowSendKeeps, ReceiveKeeps,
     CallFailureKeeps, ReceiptLostKeeps, TerminalKeeps, MineKeeps, TickKeeps
     DEF Next, FlowStep
<1> QED
  BY <1>1, <1>2

LEMMA AgentInvariant == Spec => []AgentInv
<1>1. AgentInv /\ [Next]_vars => AgentInv'
  BY AgentStep
<1> QED
  BY <1>1, AgentInitially, PTL DEF Spec

\* Every variable of agent, route, terminal and feed keeps its type, and no flow
\* waits for two transactions at once.
THEOREM AgentWellTyped == Spec => []TypeOK
  BY AgentImplies, AgentInvariant, PTL

\* README's promise of a commitment before capital moves holds of the code, not of
\* the contracts: whatever receipts are lost, however often the process restarts and
\* the terminal asks again, every swap has a decision of its own on the feed.
THEOREM DecisionBeforeSwap == Spec => []CommittedBeforeCapital
  BY AgentImplies, AgentInvariant, PTL

\* agent.ts settles in the background only what it has seen the receipt of: an
\* attested decision was traded, though the settlement outlives the iteration.
THEOREM OnlyTradesAttested == Spec => []AttestedWasTraded
  BY AgentImplies, AgentInvariant, PTL
-----------------------------------------------------------------------------
(* The distance between the trades of the loop.                            *)

LoopSwap(tx) == tx.kind = "swap" /\ tx.by = Loop

\* The swaps of the loop that are not mined yet, and those it does not wait for.
Sent == {k \in 1 .. Len(pool) : LoopSwap(pool[k])}
Adrift == {k \in Sent : ~pool[k].awaited}

\* A swap of the loop would come too soon now.
Near ==
  \E k \in 1 .. Len(swaps) : swaps[k].by = Loop /\ clock - swaps[k].at < MinTradeInterval

\* The time the loop keeps is not before any of its trades.
Known == \A k \in 1 .. Len(swaps) : swaps[k].by = Loop => swaps[k].at <= lastTrade

\* The loop has the receipt of its swap and is about to keep the time.
Aware == stage[Loop] = "swapping" /\ receipt[Loop] = "success"

\* Nothing the loop knows keeps its next trade from coming too soon.
Exposed == Near /\ (Sent = {} => ~Known /\ ~Aware)

\* Every fault pays for one thing: a trade that came too soon, a swap that the loop
\* has lost sight of, or the trade that may come too soon next.
SpacingInv ==
  /\ Cardinality(EarlyTrades) + Cardinality(Adrift) + (IF Exposed THEN 1 ELSE 0) <= faults
  /\ \A k \in 1 .. Len(swaps) : swaps[k].at <= clock
  /\ stage[Loop] \in {"commit", "committing", "swap"} => clock - lastTrade >= MinTradeInterval
  /\ \A k \in Sent : pool[k].awaited => \A l \in Sent : l <= k
  /\ Aware => Sent = {}

LEMMA SpacingInitially == Init => SpacingInv
<1> SUFFICES ASSUME Init PROVE SpacingInv
  OBVIOUS
<1>1. /\ stage = [f \in Flows |-> "idle"] /\ pool = << >> /\ swaps = << >> /\ faults = 0
      /\ Len(<< >>) = 0
  BY EmptySeq DEF Init
<1>2. EarlyTrades = {} /\ Adrift = {} /\ Sent = {} /\ ~Near
  BY <1>1 DEF EarlyTrades, Adrift, Sent, Near
<1>3. stage[Loop] = "idle"
  BY <1>1, LoopIsFlow
<1> QED
  BY <1>1, <1>2, <1>3, FS_EmptySet DEF SpacingInv, Exposed, Aware

LEMMA PlacesFinite ==
  ASSUME NEW n \in Nat, NEW S \in SUBSET (1 .. n)
  PROVE  IsFiniteSet(S) /\ Cardinality(S) \in Nat
<1>1. IsFiniteSet(1 .. n)
  BY FS_Interval
<1> QED
  BY <1>1, FS_Subset, FS_CardinalityType

LEMMA Counted ==
  AgentInv =>
    /\ IsFiniteSet(EarlyTrades) /\ Cardinality(EarlyTrades) \in Nat
    /\ IsFiniteSet(Sent) /\ Cardinality(Sent) \in Nat
    /\ IsFiniteSet(Adrift) /\ Cardinality(Adrift) \in Nat
<1> SUFFICES ASSUME AgentInv
             PROVE  /\ IsFiniteSet(EarlyTrades) /\ Cardinality(EarlyTrades) \in Nat
                    /\ IsFiniteSet(Sent) /\ Cardinality(Sent) \in Nat
                    /\ IsFiniteSet(Adrift) /\ Cardinality(Adrift) \in Nat
  OBVIOUS
<1>1. Len(swaps) \in Nat /\ Len(pool) \in Nat
  BY LenProperties DEF AgentInv, ChainTypes, PoolTypes
<1>2. /\ EarlyTrades \in SUBSET (1 .. Len(swaps))
      /\ Sent \in SUBSET (1 .. Len(pool)) /\ Adrift \in SUBSET (1 .. Len(pool))
  BY DEF EarlyTrades, Sent, Adrift
<1> QED
  BY <1>1, <1>2, PlacesFinite

LEMMA CountedNext ==
  AgentInv' =>
    /\ IsFiniteSet(EarlyTrades') /\ Cardinality(EarlyTrades') \in Nat
    /\ IsFiniteSet(Sent') /\ Cardinality(Sent') \in Nat
    /\ IsFiniteSet(Adrift') /\ Cardinality(Adrift') \in Nat
<1> SUFFICES ASSUME AgentInv'
             PROVE  /\ IsFiniteSet(EarlyTrades') /\ Cardinality(EarlyTrades') \in Nat
                    /\ IsFiniteSet(Sent') /\ Cardinality(Sent') \in Nat
                    /\ IsFiniteSet(Adrift') /\ Cardinality(Adrift') \in Nat
  OBVIOUS
<1>1. PICK m, n \in Nat : m = Len(swaps') /\ n = Len(pool')
  BY LenProperties DEF AgentInv, ChainTypes, PoolTypes
<1>2. /\ EarlyTrades' \in SUBSET (1 .. m)
      /\ Sent' \in SUBSET (1 .. n) /\ Adrift' \in SUBSET (1 .. n)
  BY <1>1 DEF EarlyTrades, Sent, Adrift
<1> QED
  BY <1>2, PlacesFinite

LEMMA ClockTypes ==
  AgentInv => /\ clock \in Int /\ lastTrade \in Int /\ faults \in Nat /\ MinTradeInterval \in Nat
              /\ \A k \in 1 .. Len(swaps) : swaps[k].at \in Int /\ swaps[k].by \in Flows
<1> SUFFICES ASSUME AgentInv
             PROVE  /\ clock \in Int /\ lastTrade \in Int /\ faults \in Nat
                    /\ MinTradeInterval \in Nat
                    /\ \A k \in 1 .. Len(swaps) : swaps[k].at \in Int /\ swaps[k].by \in Flows
  OBVIOUS
<1>1. /\ clock \in Int /\ lastTrade \in Int /\ faults \in Nat /\ MinTradeInterval \in Nat
  BY AgentAssumption DEF AgentInv, LocalTypes, Never
<1>2. \A k \in 1 .. Len(swaps) : swaps[k] \in Swap
  BY ElementOfSeq DEF AgentInv, ChainTypes
<1>3. \A s \in Swap : s.at \in Int /\ s.by \in Flows
  BY AgentAssumption DEF Swap
<1> QED
  BY <1>1, <1>2, <1>3

\* While no swap is mined the trades that came too soon stay the same.
LEMMA TradesKept ==
  ASSUME swaps' = swaps
  PROVE  EarlyTrades' = EarlyTrades
  BY DEF EarlyTrades, TooSoon

\* A step that neither moves a swap of the loop nor makes it learn of one.
LEMMA QuietSpacing ==
  ASSUME AgentInv, AgentInv', SpacingInv,
         UNCHANGED <<swaps, clock, lastTrade>>, faults' >= faults,
         Sent' = Sent, \A k \in Sent : pool'[k].awaited <=> pool[k].awaited,
         Aware' <=> Aware,
         stage'[Loop] \in {"commit", "committing", "swap"} =>
           \/ stage[Loop] \in {"commit", "committing", "swap"}
           \/ clock - lastTrade >= MinTradeInterval
  PROVE  SpacingInv'
<1>1. EarlyTrades' = EarlyTrades
  BY TradesKept
<1>2. Adrift' = Adrift
  BY DEF Adrift
<1>3. Exposed' <=> Exposed
  BY DEF Exposed, Near, Known
<1>4. faults \in Nat /\ faults' \in Nat
  BY DEF AgentInv, LocalTypes
<1>5. Cardinality(EarlyTrades') + Cardinality(Adrift') + (IF Exposed' THEN 1 ELSE 0) <= faults'
  BY <1>1, <1>2, <1>3, <1>4, Counted DEF SpacingInv
<1>6. \A k \in Sent' : pool'[k].awaited => \A l \in Sent' : l <= k
  BY DEF SpacingInv
<1> QED
  BY <1>5, <1>6 DEF SpacingInv

\* A restart or a lost receipt: the loop loses sight of the swap it waits for, or, when
\* it waits for none, of when it traded last.
LEMMA FaultSpacing ==
  ASSUME AgentInv, AgentInv', SpacingInv,
         UNCHANGED <<swaps, clock>>, faults' = faults + 1, Abandon(Loop), stage'[Loop] = "idle"
  PROVE  SpacingInv'
<1>1. Len(pool') = Len(pool) /\ PoolKept(Loop)
  BY LoopIsFlow, AbandonKept DEF PoolKept
<1>2. Sent' = Sent /\ \A k \in Sent' : ~pool'[k].awaited
  <2>1. \A k \in 1 .. Len(pool) : LoopSwap(pool[k])' <=> LoopSwap(pool[k])
    BY <1>1 DEF LoopSwap, PoolKept
  <2>2. Sent' = Sent
    BY <1>1, <2>1 DEF Sent, LoopSwap
  <2>3. \A k \in Sent : ~pool'[k].awaited
    BY <1>1 DEF Sent, LoopSwap, PoolKept
  <2> QED
    BY <2>2, <2>3
<1>3. Adrift' = Sent
  BY <1>2 DEF Adrift
<1>4. EarlyTrades' = EarlyTrades /\ (Near' <=> Near)
  BY TradesKept DEF Near
<1>5. faults \in Nat
  BY ClockTypes
<1>6. Cardinality(Adrift') + (IF Exposed' THEN 1 ELSE 0)
        <= Cardinality(Adrift) + (IF Exposed THEN 1 ELSE 0) + 1
  <2>1. CASE \E k \in Sent : pool[k].awaited
    <3>1. PICK k \in Sent : pool[k].awaited
      BY <2>1
    <3>2. \A l \in Sent : l # k => l \in Adrift
      <4>1. ASSUME NEW l \in Sent, pool[l].awaited PROVE l = k
        BY <3>1, <4>1 DEF SpacingInv, Sent
      <4> QED
        BY <4>1 DEF Adrift
    <3>3. Adrift' = Adrift \cup {k} /\ k \notin Adrift
      BY <1>3, <3>1, <3>2 DEF Adrift
    <3>4. Cardinality(Adrift') = Cardinality(Adrift) + 1
      BY <3>3, Counted, FS_AddElement
    <3>5. Exposed' <=> Exposed
      BY <1>2, <1>4, <3>1 DEF Exposed
    <3> QED
      BY <3>4, <3>5, Counted
  <2>2. CASE \A k \in Sent : ~pool[k].awaited
    <3>1. Adrift' = Adrift
      BY <1>3, <2>2 DEF Adrift
    <3> QED
      BY <3>1, Counted
  <2> QED
    BY <2>1, <2>2
<1>7. Cardinality(EarlyTrades') + Cardinality(Adrift') + (IF Exposed' THEN 1 ELSE 0) <= faults'
  <2>1. PICK a, b, e \in Nat :
          /\ a = Cardinality(Adrift) /\ b = Cardinality(Adrift') /\ e = Cardinality(EarlyTrades)
    BY Counted, CountedNext
  <2>2. PICK x, y \in Nat :
          x = (IF Exposed THEN 1 ELSE 0) /\ y = (IF Exposed' THEN 1 ELSE 0)
    OBVIOUS
  <2>3. e + a + x <= faults
    BY <2>1, <2>2 DEF SpacingInv
  <2>4. b + y <= a + x + 1
    BY <1>6, <2>1, <2>2
  <2>5. e + b + y <= faults'
    BY <1>5, <2>3, <2>4
  <2> QED
    BY <1>4, <2>1, <2>2, <2>5
<1> QED
  BY <1>2, <1>7 DEF SpacingInv, Aware

\* The loop sends a swap only when the time it keeps is long ago: if a trade were too
\* soon now, the loop knows nothing of the trade before, and that is paid for.
LEMMA SendSpacing ==
  ASSUME AgentInv, AgentInv', SpacingInv, SendSwap(Loop)
  PROVE  SpacingInv'
<1>1. /\ UNCHANGED <<swaps, clock, lastTrade, receipt, faults>>
      /\ stage[Loop] = "swap" /\ stage'[Loop] = "swapping" /\ receipt[Loop] = "none"
  BY LoopIsFlow DEF SendSwap, agentVars, chainVars, GoTo, AgentInv, FlowTypes, FlowInv, FlowOK
<1>2. PICK tx \in Transaction :
        tx = [kind |-> "swap", by |-> Loop, id |-> decision[Loop], awaited |-> TRUE]
  BY LoopIsFlow DEF AgentInv, FlowTypes, Transaction
<1>3. LoopSwap(tx) /\ tx.awaited
  BY <1>2 DEF LoopSwap
<1>4. /\ Len(pool') = Len(pool) + 1 /\ Len(pool) \in Nat
      /\ pool'[Len(pool) + 1] = tx
      /\ \A k \in 1 .. Len(pool) : pool'[k] = pool[k]
  BY <1>2, Submitted DEF SendSwap, Submit
<1>5. Sent' = Sent \cup {Len(pool) + 1}
  <2>1. \A k \in 1 .. Len(pool') : k \in 1 .. Len(pool) \/ k = Len(pool) + 1
    BY <1>4
  <2> QED
    BY <1>3, <1>4, <2>1 DEF Sent, LoopSwap
<1>6. \A k \in Sent : ~pool[k].awaited
  BY <1>1 DEF Sent, LoopSwap, AgentInv, PoolInv, TxOK, WaitedFor
<1>7. Adrift' = Adrift
  BY <1>3, <1>4, <1>5, <1>6 DEF Adrift, Sent
<1>8. EarlyTrades' = EarlyTrades /\ (Near' <=> Near)
  BY <1>1, TradesKept DEF Near
<1>9. Near => ~Known
  <2>1. clock - lastTrade >= MinTradeInterval
    BY <1>1 DEF SpacingInv
  <2> QED
    BY <2>1, ClockTypes DEF Near, Known
<1>10. Exposed' => Exposed
  BY <1>1, <1>8, <1>9 DEF Exposed, Aware
<1>11. Cardinality(EarlyTrades') + Cardinality(Adrift') + (IF Exposed' THEN 1 ELSE 0) <= faults'
  BY <1>1, <1>7, <1>8, <1>10, ClockTypes, Counted DEF SpacingInv
<1>12. \A k \in Sent' : pool'[k].awaited => \A l \in Sent' : l <= k
  BY <1>4, <1>5, <1>6 DEF Sent
<1> QED
  BY <1>1, <1>11, <1>12 DEF SpacingInv, Aware

\* The loop keeps the time of its trade: now it knows of every trade it made.
LEMMA KeepsTime ==
  ASSUME AgentInv, AgentInv', SpacingInv, Aware,
         UNCHANGED <<swaps, pool, clock, faults>>, lastTrade' = clock, stage'[Loop] = "idle"
  PROVE  SpacingInv'
<1>1. Sent = {} /\ Sent' = {} /\ Adrift' = Adrift
  BY DEF SpacingInv, Sent, Adrift
<1>2. EarlyTrades' = EarlyTrades
  BY TradesKept
<1>3. Known'
  BY DEF Known, SpacingInv
<1>4. ~Exposed'
  BY <1>1, <1>3 DEF Exposed
<1>5. Cardinality(EarlyTrades') + Cardinality(Adrift') + (IF Exposed' THEN 1 ELSE 0) <= faults'
  BY <1>1, <1>2, <1>4, ClockTypes, Counted DEF SpacingInv
<1> QED
  BY <1>1, <1>5 DEF SpacingInv, Aware

LEMMA TickSpacing ==
  ASSUME AgentInv, AgentInv', SpacingInv, Tick
  PROVE  SpacingInv'
<1>1. /\ UNCHANGED <<swaps, pool, lastTrade, faults, stage, receipt>> /\ clock' = clock + 1
  BY DEF Tick, flowVars, agentVars, chainVars
<1>2. EarlyTrades' = EarlyTrades /\ Sent' = Sent /\ Adrift' = Adrift
  BY <1>1, TradesKept DEF Sent, Adrift
<1>3. Near' => Near
  BY <1>1, ClockTypes DEF Near
<1>4. Exposed' => Exposed
  BY <1>1, <1>2, <1>3 DEF Exposed, Known, Aware
<1>5. Cardinality(EarlyTrades') + Cardinality(Adrift') + (IF Exposed' THEN 1 ELSE 0) <= faults'
  BY <1>1, <1>2, <1>4, ClockTypes, Counted DEF SpacingInv
<1>6. /\ \A k \in 1 .. Len(swaps') : swaps'[k].at <= clock'
      /\ stage[Loop] \in {"commit", "committing", "swap"} =>
           clock' - lastTrade' >= MinTradeInterval
  BY <1>1, ClockTypes DEF SpacingInv
<1> QED
  BY <1>1, <1>2, <1>5, <1>6 DEF SpacingInv, Aware

LEMMA ShiftDown ==
  ASSUME NEW S, IsFiniteSet(S), NEW T \in SUBSET Int, \A k \in T : k + 1 \in S
  PROVE  IsFiniteSet(T) /\ Cardinality(T) <= Cardinality(S)
<1> DEFINE f == [k \in T |-> k + 1]
<1>1. f \in Injection(T, S)
  BY DEF Injection, IsInjective
<1> HIDE DEF f
<1> QED
  BY <1>1, FS_Injection

\* What the pool loses with its head.
LEMMA MinedSent ==
  ASSUME AgentInv, SpacingInv, NEW tx \in Transaction, Mined(tx)
  PROVE  /\ \A k \in Sent' : k + 1 \in Sent /\ (k \in Adrift' <=> k + 1 \in Adrift)
         /\ ~LoopSwap(tx) => (Sent' = {} <=> Sent = {})
         /\ LoopSwap(tx) => 1 \in Sent
         /\ LoopSwap(tx) /\ tx.awaited => Sent' = {} /\ Adrift = {}
         /\ Cardinality(Adrift') <= Cardinality(Adrift)
         /\ LoopSwap(tx) /\ ~tx.awaited => Cardinality(Adrift') <= Cardinality(Adrift) - 1
         /\ \A k \in Sent' : pool'[k].awaited => \A l \in Sent' : l <= k
<1>1. /\ 1 \in 1 .. Len(pool) /\ pool[1] = tx /\ Len(pool) \in Nat /\ Len(pool') = Len(pool) - 1
      /\ \A k \in 1 .. Len(pool') :
           k + 1 \in 1 .. Len(pool) /\ k + 1 # 1 /\ pool'[k] = pool[k + 1]
  <2>1. Len(pool) \in Nat
    BY LenProperties DEF AgentInv, PoolTypes
  <2> QED
    BY <2>1 DEF Mined
<1>2. \A k \in Sent' : /\ k \in Nat /\ k + 1 \in Sent /\ k + 1 # 1 /\ pool'[k] = pool[k + 1]
                       /\ k \in Adrift' <=> k + 1 \in Adrift
  BY <1>1 DEF Sent, Adrift, LoopSwap
<1>3. \A k \in Sent : k # 1 => k - 1 \in Sent'
  BY <1>1 DEF Sent, LoopSwap
<1>4. LoopSwap(tx) <=> 1 \in Sent
  BY <1>1 DEF Sent
<1>5. ASSUME LoopSwap(tx), tx.awaited PROVE Sent' = {} /\ Adrift = {}
  <2>1. \A l \in Sent : l <= 1
    BY <1>1, <1>4, <1>5 DEF SpacingInv
  <2>2. \A l \in Sent : l = 1
    BY <2>1 DEF Sent
  <2> QED
    BY <1>1, <1>2, <1>5, <2>2 DEF Adrift
<1>6. Sent' \in SUBSET Int /\ Adrift' \in SUBSET Int
  BY <1>2 DEF Adrift
<1>7. Cardinality(Adrift') <= Cardinality(Adrift)
  <2>1. \A k \in Adrift' : k + 1 \in Adrift
    BY <1>2 DEF Adrift
  <2> QED
    BY <1>6, <2>1, Counted, ShiftDown
<1>8. ASSUME LoopSwap(tx), ~tx.awaited PROVE Cardinality(Adrift') <= Cardinality(Adrift) - 1
  <2>1. 1 \in Adrift
    BY <1>1, <1>4, <1>8 DEF Adrift
  <2>2. \A k \in Adrift' : k + 1 \in Adrift \ {1}
    BY <1>2 DEF Adrift
  <2>3. IsFiniteSet(Adrift \ {1}) /\ Cardinality(Adrift \ {1}) = Cardinality(Adrift) - 1
    BY <2>1, Counted, FS_RemoveElement
  <2> QED
    BY <1>6, <2>2, <2>3, ShiftDown
<1>9. ASSUME NEW k \in Sent', pool'[k].awaited, NEW l \in Sent' PROVE l <= k
  <2>1. k + 1 \in Sent /\ l + 1 \in Sent /\ pool[k + 1].awaited /\ k \in Nat /\ l \in Nat
    BY <1>2, <1>9
  <2>2. l + 1 <= k + 1
    BY <2>1 DEF SpacingInv
  <2> QED
    BY <2>1, <2>2
<1> QED
  BY <1>2, <1>3, <1>4, <1>5, <1>7, <1>8, <1>9

\* A transaction is mined that is no swap of the loop: the loop notices a commitment.
LEMMA OtherSpacing ==
  ASSUME AgentInv, AgentInv', SpacingInv, NEW tx \in Transaction, Mined(tx), ~LoopSwap(tx),
         EarlyTrades' = EarlyTrades, Near' <=> Near, Known' <=> Known,
         \A k \in 1 .. Len(swaps') : swaps'[k].at <= clock,
         stage[Loop] = "swapping" => receipt'[Loop] = receipt[Loop]
  PROVE  SpacingInv'
<1>1. UNCHANGED <<stage, lastTrade, clock, faults>>
  BY DEF Mined
<1>2. /\ Sent' = {} <=> Sent = {}
      /\ Cardinality(Adrift') <= Cardinality(Adrift)
      /\ \A k \in Sent' : pool'[k].awaited => \A l \in Sent' : l <= k
  BY MinedSent
<1>3. (Aware' <=> Aware)
  BY <1>1 DEF Aware
<1>4. Exposed' <=> Exposed
  BY <1>2, <1>3 DEF Exposed
<1>5. Cardinality(EarlyTrades') + Cardinality(Adrift') + (IF Exposed' THEN 1 ELSE 0) <= faults'
  <2>1. PICK a, b, e \in Nat :
          /\ a = Cardinality(Adrift) /\ b = Cardinality(Adrift') /\ e = Cardinality(EarlyTrades)
    BY Counted, CountedNext
  <2>2. PICK x \in Nat : x = (IF Exposed THEN 1 ELSE 0) /\ x = (IF Exposed' THEN 1 ELSE 0)
    BY <1>4
  <2>3. e + a + x <= faults /\ faults \in Nat
    BY <2>1, <2>2, ClockTypes DEF SpacingInv
  <2>4. e + b + x <= faults
    BY <1>2, <2>1, <2>3
  <2> QED
    BY <1>1, <2>1, <2>2, <2>4
<1> QED
  BY <1>1, <1>2, <1>3, <1>5 DEF SpacingInv

\* A swap of the loop is mined. It comes too soon when a swap would have come too soon,
\* and that was paid for; if the loop waited for it, its next trade is not exposed.
LEMMA OwnSpacing ==
  ASSUME AgentInv, AgentInv', SpacingInv, NEW tx \in Transaction, Mined(tx), LoopSwap(tx),
         Cardinality(EarlyTrades') <= Cardinality(EarlyTrades) + (IF Near THEN 1 ELSE 0),
         \/ EarlyTrades' = EarlyTrades /\ (Near' <=> Near)
         \/ ~tx.awaited
         \/ Aware',
         \A k \in 1 .. Len(swaps') : swaps'[k].at <= clock,
         Aware' => tx.awaited
  PROVE  SpacingInv'
<1>1. UNCHANGED <<stage, lastTrade, clock, faults>>
  BY DEF Mined
<1>2. /\ 1 \in Sent
      /\ tx.awaited => Sent' = {} /\ Adrift = {}
      /\ Cardinality(Adrift') <= Cardinality(Adrift)
      /\ ~tx.awaited => Cardinality(Adrift') <= Cardinality(Adrift) - 1
      /\ \A k \in Sent' : pool'[k].awaited => \A l \in Sent' : l <= k
  BY MinedSent
<1>3. Exposed <=> Near
  BY <1>2 DEF Exposed
<1>4. PICK a, b, e, d \in Int :
        /\ a = Cardinality(Adrift) /\ b = Cardinality(Adrift')
        /\ e = Cardinality(EarlyTrades) /\ d = Cardinality(EarlyTrades')
  BY Counted, CountedNext
<1>5. Cardinality(EarlyTrades') + Cardinality(Adrift') + (IF Exposed' THEN 1 ELSE 0) <= faults'
  <2>1. e + a + (IF Near THEN 1 ELSE 0) <= faults /\ faults' = faults /\ faults \in Nat
        /\ d <= e + (IF Near THEN 1 ELSE 0) /\ b <= a
    BY <1>1, <1>2, <1>3, <1>4, ClockTypes DEF SpacingInv
  <2>2. CASE ~tx.awaited
    <3>1. b <= a - 1
      BY ONLY <1>2, <1>4, <2>2
    <3>2. d + b + (IF Exposed' THEN 1 ELSE 0) <= faults'
      BY ONLY <2>1, <3>1, a \in Int, b \in Int, d \in Int, e \in Int
    <3> QED
      BY ONLY <1>4, <3>2
  <2>3. CASE Aware' /\ tx.awaited
    <3>1. ~Exposed'
      BY <1>2, <2>3 DEF Exposed
    <3>2. d + b + (IF Exposed' THEN 1 ELSE 0) <= faults'
      BY ONLY <2>1, <3>1, a \in Int, b \in Int, d \in Int, e \in Int
    <3> QED
      BY ONLY <1>4, <3>2
  <2>4. CASE EarlyTrades' = EarlyTrades /\ (Near' <=> Near)
    <3>1. Exposed' => Near
      BY <2>4 DEF Exposed
    <3>2. d = e
      BY ONLY <1>4, <2>4
    <3>3. d + b + (IF Exposed' THEN 1 ELSE 0) <= faults'
      BY ONLY <2>1, <3>1, <3>2, a \in Int, b \in Int, d \in Int, e \in Int
    <3> QED
      BY ONLY <1>4, <3>3
  <2> QED
    BY <2>2, <2>3, <2>4
<1> QED
  BY <1>1, <1>2, <1>5 DEF SpacingInv

\* A transaction other than a swap of its own tells a loop that is swapping nothing.
LEMMA OthersUnnoticed ==
  ASSUME AgentInv, NEW tx \in Transaction, Mined(tx), ~LoopSwap(tx), stage[Loop] = "swapping",
         NEW result \in {"success", "reverted"}, Notify(tx, result)
  PROVE  receipt'[Loop] = receipt[Loop]
<1>1. ~(tx.by = Loop /\ tx.awaited)
  BY DEF Mined, TxOK, WaitedFor, LoopSwap
<1> QED
  BY <1>1, LoopIsFlow, NotifyFacts

LEMMA MinedUntraded ==
  ASSUME AgentInv, AgentInv', SpacingInv, NEW tx \in Transaction, Mined(tx), swaps' = swaps,
         IF LoopSwap(tx) THEN Notify(tx, "reverted")
         ELSE stage[Loop] = "swapping" => receipt'[Loop] = receipt[Loop]
  PROVE  SpacingInv'
<1>1. /\ EarlyTrades' = EarlyTrades /\ (Near' <=> Near) /\ (Known' <=> Known)
      /\ \A k \in 1 .. Len(swaps') : swaps'[k].at <= clock
  BY TradesKept DEF Mined, Near, Known, SpacingInv
<1>2. CASE ~LoopSwap(tx)
  BY <1>1, <1>2, OtherSpacing
<1>3. CASE LoopSwap(tx)
  <2>1. Aware' => tx.awaited
    <3>1. Sent # {}
      BY <1>3, MinedSent
    <3>2. ~tx.awaited => receipt'[Loop] = receipt[Loop]
      BY <1>3, LoopIsFlow, NotifyFacts
    <3> QED
      BY <3>1, <3>2 DEF Mined, SpacingInv, Aware
  <2> QED
    BY <1>1, <1>3, <2>1, Counted, OwnSpacing
<1> QED
  BY <1>2, <1>3

LEMMA MinedTraded ==
  ASSUME AgentInv, AgentInv', SpacingInv, NEW tx \in Transaction, Mined(tx), Swaps(tx)
  PROVE  SpacingInv'
<1>1. tx.by \in Flows /\ tx.awaited \in BOOLEAN /\ tx.id \in Ids \cup {NoId}
      /\ tx.kind = "swap" /\ Notify(tx, "success") /\ stage' = stage
      /\ lastTrade' = lastTrade /\ clock' = clock
  BY TxType DEF Swaps, Mined
<1>2. PICK new \in Swap : new = [by |-> tx.by, id |-> tx.id, at |-> clock]
  BY <1>1 DEF Swap, AgentInv, LocalTypes
<1>3. new.by = tx.by /\ new.at = clock
  BY <1>2
<1>4. PICK n \in Nat : n = Len(swaps)
  BY LenProperties DEF AgentInv, ChainTypes
<1>5. /\ Len(swaps') = n + 1 /\ swaps'[n + 1] = new
      /\ \A k \in 1 .. n : swaps'[k] = swaps[k]
  <2>1. swaps \in Seq(Swap) /\ swaps' = Append(swaps, new)
    BY <1>2 DEF AgentInv, ChainTypes, Swaps
  <2> QED
    BY <1>4, <2>1, AppendProperties
<1>6. \A k \in 1 .. n + 1 : k \in 1 .. n \/ k = n + 1
  BY <1>4
<1>7. \A k \in 1 .. Len(swaps') : swaps'[k].at <= clock
  BY <1>3, <1>4, <1>5, <1>6, ClockTypes DEF SpacingInv
<1>8. ASSUME NEW l \in 1 .. n PROVE TooSoon(l)' <=> TooSoon(l)
  <2>1. \A k \in 1 .. l - 1 : k \in 1 .. n
    BY <1>4
  <2> QED
    BY <1>5, <2>1 DEF TooSoon
<1>9. TooSoon(n + 1)' <=> (tx.by = Loop /\ Near)
  <2>1. (n + 1) - 1 = n
    BY <1>4
  <2> QED
    BY <1>3, <1>4, <1>5, <2>1 DEF TooSoon, Near
<1>10. EarlyTrades' = {l \in 1 .. n + 1 : TooSoon(l)'} /\ EarlyTrades = {l \in 1 .. n : TooSoon(l)}
  BY <1>4, <1>5 DEF EarlyTrades, TooSoon
<1>11. EarlyTrades' = IF tx.by = Loop /\ Near THEN EarlyTrades \cup {n + 1} ELSE EarlyTrades
  <2>1. ASSUME NEW l \in 1 .. n + 1
        PROVE  TooSoon(l)' <=> \/ l \in 1 .. n /\ TooSoon(l)
                               \/ l = n + 1 /\ tx.by = Loop /\ Near
    <3>1. ~(n + 1 \in 1 .. n)
      BY <1>4
    <3>2. CASE l = n + 1
      BY <1>9, <3>1, <3>2
    <3>3. CASE l \in 1 .. n
      BY <1>8, <3>1, <3>3
    <3> QED
      BY <1>6, <3>2, <3>3
  <2>2. \A l : l \in EarlyTrades' <=> \/ l \in EarlyTrades
                                      \/ l = n + 1 /\ tx.by = Loop /\ Near
    <3>1. n + 1 \in 1 .. n + 1 /\ \A l \in 1 .. n : l \in 1 .. n + 1
      BY <1>4
    <3> QED
      BY <1>10, <2>1, <3>1
  <2> QED
    BY <2>2
<1>12. CASE ~LoopSwap(tx)
  <2>1. tx.by # Loop
    BY <1>1, <1>12 DEF LoopSwap
  <2>2. EarlyTrades' = EarlyTrades
    BY <1>11, <2>1
  <2>3. (Near' <=> Near) /\ (Known' <=> Known)
    BY <1>1, <1>3, <1>4, <1>5, <1>6, <2>1 DEF Near, Known
  <2>4. stage[Loop] = "swapping" => receipt'[Loop] = receipt[Loop]
    BY <1>1, <1>12, OthersUnnoticed
  <2> QED
    BY <1>7, <1>12, <2>2, <2>3, <2>4, OtherSpacing
<1>13. CASE LoopSwap(tx)
  <2>1. Cardinality(EarlyTrades') <= Cardinality(EarlyTrades) + (IF Near THEN 1 ELSE 0)
    <3>1. CASE tx.by = Loop /\ Near
      <4>1. EarlyTrades' = EarlyTrades \cup {n + 1}
        BY <1>11, <3>1
      <4>2. Cardinality(EarlyTrades \cup {n + 1}) <= Cardinality(EarlyTrades) + 1
        <5>1. IsFiniteSet(EarlyTrades) /\ Cardinality(EarlyTrades) \in Nat
          BY Counted
        <5>2. Cardinality(EarlyTrades \cup {n + 1}) = IF n + 1 \in EarlyTrades
                                                      THEN Cardinality(EarlyTrades)
                                                      ELSE Cardinality(EarlyTrades) + 1
          BY <5>1, FS_AddElement
        <5> QED
          BY <5>1, <5>2
      <4> QED
        BY <3>1, <4>1, <4>2
    <3>2. CASE ~(tx.by = Loop /\ Near)
      BY <1>11, <3>2, Counted
    <3> QED
      BY <3>1, <3>2
  <2>2. tx.by = Loop
    BY <1>13 DEF LoopSwap
  <2>3. tx.awaited => Aware'
    <3>1. tx.awaited => stage[Loop] = "swapping"
      BY <1>1, <2>2 DEF Mined, TxOK, WaitedFor
    <3> QED
      BY <1>1, <2>2, <3>1, NotifyFacts DEF Aware
  <2>4. Aware' => tx.awaited
    <3>1. Sent # {}
      BY <1>13, MinedSent
    <3>2. ~tx.awaited => receipt'[Loop] = receipt[Loop]
      BY <1>1, LoopIsFlow, NotifyFacts
    <3> QED
      BY <1>1, <3>1, <3>2 DEF SpacingInv, Aware
  <2> QED
    BY <1>7, <1>13, <2>1, <2>3, <2>4, OwnSpacing
<1> QED
  BY <1>12, <1>13

LEMMA MineSpacing ==
  ASSUME AgentInv, AgentInv', SpacingInv, MineTransaction
  PROVE  SpacingInv'
<1>1. PICK tx \in Transaction : tx = Head(pool) /\ Mined(tx)
  BY HeadMined DEF Mined
<1>2. Reverts(tx) \/ Commits(tx) \/ Swaps(tx) \/ Settles(tx)
  BY <1>1 DEF MineTransaction
<1>3. CASE Reverts(tx)
  <2>1. swaps' = swaps /\ Notify(tx, "reverted")
    BY <1>3 DEF Reverts, chainVars
  <2> QED
    BY <1>1, <2>1, OthersUnnoticed, MinedUntraded
<1>4. CASE Commits(tx)
  <2>1. swaps' = swaps /\ Notify(tx, "success") /\ ~LoopSwap(tx)
    BY <1>4 DEF Commits, LoopSwap
  <2> QED
    BY <1>1, <2>1, OthersUnnoticed, MinedUntraded
<1>5. CASE Swaps(tx)
  BY <1>1, <1>5, MinedTraded
<1>6. CASE Settles(tx)
  BY <1>1, <1>6, MinedUntraded DEF Settles, LoopSwap
<1> QED
  BY <1>2, <1>3, <1>4, <1>5, <1>6

\* A transaction is submitted that is no swap of the loop.
LEMMA OthersSent ==
  ASSUME AgentInv, NEW tx \in Transaction, pool' = Append(pool, tx), Len(pool) < MaxPool,
         ~LoopSwap(tx)
  PROVE  Sent' = Sent /\ \A k \in Sent : pool'[k].awaited <=> pool[k].awaited
<1>1. /\ Len(pool') = Len(pool) + 1 /\ Len(pool) \in Nat
      /\ pool'[Len(pool) + 1] = tx
      /\ \A k \in 1 .. Len(pool) : pool'[k] = pool[k]
  BY Submitted
<1>2. \A k \in 1 .. Len(pool') : k \in 1 .. Len(pool) \/ k = Len(pool) + 1
  BY <1>1
<1> QED
  BY <1>1, <1>2 DEF Sent, LoopSwap

LEMMA FlowSpacing ==
  ASSUME AgentInv, AgentInv', SpacingInv, NEW f \in Flows, FlowStep(f)
  PROVE  SpacingInv'
<1>0. /\ FlowTypes /\ FlowOK(f) /\ FlowOK(Loop) /\ faults \in Nat /\ Loop \in Flows
  BY LoopIsFlow, ClockTypes DEF AgentInv, FlowInv
<1>1. CASE SendCommit(f)
  <2>1. PICK tx \in Transaction :
          tx = [kind |-> "commit", by |-> f, id |-> NoId, awaited |-> TRUE]
    BY DEF Transaction
  <2>2. ~LoopSwap(tx)
    BY <2>1 DEF LoopSwap
  <2>3. Sent' = Sent /\ \A k \in Sent : pool'[k].awaited <=> pool[k].awaited
    BY <1>1, <2>1, <2>2, OthersSent DEF SendCommit, Submit
  <2>4. /\ UNCHANGED <<swaps, clock, lastTrade, receipt, faults>>
        /\ stage[f] = "commit" /\ stage' = [stage EXCEPT ![f] = "committing"]
    BY <1>1 DEF SendCommit, agentVars, chainVars, GoTo
  <2> QED
    BY <1>0, <2>3, <2>4, QuietSpacing DEF Aware, FlowTypes
<1>2. CASE SendSwap(f)
  <2>1. CASE f = Loop
    BY <1>2, <2>1, SendSpacing
  <2>2. CASE f # Loop
    <3>1. PICK tx \in Transaction :
            tx = [kind |-> "swap", by |-> f, id |-> decision[f], awaited |-> TRUE]
      BY <1>0 DEF Transaction, FlowTypes
    <3>2. ~LoopSwap(tx)
      BY <2>2, <3>1 DEF LoopSwap
    <3>3. Sent' = Sent /\ \A k \in Sent : pool'[k].awaited <=> pool[k].awaited
      BY <1>2, <3>1, <3>2, OthersSent DEF SendSwap, Submit
    <3>4. /\ UNCHANGED <<swaps, clock, lastTrade, receipt, faults>>
          /\ stage'[Loop] = stage[Loop]
      BY <1>0, <1>2, <2>2 DEF SendSwap, agentVars, chainVars, GoTo, FlowTypes
    <3> QED
      BY <1>0, <3>3, <3>4, QuietSpacing DEF Aware
  <2> QED
    BY <2>1, <2>2
<1>3. CASE Receive(f)
  <2>1. UNCHANGED <<swaps, clock, pool, faults>> /\ Sent' = Sent
    BY <1>3 DEF Receive, chainVars, Sent
  <2>2. CASE f = Loop /\ Aware
    <3>1. receipt[f] = "success" /\ stage[f] = "swapping"
      BY <2>2 DEF Aware
    <3>2. End(f, "idle") /\ TradeDone
      BY <1>3, <2>2, <3>1 DEF Receive, ReceiveCommit, ReceiveSwap
    <3>3. stage'[Loop] = "idle" /\ lastTrade' = clock
      BY <1>0, <2>2, <3>2 DEF End, GoTo, TradeDone, FlowTypes
    <3> QED
      BY <2>1, <2>2, <3>3, KeepsTime
  <2>3. CASE f = Loop /\ ~Aware
    <3>1. \/ stage[f] = "committing" /\ Proceed(f)
          \/ Throw(f)
      BY <1>3, <2>3 DEF Receive, ReceiveCommit, ReceiveSwap, Aware
    <3>2. lastTrade' = lastTrade
      BY <1>3, <2>3 DEF Receive, ReceiveCommit, ReceiveSwap, Aware, agentVars
    <3>3. /\ ~Aware'
          /\ stage'[Loop] = "idle" \/ (stage'[Loop] = "swap" /\ stage[Loop] = "committing")
      BY <1>0, <2>3, <3>1 DEF Proceed, Throw, End, GoTo, Aware, FlowTypes
    <3> QED
      BY <1>0, <2>1, <2>3, <3>2, <3>3, QuietSpacing
  <2>4. CASE f # Loop
    <3>1. stage'[Loop] = stage[Loop] /\ receipt'[Loop] = receipt[Loop] /\ lastTrade' = lastTrade
      BY <1>0, <1>3, <2>4
         DEF Receive, ReceiveCommit, ReceiveSwap, Proceed, Throw, End, GoTo, FlowTypes, agentVars
    <3> QED
      BY <1>0, <2>1, <3>1, QuietSpacing DEF Aware
  <2> QED
    BY <2>2, <2>3, <2>4
<1>4. CASE CallFails(f)
  <2>1. /\ UNCHANGED <<swaps, clock, pool, faults, lastTrade>> /\ Sent' = Sent
        /\ stage[f] # "swapping" /\ Throw(f)
    BY <1>4 DEF CallFails, chainVars, agentVars, Sent
  <2>2. (Aware' <=> Aware) /\ (stage'[Loop] = "idle" \/ stage'[Loop] = stage[Loop])
    BY <1>0, <2>1 DEF Throw, End, GoTo, Aware, FlowTypes
  <2> QED
    BY <1>0, <2>1, <2>2, QuietSpacing
<1>5. CASE ReceiptLost(f)
  <2>1. /\ UNCHANGED <<swaps, clock, lastTrade>> /\ faults' = faults + 1
        /\ Throw(f) /\ Abandon(f)
    BY <1>5 DEF ReceiptLost, chainVars, agentVars
  <2>2. CASE f = Loop
    <3>1. stage'[Loop] = "idle"
      BY <1>0, <2>1, <2>2 DEF Throw, End, GoTo, FlowTypes
    <3> QED
      BY <2>1, <2>2, <3>1, FaultSpacing
  <2>3. CASE f # Loop
    <3>1. stage'[Loop] = stage[Loop] /\ receipt'[Loop] = receipt[Loop]
      BY <1>0, <2>1, <2>3 DEF Throw, End, GoTo, FlowTypes
    <3>2. pool' = [k \in 1 .. Len(pool) |->
                     IF pool[k].by = f THEN [pool[k] EXCEPT !.awaited = FALSE] ELSE pool[k]]
      BY <2>1 DEF Abandon
    <3>3. \A k \in 1 .. Len(pool) : pool[k].by = Loop => pool'[k] = pool[k]
      BY <2>3, <3>2
    <3>4. PoolKept(f)
      BY <2>1, AbandonKept
    <3>5. Sent' = Sent /\ \A k \in Sent : pool'[k].awaited <=> pool[k].awaited
      BY <3>3, <3>4 DEF Sent, LoopSwap, PoolKept
    <3> QED
      BY <1>0, <2>1, <3>1, <3>5, QuietSpacing DEF Aware
  <2> QED
    BY <2>2, <2>3
<1> QED
  BY <1>1, <1>2, <1>3, <1>4, <1>5 DEF FlowStep

LEMMA SpacingStep ==
  ASSUME AgentInv, AgentInv', SpacingInv, [Next]_vars
  PROVE  SpacingInv'
<1>0. FlowTypes /\ faults \in Nat /\ Loop \in Flows
  BY LoopIsFlow, ClockTypes DEF AgentInv
<1>1. CASE UNCHANGED vars
  <2>1. UNCHANGED <<stage, receipt, lastTrade, pool, swaps, clock, faults>>
    BY <1>1 DEF vars, flowVars, agentVars, chainVars
  <2> QED
    BY <1>0, <2>1, QuietSpacing DEF Sent, Aware
<1>2. CASE StartIteration \/ Decide
  <2>1. /\ UNCHANGED <<receipt, lastTrade, pool, swaps, clock, faults>>
        /\ stage[Loop] # "swapping"
        /\ \/ stage'[Loop] \in {"idle", "decide"}
           \/ stage'[Loop] = "commit" /\ clock - lastTrade >= MinTradeInterval
    BY <1>0, <1>2 DEF StartIteration, Decide, GoTo, agentVars, chainVars, FlowTypes
  <2> QED
    BY <1>0, <2>1, QuietSpacing DEF Sent, Aware
<1>3. CASE Restart
  <2>1. stage'[Loop] = "idle" /\ UNCHANGED <<swaps, clock>>
    BY <1>0, <1>3 DEF Restart, End, GoTo, chainVars, FlowTypes
  <2> QED
    BY <1>3, <2>1, FaultSpacing DEF Restart
<1>4. CASE \E id \in Ids : Settle(id)
  <2>1. PICK id \in Ids : Settle(id)
    BY <1>4
  <2>2. PICK tx \in Transaction :
          tx = [kind |-> "settle", by |-> Loop, id |-> id, awaited |-> FALSE]
    BY <1>0 DEF Transaction
  <2>3. ~LoopSwap(tx)
    BY <2>2 DEF LoopSwap
  <2>4. Sent' = Sent /\ \A k \in Sent : pool'[k].awaited <=> pool[k].awaited
    <3>1. CASE pool' = pool
      BY <3>1 DEF Sent
    <3>2. CASE Submit("settle", Loop, id, FALSE)
      BY <2>2, <2>3, <3>2, OthersSent DEF Submit
    <3> QED
      BY <2>1, <3>1, <3>2 DEF Settle
  <2>5. UNCHANGED <<stage, receipt, lastTrade, swaps, clock, faults>>
    BY <2>1 DEF Settle, flowVars, chainVars
  <2> QED
    BY <1>0, <2>4, <2>5, QuietSpacing DEF Aware
<1>5. CASE \E f \in Flows : FlowStep(f)
  BY <1>5, FlowSpacing
<1>6. CASE Confirm \/ ReceiveAnswer \/ FetchFails
  <2>1. /\ UNCHANGED <<receipt, lastTrade, pool, swaps, clock>>
        /\ faults' = faults \/ faults' = faults + 1
    BY <1>6 DEF Confirm, ReceiveAnswer, FetchFails, agentVars, chainVars
  <2>2. stage'[Loop] = stage[Loop]
    <3>1. ASSUME NEW i \in 1 .. Attempts, Request(i) PROVE stage'[Loop] = stage[Loop]
      BY <1>0, <3>1, LoopIsFlow DEF Request, GoTo, FlowTypes
    <3>2. 1 \in 1 .. Attempts /\ (current < Attempts => current + 1 \in 1 .. Attempts)
      BY AgentAssumption DEF AgentInv, LocalTypes
    <3> QED
      BY <1>6, <3>1, <3>2 DEF Confirm, ReceiveAnswer, FetchFails, Retry, Answered
  <2> QED
    BY <1>0, <2>1, <2>2, QuietSpacing DEF Sent, Aware
<1>7. CASE MineTransaction
  BY <1>7, MineSpacing
<1>8. CASE Tick
  BY <1>8, TickSpacing
<1> QED
  BY <1>1, <1>2, <1>3, <1>4, <1>5, <1>6, <1>7, <1>8 DEF Next

\* agent.ts keeps the time of its last trade in memory, and only once it has the
\* receipt: what it forgets or never learns, and nothing else, lets a trade come too
\* soon after an earlier one, and each restart or lost receipt does so at most once.
THEOREM TradesAreSpaced == Spec => []LoopTradesSpaced
<1>1. SpacingInv /\ AgentInv /\ AgentInv' /\ [Next]_vars => SpacingInv'
  BY SpacingStep
<1>2. SpacingInv /\ AgentInv => LoopTradesSpaced
  BY Counted, ClockTypes DEF SpacingInv, LoopTradesSpaced
<1> QED
  BY <1>1, <1>2, SpacingInitially, AgentInvariant, PTL DEF Spec
=============================================================================
