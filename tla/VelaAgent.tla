----------------------------- MODULE VelaAgent -----------------------------
(***************************************************************************)
(* agent/src/agent.ts: the decision loop, and beside it the execution      *)
(* route of the frontend, which trades with the same key when the terminal *)
(* confirms. Each of them commits a decision to the vault's feed, waits    *)
(* for the receipt, swaps, and waits again; the terminal sends its request *)
(* once more when the route times out.                                     *)
(*                                                                         *)
(* A flow is the loop or one attempt of the terminal. Every await ends a   *)
(* step. A transaction is submitted in one step and mined in a later one,  *)
(* in the order of the account's nonces. Whether it takes effect is the    *)
(* contracts' answer (the halt, the hook, the slippage limit, the          *)
(* signature), which is left open here.                                    *)
(***************************************************************************)
EXTENDS DecisionFeed, Sequences, FiniteSets

CONSTANTS
  Fund,              \* the vault of the configuration
  Loop,              \* the loop as a flow; the others are the attempts 1 .. Attempts
  Attempts,          \* `attempts` of executeWithRetry
  LoopHash, LoopCID, \* what the loop commits: the hash and the address of its evidence
  OperatorHash, OperatorCID,   \* what the route commits
  MinTradeInterval,  \* MIN_TRADE_INTERVAL_MS, in ticks of the clock
  MaxClock,          \* bound: ticks
  MaxPool,           \* bound: submitted transactions not mined yet
  MaxFaults          \* bound: lost replies, crashes and failed fetches of the terminal

ASSUME AgentAssumption ==
  /\ Fund \in Vaults
  /\ Attempts \in Nat \ {0} /\ Loop \notin 1 .. Attempts
  /\ {LoopHash, OperatorHash} \subseteq Hashes /\ LoopHash # OperatorHash
  /\ {LoopCID, OperatorCID} \subseteq EvidenceCIDs /\ NoCID \notin EvidenceCIDs
  /\ MinTradeInterval \in Nat \ {0}
  /\ MaxClock \in Nat /\ MaxPool \in Nat \ {0} /\ MaxFaults \in Nat /\ MaxFeed \in Nat

VARIABLES
  stage,      \* stage[f]: what flow f is about to do, or waits for
  decision,   \* decision[f]: the id of the decision flow f committed, or NoId
  receipt,    \* receipt[f]: what became of the transaction flow f waits for
  lastTrade,  \* lastTradeTimestamp of the loop
  settling,   \* the decisions the loop settles in the background
  current,    \* the attempt the terminal waits for, 0 when it is not `busy`
  pool,       \* the submitted transactions of the account, oldest first
  swaps,      \* the swaps that took effect, oldest first
  clock,
  faults

agentVars == <<lastTrade, settling>>
flowVars == <<stage, decision, receipt>>
chainVars == <<feedVars, swaps>>
vars == <<flowVars, agentVars, current, pool, chainVars, clock, faults>>

Flows == {Loop} \cup 1 .. Attempts
NoId == -1
Never == -MinTradeInterval

Stages ==
  {"idle", "decide", "commit", "committing", "swap", "swapping", "done", "failed"}

Transaction ==
  [kind : {"commit", "swap", "settle"}, by : Flows, id : Ids \cup {NoId}, awaited : BOOLEAN]

HashOf(f) == IF f = Loop THEN LoopHash ELSE OperatorHash
CIDOf(f) == IF f = Loop THEN LoopCID ELSE OperatorCID

Submit(kind, f, id, awaited) ==
  /\ Len(pool) < MaxPool   \* bound, not in the code
  /\ pool' = Append(pool, [kind |-> kind, by |-> f, id |-> id, awaited |-> awaited])

\* Whatever flow f has submitted is mined all the same, and f does not learn of it.
Abandon(f) ==
  pool' = [k \in 1 .. Len(pool) |->
             IF pool[k].by = f THEN [pool[k] EXCEPT !.awaited = FALSE] ELSE pool[k]]

GoTo(f, s) == stage' = [stage EXCEPT ![f] = s]

\* The flow ends, and its local variables with it.
End(f, s) ==
  /\ GoTo(f, s)
  /\ decision' = [decision EXCEPT ![f] = NoId]
  /\ receipt' = [receipt EXCEPT ![f] = "none"]

\* An exception: the loop logs it and sleeps, the route answers 500.
Throw(f) == End(f, IF f = Loop THEN "idle" ELSE "failed")
-----------------------------------------------------------------------------
(* The decision loop.                                                      *)

\* The policy and the price are read.
StartIteration ==
  /\ stage[Loop] = "idle"
  /\ GoTo(Loop, "decide")
  /\ UNCHANGED <<decision, receipt, agentVars, current, pool, chainVars, clock, faults>>

\* A decision to hold ends the iteration, and so does a trade too soon after the
\* last one the loop knows of.
Decide ==
  /\ stage[Loop] = "decide"
  /\ \/ GoTo(Loop, "idle")
     \/ clock - lastTrade >= MinTradeInterval /\ GoTo(Loop, "commit")
  /\ UNCHANGED <<decision, receipt, agentVars, current, pool, chainVars, clock, faults>>

\* Mutant of TradeDone: the time of the trade is not kept.
TradeDoneForgetful == settling' = settling \cup {decision[Loop]} /\ UNCHANGED lastTrade

\* After the receipt of its swap the loop keeps the time and starts to settle.
TradeDone ==
  /\ lastTrade' = clock
  /\ settling' = settling \cup {decision[Loop]}

\* The background settlement is sent, or fails and is not tried again.
Settle(id) ==
  /\ id \in settling
  /\ settling' = settling \ {id}
  /\ \/ Submit("settle", Loop, id, FALSE)
     \/ UNCHANGED pool
  /\ UNCHANGED <<flowVars, lastTrade, current, chainVars, clock, faults>>

\* SIGINT, SIGTERM or a crash; the process starts again with an empty memory.
Restart ==
  /\ faults < MaxFaults
  /\ faults' = faults + 1
  /\ End(Loop, "idle")
  /\ lastTrade' = Never
  /\ settling' = {}
  /\ Abandon(Loop)
  /\ UNCHANGED <<current, chainVars, clock>>
-----------------------------------------------------------------------------
(* What the loop and the route do alike.                                   *)

SendCommit(f) ==
  /\ stage[f] = "commit"
  /\ Submit("commit", f, NoId, TRUE)
  /\ GoTo(f, "committing")
  /\ UNCHANGED <<decision, receipt, agentVars, current, chainVars, clock, faults>>

Proceed(f) ==
  /\ GoTo(f, "swap")
  /\ receipt' = [receipt EXCEPT ![f] = "none"]
  /\ UNCHANGED decision

\* Mutant of ReceiveCommit: a receipt is taken for success.
ReceiveCommitAny(f) ==
  stage[f] = "committing" /\ receipt[f] # "none" /\ Proceed(f)

\* wait() throws when the transaction reverted.
ReceiveCommit(f) ==
  /\ stage[f] = "committing" /\ receipt[f] # "none"
  /\ IF receipt[f] = "success" THEN Proceed(f) ELSE Throw(f)

\* Mutant of SendSwap: the swap is sent again before the receipt of the first.
SendSwapUnawaited(f) ==
  /\ stage[f] = "swap"
  /\ Submit("swap", f, decision[f], TRUE)
  /\ UNCHANGED <<flowVars, agentVars, current, chainVars, clock, faults>>

SendSwap(f) ==
  /\ stage[f] = "swap"
  /\ Submit("swap", f, decision[f], TRUE)
  /\ GoTo(f, "swapping")
  /\ UNCHANGED <<decision, receipt, agentVars, current, chainVars, clock, faults>>

\* Mutant of ReceiveSwap: a receipt is taken for success.
ReceiveSwapAny(f) ==
  /\ stage[f] = "swapping" /\ receipt[f] # "none"
  /\ IF f = Loop THEN End(f, "idle") /\ TradeDone
     ELSE End(f, "done") /\ UNCHANGED agentVars

ReceiveSwap(f) ==
  /\ stage[f] = "swapping" /\ receipt[f] # "none"
  /\ IF receipt[f] # "success" THEN Throw(f) /\ UNCHANGED agentVars
     ELSE IF f = Loop THEN End(f, "idle") /\ TradeDone
     ELSE End(f, "done") /\ UNCHANGED agentVars

Receive(f) ==
  /\ \/ ReceiveCommit(f) /\ UNCHANGED agentVars
     \/ ReceiveSwap(f)
  /\ UNCHANGED <<current, pool, chainVars, clock, faults>>

\* A call before a submission fails: a read, the inference, the upload, the estimate
\* of the gas, or a nonce the other process has taken.
CallFails(f) ==
  /\ stage[f] \in {"decide", "commit", "swap"}
  /\ Throw(f)
  /\ UNCHANGED <<agentVars, current, pool, chainVars, clock, faults>>

\* The transaction is submitted and its receipt never comes: the node times out.
ReceiptLost(f) ==
  /\ faults < MaxFaults
  /\ faults' = faults + 1
  /\ stage[f] \in {"committing", "swapping"}
  /\ Throw(f)
  /\ Abandon(f)
  /\ UNCHANGED <<agentVars, current, chainVars, clock>>
-----------------------------------------------------------------------------
(* The terminal.                                                           *)

Request(i) ==
  /\ current' = i
  /\ GoTo(i, "commit")

Answered == current' = 0 /\ UNCHANGED stage

Confirm ==
  /\ current = 0 /\ stage[1] = "idle"   \* bound: one confirmation
  /\ Request(1)
  /\ UNCHANGED <<decision, receipt, agentVars, pool, chainVars, clock, faults>>

\* Mutant of Retry: the attempts never run out.
RetryForEver == Request(IF current < Attempts THEN current + 1 ELSE 1)

Retry == IF current < Attempts THEN Request(current + 1) ELSE Answered

\* The route answers: a timeout is tried again, any other error is shown.
ReceiveAnswer ==
  /\ current # 0
  /\ \/ stage[current] = "done" /\ Answered
     \/ stage[current] = "failed" /\ (Retry \/ Answered)
  /\ UNCHANGED <<decision, receipt, agentVars, pool, chainVars, clock, faults>>

\* fetch() itself fails. The route does not notice and goes on.
FetchFails ==
  /\ current # 0
  /\ faults < MaxFaults
  /\ faults' = faults + 1
  /\ Retry \/ Answered
  /\ UNCHANGED <<decision, receipt, agentVars, pool, chainVars, clock>>
-----------------------------------------------------------------------------
(* The chain and the clock.                                                *)

\* The flow that waits for the transaction finds its receipt.
Notify(tx, result) ==
  receipt' = IF tx.awaited THEN [receipt EXCEPT ![tx.by] = result] ELSE receipt

Reverts(tx) == Notify(tx, "reverted") /\ UNCHANGED <<decision, chainVars>>

\* The receipt of a commitment carries the id of the decision.
Commits(tx) ==
  /\ tx.kind = "commit"
  /\ CommitDecision(VaultAgent[Fund], Fund, HashOf(tx.by), CIDOf(tx.by), FALSE)
  /\ decision' = IF tx.awaited THEN [decision EXCEPT ![tx.by] = totalDecisions[Fund]]
                 ELSE decision
  /\ Notify(tx, "success")
  /\ UNCHANGED swaps

Swaps(tx) ==
  /\ tx.kind = "swap"
  /\ swaps' = Append(swaps, [by |-> tx.by, id |-> tx.id, at |-> clock])
  /\ Notify(tx, "success")
  /\ UNCHANGED <<decision, feedVars>>

Settles(tx) ==
  /\ tx.kind = "settle"
  /\ MarkAttested(Fund, tx.id, LoopHash)
  /\ UNCHANGED <<decision, receipt, swaps>>

\* The oldest transaction of the account is mined.
MineTransaction ==
  /\ pool # <<>>
  /\ pool' = Tail(pool)
  /\ LET tx == Head(pool) IN Reverts(tx) \/ Commits(tx) \/ Swaps(tx) \/ Settles(tx)
  /\ UNCHANGED <<stage, agentVars, current, clock, faults>>

Tick ==
  /\ clock < MaxClock
  /\ clock' = clock + 1
  /\ UNCHANGED <<flowVars, agentVars, current, pool, chainVars, faults>>

Init ==
  /\ stage = [f \in Flows |-> "idle"]
  /\ decision = [f \in Flows |-> NoId]
  /\ receipt = [f \in Flows |-> "none"]
  /\ lastTrade = Never /\ settling = {}
  /\ current = 0
  /\ pool = <<>> /\ swaps = <<>> /\ FeedInit
  /\ clock = 0 /\ faults = 0

FlowStep(f) ==
  SendCommit(f) \/ SendSwap(f) \/ Receive(f) \/ CallFails(f) \/ ReceiptLost(f)

Next ==
  \/ StartIteration \/ Decide \/ Restart
  \/ \E id \in Ids : Settle(id)
  \/ \E f \in Flows : FlowStep(f)
  \/ Confirm \/ ReceiveAnswer \/ FetchFails
  \/ MineTransaction
  \/ Tick

\* Blocks are mined, the route goes on with a request it has, and the terminal
\* handles an answer it has. The loop and the operator may stop at any time.
AgentFairness ==
  /\ WF_vars(MineTransaction)
  /\ \A i \in 1 .. Attempts : WF_vars(FlowStep(i))
  /\ WF_vars(ReceiveAnswer)

Spec == Init /\ [][Next]_vars /\ AgentFairness
-----------------------------------------------------------------------------
(* What the agent and the route guarantee.                                 *)

Swap == [by : Flows, id : Ids \cup {NoId}, at : 0 .. MaxClock]

\* Every variable stays within its type, and nobody waits for two transactions.
TypeOK ==
  /\ stage \in [Flows -> Stages]
  /\ decision \in [Flows -> Ids \cup {NoId}]
  /\ receipt \in [Flows -> {"none", "success", "reverted"}]
  /\ lastTrade \in {Never} \cup 0 .. MaxClock
  /\ settling \subseteq Ids
  /\ current \in 0 .. Attempts
  /\ pool \in Seq(Transaction) /\ Len(pool) <= MaxPool
  /\ \A k, l \in 1 .. Len(pool) :
       pool[k].awaited /\ pool[l].awaited /\ pool[k].by = pool[l].by => k = l
  /\ swaps \in Seq(Swap)
  /\ totalDecisions \in [Vaults -> 0 .. MaxFeed]
  /\ decisions \in [Vaults -> [Ids -> DecisionRecord]]
  /\ clock \in 0 .. MaxClock /\ faults \in 0 .. MaxFaults

\* README: "Committed on-chain before execution ... before any capital moves". Every
\* swap has a decision of its own on the feed, committed by whoever swapped, although
\* the contracts ask for none: receipts are lost, processes restart and requests are
\* sent twice, and still no swap is without its decision or shares it.
CommittedBeforeCapital ==
  \A k \in 1 .. Len(swaps) :
    /\ Exists(Fund, swaps[k].id)
    /\ decisions[Fund][swaps[k].id].decisionHash = HashOf(swaps[k].by)
    /\ \A l \in 1 .. Len(swaps) : swaps[l].id = swaps[k].id => l = k

\* The l-th swap is the loop's, and comes too soon after an earlier one of the loop.
TooSoon(l) ==
  /\ swaps[l].by = Loop
  /\ \E k \in 1 .. l - 1 :
       swaps[k].by = Loop /\ swaps[l].at - swaps[k].at < MinTradeInterval

EarlyTrades == {l \in 1 .. Len(swaps) : TooSoon(l)}

\* The loop keeps MIN_TRADE_INTERVAL_MS between its trades. It takes a restart or a
\* lost receipt, one for each of them, to bring a trade closer to an earlier one.
LoopTradesSpaced == Cardinality(EarlyTrades) <= faults

\* The agent has only those decisions attested that it carried out: a decision of
\* whose trade it knows nothing, or knows that it failed, is left to the watchtower.
AttestedWasTraded ==
  \A id \in Ids :
    decisions[Fund][id].status = "Attested" => \E k \in 1 .. Len(swaps) : swaps[k].id = id

\* The terminal is not `busy` for ever: retries run out.
ConfirmationAnswered == current # 0 ~> current = 0

\* README: the operator confirms, and the route "commits decision on-chain and executes
\* swap through VelaHook". One confirmation makes one swap.
OneSwapPerConfirmation ==
  Len(SelectSeq(swaps, LAMBDA s : s.by # Loop)) <= 1
=============================================================================
