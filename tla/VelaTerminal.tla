---------------------------- MODULE VelaTerminal ----------------------------
(***************************************************************************)
(* frontend AgentTerminal.tsx and api/agent/decision: the wizard that      *)
(* registers a policy, mints test tokens, deposits them, waits for the     *)
(* shares, fetches a decision and has it executed on confirmation. The     *)
(* steps are state, effects run when the step or the account changes, and  *)
(* timers set the step later, whatever it is by then.                      *)
(*                                                                         *)
(* The faucet token (MockUSDC.sol) and the vault's deposit are modelled by *)
(* what the wizard uses of them, one day long. An account on another       *)
(* network is one whose wallet refuses to send. Retries of the execution   *)
(* are VelaAgent's.                                                        *)
(***************************************************************************)
EXTENDS Integers, Sequences

CONSTANTS
  Visitors,      \* the accounts the wallet may connect
  NoVisitor,     \* none connected
  MintAmount,    \* MINT_AMOUNT and DAILY_CAP, in units of MIN_DEPOSIT
  Amounts,       \* what is typed as the amount of a deposit
  Replies,       \* what the model may answer
  TierCeiling,   \* maxValuePerTxUsdc of the agent's policy
  DemoCap,       \* the 100 of the override
  DemoTrade,     \* DEMO_TRADE_VALUE_USDC
  MaxFetches,    \* MAX_ATTEMPTS, 15
  MaxPresses     \* bound: account changes, registrations, deposits, confirmations of a visit

ASSUME TerminalAssumption ==
  /\ NoVisitor \notin Visitors
  /\ MintAmount \in Nat \ {0} /\ Amounts \subseteq Nat \ {0}
  /\ TierCeiling \in Nat /\ DemoCap \in Nat /\ DemoTrade \in Nat
  /\ MaxFetches \in Nat \ {0} /\ MaxPresses \in Nat

VARIABLES
  tokens,       \* per account: balance, allowance of the vault, minted today
  vaultShares,  \* per account
  flight,       \* the transaction whose receipt is awaited, and one given up
  step,         \* the step displayed
  due,          \* the steps that timers are going to set
  account,      \* the account connected
  registering,  \* handleCompilePolicy: "none", "compile" or "wallet"
  presses,      \* how many there were of what MaxPresses bounds
  work,         \* the handler that has set `busy`
  balances,     \* accounts whose balance step 3 is reading
  tokenBalance, userShares,   \* what the wizard has read
  polling,      \* step 5: the account polled, and how that stands
  fetches,      \* step 6: the numbers of the attempts in flight, 0 if yet to begin
  feedDone, shownDecision,    \* agentFeedDone, pendingDecision
  trades        \* what the execution route traded, and the value that was confirmed

tokenVars == <<tokens, vaultShares, flight>>
viewVars == <<balances, tokenBalance, userShares, polling, fetches, feedDone, shownDecision>>
terminalVars ==
  <<tokenVars, step, due, account, registering, presses, work, viewVars, trades>>

Idling == [stage |-> "idle", by |-> NoVisitor, amount |-> 0]
NoPolling == [of |-> NoVisitor, at |-> "off"]
NoDecision == [action |-> "none", value |-> 0]
Press == presses < MaxPresses /\ presses' = presses + 1
Busy == work.stage # "idle"
Prompts == {"mint", "approve", "deposit"}
-----------------------------------------------------------------------------
(* Steps.                                                                  *)

\* setStep and the effects it sets off; none where the step stays what it is.
SetStep(s) ==
  /\ step' = s
  /\ balances' = IF s = 3 /\ step # 3 /\ account # NoVisitor
                 THEN balances \cup {account} ELSE balances
  /\ polling' = IF s # 5 THEN NoPolling
                ELSE IF step = 5 THEN polling
                ELSE [of |-> account, at |-> IF account = NoVisitor THEN "off" ELSE "reading"]
  /\ IF s = 6 /\ step # 6 THEN fetches' = fetches \cup {0} /\ feedDone' = FALSE
     ELSE /\ fetches' = IF s = 6 THEN fetches ELSE fetches \ {0}
          /\ UNCHANGED feedDone

SameStep == UNCHANGED <<step, balances, polling, fetches, feedDone>>

\* A setTimeout fires.
FireTimer ==
  /\ \E s \in due : SetStep(s) /\ due' = due \ {s}
  /\ UNCHANGED <<tokenVars, account, registering, presses, work, tokenBalance, userShares,
                 shownDecision, trades>>

\* The wallet connects, disconnects or changes the account. The effects of the
\* steps 3 and 5 run again; what the former awaits is not cancelled.
SwitchAccount ==
  /\ \E a \in Visitors \cup {NoVisitor} :
       /\ a # account /\ account' = a /\ Press
       /\ balances' = IF step = 3 /\ a # NoVisitor THEN balances \cup {a} ELSE balances
       /\ polling' = IF step # 5 THEN polling
                     ELSE [of |-> a, at |-> IF a = NoVisitor THEN "off" ELSE "reading"]
       /\ due' = IF step = 1 /\ a # NoVisitor THEN due \cup {2} ELSE due
  /\ UNCHANGED <<tokenVars, step, registering, work, tokenBalance, userShares,
                 fetches, feedDone, shownDecision, trades>>
-----------------------------------------------------------------------------
(* Step 2: handleCompilePolicy.                                            *)

CompileAndRegister ==
  /\ step = 2 /\ registering = "none" /\ account # NoVisitor
  /\ registering' = "compile"
  /\ Press
  /\ UNCHANGED <<tokenVars, step, due, account, work, viewVars, trades>>

\* The compilation fails or the wallet refuses; or the transaction is sent, and
\* "registered" is said, and the step set, without a receipt.
RegistrationGoesOn ==
  /\ \/ registering = "compile" /\ registering' \in {"none", "wallet"} /\ UNCHANGED due
     \/ registering = "wallet" /\ registering' = "none" /\ due' \in {due, due \cup {3}}
  /\ UNCHANGED <<tokenVars, step, account, presses, work, viewVars, trades>>
-----------------------------------------------------------------------------
(* Steps 3 and 4: handleMint and handleDeposit.                            *)

\* The balance arrives, of the account it was asked for, or the read fails.
BalanceArrives ==
  /\ \E a \in balances :
       /\ balances' = balances \ {a}
       /\ tokenBalance' \in {tokens[a].balance, tokenBalance}
  /\ UNCHANGED <<tokenVars, step, due, account, registering, presses, work, userShares, polling,
                 fetches, feedDone, shownDecision, trades>>

StartWork(stage, amount) ==
  /\ ~Busy /\ account # NoVisitor
  /\ work' = [stage |-> stage, by |-> account, amount |-> amount]

PressMint ==
  /\ step = 3 /\ tokenBalance < 1
  /\ StartWork("mint", MintAmount)
  /\ UNCHANGED <<tokenVars, step, due, account, registering, presses, viewVars, trades>>

\* NEXT is not disabled while a mint is under way; BACK is disabled while busy.
PressNextOrBack ==
  /\ \/ step = 3 /\ tokenBalance >= 1 /\ SetStep(4)
     \/ step = 4 /\ ~Busy /\ SetStep(3)
  /\ UNCHANGED <<tokenVars, due, account, registering, presses, work, tokenBalance, userShares,
                 shownDecision, trades>>

PressDeposit ==
  /\ step = 4
  /\ \E amount \in Amounts : amount <= tokenBalance /\ StartWork("allowance", amount)
  /\ Press
  /\ UNCHANGED <<tokenVars, step, due, account, registering, viewVars, trades>>

\* A handler awaits: the allowance, the wallet, a receipt, the new balance.
WorkGoesTo(stage) == work' = [work EXCEPT !.stage = stage]
WorkEnds == work' = Idling

AllowanceArrives ==
  /\ work.stage = "allowance"
  /\ WorkGoesTo(IF tokens[work.by].allowance < work.amount THEN "approve" ELSE "deposit")
  /\ UNCHANGED <<tokenVars, step, due, account, registering, presses, viewVars, trades>>

\* The account connected by now sends what was asked for the account of then.
WalletConfirms ==
  /\ work.stage \in Prompts /\ account # NoVisitor
  /\ flight' = [flight EXCEPT !.awaited =
                 {[call |-> work.stage, from |-> account, to |-> work.by,
                   amount |-> work.amount]}]
  /\ WorkGoesTo("receipt")
  /\ UNCHANGED <<tokens, vaultShares, step, due, account, registering, presses, viewVars, trades>>

\* Anything a handler awaits may fail: it is said, and `busy` is reset. The
\* transaction whose receipt did not come is mined all the same.
WorkFails ==
  /\ work.stage \in Prompts \cup {"allowance", "receipt", "balance", "save"}
  /\ work.stage = "receipt" => flight.adrift = {}   \* bound: one at a time
  /\ WorkEnds
  /\ flight' = [awaited |-> {}, adrift |-> flight.adrift \cup flight.awaited]
  /\ UNCHANGED <<tokens, vaultShares, step, due, account, registering, presses, viewVars, trades>>

\* The faucet refuses what exceeds the cap of the sender's day; the vault refuses
\* while it is halted, and what is not allowed or not held.
Takes(tx) ==
  CASE tx.call = "mint" ->
         /\ tokens[tx.from].minted + tx.amount <= MintAmount
         /\ tokens' = [[tokens EXCEPT ![tx.from].minted = @ + tx.amount]
                         EXCEPT ![tx.to].balance = @ + tx.amount]
         /\ UNCHANGED vaultShares
    [] tx.call = "approve" ->
         /\ tokens' = [tokens EXCEPT ![tx.from].allowance = tx.amount]
         /\ UNCHANGED vaultShares
    [] OTHER ->
         /\ tx.amount <= tokens[tx.from].allowance /\ tx.amount <= tokens[tx.from].balance
         /\ tokens' = [tokens EXCEPT ![tx.from].allowance = @ - tx.amount,
                                     ![tx.from].balance = @ - tx.amount]
         /\ vaultShares' = [vaultShares EXCEPT ![tx.to] = @ + tx.amount]

Mined(tx) ==
  \/ Takes(tx)
  \/ /\ tx.call = "mint" => tokens[tx.from].minted + tx.amount > MintAmount
     /\ tx.call # "approve"
     /\ UNCHANGED <<tokens, vaultShares>>

\* The receipt arrives, of a transaction that was carried out or reverted: the
\* handler does not look. A deposit's sets the step.
ReceiptArrives ==
  /\ work.stage = "receipt"
  /\ \E tx \in flight.awaited :
       /\ Mined(tx)
       /\ flight' = [flight EXCEPT !.awaited = {}]
       /\ \/ tx.call = "mint" /\ WorkGoesTo("balance") /\ SameStep
          \/ tx.call = "approve" /\ WorkGoesTo("deposit") /\ SameStep
          \/ tx.call = "deposit" /\ WorkEnds /\ SetStep(5)
  /\ UNCHANGED <<due, account, registering, presses, tokenBalance, userShares, shownDecision,
                 trades>>

MinedAdrift ==
  /\ \E tx \in flight.adrift : Mined(tx)
  /\ flight' = [flight EXCEPT !.adrift = {}]
  /\ UNCHANGED <<step, due, account, registering, presses, work, viewVars, trades>>

NewBalanceArrives ==
  /\ work.stage = "balance"
  /\ tokenBalance' = tokens[work.by].balance
  /\ WorkEnds
  /\ UNCHANGED <<tokenVars, step, due, account, registering, presses, balances, userShares,
                 polling, fetches, feedDone, shownDecision, trades>>
-----------------------------------------------------------------------------
(* Step 5: the shares are polled.                                          *)

\* Mutant of Settled: the answer is not compared with zero.
SettledAnyway(shares) == TRUE

Settled(shares) == shares > 0

\* No shares yet: again in 4 s. An error ends the polling for good.
SharesArrive ==
  /\ polling.at = "reading"
  /\ \/ /\ Settled(vaultShares[polling.of])
        /\ userShares' = vaultShares[polling.of]
        /\ polling' = [polling EXCEPT !.at = "settled"]
     \/ ~Settled(vaultShares[polling.of]) /\ UNCHANGED <<userShares, polling>>
     \/ polling' = [polling EXCEPT !.at = "stopped"] /\ UNCHANGED userShares
  /\ UNCHANGED <<tokenVars, step, due, account, registering, presses, work, balances,
                 tokenBalance, fetches, feedDone, shownDecision, trades>>

\* The timer that sets step 6, unless the effect was cleaned up meanwhile.
AllocationShown ==
  /\ polling.at = "settled"
  /\ SetStep(6)
  /\ UNCHANGED <<tokenVars, due, account, registering, presses, work, tokenBalance, userShares,
                 shownDecision, trades>>
-----------------------------------------------------------------------------
(* Step 6: a decision is fetched from api/agent/decision.                  *)

\* GET: a reply to hold because of the hour is made a trade.
DecisionOf(reply) ==
  IF reply.action = "hold" /\ reply.aboutHours
  THEN [action |-> "swap", value |-> IF DemoCap < TierCeiling THEN DemoCap ELSE TierCeiling]
  ELSE [action |-> reply.action, value |-> reply.value]

\* The effect's timer, cleared by now if step 6 has been left.
BeginFetch ==
  /\ 0 \in fetches
  /\ fetches' = (fetches \ {0}) \cup {1}
  /\ UNCHANGED <<tokenVars, step, due, account, registering, presses, work, balances,
                 tokenBalance, userShares, polling, feedDone, shownDecision, trades>>

DecisionArrives ==
  /\ \E k \in fetches \ {0} : fetches' = fetches \ {k}
  /\ \E reply \in Replies : shownDecision' = DecisionOf(reply)
  /\ feedDone' = TRUE
  /\ UNCHANGED <<tokenVars, step, due, account, registering, presses, work, balances,
                 tokenBalance, userShares, polling, trades>>

\* Mutant of GiveUp: after the last attempt nothing is said.
GiveUpSilently == UNCHANGED feedDone

GiveUp == feedDone' = TRUE

\* A network error is tried again, up to MAX_ATTEMPTS; any other error, a reply
\* that is no decision among them, ends the feed, with whatever decision was there.
FetchFailed ==
  /\ \E k \in fetches \ {0} :
       \/ /\ k < MaxFetches
          /\ fetches' = (fetches \ {k}) \cup {k + 1}
          /\ UNCHANGED feedDone
       \/ fetches' = fetches \ {k} /\ GiveUp
  /\ UNCHANGED <<tokenVars, step, due, account, registering, presses, work, balances,
                 tokenBalance, userShares, polling, shownDecision, trades>>
-----------------------------------------------------------------------------
(* Steps 6 to 8: handleConfirm and handleAlerts.                           *)

\* "confirm" is typed. A decision to hold only sets a timer, to the step that is
\* displayed already.
PressConfirm ==
  /\ step = 6 /\ feedDone /\ ~Busy
  /\ Press
  /\ \/ shownDecision.action = "hold" /\ due' = due \cup {6} /\ UNCHANGED work
     \/ /\ shownDecision.action # "hold"
        /\ work' = [stage |-> "execute", by |-> account, amount |-> shownDecision.value]
        /\ UNCHANGED due
  /\ UNCHANGED <<tokenVars, step, account, registering, viewVars, trades>>

\* The route trades the configured amount: of the request it reads the operator.
Trade == trades' = Append(trades, [confirmed |-> work.amount, value |-> DemoTrade])

\* It traded and says so; or it fails, having traded or not.
ExecutionAnswered ==
  /\ work.stage = "execute"
  /\ \/ work.by # NoVisitor /\ Trade /\ due' = due \cup {8}
     \/ work.by # NoVisitor /\ Trade /\ UNCHANGED due
     \/ UNCHANGED <<due, trades>>
  /\ WorkEnds
  /\ UNCHANGED <<tokenVars, step, account, registering, presses, viewVars>>

PressSaveAlerts ==
  /\ step = 8
  /\ StartWork("save", 0)
  /\ UNCHANGED <<tokenVars, step, due, account, registering, presses, viewVars, trades>>

AlertsSaved ==
  /\ work.stage = "save"
  /\ WorkEnds
  /\ UNCHANGED <<tokenVars, step, due, account, registering, presses, viewVars, trades>>
-----------------------------------------------------------------------------
TerminalInit ==
  /\ tokens = [a \in Visitors |-> [balance |-> 0, allowance |-> 0, minted |-> 0]]
  /\ vaultShares = [a \in Visitors |-> 0]
  /\ flight = [awaited |-> {}, adrift |-> {}]
  /\ step = 1 /\ due = {} /\ account = NoVisitor
  /\ registering = "none" /\ presses = 0
  /\ work = Idling
  /\ balances = {} /\ tokenBalance = 0 /\ userShares = 0
  /\ polling = NoPolling
  /\ fetches = {} /\ feedDone = FALSE /\ shownDecision = NoDecision
  /\ trades = << >>

\* What the page, the servers and the chain do without the visitor.
TerminalGoesOn ==
  \/ FireTimer \/ AllocationShown
  \/ BalanceArrives \/ AllowanceArrives \/ ReceiptArrives \/ NewBalanceArrives
  \/ SharesArrive \/ BeginFetch \/ DecisionArrives \/ FetchFailed
  \/ ExecutionAnswered \/ AlertsSaved

TerminalNext ==
  \/ TerminalGoesOn \/ WorkFails \/ MinedAdrift \/ RegistrationGoesOn
  \/ SwitchAccount \/ CompileAndRegister \/ PressMint \/ PressNextOrBack \/ PressDeposit
  \/ WalletConfirms \/ PressConfirm \/ PressSaveAlerts

TerminalSpec == TerminalInit /\ [][TerminalNext]_terminalVars
-----------------------------------------------------------------------------
\* Type invariant: a receipt is awaited exactly for a transaction sent, and
\* whatever the wizard has read is an amount.
TerminalTypeOK ==
  /\ step \in 1 .. 8 /\ due \subseteq {2, 3, 6, 8}
  /\ account \in Visitors \cup {NoVisitor}
  /\ (work.stage = "receipt") = (flight.awaited # {})
  /\ \A a \in Visitors :
       /\ tokens[a].balance \in Nat /\ tokens[a].allowance \in Nat /\ vaultShares[a] \in Nat
       /\ tokens[a].minted \in 0 .. MintAmount
  /\ tokenBalance \in Nat /\ userShares \in Nat
  /\ (polling.at # "off") => step = 5 /\ polling.of = account
  /\ fetches \subseteq 0 .. MaxFetches

\* A decision is displayed, and one can be confirmed, only to somebody whose
\* deposit took effect: receipts of reverted deposits are taken for confirmations,
\* accounts change under a handler, and late timers move the wizard, but there are
\* shares in the vault, as many as the wizard has read.
SharesBeforeAgent ==
  (step \in 6 .. 8 \/ trades # << >>) =>
    userShares > 0 /\ \E a \in Visitors : vaultShares[a] >= userShares

\* Who waits for a decision gets one, or is told that there is none, however
\* often the fetch is tried again and whatever late timers do.
TerminalAnswers == (step = 6 /\ ~feedDone) ~> (step # 6 \/ feedDone)

\* The summary the decision route returns ends "Confirm to commit on-chain and
\* execute through VelaHook": what is confirmed is what is traded.
TradedAsShown ==
  \A k \in DOMAIN trades : trades[k].value = trades[k].confirmed
=============================================================================
