------------------------- MODULE PolicyPagesProofs -------------------------
(***************************************************************************)
(* The visitor's pages, for any policies, answers of the language model,   *)
(* wallets, decisions and contacts: the invariants of the wizard, of the   *)
(* frame and of the contacts, put together with the dashboard's.           *)
(*                                                                         *)
(* The wizard. SharesBeforeAgent is not inductive: the steps 6 and 8 are   *)
(* set by timers and by answers that were asked for earlier. Everything    *)
(* that can still lead there is an entrance to the agent, and none is      *)
(* opened before the shares have been read; what was read stays below what *)
(* the vault holds for somebody, since this wizard's vault only mints.     *)
(*                                                                         *)
(* The Merkle tree. What the compiler's functions on trees return is       *)
(* proved by induction over the number of leaves: a set of numbers that    *)
(* holds zero and every successor holds all (SetInduction). A leaf climbs  *)
(* with its proof through the places above it, whatever the number of      *)
(* pools; and from one root down, every node of one tree is one of the     *)
(* other, so that trees of one root have the same leaves.                  *)
(*                                                                         *)
(* A frame is one press from the wallet, so its invariant is about every   *)
(* button of every frame. The contacts' invariant is about the copy of the *)
(* file each request holds, which is all there is while it is written.     *)
(***************************************************************************)
EXTENDS PolicyPages, PolicyDashboardProofs, WellFoundedInduction
-----------------------------------------------------------------------------
(* The wizard.                                                             *)

Awaiting == Prompts \cup {"allowance", "receipt", "balance", "save"}
Connected == Visitors \cup {NoVisitor}
Transactions == [call : Prompts, from : Visitors, to : Visitors, amount : Nat]

TokensTyped ==
  /\ tokens \in [Visitors -> [balance : Nat, allowance : Nat, minted : 0 .. MintAmount]]
  /\ vaultShares \in [Visitors -> Nat]

FlightTyped ==
  /\ flight = [awaited |-> flight.awaited, adrift |-> flight.adrift]
  /\ flight.awaited \subseteq Transactions /\ flight.adrift \subseteq Transactions

WorkTyped ==
  /\ work = [stage |-> work.stage, by |-> work.by, amount |-> work.amount]
  /\ work.stage \in Awaiting => work.by \in Visitors /\ work.amount \in Nat
  /\ (work.stage = "receipt") = (flight.awaited # {})

StepTyped ==
  /\ step \in 1 .. 8 /\ due \subseteq {2, 3, 6, 8}
  /\ account \in Connected
  /\ polling \in [of : Connected, at : {"off", "reading", "settled", "stopped"}]
  /\ polling.at # "off" => step = 5 /\ polling.of = account /\ account \in Visitors
  /\ fetches \subseteq 0 .. MaxFetches

ReadTyped ==
  /\ balances \subseteq Visitors
  /\ tokenBalance \in Nat /\ userShares \in Nat

WizardTyped == TokensTyped /\ FlightTyped /\ WorkTyped /\ StepTyped /\ ReadTyped

\* What leads to the agent, or has led there.
Entrance ==
  \/ step \in 6 .. 8 \/ due \cap {6, 8} # {} \/ work.stage = "execute"
  \/ polling.at = "settled" \/ trades # << >>

Earned ==
  /\ Entrance => userShares > 0
  /\ userShares > 0 => \E a \in Visitors : vaultShares[a] >= userShares

WizardInv == WizardTyped /\ Earned
-----------------------------------------------------------------------------
\* A mined transaction keeps the types, and takes no shares from anybody.
LEMMA MinedTyped ==
  ASSUME TokensTyped, NEW tx \in Transactions, Mined(tx)
  PROVE  TokensTyped' /\ \A a \in Visitors : vaultShares'[a] >= vaultShares[a]
<1> USE DEF TokensTyped, Transactions, Prompts
<1>1. MintAmount \in Nat
  BY TerminalAssumption
<1>2. CASE UNCHANGED <<tokens, vaultShares>>
  BY <1>2, SMT
<1>3. CASE Takes(tx) /\ tx.call = "mint"
  <2>1. tokens' = [[tokens EXCEPT ![tx.from].minted = @ + tx.amount]
                     EXCEPT ![tx.to].balance = @ + tx.amount]
        /\ vaultShares' = vaultShares
        /\ tokens[tx.from].minted + tx.amount <= MintAmount
    BY <1>3, Zenon DEF Takes
  <2>2. [tokens EXCEPT ![tx.from].minted = @ + tx.amount]
          \in [Visitors -> [balance : Nat, allowance : Nat, minted : 0 .. MintAmount]]
    BY <2>1, <1>1, SMT
  <2>3. tokens' \in [Visitors -> [balance : Nat, allowance : Nat, minted : 0 .. MintAmount]]
    BY <2>1, <2>2, SMT
  <2>. QED BY <2>1, <2>3, SMT
<1>4. CASE Takes(tx) /\ tx.call = "approve"
  <2>1. tokens' = [tokens EXCEPT ![tx.from].allowance = tx.amount] /\ vaultShares' = vaultShares
    BY <1>4 DEF Takes
  <2>. QED BY <2>1, SMT
<1>5. CASE Takes(tx) /\ tx.call = "deposit"
  <2>1. /\ tx.amount <= tokens[tx.from].allowance /\ tx.amount <= tokens[tx.from].balance
        /\ tokens' = [tokens EXCEPT ![tx.from].allowance = @ - tx.amount,
                                    ![tx.from].balance = @ - tx.amount]
        /\ vaultShares' = [vaultShares EXCEPT ![tx.to] = @ + tx.amount]
    BY <1>5 DEF Takes
  <2>2. tokens' \in [Visitors -> [balance : Nat, allowance : Nat, minted : 0 .. MintAmount]]
    BY <2>1, SMT
  <2>3. vaultShares' \in [Visitors -> Nat] /\ \A a \in Visitors : vaultShares'[a] >= vaultShares[a]
    BY <2>1, SMT
  <2>. QED BY <2>2, <2>3
<1>6. Takes(tx) \/ UNCHANGED <<tokens, vaultShares>>
  BY DEF Mined
<1>. QED BY <1>2, <1>3, <1>4, <1>5, <1>6

\* Setting the step keeps the types, and starts no polling but of step 5.
LEMMA SetStepTyped ==
  ASSUME StepTyped, ReadTyped, NEW s \in 1 .. 8, SetStep(s), UNCHANGED account,
         due' \subseteq due
  PROVE  /\ StepTyped' /\ balances' \subseteq Visitors
         /\ step' = s
         /\ polling'.at = "settled" => polling.at = "settled"
<1> USE DEF StepTyped, ReadTyped, Connected
<1>1. step' = s /\ balances' \subseteq Visitors
  <2>1. step' = s
    BY DEF SetStep
  <2>2. balances' \in {balances, balances \cup {account}} /\ (account # NoVisitor \/ balances' = balances)
    BY DEF SetStep
  <2>. QED BY <2>1, <2>2
<1>2. fetches' \subseteq 0 .. MaxFetches
  <2>1. fetches' \in {fetches, fetches \cup {0}, fetches \ {0}}
    BY DEF SetStep
  <2>2. 0 \in 0 .. MaxFetches
    BY TerminalAssumption
  <2>. QED BY <2>1, <2>2
<1>3. /\ polling' \in [of : Connected, at : {"off", "reading", "settled", "stopped"}]
      /\ polling'.at # "off" => step' = 5 /\ polling'.of = account' /\ account' \in Visitors
      /\ polling'.at = "settled" => polling.at = "settled"
  <2>1. CASE s # 5
    BY <2>1, <1>1, TerminalAssumption DEF SetStep, NoPolling
  <2>2. CASE s = 5 /\ step = 5
    BY <2>2, <1>1 DEF SetStep
  <2>3. CASE s = 5 /\ step # 5
    BY <2>3, <1>1 DEF SetStep
  <2>. QED BY <2>1, <2>2, <2>3
<1>. QED BY <1>1, <1>2, <1>3

\* Every step of the wizard keeps the types, and takes no shares from anybody.
LEMMA WizardTypedNext ==
  ASSUME WizardTyped, [TerminalNext]_terminalVars
  PROVE  WizardTyped' /\ \A a \in Visitors : vaultShares'[a] >= vaultShares[a]
<1> USE TerminalAssumption
<1> DEFINE Kept == \A a \in Visitors : vaultShares'[a] >= vaultShares[a]
<1>0. ASSUME UNCHANGED <<tokens, vaultShares>>
      PROVE  TokensTyped' /\ Kept
  BY <1>0, SMT DEF WizardTyped, TokensTyped
<1>1. ASSUME UNCHANGED flight
      PROVE  FlightTyped'
  BY <1>1 DEF WizardTyped, FlightTyped
<1>2. ASSUME UNCHANGED <<flight, work>>
      PROVE  WorkTyped'
  BY <1>2 DEF WizardTyped, WorkTyped
<1>3. ASSUME UNCHANGED <<step, due, account, polling, fetches>>
      PROVE  StepTyped'
  BY <1>3 DEF WizardTyped, StepTyped, Connected
<1>4. ASSUME UNCHANGED <<balances, tokenBalance, userShares>>
      PROVE  ReadTyped'
  BY <1>4 DEF WizardTyped, ReadTyped
<1>5. CASE FireTimer
  <2>1. PICK s \in due : SetStep(s) /\ due' = due \ {s}
    BY <1>5 DEF FireTimer
  <2>2. s \in 1 .. 8
    BY <2>1 DEF WizardTyped, StepTyped
  <2>3. UNCHANGED <<tokenVars, account, work, tokenBalance, userShares>>
    BY <1>5 DEF FireTimer
  <2>4. StepTyped' /\ balances' \subseteq Visitors
    BY <2>1, <2>2, <2>3, SetStepTyped DEF WizardTyped
  <2>. QED BY <2>3, <2>4, <1>0, <1>1, <1>2 DEF tokenVars, WizardTyped, ReadTyped
<1>6. CASE SwitchAccount
  <2>1. UNCHANGED <<tokenVars, work, tokenBalance, userShares, step, fetches>>
    BY <1>6 DEF SwitchAccount
  <2>2. PICK a \in Connected :
          /\ account' = a
          /\ balances' = IF step = 3 /\ a # NoVisitor THEN balances \cup {a} ELSE balances
          /\ polling' = IF step # 5 THEN polling
                        ELSE [of |-> a, at |-> IF a = NoVisitor THEN "off" ELSE "reading"]
          /\ due' = IF step = 1 /\ a # NoVisitor THEN due \cup {2} ELSE due
    BY <1>6, Zenon DEF SwitchAccount, Connected
  <2>3. StepTyped'
    BY <2>1, <2>2 DEF WizardTyped, StepTyped, Connected
  <2>4. ReadTyped'
    BY <2>1, <2>2 DEF WizardTyped, ReadTyped, Connected
  <2>. QED BY <2>1, <2>3, <2>4, <1>0, <1>1, <1>2 DEF tokenVars, WizardTyped
<1>7. CASE CompileAndRegister \/ UNCHANGED terminalVars
  BY <1>7, <1>0, <1>1, <1>2, <1>3, <1>4
  DEF CompileAndRegister, terminalVars, tokenVars, viewVars, WizardTyped
<1>8. CASE RegistrationGoesOn
  <2>1. UNCHANGED <<tokenVars, step, account, work, viewVars>> /\ due' \in {due, due \cup {3}}
    BY <1>8 DEF RegistrationGoesOn
  <2>2. StepTyped'
    BY <2>1 DEF WizardTyped, StepTyped, viewVars, Connected
  <2>. QED BY <2>1, <2>2, <1>0, <1>1, <1>2, <1>4 DEF tokenVars, viewVars, WizardTyped
<1>9. CASE BalanceArrives
  <2>1. UNCHANGED <<tokenVars, step, due, account, work, userShares, polling, fetches>>
    BY <1>9 DEF BalanceArrives
  <2>2. PICK a \in balances :
          balances' = balances \ {a} /\ tokenBalance' \in {tokens[a].balance, tokenBalance}
    BY <1>9 DEF BalanceArrives
  <2>3. a \in Visitors /\ tokens[a].balance \in Nat
    BY <2>2 DEF WizardTyped, ReadTyped, TokensTyped
  <2>4. ReadTyped'
    BY <2>1, <2>2, <2>3 DEF WizardTyped, ReadTyped
  <2>. QED BY <2>1, <2>4, <1>0, <1>1, <1>2, <1>3 DEF tokenVars, WizardTyped
<1>10. ASSUME NEW s \in {"mint", "allowance", "save"}, NEW n \in Nat, StartWork(s, n),
              flight' = flight
       PROVE  WorkTyped'
  BY <1>10 DEF StartWork, Busy, WizardTyped, WorkTyped, StepTyped, Connected
<1>11. CASE PressMint
  <2>1. StartWork("mint", MintAmount) /\ UNCHANGED <<tokenVars, step, due, account, viewVars>>
    BY <1>11 DEF PressMint
  <2>2. WorkTyped'
    <3>1. MintAmount \in Nat /\ flight' = flight
      BY <2>1 DEF tokenVars
    <3>. QED BY <2>1, <3>1, <1>10
  <2>. QED BY <2>1, <2>2, <1>0, <1>1, <1>3, <1>4 DEF tokenVars, viewVars, WizardTyped
<1>12. CASE PressNextOrBack
  <2>1. UNCHANGED <<tokenVars, due, account, work, tokenBalance, userShares>>
    BY <1>12 DEF PressNextOrBack
  <2>2. PICK s \in 1 .. 8 : SetStep(s)
    BY <1>12 DEF PressNextOrBack
  <2>3. StepTyped' /\ balances' \subseteq Visitors
    BY <2>1, <2>2, SetStepTyped DEF WizardTyped
  <2>. QED BY <2>1, <2>3, <1>0, <1>1, <1>2 DEF tokenVars, WizardTyped, ReadTyped
<1>13. CASE PressDeposit
  <2>1. PICK amount \in Amounts : StartWork("allowance", amount)
    BY <1>13 DEF PressDeposit
  <2>2. UNCHANGED <<tokenVars, step, due, account, viewVars>>
    BY <1>13 DEF PressDeposit
  <2>3. WorkTyped'
    <3>1. amount \in Nat /\ flight' = flight
      BY <2>2 DEF tokenVars
    <3>. QED BY <2>1, <3>1, <1>10
  <2>. QED BY <2>2, <2>3, <1>0, <1>1, <1>3, <1>4 DEF tokenVars, viewVars, WizardTyped
<1>14. CASE AllowanceArrives
  <2>1. UNCHANGED <<tokenVars, step, due, account, viewVars>>
    BY <1>14 DEF AllowanceArrives
  <2>2. PICK stage \in {"approve", "deposit"} : work' = [work EXCEPT !.stage = stage]
    BY <1>14 DEF AllowanceArrives, WorkGoesTo
  <2>3. work.stage = "allowance"
    BY <1>14 DEF AllowanceArrives
  <2>4. WorkTyped'
    BY <2>1, <2>2, <2>3 DEF WizardTyped, WorkTyped, Awaiting, Prompts, tokenVars
  <2>. QED BY <2>1, <2>4, <1>0, <1>1, <1>3, <1>4 DEF tokenVars, viewVars, WizardTyped
<1>15. CASE WalletConfirms
  <2>1. UNCHANGED <<tokens, vaultShares, step, due, account, viewVars>>
    BY <1>15 DEF WalletConfirms
  <2>2. /\ work.stage \in Prompts /\ account # NoVisitor
        /\ flight' = [flight EXCEPT !.awaited =
                        {[call |-> work.stage, from |-> account, to |-> work.by,
                          amount |-> work.amount]}]
        /\ work' = [work EXCEPT !.stage = "receipt"]
    BY <1>15 DEF WalletConfirms, WorkGoesTo
  <2>3. /\ account \in Visitors /\ work.by \in Visitors /\ work.amount \in Nat
        /\ work = [stage |-> work.stage, by |-> work.by, amount |-> work.amount]
        /\ flight = [awaited |-> flight.awaited, adrift |-> flight.adrift]
        /\ flight.adrift \subseteq Transactions
    BY <2>2 DEF WizardTyped, WorkTyped, StepTyped, Connected, Awaiting, FlightTyped
  <2>4. [call |-> work.stage, from |-> account, to |-> work.by, amount |-> work.amount]
          \in Transactions
    BY <2>2, <2>3 DEF Transactions
  <2>5. /\ flight' = [awaited |-> {[call |-> work.stage, from |-> account, to |-> work.by,
                                    amount |-> work.amount]},
                      adrift |-> flight.adrift]
        /\ work' = [stage |-> "receipt", by |-> work.by, amount |-> work.amount]
    BY <2>2, <2>3
  <2>6. FlightTyped'
    BY <2>3, <2>4, <2>5 DEF FlightTyped
  <2>7. WorkTyped'
    BY <2>3, <2>5 DEF WorkTyped
  <2>. QED BY <2>1, <2>6, <2>7, <1>0, <1>3, <1>4 DEF viewVars, WizardTyped
<1>16. CASE WorkFails
  <2>1. /\ UNCHANGED <<tokens, vaultShares, step, due, account, viewVars>>
        /\ work' = Idling
        /\ flight' = [awaited |-> {}, adrift |-> flight.adrift \cup flight.awaited]
    BY <1>16 DEF WorkFails, WorkEnds
  <2>2. FlightTyped' /\ WorkTyped'
    BY <2>1 DEF WizardTyped, FlightTyped, WorkTyped, Idling, Awaiting, Prompts
  <2>. QED BY <2>1, <2>2, <1>0, <1>3, <1>4 DEF viewVars, WizardTyped
<1>17. CASE ReceiptArrives
  <2>1. UNCHANGED <<due, account, tokenBalance, userShares>>
    BY <1>17 DEF ReceiptArrives
  <2>2. PICK tx \in flight.awaited :
          /\ Mined(tx)
          /\ flight' = [flight EXCEPT !.awaited = {}]
          /\ \/ tx.call = "mint" /\ WorkGoesTo("balance") /\ SameStep
             \/ tx.call = "approve" /\ WorkGoesTo("deposit") /\ SameStep
             \/ tx.call = "deposit" /\ WorkEnds /\ SetStep(5)
    BY <1>17 DEF ReceiptArrives
  <2>3. work.stage = "receipt" /\ work.by \in Visitors /\ work.amount \in Nat
    BY <1>17 DEF ReceiptArrives, WizardTyped, WorkTyped, Awaiting
  <2>4. TokensTyped' /\ Kept
    BY <2>2, MinedTyped DEF WizardTyped, FlightTyped
  <2>5. FlightTyped' /\ flight'.awaited = {}
    BY <2>2 DEF WizardTyped, FlightTyped
  <2>6. WorkTyped'
    <3>1. CASE WorkEnds
      BY <3>1, <2>5 DEF WorkTyped, WorkEnds, Idling, Awaiting, Prompts
    <3>2. ASSUME NEW s \in {"balance", "deposit"}, WorkGoesTo(s)
          PROVE  WorkTyped'
      BY <3>2, <2>3, <2>5 DEF WizardTyped, WorkTyped, WorkGoesTo, Awaiting, Prompts
    <3>. QED BY <3>1, <3>2, <2>2
  <2>7. StepTyped' /\ balances' \subseteq Visitors
    <3>1. CASE SameStep
      BY <3>1, <2>1, <1>3 DEF SameStep, WizardTyped, ReadTyped
    <3>2. CASE SetStep(5)
      BY <3>2, <2>1, SetStepTyped DEF WizardTyped
    <3>. QED BY <3>1, <3>2, <2>2
  <2>. QED BY <2>1, <2>4, <2>5, <2>6, <2>7 DEF WizardTyped, ReadTyped
<1>18. CASE MinedAdrift
  <2>1. UNCHANGED <<step, due, account, work, viewVars>>
    BY <1>18 DEF MinedAdrift
  <2>2. PICK tx \in flight.adrift : Mined(tx)
    BY <1>18 DEF MinedAdrift
  <2>3. TokensTyped' /\ Kept
    BY <2>2, MinedTyped DEF WizardTyped, FlightTyped
  <2>4. FlightTyped' /\ flight'.awaited = flight.awaited
    BY <1>18 DEF MinedAdrift, WizardTyped, FlightTyped
  <2>5. WorkTyped'
    BY <2>1, <2>4 DEF WizardTyped, WorkTyped
  <2>. QED BY <2>1, <2>3, <2>4, <2>5, <1>3, <1>4 DEF viewVars, WizardTyped
<1>19. CASE NewBalanceArrives
  <2>1. UNCHANGED <<tokenVars, step, due, account, balances, userShares, polling, fetches>>
        /\ work.stage = "balance" /\ tokenBalance' = tokens[work.by].balance /\ work' = Idling
    BY <1>19 DEF NewBalanceArrives, WorkEnds
  <2>2. tokenBalance' \in Nat
    BY <2>1 DEF WizardTyped, WorkTyped, Awaiting, TokensTyped
  <2>3. ReadTyped'
    BY <2>1, <2>2 DEF WizardTyped, ReadTyped
  <2>4. WorkTyped'
    BY <2>1 DEF WizardTyped, WorkTyped, Idling, Awaiting, Prompts, tokenVars
  <2>. QED BY <2>1, <2>3, <2>4, <1>0, <1>1, <1>3 DEF tokenVars, WizardTyped
<1>20. CASE SharesArrive
  <2>1. UNCHANGED <<tokenVars, step, due, account, work, balances, tokenBalance, fetches>>
    BY <1>20 DEF SharesArrive
  <2>2. /\ polling.at = "reading"
        /\ userShares' \in {userShares, vaultShares[polling.of]}
        /\ polling' \in {polling, [polling EXCEPT !.at = "settled"],
                         [polling EXCEPT !.at = "stopped"]}
    BY <1>20 DEF SharesArrive
  <2>3. vaultShares[polling.of] \in Nat
    BY <2>2 DEF WizardTyped, StepTyped, TokensTyped
  <2>4. ReadTyped'
    BY <2>1, <2>2, <2>3 DEF WizardTyped, ReadTyped
  <2>5. StepTyped'
    BY <2>1, <2>2 DEF WizardTyped, StepTyped, Connected
  <2>. QED BY <2>1, <2>4, <2>5, <1>0, <1>1, <1>2 DEF tokenVars, WizardTyped
<1>21. CASE AllocationShown
  <2>1. SetStep(6) /\ UNCHANGED <<tokenVars, due, account, work, tokenBalance, userShares>>
    BY <1>21 DEF AllocationShown
  <2>2. StepTyped' /\ balances' \subseteq Visitors
    BY <2>1, SetStepTyped DEF WizardTyped
  <2>. QED BY <2>1, <2>2, <1>0, <1>1, <1>2 DEF tokenVars, WizardTyped, ReadTyped
<1>22. CASE BeginFetch \/ DecisionArrives \/ FetchFailed
  <2>1. UNCHANGED <<tokenVars, step, due, account, work, balances, tokenBalance, userShares,
                    polling>>
    BY <1>22 DEF BeginFetch, DecisionArrives, FetchFailed
  <2>2. fetches' \subseteq 0 .. MaxFetches
    <3>1. CASE BeginFetch
      BY <3>1 DEF BeginFetch, WizardTyped, StepTyped
    <3>2. CASE DecisionArrives
      BY <3>2 DEF DecisionArrives, WizardTyped, StepTyped
    <3>3. CASE FetchFailed
      <4>1. PICK k \in fetches \ {0} :
              \/ k < MaxFetches /\ fetches' = (fetches \ {k}) \cup {k + 1}
              \/ fetches' = fetches \ {k}
        BY <3>3 DEF FetchFailed
      <4>2. fetches \subseteq 0 .. MaxFetches
        BY DEF WizardTyped, StepTyped
      <4>3. k \in 0 .. MaxFetches /\ MaxFetches \in Nat
        BY <4>1, <4>2
      <4>4. k < MaxFetches => k + 1 \in 0 .. MaxFetches
        BY <4>3
      <4>. QED BY <4>1, <4>2, <4>4
    <3>. QED BY <3>1, <3>2, <3>3, <1>22
  <2>3. StepTyped'
    BY <2>1, <2>2 DEF WizardTyped, StepTyped, Connected
  <2>. QED BY <2>1, <2>3, <1>0, <1>1, <1>2, <1>4 DEF tokenVars, WizardTyped
<1>23. CASE PressConfirm
  <2>1. UNCHANGED <<tokenVars, step, account, viewVars>> /\ step = 6
    BY <1>23 DEF PressConfirm
  <2>2. /\ due' \in {due, due \cup {6}}
        /\ \/ work' = work
           \/ work' = [stage |-> "execute", by |-> account, amount |-> shownDecision.value]
        /\ ~Busy
    BY <1>23 DEF PressConfirm
  <2>3. StepTyped'
    BY <2>1, <2>2 DEF WizardTyped, StepTyped, viewVars, Connected
  <2>4. WorkTyped'
    BY <2>1, <2>2 DEF WizardTyped, WorkTyped, Busy, Awaiting, Prompts, tokenVars
  <2>. QED BY <2>1, <2>3, <2>4, <1>0, <1>1, <1>4 DEF tokenVars, viewVars, WizardTyped
<1>24. CASE ExecutionAnswered
  <2>1. UNCHANGED <<tokenVars, step, account, viewVars>> /\ work.stage = "execute"
        /\ work' = Idling /\ due' \in {due, due \cup {8}}
    BY <1>24 DEF ExecutionAnswered, WorkEnds
  <2>3. StepTyped'
    BY <2>1 DEF WizardTyped, StepTyped, viewVars, Connected
  <2>4. WorkTyped'
    BY <2>1 DEF WizardTyped, WorkTyped, Idling, Awaiting, Prompts, tokenVars
  <2>. QED BY <2>1, <2>3, <2>4, <1>0, <1>1, <1>4 DEF tokenVars, viewVars, WizardTyped
<1>25. CASE PressSaveAlerts
  <2>1. StartWork("save", 0) /\ UNCHANGED <<tokenVars, step, due, account, viewVars>>
    BY <1>25 DEF PressSaveAlerts
  <2>2. WorkTyped'
    <3>1. flight' = flight
      BY <2>1 DEF tokenVars
    <3>. QED BY <2>1, <3>1, <1>10
  <2>. QED BY <2>1, <2>2, <1>0, <1>1, <1>3, <1>4 DEF tokenVars, viewVars, WizardTyped
<1>26. CASE AlertsSaved
  <2>1. UNCHANGED <<tokenVars, step, due, account, viewVars>> /\ work.stage = "save"
        /\ work' = Idling
    BY <1>26 DEF AlertsSaved, WorkEnds
  <2>2. WorkTyped'
    BY <2>1 DEF WizardTyped, WorkTyped, Idling, Awaiting, Prompts, tokenVars
  <2>. QED BY <2>1, <2>2, <1>0, <1>1, <1>3, <1>4 DEF tokenVars, viewVars, WizardTyped
<1>. QED
  BY <1>5, <1>6, <1>7, <1>8, <1>9, <1>11, <1>12, <1>13, <1>14, <1>15, <1>16, <1>17, <1>18,
     <1>19, <1>20, <1>21, <1>22, <1>23, <1>24, <1>25, <1>26
  DEF TerminalNext, TerminalGoesOn

LEMMA WizardTypedInit ==
  TerminalInit => WizardTyped
  BY TerminalAssumption
  DEF TerminalInit, WizardTyped, TokensTyped, FlightTyped, WorkTyped, StepTyped, ReadTyped,
      Idling, NoPolling, Awaiting, Prompts, Connected

\* The types of the wizard, for any visitors, amounts and replies: a receipt is
\* awaited exactly while a transaction is in flight, a poll is of the account
\* connected, and no account mints more than its day allows.
THEOREM WizardWellTyped == TerminalSpec => []TerminalTypeOK
<1>1. WizardTyped => TerminalTypeOK
  BY DEF WizardTyped, TokensTyped, FlightTyped, WorkTyped, StepTyped, ReadTyped,
         TerminalTypeOK, Connected
<1>. QED BY <1>1, WizardTypedInit, WizardTypedNext, PTL DEF TerminalSpec
-----------------------------------------------------------------------------
\* What has been read of the shares is replaced only by somebody's, and those are some.
LEMMA SharesRead ==
  ASSUME WizardTyped, [TerminalNext]_terminalVars
  PROVE  \/ userShares' = userShares
         \/ \E a \in Visitors : userShares' = vaultShares[a] /\ userShares' > 0
<1>1. CASE SharesArrive
  <2>1. polling.of \in Visitors
    BY <1>1 DEF SharesArrive, WizardTyped, StepTyped
  <2>. QED BY <1>1, <2>1 DEF SharesArrive, Settled
<1>2. CASE UNCHANGED userShares
  BY <1>2
<1>. QED
  BY <1>1, <1>2
  DEF TerminalNext, TerminalGoesOn, FireTimer, AllocationShown, BalanceArrives, AllowanceArrives,
      ReceiptArrives, NewBalanceArrives, BeginFetch, DecisionArrives, FetchFailed,
      ExecutionAnswered, AlertsSaved, WorkFails, MinedAdrift, RegistrationGoesOn, SwitchAccount,
      CompileAndRegister, PressMint, PressNextOrBack, PressDeposit, WalletConfirms,
      PressConfirm, PressSaveAlerts, terminalVars, viewVars

\* The first entrance is opened by the read that found shares.
LEMMA EntranceNext ==
  ASSUME WizardTyped, [TerminalNext]_terminalVars, Entrance', ~Entrance
  PROVE  userShares' > 0
<1>1. /\ step \in 1 .. 5 /\ 6 \notin due /\ 8 \notin due /\ work.stage # "execute"
      /\ polling.at # "settled" /\ trades = << >>
  BY DEF Entrance, WizardTyped, StepTyped
<1>2. ASSUME step' \in 1 .. 5, due' \subseteq due \cup {2, 3}, work'.stage # "execute",
             polling'.at # "settled", trades' = trades
      PROVE  FALSE
  BY <1>1, <1>2 DEF Entrance
<1>3. ASSUME NEW s \in 1 .. 5, SetStep(s)
      PROVE  step' \in 1 .. 5 /\ polling'.at # "settled"
  <2>1. step' = s
    BY <1>3 DEF SetStep
  <2>2. CASE s # 5
    BY <2>1, <2>2, <1>3 DEF SetStep, NoPolling
  <2>3. CASE s = 5
    BY <2>1, <2>3, <1>1, <1>3 DEF SetStep
  <2>. QED BY <2>2, <2>3
<1>4. ASSUME UNCHANGED <<step, due, polling, trades>>, work'.stage # "execute"
      PROVE  FALSE
  BY <1>1, <1>2, <1>4
<1>5. CASE FireTimer
  <2>1. PICK s \in due : SetStep(s) /\ due' = due \ {s}
    BY <1>5 DEF FireTimer
  <2>2. s \in 1 .. 5
    BY <2>1, <1>1 DEF WizardTyped, StepTyped
  <2>. QED BY <2>1, <2>2, <1>1, <1>2, <1>3, <1>5 DEF FireTimer
<1>6. CASE SwitchAccount
  <2>1. polling'.at # "settled"
    BY <1>6, <1>1 DEF SwitchAccount
  <2>. QED BY <2>1, <1>1, <1>2, <1>6 DEF SwitchAccount
<1>7. CASE RegistrationGoesOn
  BY <1>7, <1>1, <1>2 DEF RegistrationGoesOn, viewVars
<1>8. CASE PressNextOrBack
  <2>1. PICK s \in 1 .. 5 : SetStep(s)
    BY <1>8 DEF PressNextOrBack
  <2>. QED BY <2>1, <1>1, <1>2, <1>3, <1>8 DEF PressNextOrBack
<1>9. CASE PressMint \/ PressDeposit \/ PressSaveAlerts
  BY <1>9, <1>4 DEF PressMint, PressDeposit, PressSaveAlerts, StartWork, viewVars
<1>10. CASE AllowanceArrives \/ WalletConfirms
  <2>1. PICK s \in {"approve", "deposit", "receipt"} : work' = [work EXCEPT !.stage = s]
    BY <1>10 DEF AllowanceArrives, WalletConfirms, WorkGoesTo
  <2>2. work'.stage # "execute"
    BY <2>1 DEF WizardTyped, WorkTyped
  <2>. QED BY <2>2, <1>4, <1>10 DEF AllowanceArrives, WalletConfirms, viewVars
<1>11. CASE WorkFails \/ NewBalanceArrives \/ AlertsSaved
  BY <1>11, <1>4 DEF WorkFails, NewBalanceArrives, AlertsSaved, WorkEnds, Idling, viewVars
<1>12. CASE ReceiptArrives
  <2>1. work'.stage # "execute"
    BY <1>12, <1>1 DEF ReceiptArrives, WorkGoesTo, WorkEnds, Idling, WizardTyped, WorkTyped
  <2>2. SameStep \/ SetStep(5)
    BY <1>12 DEF ReceiptArrives
  <2>3. step' \in 1 .. 5 /\ polling'.at # "settled"
    BY <2>2, <1>1, <1>3 DEF SameStep
  <2>. QED BY <2>1, <2>3, <1>1, <1>2, <1>12 DEF ReceiptArrives
<1>13. CASE SharesArrive
  <2>1. CASE polling'.at = "settled"
    <3>1. Settled(vaultShares[polling.of]) /\ userShares' = vaultShares[polling.of]
      BY <1>13, <2>1, <1>1 DEF SharesArrive, WizardTyped, StepTyped
    <3>. QED BY <3>1 DEF Settled
  <2>2. CASE polling'.at # "settled"
    BY <1>13, <2>2, <1>1, <1>2 DEF SharesArrive
  <2>. QED BY <2>1, <2>2
<1>14. CASE AllocationShown \/ PressConfirm \/ ExecutionAnswered
  BY <1>14, <1>1 DEF AllocationShown, PressConfirm, ExecutionAnswered
<1>15. CASE \/ BalanceArrives \/ BeginFetch \/ DecisionArrives \/ FetchFailed \/ MinedAdrift
            \/ CompileAndRegister \/ UNCHANGED terminalVars
  BY <1>15, <1>1, <1>4
  DEF BalanceArrives, BeginFetch, DecisionArrives, FetchFailed, MinedAdrift, CompileAndRegister,
      terminalVars, viewVars
<1>. QED
  BY <1>5, <1>6, <1>7, <1>8, <1>9, <1>10, <1>11, <1>12, <1>13, <1>14, <1>15
  DEF TerminalNext, TerminalGoesOn

\* What has been read stays below what the vault holds for somebody.
LEMMA EarnedNext ==
  ASSUME WizardTyped, Earned, [TerminalNext]_terminalVars
  PROVE  Earned'
<1>1. userShares \in Nat /\ vaultShares \in [Visitors -> Nat]
      /\ userShares' \in Nat /\ vaultShares' \in [Visitors -> Nat]
  BY WizardTypedNext DEF WizardTyped, ReadTyped, TokensTyped
<1>2. \A a \in Visitors : vaultShares'[a] >= vaultShares[a]
  BY WizardTypedNext
<1>3. Entrance' => userShares' > 0
  <2>1. CASE Entrance
    BY <2>1, <1>1, SharesRead DEF Earned
  <2>2. CASE ~Entrance
    BY <2>2, EntranceNext
  <2>. QED BY <2>1, <2>2
<1>4. ASSUME userShares' > 0
      PROVE  \E a \in Visitors : vaultShares'[a] >= userShares'
  <2>1. PICK a \in Visitors : vaultShares[a] >= userShares'
    BY <1>1, <1>4, SharesRead DEF Earned
  <2>2. vaultShares'[a] >= vaultShares[a] /\ vaultShares[a] \in Nat /\ vaultShares'[a] \in Nat
    BY <1>1, <1>2
  <2>. QED BY <1>1, <2>1, <2>2
<1>. QED BY <1>3, <1>4 DEF Earned

\* The agent is reached, and trades are confirmed, only by somebody whose deposit
\* took effect, for any visitors, amounts and replies, and however late the timers.
THEOREM AgentAfterShares == TerminalSpec => []SharesBeforeAgent
<1>1. TerminalInit => WizardInv
  <2>1. TerminalInit => Earned
    BY DEF TerminalInit, Earned, Entrance, Idling, NoPolling
  <2>. QED BY <2>1, WizardTypedInit DEF WizardInv
<1>2. WizardInv /\ [TerminalNext]_terminalVars => WizardInv'
  BY WizardTypedNext, EarnedNext DEF WizardInv
<1>3. WizardInv => SharesBeforeAgent
  BY DEF WizardInv, Earned, Entrance, SharesBeforeAgent
<1>. QED BY <1>1, <1>2, <1>3, PTL DEF TerminalSpec
-----------------------------------------------------------------------------
(* The Merkle tree.                                                        *)

\* What holds of zero, and of a number's successor with it, holds of every number.
LEMMA SetInduction ==
  ASSUME NEW T, 0 \in T, \A n \in Nat : n \in T => n + 1 \in T
  PROVE  Nat \subseteq T
<1> SUFFICES ASSUME Nat \ T # {} PROVE FALSE
  OBVIOUS
<1>1. \E m \in Nat \ T : \A n \in Nat \ T : ~(<<n, m>> \in OpToRel(<, Nat))
  BY NatLessThanWellFounded, WFMin, Zenon
<1>2. PICK m \in Nat \ T : \A n \in Nat \ T : ~(<<n, m>> \in OpToRel(<, Nat))
  BY <1>1
<1>3. \A n \in Nat \ T : ~(n < m)
  BY <1>2 DEF OpToRel
<1>4. m # 0 /\ m - 1 \in Nat
  OBVIOUS
<1> QED
  BY <1>3, <1>4

\* The functions the compiler's definitions choose exist, each from the one for fewer
\* places: LayersOf, PlacesOf, PathOf and UpOf are their recursive equations.
LayersOf(f, leaves, n) ==
  f = [k \in 1 .. n |-> IF k = 1 THEN leaves ELSE Layer(f[k - 1])]

\* The layers are what they are said to be: the leaves, and each the layer above another.
LEMMA LayersUnfold ==
  ASSUME NEW leaves, Len(leaves) \in Nat
  PROVE  LayersOf(Layers(leaves), leaves, Len(leaves))
<1> DEFINE T == {n \in Nat : \E f : LayersOf(f, leaves, n)}
<1>1. 0 \in T
  <2> DEFINE f == [k \in 1 .. 0 |-> leaves]
  <2>1. LayersOf(f, leaves, 0)
    BY DEF LayersOf
  <2> QED
    BY <2>1
<1>2. ASSUME NEW n \in Nat, n \in T
      PROVE  n + 1 \in T
  <2>1. PICK f : LayersOf(f, leaves, n)
    BY <1>2
  <2> DEFINE g == [k \in 1 .. n + 1 |-> IF k = 1 THEN leaves ELSE Layer(f[k - 1])]
  <2>2. \A k \in 1 .. n : f[k] = g[k]
    BY <2>1 DEF LayersOf
  <2>3. LayersOf(g, leaves, n + 1)
    <3>1. ASSUME NEW k \in 1 .. n + 1
          PROVE  (IF k = 1 THEN leaves ELSE Layer(f[k - 1]))
                   = (IF k = 1 THEN leaves ELSE Layer(g[k - 1]))
      <4>1. CASE k # 1
        <5>1. k - 1 \in 1 .. n
          BY <4>1
        <5> HIDE DEF g
        <5> QED
          BY <2>2, <4>1, <5>1
      <4> QED
        BY <4>1
    <3> QED
      BY <3>1, Zenon DEF LayersOf
  <2> HIDE DEF g
  <2> QED
    BY <2>3
<1>3. Len(leaves) \in T
  <2> HIDE DEF T
  <2> QED
    BY <1>1, <1>2, SetInduction
<1>4. \E f : LayersOf(f, leaves, Len(leaves))
  BY <1>3
<1>5. Layers(leaves) = CHOOSE f : LayersOf(f, leaves, Len(leaves))
  BY Zenon DEF Layers, LayersOf
<1> QED
  BY <1>4, <1>5, Zenon

\* The place of a node above, in every layer.
PlacesOf(f, index, n) ==
  f = [k \in 1 .. n |-> IF k = 1 THEN index ELSE (f[k - 1] + 1) \div 2]

\* A node has a place above in every layer.
LEMMA PlacesExist ==
  ASSUME NEW index, NEW size \in Nat
  PROVE  \E f : PlacesOf(f, index, size)
<1> DEFINE T == {n \in Nat : \E f : PlacesOf(f, index, n)}
<1>1. 0 \in T
  <2> DEFINE f == [k \in 1 .. 0 |-> index]
  <2>1. PlacesOf(f, index, 0)
    BY DEF PlacesOf
  <2> QED
    BY <2>1
<1>2. ASSUME NEW n \in Nat, n \in T
      PROVE  n + 1 \in T
  <2>1. PICK f : PlacesOf(f, index, n)
    BY <1>2
  <2> DEFINE g == [k \in 1 .. n + 1 |-> IF k = 1 THEN index ELSE (f[k - 1] + 1) \div 2]
  <2>2. \A k \in 1 .. n : f[k] = g[k]
    BY <2>1 DEF PlacesOf
  <2>3. PlacesOf(g, index, n + 1)
    <3>1. ASSUME NEW k \in 1 .. n + 1
          PROVE  (IF k = 1 THEN index ELSE (f[k - 1] + 1) \div 2)
                   = (IF k = 1 THEN index ELSE (g[k - 1] + 1) \div 2)
      <4>1. CASE k # 1
        <5>1. k - 1 \in 1 .. n
          BY <4>1
        <5> HIDE DEF g
        <5> QED
          BY <2>2, <4>1, <5>1
      <4> QED
        BY <4>1
    <3> QED
      BY <3>1, Zenon DEF PlacesOf
  <2> HIDE DEF g
  <2> QED
    BY <2>3
<1> HIDE DEF T
<1>3. size \in T
  BY <1>1, <1>2, SetInduction
<1> QED
  BY <1>3 DEF T

\* The sibling in the k-th layer, where the node has one.
SiblingIn(layer, at, k) ==
  IF Sibling(at[k]) > Len(layer[k]) THEN << >> ELSE <<layer[k][Sibling(at[k])]>>

PathOf(f, layer, at, n) ==
  f = [k \in 0 .. n |-> IF k = 0 THEN << >> ELSE f[k - 1] \o SiblingIn(layer, at, k)]

\* The siblings can be collected from below.
LEMMA PathExists ==
  ASSUME NEW layer, NEW at, NEW size \in Nat
  PROVE  \E f : PathOf(f, layer, at, size)
<1> DEFINE T == {n \in Nat : \E f : PathOf(f, layer, at, n)}
<1>1. 0 \in T
  <2> DEFINE f == [k \in 0 .. 0 |-> << >>]
  <2>1. PathOf(f, layer, at, 0)
    <3>1. ASSUME NEW k \in 0 .. 0
          PROVE  << >> = (IF k = 0 THEN << >> ELSE f[k - 1] \o SiblingIn(layer, at, k))
      <4>1. k = 0
        OBVIOUS
      <4> QED
        BY <4>1, Zenon
    <3> QED
      BY <3>1, Zenon DEF PathOf
  <2> QED
    BY <2>1
<1>2. ASSUME NEW n \in Nat, n \in T
      PROVE  n + 1 \in T
  <2>1. PICK f : PathOf(f, layer, at, n)
    BY <1>2
  <2> DEFINE g == [k \in 0 .. n + 1 |->
                     IF k = 0 THEN << >> ELSE f[k - 1] \o SiblingIn(layer, at, k)]
  <2>2. ASSUME NEW k \in 0 .. n
        PROVE  f[k] = g[k]
    <3>1. k \in 0 .. n + 1
      OBVIOUS
    <3> QED
      BY <2>1, <3>1, Zenon DEF PathOf
  <2>3. PathOf(g, layer, at, n + 1)
    <3>1. ASSUME NEW k \in 0 .. n + 1
          PROVE  (IF k = 0 THEN << >> ELSE f[k - 1] \o SiblingIn(layer, at, k))
                   = (IF k = 0 THEN << >> ELSE g[k - 1] \o SiblingIn(layer, at, k))
      <4>1. CASE k # 0
        <5>1. k - 1 \in 0 .. n
          BY <4>1
        <5> HIDE DEF g
        <5> QED
          BY <2>2, <4>1, <5>1
      <4> QED
        BY <4>1
    <3> QED
      BY <3>1, Zenon DEF PathOf
  <2> HIDE DEF g
  <2> QED
    BY <2>3
<1> HIDE DEF T
<1>3. size \in T
  BY <1>1, <1>2, SetInduction
<1> QED
  BY <1>3 DEF T

\* What the leaf becomes on its way up.
UpOf(f, proof, leaf, n) ==
  f = [k \in 0 .. n |-> IF k = 0 THEN leaf ELSE HashPair(f[k - 1], proof[k])]

\* A leaf can be hashed with any proof, one element after the other.
LEMMA UpExists ==
  ASSUME NEW proof, NEW leaf, NEW size \in Nat
  PROVE  \E f : UpOf(f, proof, leaf, size)
<1> DEFINE T == {n \in Nat : \E f : UpOf(f, proof, leaf, n)}
<1>1. 0 \in T
  <2> DEFINE f == [k \in 0 .. 0 |-> leaf]
  <2>1. UpOf(f, proof, leaf, 0)
    <3>1. \A k \in 0 .. 0 : k = 0
      OBVIOUS
    <3> QED
      BY <3>1 DEF UpOf
  <2> QED
    BY <2>1
<1>2. ASSUME NEW n \in Nat, n \in T
      PROVE  n + 1 \in T
  <2>1. PICK f : UpOf(f, proof, leaf, n)
    BY <1>2
  <2> DEFINE g == [k \in 0 .. n + 1 |-> IF k = 0 THEN leaf ELSE HashPair(f[k - 1], proof[k])]
  <2>2. \A k \in 0 .. n : f[k] = g[k]
    BY <2>1 DEF UpOf
  <2>3. UpOf(g, proof, leaf, n + 1)
    <3>1. ASSUME NEW k \in 0 .. n + 1
          PROVE  (IF k = 0 THEN leaf ELSE HashPair(f[k - 1], proof[k]))
                   = (IF k = 0 THEN leaf ELSE HashPair(g[k - 1], proof[k]))
      <4>1. CASE k # 0
        <5>1. k - 1 \in 0 .. n
          BY <4>1
        <5> HIDE DEF g
        <5> QED
          BY <2>2, <4>1, <5>1
      <4> QED
        BY <4>1
    <3> QED
      BY <3>1, Zenon DEF UpOf
  <2> HIDE DEF g
  <2> QED
    BY <2>3
<1> HIDE DEF T
<1>3. size \in T
  BY <1>1, <1>2, SetInduction
<1> QED
  BY <1>3 DEF T

\* A proof is the siblings of every layer, at the places the leaf is led to.
LEMMA ProofIs ==
  ASSUME NEW leaves, NEW index, Len(leaves) \in Nat
  PROVE  \E at, path : /\ PlacesOf(at, index, Len(leaves))
                       /\ PathOf(path, Layers(leaves), at, Len(leaves))
                       /\ Proof(leaves, index) = path[Len(leaves)]
<1>1. PICK at : at = CHOOSE f : PlacesOf(f, index, Len(leaves))
  OBVIOUS
<1>2. PICK path : path = CHOOSE f : PathOf(f, Layers(leaves), at, Len(leaves))
  OBVIOUS
<1>3. Proof(leaves, index) = path[Len(leaves)]
  BY <1>1, <1>2, Zenon DEF Proof, PlacesOf, PathOf, SiblingIn
<1>4. PlacesOf(at, index, Len(leaves))
  BY <1>1, PlacesExist, Zenon
<1>5. PathOf(path, Layers(leaves), at, Len(leaves))
  BY <1>2, PathExists, Zenon
<1> QED
  BY <1>3, <1>4, <1>5

\* To verify is to compare what the leaf becomes with the root.
LEMMA VerifyIs ==
  ASSUME NEW proof, NEW leaf, NEW root, Len(proof) \in Nat
  PROVE  \E up : /\ UpOf(up, proof, leaf, Len(proof))
                 /\ Verify(proof, leaf, root) <=> up[Len(proof)] = root
<1>1. PICK up : up = CHOOSE f : UpOf(f, proof, leaf, Len(proof))
  OBVIOUS
<1>2. Verify(proof, leaf, root) <=> up[Len(proof)] = root
  BY <1>1, Zenon DEF Verify, UpOf
<1>3. UpOf(up, proof, leaf, Len(proof))
  BY <1>1, UpExists, Zenon
<1> QED
  BY <1>2, <1>3

\* Half a number, rounded up.
LEMMA Half ==
  ASSUME NEW a \in Nat
  PROVE  \E h \in Nat : h = (a + 1) \div 2 /\ (2 * h = a \/ 2 * h = a + 1)
<1>1. (a + 1) \div 2 \in Nat
  OBVIOUS
<1>2. 2 * ((a + 1) \div 2) = a \/ 2 * ((a + 1) \div 2) = a + 1
  OBVIOUS
<1> QED
  BY <1>1, <1>2

\* The tree's shape: each layer is half as long as the one below, and the last is the
\* root alone.
Tree(layer, leaves) ==
  /\ Len(leaves) \in Nat \ {0}
  /\ layer[1] = leaves
  /\ \A k \in 1 .. Len(leaves) : Len(layer[k]) \in 1 .. Len(leaves) - k + 1
  /\ \A k \in 1 .. Len(leaves) - 1 :
       /\ Len(layer[k + 1]) = (Len(layer[k]) + 1) \div 2
       /\ \A i \in 1 .. Len(layer[k + 1]) :
            layer[k + 1][i] = IF 2 * i > Len(layer[k]) THEN layer[k][2 * i - 1]
                              ELSE HashPair(layer[k][2 * i - 1], layer[k][2 * i])

\* A layer is half as long as its nodes, and its nodes are theirs or pairs of them.
LEMMA LayerIs ==
  ASSUME NEW nodes, Len(nodes) \in Nat
  PROVE  /\ Len(Layer(nodes)) = (Len(nodes) + 1) \div 2
         /\ \A i \in 1 .. Len(Layer(nodes)) :
              Layer(nodes)[i] = IF 2 * i > Len(nodes) THEN nodes[2 * i - 1]
                                ELSE HashPair(nodes[2 * i - 1], nodes[2 * i])
<1> DEFINE node(k) == IF 2 * k > Len(nodes) THEN nodes[2 * k - 1]
                      ELSE HashPair(nodes[2 * k - 1], nodes[2 * k])
           half == (Len(nodes) + 1) \div 2
<1>1. Layer(nodes) = [k \in 1 .. half |-> node(k)]
  BY DEF Layer
<1>2. half \in Nat
  OBVIOUS
<1> HIDE DEF node, half
<1>3. Layer(nodes) \in Seq({node(k) : k \in 1 .. half})
  BY <1>1, <1>2
<1>4. DOMAIN Layer(nodes) = 1 .. half
  BY <1>1
<1>5. Len(Layer(nodes)) = half
  BY <1>2, <1>3, <1>4, LenProperties
<1> QED
  BY <1>1, <1>5 DEF node, half

\* The layers of some leaves are a tree: their lengths halve until one is left.
LEMMA LayersTree ==
  ASSUME NEW leaves, Len(leaves) \in Nat \ {0}
  PROVE  Tree(Layers(leaves), leaves)
<1> DEFINE n == Len(leaves)
           layer == Layers(leaves)
<1>1. layer = [k \in 1 .. n |-> IF k = 1 THEN leaves ELSE Layer(layer[k - 1])]
  BY LayersUnfold DEF LayersOf
<1> HIDE DEF layer
<1>2. n \in Nat \ {0} /\ layer[1] = leaves
  BY <1>1
<1>3. \A k \in 1 .. n - 1 : layer[k + 1] = Layer(layer[k])
  <2> TAKE k \in 1 .. n - 1
  <2>1. k + 1 \in 1 .. n /\ k + 1 # 1 /\ (k + 1) - 1 = k
    BY <1>2
  <2> QED
    BY <1>1, <2>1
<1> HIDE DEF n
<1> DEFINE T == {m \in Nat : m + 1 <= n => Len(layer[m + 1]) \in 1 .. n - m}
<1>4. 0 \in T
  BY <1>2 DEF n
<1>5. ASSUME NEW m \in Nat, m \in T
      PROVE  m + 1 \in T
  <2> SUFFICES ASSUME (m + 1) + 1 <= n PROVE Len(layer[(m + 1) + 1]) \in 1 .. n - (m + 1)
    OBVIOUS
  <2>1. PICK j \in 1 .. n - 1 : j = m + 1
    BY <1>2
  <2>2. Len(layer[j]) \in 1 .. n - m
    BY <1>2, <1>5, <2>1
  <2>3. Len(layer[j]) \in Nat /\ Len(layer[j]) >= 1 /\ Len(layer[j]) <= n - m
    BY <1>2, <2>2
  <2>4. Len(layer[j + 1]) = (Len(layer[j]) + 1) \div 2
    BY <1>3, <2>3, LayerIs
  <2>5. PICK a, b \in Nat : /\ a = Len(layer[j]) /\ b = Len(layer[j + 1])
                            /\ 2 * b = a \/ 2 * b = a + 1
    BY <2>3, <2>4, Half
  <2>6. b \in 1 .. n - j
    BY <1>2, <2>1, <2>3, <2>5
  <2> QED
    BY <2>1, <2>5, <2>6
<1>6. Nat \subseteq T
  <2> HIDE DEF T
  <2> QED
    BY <1>4, <1>5, SetInduction
<1>7. \A k \in 1 .. n : Len(layer[k]) \in 1 .. n - k + 1
  <2> TAKE k \in 1 .. n
  <2>1. k - 1 \in T /\ (k - 1) + 1 = k /\ n - (k - 1) = n - k + 1
    BY <1>2, <1>6
  <2> QED
    BY <1>2, <2>1
<1>8. ASSUME NEW k \in 1 .. n - 1
      PROVE  /\ Len(layer[k + 1]) = (Len(layer[k]) + 1) \div 2
             /\ \A i \in 1 .. Len(layer[k + 1]) :
                  layer[k + 1][i] = IF 2 * i > Len(layer[k]) THEN layer[k][2 * i - 1]
                                    ELSE HashPair(layer[k][2 * i - 1], layer[k][2 * i])
  <2>1. k \in 1 .. n /\ layer[k + 1] = Layer(layer[k])
    BY <1>2, <1>3
  <2>2. Len(layer[k]) \in Nat
    BY <1>2, <1>7, <2>1
  <2> QED
    BY <2>1, <2>2, LayerIs
<1> QED
  BY <1>2, <1>7, <1>8 DEF Tree, n, layer

\* The node above the i-th one of a layer.
LEMMA Above ==
  ASSUME NEW layer, NEW leaves, Tree(layer, leaves),
         NEW k \in 1 .. Len(leaves) - 1, NEW i \in 1 .. Len(layer[k])
  PROVE  LET p == (i + 1) \div 2
         IN /\ p \in 1 .. Len(layer[k + 1])
            /\ layer[k + 1][p] = IF Sibling(i) > Len(layer[k]) THEN layer[k][i]
                                 ELSE HashPair(layer[k][i], layer[k][Sibling(i)])
<1> DEFINE p == (i + 1) \div 2
<1>1. /\ Len(layer[k]) \in 1 .. Len(leaves) - k + 1 /\ Len(leaves) \in Nat
      /\ Len(layer[k + 1]) = (Len(layer[k]) + 1) \div 2
      /\ \A j \in 1 .. Len(layer[k + 1]) :
           layer[k + 1][j] = IF 2 * j > Len(layer[k]) THEN layer[k][2 * j - 1]
                             ELSE HashPair(layer[k][2 * j - 1], layer[k][2 * j])
  <2>1. k \in 1 .. Len(leaves)
    BY DEF Tree
  <2> QED
    BY <2>1 DEF Tree
<1>2. PICK n, m \in Nat : /\ n = Len(layer[k]) /\ m = Len(layer[k + 1])
                          /\ 2 * m = n \/ 2 * m = n + 1
  <2>1. PICK n \in Nat : n = Len(layer[k])
    BY <1>1
  <2>2. PICK m \in Nat : m = (n + 1) \div 2 /\ (2 * m = n \/ 2 * m = n + 1)
    BY Half
  <2> QED
    BY <1>1, <2>1, <2>2
<1>3. i \in 1 .. n /\ p \in 1 .. m
  <2>1. i \in Nat /\ i >= 1 /\ i <= n
    BY <1>2
  <2>2. PICK q \in Nat : q = p /\ (2 * q = i \/ 2 * q = i + 1)
    BY <2>1, Half
  <2> QED
    BY <1>2, <2>1, <2>2
<1>4. layer[k + 1][p] = IF 2 * p > n THEN layer[k][2 * p - 1]
                        ELSE HashPair(layer[k][2 * p - 1], layer[k][2 * p])
  <2> HIDE DEF p
  <2> QED
    BY <1>1, <1>2, <1>3
<1>5. CASE i % 2 = 1
  <2>1. 2 * p = i + 1 /\ 2 * p - 1 = i /\ Sibling(i) = i + 1
    BY <1>3, <1>5 DEF Sibling
  <2> QED
    BY <1>2, <1>3, <1>4, <2>1
<1>6. CASE i % 2 # 1
  <2>1. 2 * p = i /\ 2 * p - 1 = i - 1 /\ Sibling(i) = i - 1
    BY <1>3, <1>6 DEF Sibling
  <2>2. ~(2 * p > n) /\ ~(Sibling(i) > n)
    BY <1>2, <1>3, <2>1
  <2>3. HashPair(layer[k][i - 1], layer[k][i]) = HashPair(layer[k][i], layer[k][i - 1])
    BY DEF HashPair
  <2> QED
    BY <1>2, <1>3, <1>4, <2>1, <2>2, <2>3
<1> QED
  BY <1>5, <1>6

\* Every leaf can be proved to belong to the root.
THEOREM ProofVerifies ==
  ASSUME NEW leaves, Len(leaves) \in Nat \ {0}, NEW index \in 1 .. Len(leaves)
  PROVE  Verify(Proof(leaves, index), leaves[index], Root(leaves))
<1> DEFINE layer == Layers(leaves)
<1>1. Tree(layer, leaves)
  BY LayersTree
<1>2. Root(leaves) = layer[Len(leaves)][1]
  BY DEF Root
<1>3. PICK at, path : /\ PlacesOf(at, index, Len(leaves))
                      /\ PathOf(path, layer, at, Len(leaves))
                      /\ Proof(leaves, index) = path[Len(leaves)]
  BY ProofIs
<1> HIDE DEF layer
<1>4. PICK n \in Nat \ {0} : n = Len(leaves)
  OBVIOUS
<1>5. /\ at[1] = index
      /\ \A k \in 1 .. n - 1 : at[k + 1] = (at[k] + 1) \div 2
  <2>1. at[1] = index
    BY <1>3, <1>4 DEF PlacesOf
  <2>2. ASSUME NEW k \in 1 .. n - 1 PROVE at[k + 1] = (at[k] + 1) \div 2
    <3>1. k + 1 \in 1 .. n /\ k + 1 # 1 /\ (k + 1) - 1 = k
      BY <1>4
    <3> QED
      BY <1>3, <1>4, <3>1 DEF PlacesOf
  <2> QED
    BY <2>1, <2>2
<1>6. \A k \in 1 .. n : at[k] \in 1 .. Len(layer[k])
  <2> DEFINE T == {m \in Nat : m + 1 <= n => at[m + 1] \in 1 .. Len(layer[m + 1])}
  <2>1. 0 \in T
    BY <1>1, <1>4, <1>5 DEF Tree
  <2>2. ASSUME NEW m \in Nat, m \in T
        PROVE  m + 1 \in T
    <3> SUFFICES ASSUME (m + 1) + 1 <= n
                 PROVE  at[(m + 1) + 1] \in 1 .. Len(layer[(m + 1) + 1])
      OBVIOUS
    <3>1. PICK k \in 1 .. n - 1 : k = m + 1
      BY <1>4
    <3>2. at[k] \in 1 .. Len(layer[k])
      BY <1>4, <2>2, <3>1
    <3>3. (at[k] + 1) \div 2 \in 1 .. Len(layer[k + 1])
      BY <1>1, <1>4, <3>2, Above
    <3> QED
      BY <1>5, <3>1, <3>3
  <2>3. Nat \subseteq T
    <3> HIDE DEF T
    <3> QED
      BY <2>1, <2>2, SetInduction
  <2>4. ASSUME NEW k \in 1 .. n PROVE at[k] \in 1 .. Len(layer[k])
    <3>1. PICK m \in Nat : m = k - 1 /\ m + 1 = k /\ m + 1 <= n
      BY <1>4
    <3>2. m \in T
      BY <2>3
    <3> QED
      BY <3>1, <3>2
  <2> QED
    BY <2>4
<1> DEFINE Nodes == {layer[k][i] : k \in 1 .. n, i \in Nat}
<1>7. /\ path[0] = << >>
      /\ \A k \in 1 .. n : path[k] = path[k - 1] \o SiblingIn(layer, at, k)
  <2>1. path[0] = << >>
    <3>1. 0 \in 0 .. Len(leaves)
      BY <1>4
    <3> QED
      BY <1>3, <3>1, Zenon DEF PathOf
  <2>2. ASSUME NEW k \in 1 .. n PROVE path[k] = path[k - 1] \o SiblingIn(layer, at, k)
    <3>1. k \in 0 .. Len(leaves) /\ k # 0
      BY <1>4
    <3> QED
      BY <1>3, <3>1, Zenon DEF PathOf
  <2> QED
    BY <2>1, <2>2
<1>8. ASSUME NEW k \in 1 .. n
      PROVE  /\ SiblingIn(layer, at, k) \in Seq(Nodes)
             /\ IF Sibling(at[k]) > Len(layer[k]) THEN Len(SiblingIn(layer, at, k)) = 0
                ELSE /\ Len(SiblingIn(layer, at, k)) = 1
                     /\ SiblingIn(layer, at, k)[1] = layer[k][Sibling(at[k])]
  <2>1. Sibling(at[k]) \in Nat
    <3>1. at[k] \in Nat /\ at[k] >= 1
      BY <1>1, <1>4, <1>6 DEF Tree
    <3> QED
      BY <3>1 DEF Sibling
  <2>2. layer[k][Sibling(at[k])] \in Nodes
    BY <2>1
  <2> HIDE DEF Nodes
  <2>3. CASE Sibling(at[k]) > Len(layer[k])
    <3>1. SiblingIn(layer, at, k) = << >>
      BY <2>3 DEF SiblingIn
    <3> QED
      BY <2>3, <3>1, EmptySeq
  <2>4. CASE ~(Sibling(at[k]) > Len(layer[k]))
    <3>1. SiblingIn(layer, at, k) = <<layer[k][Sibling(at[k])]>>
      BY <2>4 DEF SiblingIn
    <3> QED
      BY <2>2, <2>4, <3>1
  <2> QED
    BY <2>3, <2>4
<1> HIDE DEF Nodes
<1>9. \A k \in 0 .. n : path[k] \in Seq(Nodes)
  <2> DEFINE T == {m \in Nat : m <= n => path[m] \in Seq(Nodes)}
  <2>1. 0 \in T
    BY <1>7, EmptySeq
  <2>2. ASSUME NEW m \in Nat, m \in T
        PROVE  m + 1 \in T
    <3> SUFFICES ASSUME m + 1 <= n PROVE path[m + 1] \in Seq(Nodes)
      OBVIOUS
    <3>1. m + 1 \in 1 .. n /\ (m + 1) - 1 = m /\ path[m] \in Seq(Nodes)
      BY <1>4, <2>2
    <3>2. path[m + 1] = path[m] \o SiblingIn(layer, at, m + 1)
      BY <1>7, <3>1
    <3> QED
      BY <1>8, <3>1, <3>2, ConcatProperties
  <2>3. Nat \subseteq T
    <3> HIDE DEF T
    <3> QED
      BY <2>1, <2>2, SetInduction
  <2>4. ASSUME NEW k \in 0 .. n PROVE path[k] \in Seq(Nodes)
    <3>1. k \in T /\ k <= n
      BY <2>3
    <3> QED
      BY <3>1
  <2> QED
    BY <2>4
<1> DEFINE Climbs(u, q) ==
             /\ u[0] = leaves[index]
             /\ \A j \in 1 .. Len(q) : u[j] = HashPair(u[j - 1], q[j])
<1>10. ASSUME NEW k \in 1 .. n, NEW u, Climbs(u, path[k])
       PROVE  /\ Climbs(u, path[k - 1])
              /\ u[Len(path[k])] = IF Sibling(at[k]) > Len(layer[k]) THEN u[Len(path[k - 1])]
                                   ELSE HashPair(u[Len(path[k - 1])], layer[k][Sibling(at[k])])
  <2>1. PICK q, s \in Seq(Nodes) : q = path[k - 1] /\ s = SiblingIn(layer, at, k)
    <3>1. k - 1 \in 0 .. n
      OBVIOUS
    <3> QED
      BY <1>8, <1>9, <3>1
  <2>2. PICK r \in Seq(Nodes) : r = path[k] /\ r = q \o s
    BY <1>7, <2>1, ConcatProperties
  <2>3. /\ Len(q) \in Nat /\ Len(s) \in Nat /\ Len(r) = Len(q) + Len(s)
        /\ \A j \in 1 .. Len(q) : r[j] = q[j]
        /\ Len(s) = 1 => r[Len(q) + 1] = s[1]
    BY <2>2, ConcatProperties, LenProperties
  <2>4. /\ u[0] = leaves[index]
        /\ \A j \in 1 .. Len(r) : u[j] = HashPair(u[j - 1], r[j])
    BY <1>10, <2>2
  <2>5. Climbs(u, q)
    <3>1. \A j \in 1 .. Len(q) : j \in 1 .. Len(r)
      BY <2>3
    <3> QED
      BY <2>3, <2>4, <3>1
  <2>6. CASE Sibling(at[k]) > Len(layer[k])
    <3>0. Len(s) = 0
      BY <1>8, <2>1, <2>6
    <3>1. Len(r) = Len(q)
      BY <2>3, <3>0
    <3> QED
      BY <2>1, <2>2, <2>5, <2>6, <3>1
  <2>7. CASE ~(Sibling(at[k]) > Len(layer[k]))
    <3>1. Len(s) = 1 /\ s[1] = layer[k][Sibling(at[k])]
      BY <1>8, <2>1, <2>7
    <3>2. PICK l \in 1 .. Len(r) : l = Len(q) + 1 /\ l = Len(r) /\ l - 1 = Len(q)
      BY <2>3, <3>1
    <3>3. u[l] = HashPair(u[l - 1], r[l])
      BY <2>4
    <3> QED
      BY <2>1, <2>2, <2>3, <2>5, <2>7, <3>1, <3>2, <3>3
  <2> QED
    BY <2>6, <2>7
<1>11. ASSUME NEW m \in Nat, m <= n - 1, NEW u, Climbs(u, path[m])
       PROVE  u[Len(path[m])] = layer[m + 1][at[m + 1]]
  <2> DEFINE T == {k \in Nat : (k <= n - 1 /\ Climbs(u, path[k]))
                                 => u[Len(path[k])] = layer[k + 1][at[k + 1]]}
  <2>1. 0 \in T
    <3>1. Len(path[0]) = 0
      BY <1>7, EmptySeq
    <3>2. layer[1] = leaves /\ at[1] = index
      BY <1>1, <1>5 DEF Tree
    <3> QED
      BY <3>1, <3>2
  <2>2. ASSUME NEW k \in Nat, k \in T
        PROVE  k + 1 \in T
    <3> SUFFICES ASSUME k + 1 <= n - 1, Climbs(u, path[k + 1])
                 PROVE  u[Len(path[k + 1])] = layer[(k + 1) + 1][at[(k + 1) + 1]]
      OBVIOUS
    <3>1. PICK l \in 1 .. n - 1 : l = k + 1 /\ l - 1 = k
      BY <1>4
    <3>2. /\ Climbs(u, path[k])
          /\ u[Len(path[l])] = IF Sibling(at[l]) > Len(layer[l]) THEN u[Len(path[k])]
                               ELSE HashPair(u[Len(path[k])], layer[l][Sibling(at[l])])
      <4>1. l \in 1 .. n /\ Climbs(u, path[l])
        BY <1>4, <3>1
      <4> HIDE DEF Climbs
      <4> QED
        BY <1>10, <3>1, <4>1
    <3>3. u[Len(path[k])] = layer[l][at[l]]
      BY <1>4, <2>2, <3>1, <3>2
    <3>4. layer[l + 1][at[l + 1]] = IF Sibling(at[l]) > Len(layer[l]) THEN layer[l][at[l]]
                                    ELSE HashPair(layer[l][at[l]], layer[l][Sibling(at[l])])
      <4>1. at[l] \in 1 .. Len(layer[l]) /\ at[l + 1] = (at[l] + 1) \div 2
        <5>1. l \in 1 .. n
          BY <1>4
        <5> QED
          BY <1>5, <1>6, <5>1
      <4>2. PICK i \in 1 .. Len(layer[l]) : i = at[l] /\ at[l + 1] = (i + 1) \div 2
        BY <4>1
      <4>3. l \in 1 .. Len(leaves) - 1
        BY <1>4
      <4>4. layer[l + 1][(i + 1) \div 2] = IF Sibling(i) > Len(layer[l]) THEN layer[l][i]
                                           ELSE HashPair(layer[l][i], layer[l][Sibling(i)])
        BY <1>1, <4>3, Above
      <4> QED
        BY <4>2, <4>4
    <3> HIDE DEF Climbs
    <3> QED
      BY <3>1, <3>2, <3>3, <3>4
  <2>3. Nat \subseteq T
    <3> HIDE DEF T
    <3> QED
      BY <2>1, <2>2, SetInduction
  <2> QED
    BY <1>11, <2>3
<1>12. PICK proof \in Seq(Nodes) : proof = path[n] /\ proof = Proof(leaves, index)
  <2>1. n \in 0 .. n
    OBVIOUS
  <2> QED
    BY <1>3, <1>4, <1>9, <2>1
<1>13. PICK up : /\ UpOf(up, proof, leaves[index], Len(proof))
                 /\ Verify(proof, leaves[index], Root(leaves)) <=> up[Len(proof)] = Root(leaves)
  <2>1. Len(proof) \in Nat
    BY <1>12, LenProperties
  <2> QED
    BY <2>1, VerifyIs
<1>14. Climbs(up, path[n])
  <2>1. Len(proof) \in Nat
    BY <1>12, LenProperties
  <2>2. up[0] = leaves[index]
    <3>1. 0 \in 0 .. Len(proof)
      BY <2>1
    <3> QED
      BY <1>13, <3>1 DEF UpOf
  <2>3. ASSUME NEW j \in 1 .. Len(proof) PROVE up[j] = HashPair(up[j - 1], proof[j])
    <3>1. j \in 0 .. Len(proof) /\ j # 0
      BY <2>1
    <3> QED
      BY <1>13, <3>1, Zenon DEF UpOf
  <2> QED
    BY <1>12, <2>2, <2>3
<1>15. at[n] = 1 /\ Sibling(at[n]) > Len(layer[n])
  <2>1. Len(layer[n]) = 1
    <3>1. n \in 1 .. Len(leaves) /\ Len(leaves) - n + 1 = 1
      BY <1>4
    <3>2. Len(layer[n]) \in 1 .. 1
      BY <1>1, <3>1 DEF Tree
    <3> QED
      BY <3>2
  <2>2. at[n] = 1
    <3>1. n \in 1 .. n /\ at[n] \in 1 .. Len(layer[n])
      BY <1>6
    <3> QED
      BY <2>1, <3>1
  <2> QED
    BY <2>1, <2>2 DEF Sibling
<1>16. /\ Climbs(up, path[n - 1])
       /\ up[Len(path[n])] = up[Len(path[n - 1])]
  <2> HIDE DEF Climbs
  <2>1. n \in 1 .. n
    OBVIOUS
  <2> QED
    BY <1>10, <1>14, <1>15, <2>1
<1>17. up[Len(path[n - 1])] = layer[n][1]
  <2>1. PICK m \in Nat : m = n - 1 /\ m <= n - 1 /\ m + 1 = n
    OBVIOUS
  <2> HIDE DEF Climbs
  <2> QED
    BY <1>11, <1>15, <1>16, <2>1
<1> QED
  BY <1>2, <1>4, <1>12, <1>13, <1>16, <1>17 DEF layer

\* The nodes of a tree, its leaves among them.
NodesOf(layer, leaves) ==
  UNION {{layer[k][i] : i \in 1 .. Len(layer[k])} : k \in 1 .. Len(leaves)}

\* A node that is no leaf, and the leaves.
IsPair(x) == \E a, b : x = HashPair(a, b)

LeafSet(leaves) == {leaves[i] : i \in 1 .. Len(leaves)}

\* A node is a leaf, or a pair of two other nodes.
LEMMA NodeIs ==
  ASSUME NEW layer, NEW leaves, Tree(layer, leaves), NEW x \in NodesOf(layer, leaves)
  PROVE  \/ x \in LeafSet(leaves)
         \/ \E a, b \in NodesOf(layer, leaves) : x = HashPair(a, b)
<1> DEFINE N == NodesOf(layer, leaves)
           Known(y) == y \in LeafSet(leaves) \/ \E a, b \in N : y = HashPair(a, b)
<1>1. PICK n \in Nat \ {0} : n = Len(leaves)
  BY DEF Tree
<1>2. /\ layer[1] = leaves
      /\ \A k \in 1 .. n : Len(layer[k]) \in 1 .. n - k + 1
      /\ \A k \in 1 .. n - 1 :
           /\ Len(layer[k + 1]) = (Len(layer[k]) + 1) \div 2
           /\ \A i \in 1 .. Len(layer[k + 1]) :
                layer[k + 1][i] = IF 2 * i > Len(layer[k]) THEN layer[k][2 * i - 1]
                                  ELSE HashPair(layer[k][2 * i - 1], layer[k][2 * i])
  BY <1>1 DEF Tree
<1>3. \A k \in 1 .. n : \A i \in 1 .. Len(layer[k]) : layer[k][i] \in N
  BY <1>1 DEF NodesOf
<1> HIDE DEF N
<1> DEFINE T == {m \in Nat : m + 1 <= n => \A i \in 1 .. Len(layer[m + 1]) : Known(layer[m + 1][i])}
<1>4. 0 \in T
  BY <1>1, <1>2 DEF LeafSet
<1>5. ASSUME NEW m \in Nat, m \in T
      PROVE  m + 1 \in T
  <2> SUFFICES ASSUME (m + 1) + 1 <= n, NEW i \in 1 .. Len(layer[(m + 1) + 1])
               PROVE  Known(layer[(m + 1) + 1][i])
    OBVIOUS
  <2>1. PICK k \in 1 .. n - 1 : k = m + 1 /\ k \in 1 .. n
    BY <1>1
  <2>2. \A j \in 1 .. Len(layer[k]) : Known(layer[k][j])
    BY <1>1, <1>5, <2>1
  <2>3. PICK a \in Nat : a = Len(layer[k])
    BY <1>2, <2>1
  <2>4. PICK b \in Nat : b = Len(layer[k + 1]) /\ (2 * b = a \/ 2 * b = a + 1)
    BY <1>2, <2>3, Half
  <2>5. layer[k + 1][i] = IF 2 * i > a THEN layer[k][2 * i - 1]
                          ELSE HashPair(layer[k][2 * i - 1], layer[k][2 * i])
    BY <1>2, <2>1, <2>3
  <2>6. i \in 1 .. b /\ 2 * i - 1 \in 1 .. a
    BY <2>1, <2>4
  <2>7. CASE 2 * i > a
    <3>1. Known(layer[k][2 * i - 1])
      BY <2>2, <2>3, <2>6
    <3> QED
      BY <2>1, <2>5, <2>7, <3>1
  <2>8. CASE ~(2 * i > a)
    <3>1. 2 * i \in 1 .. a
      BY <2>6, <2>8
    <3>2. layer[k][2 * i - 1] \in N /\ layer[k][2 * i] \in N
      BY <1>3, <2>1, <2>3, <2>6, <3>1
    <3>3. layer[k + 1][i] = HashPair(layer[k][2 * i - 1], layer[k][2 * i])
      BY <2>5, <2>8
    <3>4. Known(layer[k + 1][i])
      BY <3>2, <3>3, Zenon
    <3> QED
      BY <2>1, <3>4
  <2> QED
    BY <2>7, <2>8
<1>6. Nat \subseteq T
  <2> HIDE DEF T
  <2> QED
    BY <1>4, <1>5, SetInduction
<1>7. PICK k \in 1 .. n : x \in {layer[k][i] : i \in 1 .. Len(layer[k])}
  BY <1>1 DEF NodesOf
<1>8. PICK m \in Nat : m = k - 1 /\ m + 1 = k /\ m + 1 <= n
  BY <1>1
<1>9. m \in T
  BY <1>6
<1>10. Known(x)
  BY <1>7, <1>8, <1>9
<1> QED
  BY <1>10 DEF N

\* The hash binds: a pair says which two it is of, though not in which order.
LEMMA PairOf ==
  ASSUME NEW a, NEW b, NEW c, NEW d, HashPair(a, b) = HashPair(c, d)
  PROVE  a \in {c, d} /\ b \in {c, d}
<1>1. HashPair(a, b).children = {a, b} /\ HashPair(c, d).children = {c, d}
  BY DEF HashPair
<1> QED
  BY <1>1

\* Trees of one root have the same nodes.
LEMMA NodesShared ==
  ASSUME NEW l1, NEW v1, Tree(l1, v1), NEW l2, NEW v2, Tree(l2, v2),
         \A x \in LeafSet(v2) : ~IsPair(x),
         l1[Len(v1)][1] = l2[Len(v2)][1]
  PROVE  NodesOf(l1, v1) \subseteq NodesOf(l2, v2)
<1>1. PICK n \in Nat \ {0} : n = Len(v1)
  BY DEF Tree
<1>2. /\ \A k \in 1 .. n : Len(l1[k]) \in 1 .. n - k + 1
      /\ \A k \in 1 .. n - 1 :
           /\ Len(l1[k + 1]) = (Len(l1[k]) + 1) \div 2
           /\ \A i \in 1 .. Len(l1[k]) :
                LET p == (i + 1) \div 2
                IN /\ p \in 1 .. Len(l1[k + 1])
                   /\ l1[k + 1][p] = IF Sibling(i) > Len(l1[k]) THEN l1[k][i]
                                     ELSE HashPair(l1[k][i], l1[k][Sibling(i)])
  <2>1. /\ \A k \in 1 .. n : Len(l1[k]) \in 1 .. n - k + 1
        /\ \A k \in 1 .. n - 1 : Len(l1[k + 1]) = (Len(l1[k]) + 1) \div 2
    BY <1>1 DEF Tree
  <2>2. ASSUME NEW k \in 1 .. n - 1, NEW i \in 1 .. Len(l1[k])
        PROVE  LET p == (i + 1) \div 2
               IN /\ p \in 1 .. Len(l1[k + 1])
                  /\ l1[k + 1][p] = IF Sibling(i) > Len(l1[k]) THEN l1[k][i]
                                    ELSE HashPair(l1[k][i], l1[k][Sibling(i)])
    <3>1. Tree(l1, v1) /\ k \in 1 .. Len(v1) - 1 /\ i \in 1 .. Len(l1[k])
      BY <1>1, <2>2
    <3> QED
      BY ONLY <3>1, Above
  <2> QED
    BY <2>1, <2>2
<1> DEFINE N == NodesOf(l2, v2)
           T == {m \in Nat : m + 1 <= n => \A i \in 1 .. Len(l1[n - m]) : l1[n - m][i] \in N}
<1>3. 0 \in T
  <2>1. Len(l1[n]) = 1
    <3>1. n \in 1 .. n /\ n - n + 1 = 1
      OBVIOUS
    <3>2. Len(l1[n]) \in 1 .. 1
      BY <1>2, <3>1
    <3> QED
      BY <3>2
  <2>2. l2[Len(v2)][1] \in N
    <3>1. Len(v2) \in 1 .. Len(v2) /\ Len(v2) - Len(v2) + 1 = 1 /\ Len(v2) \in Nat
      BY DEF Tree
    <3>2. Len(l2[Len(v2)]) \in 1 .. 1
      BY <3>1 DEF Tree
    <3>3. 1 \in 1 .. Len(l2[Len(v2)])
      BY <3>2
    <3> QED
      BY <3>1, <3>3 DEF NodesOf
  <2>3. l1[n][1] \in N /\ n - 0 = n
    BY <1>1, <2>2
  <2> HIDE DEF N
  <2> QED
    BY <2>1, <2>3
<1>4. ASSUME NEW m \in Nat, m \in T
      PROVE  m + 1 \in T
  <2> SUFFICES ASSUME (m + 1) + 1 <= n, NEW i \in 1 .. Len(l1[n - (m + 1)])
               PROVE  l1[n - (m + 1)][i] \in N
    OBVIOUS
  <2>1. PICK k \in 1 .. n - 1 : k = n - (m + 1) /\ k + 1 = n - m
    <3>1. n - (m + 1) \in 1 .. n - 1 /\ (n - (m + 1)) + 1 = n - m
      OBVIOUS
    <3> QED
      BY <3>1
  <2>2. PICK p \in 1 .. Len(l1[k + 1]) :
          l1[k + 1][p] = IF Sibling(i) > Len(l1[k]) THEN l1[k][i]
                         ELSE HashPair(l1[k][i], l1[k][Sibling(i)])
    BY <1>2, <2>1
  <2>3. l1[k + 1][p] \in N
    <3>1. m + 1 <= n
      BY <1>1
    <3> HIDE DEF N
    <3> QED
      BY <1>4, <2>1, <3>1
  <2>4. CASE Sibling(i) > Len(l1[k])
    BY <2>1, <2>2, <2>3, <2>4
  <2>5. CASE ~(Sibling(i) > Len(l1[k]))
    <3>1. PICK a, b : a = l1[k][i] /\ b = l1[k][Sibling(i)] /\ HashPair(a, b) \in N
      BY <2>2, <2>3, <2>5
    <3>2. HashPair(a, b) \notin LeafSet(v2)
      BY DEF IsPair
    <3>3. PICK c, d \in N : HashPair(a, b) = HashPair(c, d)
      BY <3>1, <3>2, NodeIs
    <3>4. a \in {c, d}
      BY <3>3, PairOf
    <3> QED
      BY <2>1, <3>1, <3>3, <3>4
  <2> QED
    BY <2>4, <2>5
<1>5. Nat \subseteq T
  <2> HIDE DEF T
  <2> QED
    BY <1>3, <1>4, SetInduction
<1> SUFFICES ASSUME NEW x \in NodesOf(l1, v1) PROVE x \in N
  OBVIOUS
<1>6. PICK k \in 1 .. n : \E i \in 1 .. Len(l1[k]) : x = l1[k][i]
  BY <1>1 DEF NodesOf
<1>7. PICK m \in Nat : m = n - k /\ n - m = k /\ m + 1 <= n
  <2>1. n - k \in Nat /\ n - (n - k) = k /\ (n - k) + 1 <= n
    OBVIOUS
  <2> QED
    BY <2>1
<1>8. m \in T
  BY <1>5
<1> HIDE DEF N
<1> QED
  BY <1>6, <1>7, <1>8

\* What is a leaf of one tree is a leaf of every tree of the same root.
LEMMA RootHolds ==
  ASSUME NEW v, Len(v) \in Nat \ {0}, \A x \in LeafSet(v) : ~IsPair(x),
         NEW w, Len(w) \in Nat \ {0}, \A x \in LeafSet(w) : ~IsPair(x),
         Root(v) = Root(w)
  PROVE  LeafSet(v) \subseteq LeafSet(w)
<1> SUFFICES ASSUME NEW x \in LeafSet(v) PROVE x \in LeafSet(w)
  OBVIOUS
<1>1. Tree(Layers(v), v) /\ Tree(Layers(w), w)
  BY LayersTree
<1>2. Layers(v)[Len(v)][1] = Layers(w)[Len(w)][1]
  BY DEF Root
<1>3. x \in NodesOf(Layers(v), v)
  <2>1. 1 \in 1 .. Len(v) /\ Layers(v)[1] = v
    BY <1>1 DEF Tree
  <2> QED
    BY <2>1 DEF NodesOf, LeafSet
<1>4. x \in NodesOf(Layers(w), w)
  BY <1>1, <1>2, <1>3, NodesShared
<1>5. ~ \E a, b \in NodesOf(Layers(w), w) : x = HashPair(a, b)
  BY DEF IsPair
<1> QED
  BY <1>1, <1>4, <1>5, NodeIs

\* The root binds: trees of one root, whatever their sizes, have the same set of leaves.
THEOREM RootBinds ==
  ASSUME NEW v, Len(v) \in Nat \ {0}, \A x \in LeafSet(v) : ~IsPair(x),
         NEW w, Len(w) \in Nat \ {0}, \A x \in LeafSet(w) : ~IsPair(x),
         Root(v) = Root(w)
  PROVE  LeafSet(v) = LeafSet(w)
<1>1. LeafSet(v) \subseteq LeafSet(w)
  BY RootHolds
<1>2. LeafSet(w) \subseteq LeafSet(v)
  BY RootHolds
<1> QED
  BY <1>1, <1>2

\* No proof can be forged: what verifies against the root of a tree, and is not itself
\* the hash of two nodes, is a leaf of it, whoever made the proof and however long it is.
THEOREM VerifiedIsLeaf ==
  ASSUME NEW leaves, Len(leaves) \in Nat \ {0}, \A x \in LeafSet(leaves) : ~IsPair(x),
         NEW proof, Len(proof) \in Nat, NEW leaf, ~IsPair(leaf),
         Verify(proof, leaf, Root(leaves))
  PROVE  leaf \in LeafSet(leaves)
<1> DEFINE N == NodesOf(Layers(leaves), leaves)
<1>1. Tree(Layers(leaves), leaves)
  BY LayersTree
<1>2. Root(leaves) \in N
  <2>1. Len(leaves) \in 1 .. Len(leaves) /\ Len(leaves) - Len(leaves) + 1 = 1
    OBVIOUS
  <2>2. Len(Layers(leaves)[Len(leaves)]) \in 1 .. 1
    BY <1>1, <2>1 DEF Tree
  <2>3. 1 \in 1 .. Len(Layers(leaves)[Len(leaves)])
    <3>1. PICK size : size = Len(Layers(leaves)[Len(leaves)])
      OBVIOUS
    <3>2. size = 1
      BY ONLY <2>2, <3>1
    <3> QED
      BY <3>1, <3>2
  <2> QED
    BY <2>1, <2>3 DEF NodesOf, Root
<1>3. PICK up : UpOf(up, proof, leaf, Len(proof)) /\ up[Len(proof)] = Root(leaves)
  BY VerifyIs
<1>4. PICK n \in Nat : n = Len(proof)
  OBVIOUS
<1>5. /\ up[0] = leaf
      /\ \A k \in 1 .. n : up[k] = HashPair(up[k - 1], proof[k])
  <2>1. 0 \in 0 .. Len(proof) /\ \A k \in 1 .. n : k \in 0 .. Len(proof) /\ k # 0
    BY <1>4
  <2> QED
    BY <1>3, <2>1, Zenon DEF UpOf
<1> HIDE DEF N
<1> DEFINE T == {m \in Nat : m <= n => up[n - m] \in N}
<1>6. 0 \in T
  <2>1. n - 0 = n
    OBVIOUS
  <2> QED
    BY <1>2, <1>3, <1>4, <2>1
<1>7. ASSUME NEW m \in Nat, m \in T
      PROVE  m + 1 \in T
  <2> SUFFICES ASSUME m + 1 <= n PROVE up[n - (m + 1)] \in N
    OBVIOUS
  <2>1. PICK k \in 1 .. n : k = n - m /\ k - 1 = n - (m + 1)
    <3>1. n - m \in 1 .. n /\ (n - m) - 1 = n - (m + 1)
      OBVIOUS
    <3> QED
      BY <3>1
  <2>2. PICK a, b : a = up[k - 1] /\ b = proof[k] /\ HashPair(a, b) = up[k]
    BY <1>5
  <2>3. HashPair(a, b) \in N
    BY <1>7, <2>1, <2>2
  <2>4. HashPair(a, b) \notin LeafSet(leaves)
    BY DEF IsPair
  <2>5. PICK c, d \in N : HashPair(a, b) = HashPair(c, d)
    BY <1>1, <2>3, <2>4, NodeIs DEF N
  <2>6. a \in {c, d}
    BY <2>5, PairOf
  <2> QED
    BY <2>1, <2>2, <2>5, <2>6
<1>8. Nat \subseteq T
  <2> HIDE DEF T
  <2> QED
    BY <1>6, <1>7, SetInduction
<1>9. leaf \in N
  <2>1. n \in T /\ n - n = 0
    BY <1>8
  <2> QED
    BY <1>5, <2>1
<1>10. leaf \in LeafSet(leaves) \/ \E a, b \in N : leaf = HashPair(a, b)
  BY <1>1, <1>9, NodeIs DEF N
<1> QED
  BY <1>10 DEF IsPair

\* What is used of the constraints: an amount that is a number, and known pools.
Constrained(c) ==
  /\ c.max_value_per_tx_usdc \in Int
  /\ \E n \in Nat \ {0} : c.allowed_pools \in [1 .. n -> {PoolId, FallbackPool}]

\* Every answer of the language model becomes such constraints.
LEMMA IntentConstrained ==
  ASSUME NEW input \in ParseToolInput
  PROVE  Constrained(ParseIntent(input))
<1> DEFINE c == ParseIntent(input)
<1>1. /\ input.max_value_per_tx_usdc \in Halves /\ input.allowed_pools \in Seq(STRING)
  BY DEF ParseToolInput
<1>2. /\ c.allowed_pools = SanitizePools(input.allowed_pools)
      /\ c.max_value_per_tx_usdc =
           LET v == ToFiniteNumber(input.max_value_per_tx_usdc, 2 * 10000)
           IN IF v < 2 * 100 THEN 2 * 100 ELSE v
  BY DEF ParseIntent
<1> HIDE DEF c
<1>3. c.max_value_per_tx_usdc \in Int
  <2>1. ToFiniteNumber(input.max_value_per_tx_usdc, 2 * 10000) \in Int
    BY <1>1 DEF ToFiniteNumber, Halves
  <2> QED
    BY <1>2, <2>1
<1>4. \E n \in Nat \ {0} :
        SanitizePools(input.allowed_pools) \in [1 .. n -> {PoolId, FallbackPool}]
  BY <1>1, PoolsKnown
<1>5. Constrained(c)
  BY <1>2, <1>3, <1>4 DEF Constrained
<1> QED
  BY <1>5 DEF c

\* The leaves that are no pool.
FieldLeaves(c) ==
  {EncodeLeaf("max_allocation_per_pool_bps", 0, c.max_allocation_per_pool_bps),
   EncodeLeaf("stop_loss_bps", 0, c.stop_loss_bps),
   EncodeLeaf("active_hours_start_utc", 0, c.active_hours_start_utc),
   EncodeLeaf("active_hours_end_utc", 0, c.active_hours_end_utc),
   EncodeLeaf("max_value_per_tx_usdc", 0, c.max_value_per_tx_usdc \div 2)}

\* The leaves are the five fields and the pools, each pool with its place.
LEMMA LeavesAre ==
  ASSUME NEW c, NEW n \in Nat \ {0}, c.allowed_pools \in [1 .. n -> {PoolId, FallbackPool}]
  PROVE  /\ Len(Leaves(c)) = n + 5 /\ DOMAIN Leaves(c) = 1 .. n + 5
         /\ LeafSet(Leaves(c))
              = FieldLeaves(c) \cup {EncodeLeaf(c.allowed_pools[k], k, 0) : k \in 1 .. n}
<1> DEFINE poolLeaf(k) == EncodeLeaf(c.allowed_pools[k], k, 0)
           fields == << EncodeLeaf("max_allocation_per_pool_bps", 0, c.max_allocation_per_pool_bps),
                        EncodeLeaf("stop_loss_bps", 0, c.stop_loss_bps),
                        EncodeLeaf("active_hours_start_utc", 0, c.active_hours_start_utc),
                        EncodeLeaf("active_hours_end_utc", 0, c.active_hours_end_utc),
                        EncodeLeaf("max_value_per_tx_usdc", 0, c.max_value_per_tx_usdc \div 2) >>
           A == FieldLeaves(c) \cup {poolLeaf(k) : k \in 1 .. n}
<1>1. c.allowed_pools \in Seq({PoolId, FallbackPool}) /\ Len(c.allowed_pools) = n
  OBVIOUS
<1>2. PICK s : s = [k \in 1 .. n |-> poolLeaf(k)]
  OBVIOUS
<1>3. Leaves(c) = fields \o s
  BY <1>1, <1>2, Zenon DEF Leaves
<1>4. /\ fields \in Seq(A) /\ Len(fields) = 5
      /\ FieldLeaves(c) = {fields[1], fields[2], fields[3], fields[4], fields[5]}
  <2>1. /\ fields[1] \in A /\ fields[2] \in A /\ fields[3] \in A /\ fields[4] \in A
        /\ fields[5] \in A
        /\ FieldLeaves(c) = {fields[1], fields[2], fields[3], fields[4], fields[5]}
    BY DEF FieldLeaves
  <2>2. Len(fields) = 5 /\ DOMAIN fields = 1 .. 5
    OBVIOUS
  <2> HIDE DEF A
  <2>3. fields \in Seq(A)
    BY <2>1
  <2> QED
    BY <2>1, <2>2, <2>3
<1>5. s \in Seq(A) /\ Len(s) = n /\ \A k \in 1 .. n : s[k] = poolLeaf(k)
  <2>1. \A k \in 1 .. n : poolLeaf(k) \in A
    OBVIOUS
  <2> HIDE DEF poolLeaf, A
  <2> QED
    BY <1>2, <2>1
<1> HIDE DEF fields, poolLeaf, A
<1>6. PICK l \in Seq(A) : l = Leaves(c) /\ l = fields \o s
  BY <1>3, <1>4, <1>5, ConcatProperties
<1>7. /\ Len(l) = n + 5
      /\ \A k \in 1 .. 5 : l[k] = fields[k]
      /\ \A k \in 1 .. n : l[k + 5] = poolLeaf(k)
  <2>1. PICK f \in Seq(A) : f = fields
    BY <1>4
  <2>2. PICK t \in Seq(A) : t = s
    BY <1>5
  <2>3. /\ Len(f \o t) = Len(f) + Len(t)
        /\ \A i \in 1 .. Len(f) + Len(t) :
             (f \o t)[i] = IF i <= Len(f) THEN f[i] ELSE t[i - Len(f)]
    BY ConcatProperties, Zenon
  <2>4. f \o t = l /\ Len(f) = 5 /\ Len(t) = n
    BY <1>4, <1>5, <1>6, <2>1, <2>2
  <2>5. Len(l) = 5 + n /\ \A i \in 1 .. 5 + n : l[i] = IF i <= 5 THEN f[i] ELSE t[i - 5]
    BY <2>3, <2>4, Zenon
  <2>6. ASSUME NEW k \in 1 .. n PROVE l[k + 5] = poolLeaf(k)
    <3>1. k + 5 \in 1 .. 5 + n /\ ~(k + 5 <= 5) /\ (k + 5) - 5 = k
      OBVIOUS
    <3>2. l[k + 5] = t[k]
      BY <2>5, <3>1
    <3> QED
      BY <1>5, <2>2, <3>2
  <2>7. ASSUME NEW k \in 1 .. 5 PROVE l[k] = fields[k]
    BY <2>1, <2>5
  <2> QED
    BY <2>5, <2>6, <2>7
<1>8. DOMAIN l = 1 .. n + 5
  BY <1>7, LenProperties
<1>9. LeafSet(l) \subseteq A
  <2>1. \A k \in 1 .. Len(l) : l[k] \in A
    BY ElementOfSeq, Zenon
  <2> QED
    BY <2>1 DEF LeafSet
<1>10. A \subseteq LeafSet(l)
  <2>1. \A k \in 1 .. 5 : fields[k] \in LeafSet(l)
    <3>1. \A k \in 1 .. 5 : k \in 1 .. n + 5
      OBVIOUS
    <3> QED
      BY <1>7, <3>1 DEF LeafSet
  <2>2. \A k \in 1 .. n : poolLeaf(k) \in LeafSet(l)
    <3>1. \A k \in 1 .. n : k + 5 \in 1 .. n + 5
      OBVIOUS
    <3> QED
      BY <1>7, <3>1 DEF LeafSet
  <2> QED
    BY <1>4, <2>1, <2>2 DEF A
<1> QED
  BY <1>6, <1>7, <1>8, <1>9, <1>10 DEF A, poolLeaf

\* A leaf is no pair: it was hashed otherwise.
LEMMA NoPair ==
  ASSUME NEW label, NEW place, NEW value
  PROVE  ~IsPair(EncodeLeaf(label, place, value))
<1> SUFFICES ASSUME NEW a, NEW b, EncodeLeaf(label, place, value) = HashPair(a, b) PROVE FALSE
  BY DEF IsPair
<1>1. "label" \in DOMAIN EncodeLeaf(label, place, value)
  BY DEF EncodeLeaf
<1>2. "label" \notin DOMAIN HashPair(a, b)
  BY DEF HashPair
<1> QED
  BY <1>1, <1>2

\* Every leaf names its field, or its pool's place, and a policy that compiles has
\* whole amounts: what the leaves hold decides all but the risk profile.
LEMMA LeavesDecide ==
  ASSUME NEW c, Constrained(c), c.max_value_per_tx_usdc % 2 = 0,
         NEW d, Constrained(d), d.max_value_per_tx_usdc % 2 = 0,
         LeafSet(Leaves(c)) = LeafSet(Leaves(d))
  PROVE  /\ c.max_allocation_per_pool_bps = d.max_allocation_per_pool_bps
         /\ c.stop_loss_bps = d.stop_loss_bps
         /\ c.active_hours_start_utc = d.active_hours_start_utc
         /\ c.active_hours_end_utc = d.active_hours_end_utc
         /\ c.allowed_pools = d.allowed_pools
         /\ c.max_value_per_tx_usdc = d.max_value_per_tx_usdc
<1>1. PICK n \in Nat \ {0} : c.allowed_pools \in [1 .. n -> {PoolId, FallbackPool}]
  BY DEF Constrained
<1>2. PICK m \in Nat \ {0} : d.allowed_pools \in [1 .. m -> {PoolId, FallbackPool}]
  BY DEF Constrained
<1>3. /\ LeafSet(Leaves(c))
           = FieldLeaves(c) \cup {EncodeLeaf(c.allowed_pools[k], k, 0) : k \in 1 .. n}
      /\ LeafSet(Leaves(d))
           = FieldLeaves(d) \cup {EncodeLeaf(d.allowed_pools[k], k, 0) : k \in 1 .. m}
  BY <1>1, <1>2, LeavesAre
<1>4. \A label, place, value, label2, place2, value2 :
        EncodeLeaf(label, place, value) = EncodeLeaf(label2, place2, value2)
          => label = label2 /\ place = place2 /\ value = value2
  BY DEF EncodeLeaf
<1>5. ASSUME NEW label, NEW value, EncodeLeaf(label, 0, value) \in FieldLeaves(c)
      PROVE  EncodeLeaf(label, 0, value) \in FieldLeaves(d)
  <2>1. \A k \in 1 .. m : EncodeLeaf(label, 0, value) # EncodeLeaf(d.allowed_pools[k], k, 0)
    BY <1>4
  <2> QED
    BY <1>3, <1>5, <2>1
<1>6. /\ c.max_allocation_per_pool_bps = d.max_allocation_per_pool_bps
      /\ c.stop_loss_bps = d.stop_loss_bps
      /\ c.active_hours_start_utc = d.active_hours_start_utc
      /\ c.active_hours_end_utc = d.active_hours_end_utc
      /\ c.max_value_per_tx_usdc \div 2 = d.max_value_per_tx_usdc \div 2
  <2>1. ASSUME NEW label, NEW value, EncodeLeaf(label, 0, value) \in FieldLeaves(d)
        PROVE  /\ label = "max_allocation_per_pool_bps" => value = d.max_allocation_per_pool_bps
               /\ label = "stop_loss_bps" => value = d.stop_loss_bps
               /\ label = "active_hours_start_utc" => value = d.active_hours_start_utc
               /\ label = "active_hours_end_utc" => value = d.active_hours_end_utc
               /\ label = "max_value_per_tx_usdc" => value = d.max_value_per_tx_usdc \div 2
    BY <1>4, <2>1 DEF FieldLeaves
  <2>2. /\ EncodeLeaf("max_allocation_per_pool_bps", 0, c.max_allocation_per_pool_bps)
             \in FieldLeaves(c)
        /\ EncodeLeaf("stop_loss_bps", 0, c.stop_loss_bps) \in FieldLeaves(c)
        /\ EncodeLeaf("active_hours_start_utc", 0, c.active_hours_start_utc) \in FieldLeaves(c)
        /\ EncodeLeaf("active_hours_end_utc", 0, c.active_hours_end_utc) \in FieldLeaves(c)
        /\ EncodeLeaf("max_value_per_tx_usdc", 0, c.max_value_per_tx_usdc \div 2) \in FieldLeaves(c)
    BY DEF FieldLeaves
  <2> QED
    BY <1>5, <2>1, <2>2
<1>7. c.max_value_per_tx_usdc = d.max_value_per_tx_usdc
  BY <1>6 DEF Constrained
<1>8. ASSUME NEW k \in Nat, k # 0
      PROVE  /\ \A p : EncodeLeaf(p, k, 0) \in LeafSet(Leaves(c))
                          <=> k \in 1 .. n /\ c.allowed_pools[k] = p
             /\ \A p : EncodeLeaf(p, k, 0) \in LeafSet(Leaves(d))
                          <=> k \in 1 .. m /\ d.allowed_pools[k] = p
  <2>1. \A p : /\ EncodeLeaf(p, k, 0) \notin FieldLeaves(c)
               /\ EncodeLeaf(p, k, 0) \notin FieldLeaves(d)
    BY <1>4, <1>8 DEF FieldLeaves
  <2>2. ASSUME NEW p
        PROVE  EncodeLeaf(p, k, 0) \in LeafSet(Leaves(c)) <=> k \in 1 .. n /\ c.allowed_pools[k] = p
    <3>1. ASSUME EncodeLeaf(p, k, 0) \in LeafSet(Leaves(c))
          PROVE  k \in 1 .. n /\ c.allowed_pools[k] = p
      <4>1. PICK j \in 1 .. n : EncodeLeaf(p, k, 0) = EncodeLeaf(c.allowed_pools[j], j, 0)
        BY <1>3, <2>1, <3>1
      <4>2. PICK q : q = c.allowed_pools[j]
        OBVIOUS
      <4>3. EncodeLeaf(p, k, 0) = EncodeLeaf(q, j, 0)
        BY <4>1, <4>2
      <4>4. p = q /\ k = j
        BY ONLY <1>4, <4>3
      <4> QED
        BY <4>2, <4>4
    <3>2. ASSUME k \in 1 .. n /\ c.allowed_pools[k] = p
          PROVE  EncodeLeaf(p, k, 0) \in LeafSet(Leaves(c))
      BY <1>3, <3>2
    <3> QED
      BY <3>1, <3>2
  <2>3. ASSUME NEW p
        PROVE  EncodeLeaf(p, k, 0) \in LeafSet(Leaves(d)) <=> k \in 1 .. m /\ d.allowed_pools[k] = p
    <3>1. ASSUME EncodeLeaf(p, k, 0) \in LeafSet(Leaves(d))
          PROVE  k \in 1 .. m /\ d.allowed_pools[k] = p
      <4>1. PICK j \in 1 .. m : EncodeLeaf(p, k, 0) = EncodeLeaf(d.allowed_pools[j], j, 0)
        BY <1>3, <2>1, <3>1
      <4>2. PICK q : q = d.allowed_pools[j]
        OBVIOUS
      <4>3. EncodeLeaf(p, k, 0) = EncodeLeaf(q, j, 0)
        BY <4>1, <4>2
      <4>4. p = q /\ k = j
        BY ONLY <1>4, <4>3
      <4> QED
        BY <4>2, <4>4
    <3>2. ASSUME k \in 1 .. m /\ d.allowed_pools[k] = p
          PROVE  EncodeLeaf(p, k, 0) \in LeafSet(Leaves(d))
      BY <1>3, <3>2
    <3> QED
      BY <3>1, <3>2
  <2> QED
    BY <2>2, <2>3
<1>9. ASSUME NEW k \in 1 .. n PROVE k \in 1 .. m /\ c.allowed_pools[k] = d.allowed_pools[k]
  <2>1. k \in Nat /\ k # 0
    OBVIOUS
  <2>2. EncodeLeaf(c.allowed_pools[k], k, 0) \in LeafSet(Leaves(d))
    BY <1>8, <2>1
  <2> QED
    BY <1>8, <2>1, <2>2
<1>10. ASSUME NEW k \in 1 .. m PROVE k \in 1 .. n
  <2>1. k \in Nat /\ k # 0
    OBVIOUS
  <2>2. EncodeLeaf(d.allowed_pools[k], k, 0) \in LeafSet(Leaves(c))
    BY <1>8, <2>1
  <2> QED
    BY <1>8, <2>1, <2>2
<1>11. n = m
  <2>1. n \in 1 .. n /\ m \in 1 .. m
    OBVIOUS
  <2>2. n \in 1 .. m /\ m \in 1 .. n
    BY <1>9, <1>10, <2>1
  <2> QED
    BY <2>2
<1>12. c.allowed_pools = d.allowed_pools
  BY <1>1, <1>2, <1>9, <1>11
<1> QED
  BY <1>6, <1>7, <1>12
-----------------------------------------------------------------------------
(* The frame.                                                              *)

\* The root and the hours of one policy without errors, as the registry takes them.
OfferSound(root, start, end) ==
  /\ start < 24 /\ end \in 1 .. 24 /\ start < end
  /\ \E a \in WideAnswers :
       /\ Compiled[a].valid
       /\ Compiled[a].policyRoot = root
       /\ Compiled[a].constraints.active_hours_start_utc = start
       /\ Compiled[a].constraints.active_hours_end_utc = end

\* A target of a frame's own is sound; one of somebody's writing is passed on whole.
TargetSound(root, start, end, hand) ==
  IF hand THEN [root |-> root, start |-> start, end |-> end] \in HandTargets
  ELSE OfferSound(root, start, end)

ButtonSound(b) == b.kind \in {"register", "tx"} => TargetSound(b.root, b.start, b.end, b.hand)

FrameInv ==
  /\ \A b \in frame.buttons : ButtonSound(b)
  /\ \A o \in offer : TargetSound(o.root, o.startHour, o.endHour, o.hand)

LEMMA PlainSound == ButtonSound(Plain) /\ ButtonSound(Link)
  BY DEF ButtonSound, Plain, Link, Button

\* The way to the registration is open to error-free policies only.
LEMMA CompiledFrameSound ==
  ASSUME NEW a \in WideAnswers, NEW b \in CompiledFrame(a).buttons
  PROVE  ButtonSound(b)
<1> DEFINE c == ParseIntent(a)
           p == CompilePolicy(a)
<1>1. Compiled[a] = p
  BY DEF Compiled
<1>2. p.constraints = c /\ p.valid = Valid(c)
  BY Zenon DEF CompilePolicy
<1>3. c.active_hours_start_utc \in 0 .. 23 /\ c.active_hours_end_utc \in 1 .. 24
  <2>1. a \in ParseToolInput
    BY FrameAssumption
  <2> QED
    BY <2>1, ConstraintsBounded DEF WithinBounds
<1> HIDE DEF c, p
<1>4. CASE ~Compiles(a) \/ ~p.valid
  <2>1. CompiledFrame(a) = Failed
          \/ CompiledFrame(a) = FrameHtml("errors", {a}, "compile", TRUE, {Plain})
    BY <1>1, <1>4, Zenon DEF CompiledFrame
  <2>2. CompiledFrame(a).buttons = {Plain}
    BY <2>1 DEF Failed, FrameHtml
  <2> QED
    BY <2>2, PlainSound
<1>5. CASE Compiles(a) /\ p.valid
  <2>1. CompiledFrame(a).buttons = {RegisterButton(p), Plain}
    <3>1. CompiledFrame(a)
            = FrameHtml("summary", {a},
                        IF p.conflicts = {} THEN "register" ELSE "conflicts",
                        FALSE, {RegisterButton(p), Plain})
      BY <1>1, <1>5, Zenon DEF CompiledFrame
    <3> QED
      BY <3>1 DEF FrameHtml
  <2>2. c.active_hours_start_utc < c.active_hours_end_utc
    <3>1. Valid(c) /\ c.active_hours_start_utc \in Int /\ c.active_hours_end_utc \in Int
      BY <1>2, <1>3, <1>5
    <3> QED
      BY <3>1, ValidOpens
  <2>3. OfferSound(p.policyRoot, c.active_hours_start_utc, c.active_hours_end_utc)
    BY <1>1, <1>2, <1>3, <1>5, <2>2 DEF OfferSound
  <2>4. ButtonSound(RegisterButton(p))
    BY <1>2, <2>3 DEF ButtonSound, TargetSound, RegisterButton, Button
  <2> QED
    BY <2>1, <2>4, PlainSound
<1> QED
  BY <1>4, <1>5

\* A request that carries a sound button's target, or none, is answered soundly.
LEMMA PostSound ==
  ASSUME NEW screen, NEW text \in BOOLEAN, NEW b,
         b.root = NoTarget \/ TargetSound(b.root, b.start, b.end, b.hand),
         NEW f \in Post(screen, text, b), NEW c \in f.buttons
  PROVE  ButtonSound(c)
<1> USE PlainSound DEF FrameHtml
<1>1. CASE screen = "home"
  <2>1. f = Home
    BY <1>1 DEF Post
  <2> QED
    BY <2>1 DEF Home
<1>2. CASE screen = "status"
  <2>1. f = StatusFrame
    BY <1>2 DEF Post
  <2> QED
    BY <2>1 DEF StatusFrame
<1>3. CASE screen = "compile"
  <2>1. f \in {AskIntent, Failed} \cup {CompiledFrame(a) : a \in WideAnswers}
    BY <1>3 DEF Post
  <2>2. CASE f \in {AskIntent, Failed}
    BY <2>2 DEF AskIntent, Failed
  <2>3. CASE f \in {CompiledFrame(a) : a \in WideAnswers}
    BY <2>3, CompiledFrameSound
  <2> QED
    BY <2>1, <2>2, <2>3
<1>4. CASE screen = "conflicts"
  <2> DEFINE unread == FrameHtml("failed", {}, "home", FALSE, {Plain})
  <2>1. f \in {AskIntent, unread} \cup {ConflictDetails(a) : a \in WideAnswers}
    BY <1>4 DEF Post
  <2>2. CASE f \in {AskIntent, unread}
    BY <2>2 DEF AskIntent
  <2>3. CASE f \in {ConflictDetails(a) : a \in WideAnswers}
    BY <2>3 DEF ConflictDetails
  <2> QED
    BY <2>1, <2>2, <2>3
<1>5. CASE screen \notin {"home", "status", "compile", "conflicts"}
  <2>1. f = RegisterFrame(b)
    BY <1>5 DEF Post
  <2>2. \/ c \in {Link, Plain}
        \/ b.root # NoTarget /\ c = Button("tx", b.root, b.start, b.end, b.hand)
    <3>1. f = FrameHtml("unconfigured", {}, "home", FALSE, {Link, Plain})
          \/ /\ b.root # NoTarget
             /\ f = FrameHtml("register", {}, "register", FALSE,
                              {Button("tx", b.root, b.start, b.end, b.hand), Link})
      BY <2>1, Zenon DEF RegisterFrame
    <3> HIDE DEF FrameHtml
    <3>2. \/ f.buttons = {Link, Plain}
          \/ b.root # NoTarget /\ f.buttons = {Button("tx", b.root, b.start, b.end, b.hand), Link}
      BY <3>1 DEF FrameHtml
    <3> QED
      BY <3>2
  <2>3. ASSUME b.root # NoTarget, c = Button("tx", b.root, b.start, b.end, b.hand)
        PROVE  ButtonSound(c)
    BY <2>3 DEF ButtonSound, Button
  <2> QED
    BY <2>2, <2>3
<1> QED
  BY <1>1, <1>2, <1>3, <1>4, <1>5

LEMMA FrameInvNext ==
  ASSUME FrameInv, [FrameNext]_frameVars
  PROVE  FrameInv'
<1>1. CASE UNCHANGED frameVars
  BY <1>1 DEF frameVars, FrameInv
<1>2. ASSUME NEW screen, NEW text \in BOOLEAN, frame' \in Post(screen, text, Plain), offer' = {}
      PROVE  FrameInv'
  <2>1. Plain.root = NoTarget
    BY DEF Plain, Button
  <2>2. ASSUME NEW b \in frame'.buttons
        PROVE  ButtonSound(b)
    BY <1>2, <2>1, PostSound
  <2> QED
    BY <1>2, <2>2 DEF FrameInv
<1>3. CASE PressPlain
  BY <1>2, <1>3 DEF PressPlain
<1>4. ASSUME NEW b, TargetSound(b.root, b.start, b.end, b.hand),
             frame' \in Post("register", FALSE, b), offer' = {}
      PROVE  FrameInv'
  <2>1. ASSUME NEW c \in frame'.buttons
        PROVE  ButtonSound(c)
    BY <1>4, <2>1, PostSound
  <2> QED
    BY <1>4, <2>1 DEF FrameInv
<1>5. CASE PressRegister
  <2>1. PICK b \in frame.buttons : b.kind = "register" /\ frame' \in Post("register", FALSE, b)
    BY <1>5 DEF PressRegister
  <2>2. TargetSound(b.root, b.start, b.end, b.hand)
    BY <2>1 DEF FrameInv, ButtonSound
  <2> QED
    BY <1>4, <1>5, <2>1, <2>2 DEF PressRegister
<1>6. ASSUME NEW b, TargetSound(b.root, b.start, b.end, b.hand), offer' = {Signing(b)},
             UNCHANGED frame
      PROVE  FrameInv'
  <2> DEFINE o == Signing(b)
  <2>1. TargetSound(o.root, o.startHour, o.endHour, o.hand)
    BY <1>6 DEF Signing
  <2> HIDE DEF o
  <2> QED
    BY <1>6, <2>1 DEF FrameInv, o
<1>7. CASE PressSign
  <2>1. PICK b \in frame.buttons : b.kind = "tx" /\ offer' = {Signing(b)}
    BY <1>7 DEF PressSign
  <2>2. TargetSound(b.root, b.start, b.end, b.hand)
    BY <2>1 DEF FrameInv, ButtonSound
  <2> QED
    BY <1>6, <1>7, <2>1, <2>2 DEF PressSign
<1>8. ASSUME NEW t \in HandTargets
      PROVE  LET b == Written(t) IN TargetSound(b.root, b.start, b.end, b.hand)
  <2>1. t = [root |-> t.root, start |-> t.start, end |-> t.end]
    BY Zenon DEF HandTargets
  <2> QED
    BY <2>1 DEF TargetSound, Written, Button
<1>9. CASE Visit
  <2>1. CASE \E screen \in Screens, text \in BOOLEAN : frame' \in Post(screen, text, Plain)
    BY <1>2, <1>9, <2>1 DEF Visit
  <2>2. ASSUME NEW t \in HandTargets, frame' \in Post("register", FALSE, Written(t))
        PROVE  FrameInv'
    BY <1>4, <1>8, <1>9, <2>2 DEF Visit
  <2> QED
    BY <1>9, <2>1, <2>2 DEF Visit
<1>10. CASE VisitTx
  BY <1>6, <1>8, <1>10 DEF VisitTx
<1> QED
  BY <1>1, <1>3, <1>5, <1>7, <1>9, <1>10 DEF FrameNext

LEMMA FrameInvOffers == FrameInv => FrameOffersSound
<1> SUFFICES ASSUME FrameInv, NEW o \in Offers
             PROVE  TargetSound(o.root, o.start, o.end, o.hand)
  BY DEF FrameOffersSound, TargetSound, OfferSound
<1> QED
  BY DEF FrameInv, ButtonSound, Offers

\* The answer a frame sums up was compiled.
Displayed == frame.of \subseteq {a \in WideAnswers : Compiles(a)}

\* A request is answered with a summary of what was compiled, or of nothing.
LEMMA PostDisplays ==
  ASSUME NEW screen, NEW text \in BOOLEAN, NEW b, NEW f \in Post(screen, text, b)
  PROVE  f.of \subseteq {a \in WideAnswers : Compiles(a)}
<1> DEFINE Fine(g) == g.of \subseteq {a \in WideAnswers : Compiles(a)}
<1>1. ASSUME NEW a \in WideAnswers PROVE Fine(CompiledFrame(a)) /\ Fine(ConflictDetails(a))
  <2>1. Fine(CompiledFrame(a))
    <3>1. \/ CompiledFrame(a) = Failed
          \/ /\ Compiles(a)
             /\ \E image, screen2, input, buttons :
                  CompiledFrame(a) = FrameHtml(image, {a}, screen2, input, buttons)
      BY Zenon DEF CompiledFrame
    <3> QED
      BY <3>1 DEF Failed, FrameHtml
  <2>2. Fine(ConflictDetails(a))
    BY DEF ConflictDetails, FrameHtml
  <2> QED
    BY <2>1, <2>2
<1>2. Fine(Home) /\ Fine(StatusFrame) /\ Fine(AskIntent) /\ Fine(Failed)
  BY DEF Home, StatusFrame, AskIntent, Failed, FrameHtml
<1>3. Fine(FrameHtml("failed", {}, "home", FALSE, {Plain}))
  BY DEF FrameHtml
<1>4. Fine(RegisterFrame(b))
  BY DEF RegisterFrame, FrameHtml
<1> HIDE DEF Fine
<1>5. Fine(f)
  <2>1. CASE screen = "home"
    BY <1>2, <2>1 DEF Post
  <2>2. CASE screen = "status"
    BY <1>2, <2>2 DEF Post
  <2>3. CASE screen = "compile"
    BY <1>1, <1>2, <2>3 DEF Post
  <2>4. CASE screen = "conflicts"
    BY <1>1, <1>2, <1>3, <2>4 DEF Post
  <2>5. CASE screen \notin {"home", "status", "compile", "conflicts"}
    BY <1>4, <2>5 DEF Post
  <2> QED
    BY <2>1, <2>2, <2>3, <2>4, <2>5
<1> QED
  BY <1>5 DEF Fine

\* No step of the frame displays what did not compile.
LEMMA DisplayedNext ==
  ASSUME Displayed, [FrameNext]_frameVars
  PROVE  Displayed'
<1>1. CASE UNCHANGED frame
  BY <1>1 DEF Displayed
<1>2. CASE \E screen, b : \E text \in BOOLEAN : frame' \in Post(screen, text, b)
  BY <1>2, PostDisplays DEF Displayed
<1> QED
  BY <1>1, <1>2 DEF FrameNext, PressPlain, PressRegister, PressSign, Visit, VisitTx, frameVars

\* What is compiled can be proved leaf by leaf, and its root is that of no other
\* constraints but for the risk profile.
LEMMA CompiledBinds ==
  ASSUME NEW a \in WideAnswers, Compiles(a), NEW b \in WideAnswers, Compiles(b)
  PROVE  /\ \A k \in DOMAIN Compiled[a].merkleLeaves :
              Verify(Proof(Compiled[a].merkleLeaves, k), Compiled[a].merkleLeaves[k],
                     Compiled[a].policyRoot)
         /\ Compiled[b].policyRoot = Compiled[a].policyRoot =>
              [Compiled[b].constraints EXCEPT !.risk_profile = ""]
                = [Compiled[a].constraints EXCEPT !.risk_profile = ""]
<1>1. a \in ParseToolInput /\ b \in ParseToolInput
  BY FrameAssumption
<1>2. PICK c : c = ParseIntent(a)
  OBVIOUS
<1>3. PICK d : d = ParseIntent(b)
  OBVIOUS
<1>4. /\ Compiled[a].merkleLeaves = Leaves(c) /\ Compiled[a].policyRoot = Root(Leaves(c))
      /\ Compiled[a].constraints = c
      /\ Compiled[b].policyRoot = Root(Leaves(d)) /\ Compiled[b].constraints = d
  <2>1. Compiled[a] = CompilePolicy(a) /\ Compiled[b] = CompilePolicy(b)
    BY Zenon DEF Compiled
  <2>2. ASSUME NEW x
        PROVE  /\ CompilePolicy(x).merkleLeaves = Leaves(ParseIntent(x))
               /\ CompilePolicy(x).policyRoot = Root(Leaves(ParseIntent(x)))
               /\ CompilePolicy(x).constraints = ParseIntent(x)
    BY Zenon DEF CompilePolicy
  <2> QED
    BY <1>2, <1>3, <2>1, <2>2
<1>5. Constrained(c) /\ Constrained(d)
  BY <1>1, <1>2, <1>3, IntentConstrained
<1>6. c.max_value_per_tx_usdc % 2 = 0 /\ d.max_value_per_tx_usdc % 2 = 0
  BY <1>2, <1>3 DEF Compiles
<1>7. ASSUME NEW e, Constrained(e)
      PROVE  /\ Len(Leaves(e)) \in Nat \ {0} /\ DOMAIN Leaves(e) = 1 .. Len(Leaves(e))
             /\ \A x \in LeafSet(Leaves(e)) : ~IsPair(x)
  <2>1. PICK n \in Nat \ {0} : e.allowed_pools \in [1 .. n -> {PoolId, FallbackPool}]
    BY <1>7 DEF Constrained
  <2>2. /\ Len(Leaves(e)) = n + 5 /\ DOMAIN Leaves(e) = 1 .. n + 5
        /\ LeafSet(Leaves(e))
             = FieldLeaves(e) \cup {EncodeLeaf(e.allowed_pools[k], k, 0) : k \in 1 .. n}
    BY <2>1, LeavesAre
  <2>3. \A x \in FieldLeaves(e) : ~IsPair(x)
    BY NoPair DEF FieldLeaves
  <2>4. \A k \in 1 .. n : ~IsPair(EncodeLeaf(e.allowed_pools[k], k, 0))
    BY NoPair
  <2> QED
    BY <2>2, <2>3, <2>4
<1>8. ASSUME NEW k \in DOMAIN Leaves(c)
      PROVE  Verify(Proof(Leaves(c), k), Leaves(c)[k], Root(Leaves(c)))
  BY <1>5, <1>7, <1>8, ProofVerifies
<1>9. ASSUME Root(Leaves(d)) = Root(Leaves(c))
      PROVE  [d EXCEPT !.risk_profile = ""] = [c EXCEPT !.risk_profile = ""]
  <2>1. LeafSet(Leaves(c)) = LeafSet(Leaves(d))
    BY <1>5, <1>7, <1>9, RootBinds
  <2>2. /\ c.max_allocation_per_pool_bps = d.max_allocation_per_pool_bps
        /\ c.stop_loss_bps = d.stop_loss_bps
        /\ c.active_hours_start_utc = d.active_hours_start_utc
        /\ c.active_hours_end_utc = d.active_hours_end_utc
        /\ c.allowed_pools = d.allowed_pools
        /\ c.max_value_per_tx_usdc = d.max_value_per_tx_usdc
    BY <1>5, <1>6, <2>1, LeavesDecide
  <2>3. ASSUME NEW x, NEW e, e = ParseIntent(x)
        PROVE  /\ e = [y \in DOMAIN e |-> e[y]]
               /\ DOMAIN e = {"max_allocation_per_pool_bps", "stop_loss_bps",
                              "active_hours_start_utc", "active_hours_end_utc",
                              "allowed_pools", "max_value_per_tx_usdc", "risk_profile"}
    BY <2>3 DEF ParseIntent
  <2>4. DOMAIN c = DOMAIN d /\ \A y \in DOMAIN c : y # "risk_profile" => c[y] = d[y]
    BY <1>2, <1>3, <2>2, <2>3
  <2> QED
    BY <2>4
<1>10. \A k \in DOMAIN Compiled[a].merkleLeaves :
          Verify(Proof(Compiled[a].merkleLeaves, k), Compiled[a].merkleLeaves[k],
                 Compiled[a].policyRoot)
  BY ONLY <1>4, <1>8, Zenon
<1>11. Compiled[b].policyRoot = Compiled[a].policyRoot =>
         [Compiled[b].constraints EXCEPT !.risk_profile = ""]
           = [Compiled[a].constraints EXCEPT !.risk_profile = ""]
  BY ONLY <1>4, <1>9, Zenon
<1> QED
  BY ONLY <1>10, <1>11, Zenon

\* What CompiledSound says of one policy.
PolicySound(p) ==
  /\ p.constraints.max_allocation_per_pool_bps \in 100 .. AllBps
  /\ p.constraints.stop_loss_bps \in 100 .. AllBps
  /\ p.constraints.active_hours_start_utc \in 0 .. 23
  /\ p.constraints.active_hours_end_utc \in 1 .. 24
  /\ p.constraints.allowed_pools # << >>
  /\ \A k \in DOMAIN p.merkleLeaves :
       Verify(Proof(p.merkleLeaves, k), p.merkleLeaves[k], p.policyRoot)
  /\ \A a \in WideAnswers :
       (Compiles(a) /\ Compiled[a].policyRoot = p.policyRoot) =>
         [Compiled[a].constraints EXCEPT !.risk_profile = ""]
           = [p.constraints EXCEPT !.risk_profile = ""]

\* What is displayed was compiled, and so is sound.
LEMMA DisplayedSound == Displayed => CompiledSound
<1> SUFFICES ASSUME Displayed, NEW a \in frame.of PROVE PolicySound(Compiled[a])
  <2>1. (\A p \in OnDisplay : PolicySound(p)) => CompiledSound
    BY Zenon DEF CompiledSound, PolicySound
  <2>2. (\A a \in frame.of : PolicySound(Compiled[a])) => \A p \in OnDisplay : PolicySound(p)
    BY DEF OnDisplay
  <2> QED
    BY <2>1, <2>2
<1>1. a \in WideAnswers /\ Compiles(a) /\ a \in ParseToolInput
  BY FrameAssumption DEF Displayed
<1>2. Compiled[a] = CompilePolicy(a)
  BY <1>1, Zenon DEF Compiled
<1>3. CompilePolicy(a).constraints = ParseIntent(a)
  BY Zenon DEF CompilePolicy
<1>4. WithinBounds(ParseIntent(a))
  BY <1>1, ConstraintsBounded
<1>5. \A k \in DOMAIN Compiled[a].merkleLeaves :
        Verify(Proof(Compiled[a].merkleLeaves, k), Compiled[a].merkleLeaves[k],
               Compiled[a].policyRoot)
  BY <1>1, CompiledBinds
<1>6. \A b \in WideAnswers :
        (Compiles(b) /\ Compiled[b].policyRoot = Compiled[a].policyRoot) =>
          [Compiled[b].constraints EXCEPT !.risk_profile = ""]
            = [Compiled[a].constraints EXCEPT !.risk_profile = ""]
  BY <1>1, CompiledBinds
<1> QED
  BY <1>2, <1>3, <1>4, <1>5, <1>6, Zenon DEF PolicySound, WithinBounds
-----------------------------------------------------------------------------
(* The contacts.                                                           *)

\* The contacts that are those the wallets were told of, one of each wallet at most.
Faithful(contacts, told) ==
  /\ contacts \in Seq(Record)
  /\ \A k, l \in 1 .. Len(contacts) : contacts[k].wallet = contacts[l].wallet => k = l
  /\ \A w \in Subscribers :
       told[w] = {contacts[k].contact : k \in {k \in 1 .. Len(contacts) : contacts[k].wallet = w}}

LEMMA UpsertedTyped ==
  ASSUME NEW contacts \in Seq(Record), NEW record \in Record
  PROVE  Upserted(contacts, record) \in Seq(Record)
<1>1. Len(contacts) \in Nat /\ DOMAIN contacts = 1 .. Len(contacts)
      /\ \A k \in 1 .. Len(contacts) : contacts[k] \in Record
  BY ElementOfSeq
<1>2. [k \in 1 .. Len(contacts) |->
         IF contacts[k].wallet = record.wallet THEN record ELSE contacts[k]] \in Seq(Record)
  BY <1>1
<1>3. Append(contacts, record) \in Seq(Record)
  BY AppendProperties
<1> QED
  BY <1>1, <1>2, <1>3 DEF Upserted

\* Upserting a record keeps the others, and tells of one.
LEMMA UpsertedFaithful ==
  ASSUME NEW contacts, NEW told \in [Subscribers -> SUBSET ContactDetails],
         Faithful(contacts, told), NEW record \in Record
  PROVE  Faithful(Upserted(contacts, record),
                  [told EXCEPT ![record.wallet] = {record.contact}])
<1> DEFINE n == Len(contacts)
           new == Upserted(contacts, record)
           now == [told EXCEPT ![record.wallet] = {record.contact}]
<1>1. contacts \in Seq(Record) /\ n \in Nat /\ DOMAIN contacts = 1 .. n
      /\ record.wallet \in Subscribers /\ record.contact \in ContactDetails
  BY DEF Faithful, Record
<1>2. \A k \in 1 .. n : contacts[k] \in Record
  BY <1>1, ElementOfSeq
<1>3. CASE \E k \in 1 .. n : contacts[k].wallet = record.wallet
  <2>1. new = [k \in 1 .. n |->
                 IF contacts[k].wallet = record.wallet THEN record ELSE contacts[k]]
    BY <1>1, <1>3 DEF Upserted
  <2>2. new \in Seq(Record) /\ Len(new) = n
    BY <1>1, <1>2, <2>1
  <2>3. \A k \in 1 .. n :
          /\ new[k].wallet = contacts[k].wallet
          /\ new[k].contact = IF contacts[k].wallet = record.wallet THEN record.contact
                              ELSE contacts[k].contact
    BY <2>1
  <2>4. \A k, l \in 1 .. n : new[k].wallet = new[l].wallet => k = l
    BY <2>3 DEF Faithful
  <2>5. ASSUME NEW w \in Subscribers
        PROVE  now[w] = {new[k].contact : k \in {k \in 1 .. n : new[k].wallet = w}}
    <3>1. CASE w = record.wallet
      <4>1. now[w] = {record.contact}
        BY <1>1, <3>1
      <4>2. {new[k].contact : k \in {k \in 1 .. n : new[k].wallet = w}} = {record.contact}
        BY <1>3, <2>3, <3>1
      <4> QED
        BY <4>1, <4>2
    <3>2. CASE w # record.wallet
      <4>1. now[w] = {contacts[k].contact : k \in {k \in 1 .. n : contacts[k].wallet = w}}
        BY <1>1, <3>2 DEF Faithful
      <4> QED
        BY <2>3, <3>2, <4>1
    <3> QED
      BY <3>1, <3>2
  <2> HIDE DEF new, now
  <2> QED
    BY <2>2, <2>4, <2>5 DEF Faithful, new, now
<1>4. CASE \A k \in 1 .. n : contacts[k].wallet # record.wallet
  <2>1. new = Append(contacts, record)
    BY <1>1, <1>4 DEF Upserted
  <2>2. /\ new \in Seq(Record) /\ Len(new) = n + 1
        /\ \A k \in 1 .. n : new[k] = contacts[k]
        /\ new[n + 1] = record
    BY <1>1, <2>1, AppendProperties
  <2>3. \A k, l \in 1 .. n + 1 : new[k].wallet = new[l].wallet => k = l
    <3> SUFFICES ASSUME NEW k \in 1 .. n + 1, NEW l \in 1 .. n + 1, new[k].wallet = new[l].wallet
                 PROVE  k = l
      OBVIOUS
    <3>1. CASE k \in 1 .. n /\ l \in 1 .. n
      BY <2>2, <3>1 DEF Faithful
    <3>2. CASE k = n + 1 /\ l \in 1 .. n
      BY <1>4, <2>2, <3>2
    <3>3. CASE l = n + 1 /\ k \in 1 .. n
      BY <1>4, <2>2, <3>3
    <3> QED
      BY <1>1, <3>1, <3>2, <3>3
  <2>4. ASSUME NEW w \in Subscribers
        PROVE  now[w] = {new[k].contact : k \in {k \in 1 .. n + 1 : new[k].wallet = w}}
    <3>1. CASE w = record.wallet
      <4>1. {k \in 1 .. n + 1 : new[k].wallet = w} = {n + 1}
        BY <1>1, <1>4, <2>2, <3>1
      <4>2. now[w] = {record.contact}
        BY <1>1, <3>1
      <4>3. new[n + 1].contact = record.contact
        BY <2>2
      <4> QED
        BY <4>1, <4>2, <4>3
    <3>2. CASE w # record.wallet
      <4>1. now[w] = {contacts[k].contact : k \in {k \in 1 .. n : contacts[k].wallet = w}}
        BY <1>1, <3>2 DEF Faithful
      <4>2. {k \in 1 .. n + 1 : new[k].wallet = w} = {k \in 1 .. n : contacts[k].wallet = w}
        BY <1>1, <2>2, <3>2
      <4> QED
        BY <2>2, <4>1, <4>2
    <3> QED
      BY <3>1, <3>2
  <2> HIDE DEF new, now
  <2> QED
    BY <2>2, <2>3, <2>4 DEF Faithful, new, now
<1> QED
  BY <1>3, <1>4

LEMMA NoneFaithful ==
  Faithful(<< >>, [w \in Subscribers |-> {}])
<1>1. << >> \in Seq(Record) /\ Len(<< >>) = 0
  BY EmptySeq
<1> QED
  BY <1>1 DEF Faithful

\* As long as nothing was disturbed, the file is what the wallets were told, and so
\* is the copy of the one request under way, which is all that is left while it writes.
ContactsInv ==
  /\ posts \in [PostRequests -> [at : {"idle", "read", "writing"}, record : SUBSET Record,
                                 contacts : Seq(Record)]]
  /\ contactsFile = {} \/ \E c \in Seq(Record) : contactsFile = {c}
  /\ registeredAs \in [Subscribers -> SUBSET ContactDetails]
  /\ ~disturbed =>
       /\ \A r, s \in PostRequests : Active(r) /\ Active(s) => r = s
       /\ \A r \in PostRequests : Active(r) =>
            /\ Faithful(posts[r].contacts, registeredAs)
            /\ \E record \in Record : posts[r].record = {record}
       /\ (\A r \in PostRequests : posts[r].at # "writing") => Faithful(ReadDB, registeredAs)

LEMMA ReadTypedContacts ==
  ASSUME contactsFile = {} \/ \E c \in Seq(Record) : contactsFile = {c}
  PROVE  ReadDB \in Seq(Record)
<1>1. CASE contactsFile = {}
  BY <1>1, EmptySeq DEF ReadDB
<1>2. ASSUME NEW c \in Seq(Record), contactsFile = {c}
      PROVE  ReadDB \in Seq(Record)
  BY <1>2 DEF ReadDB
<1> QED
  BY <1>1, <1>2

LEMMA NoPostTyped ==
  /\ NoPost \in [at : {"idle", "read", "writing"}, record : SUBSET Record,
                 contacts : Seq(Record)]
  /\ NoPost.at = "idle"
  BY EmptySeq DEF NoPost

LEMMA ContactsInvInit == ContactsInit => ContactsInv
  BY NoPostTyped, NoneFaithful DEF ContactsInit, ContactsInv, Active, ReadDB

LEMMA ReceiveKeeps ==
  ASSUME ContactsInv, NEW r \in PostRequests, ReceivePost(r)
  PROVE  ContactsInv'
<1>1. PICK record \in Record :
        posts' = [posts EXCEPT ![r] = [at |-> "read", record |-> {record}, contacts |-> ReadDB]]
  BY DEF ReceivePost
<1>2. /\ ~Active(r) /\ UNCHANGED <<contactsFile, registeredAs>>
      /\ disturbed' = (disturbed \/ \E other \in PostRequests : Active(other))
  BY DEF ReceivePost
<1>3. ReadDB \in Seq(Record)
  BY ReadTypedContacts DEF ContactsInv
<1> DEFINE post == [at |-> "read", record |-> {record}, contacts |-> ReadDB]
<1>4. post \in [at : {"idle", "read", "writing"}, record : SUBSET Record,
                contacts : Seq(Record)]
      /\ post.at = "read" /\ post.record = {record} /\ post.contacts = ReadDB
  BY <1>3
<1>5. posts' = [posts EXCEPT ![r] = post]
  BY <1>1
<1> HIDE DEF post
<1>6. posts' \in [PostRequests -> [at : {"idle", "read", "writing"}, record : SUBSET Record,
                                   contacts : Seq(Record)]]
  BY <1>4, <1>5 DEF ContactsInv
<1>7. \A s \in PostRequests : posts'[s] = IF s = r THEN post ELSE posts[s]
  BY <1>5 DEF ContactsInv
<1>8. ReadDB' = ReadDB
  BY <1>2 DEF ReadDB
<1>9. ASSUME ~disturbed'
      PROVE  /\ \A q, s \in PostRequests : Active(q)' /\ Active(s)' => q = s
             /\ \A s \in PostRequests : Active(s)' =>
                  /\ Faithful(posts'[s].contacts, registeredAs')
                  /\ \E rec \in Record : posts'[s].record = {rec}
             /\ (\A s \in PostRequests : posts'[s].at # "writing")
                  => Faithful(ReadDB', registeredAs')
  <2>1. ~disturbed /\ \A s \in PostRequests : ~Active(s)
    BY <1>2, <1>9
  <2>2. Faithful(ReadDB, registeredAs)
    BY <2>1 DEF ContactsInv, Active
  <2>3. \A s \in PostRequests : Active(s)' => s = r
    BY <1>7, <2>1 DEF Active
  <2> QED
    BY <1>2, <1>4, <1>7, <1>8, <2>2, <2>3
<1> QED
  BY <1>2, <1>6, <1>9 DEF ContactsInv

LEMMA BeginWriteKeeps ==
  ASSUME ContactsInv, NEW r \in PostRequests, BeginWrite(r)
  PROVE  ContactsInv'
<1>1. /\ posts[r].at = "read" /\ posts' = [posts EXCEPT ![r].at = "writing"]
      /\ contactsFile' = {} /\ UNCHANGED <<registeredAs, disturbed>>
  BY DEF BeginWrite
<1>2. /\ posts' \in [PostRequests -> [at : {"idle", "read", "writing"}, record : SUBSET Record,
                                      contacts : Seq(Record)]]
      /\ posts'[r].at = "writing"
      /\ \A s \in PostRequests : /\ s # r => posts'[s].at = posts[s].at
                                 /\ posts'[s].record = posts[s].record
                                 /\ posts'[s].contacts = posts[s].contacts
  BY <1>1 DEF ContactsInv
<1>3. \A s \in PostRequests : Active(s)' <=> Active(s)
  BY <1>1, <1>2 DEF Active
<1>4. ASSUME ~disturbed
      PROVE  /\ \A q, s \in PostRequests : Active(q)' /\ Active(s)' => q = s
             /\ \A s \in PostRequests : Active(s)' =>
                  /\ Faithful(posts'[s].contacts, registeredAs')
                  /\ \E rec \in Record : posts'[s].record = {rec}
  BY <1>1, <1>2, <1>3, <1>4, ZenonT(60) DEF ContactsInv
<1>5. /\ contactsFile' = {} \/ \E c \in Seq(Record) : contactsFile' = {c}
      /\ registeredAs' \in [Subscribers -> SUBSET ContactDetails]
  BY <1>1 DEF ContactsInv
<1> QED
  BY <1>1, <1>2, <1>4, <1>5 DEF ContactsInv

LEMMA EndWriteKeeps ==
  ASSUME ContactsInv, NEW r \in PostRequests, EndWrite(r)
  PROVE  ContactsInv'
<1>1. PICK record \in posts[r].record :
        /\ contactsFile' = {Upserted(posts[r].contacts, record)}
        /\ registeredAs' = [registeredAs EXCEPT ![record.wallet] = {record.contact}]
  BY DEF EndWrite
<1>2. /\ posts[r].at = "writing" /\ posts' = [posts EXCEPT ![r] = NoPost]
      /\ UNCHANGED disturbed
  BY DEF EndWrite
<1>3. record \in Record /\ record.wallet \in Subscribers /\ record.contact \in ContactDetails
      /\ posts[r].contacts \in Seq(Record)
  <2>1. posts[r].record \in SUBSET Record /\ posts[r].contacts \in Seq(Record)
    BY DEF ContactsInv
  <2>2. record \in Record
    BY <2>1
  <2> QED
    BY <2>1, <2>2 DEF Record
<1>4. posts' \in [PostRequests -> [at : {"idle", "read", "writing"}, record : SUBSET Record,
                                   contacts : Seq(Record)]]
  BY <1>2, NoPostTyped DEF ContactsInv
<1>5. \A s \in PostRequests : posts'[s] = IF s = r THEN NoPost ELSE posts[s]
  BY <1>2 DEF ContactsInv
<1>6. registeredAs' \in [Subscribers -> SUBSET ContactDetails]
  BY <1>1, <1>3 DEF ContactsInv
<1>7. Upserted(posts[r].contacts, record) \in Seq(Record)
  BY <1>3, UpsertedTyped
<1>8. ReadDB' = Upserted(posts[r].contacts, record)
  BY <1>1 DEF ReadDB
<1>9. ASSUME ~disturbed
      PROVE  /\ \A s \in PostRequests : ~Active(s)'
             /\ Faithful(ReadDB', registeredAs')
  <2>1. Active(r)
    BY <1>2 DEF Active
  <2>2. \A s \in PostRequests : ~Active(s)'
    BY <1>5, <1>9, <2>1, NoPostTyped DEF ContactsInv, Active
  <2>3. Faithful(posts[r].contacts, registeredAs)
    BY <1>9, <2>1 DEF ContactsInv
  <2>4. registeredAs \in [Subscribers -> SUBSET ContactDetails]
    BY DEF ContactsInv
  <2>5. Faithful(Upserted(posts[r].contacts, record),
                 [registeredAs EXCEPT ![record.wallet] = {record.contact}])
    BY <1>3, <2>3, <2>4, UpsertedFaithful
  <2> QED
    BY <1>1, <1>8, <2>2, <2>5
<1> QED
  BY <1>1, <1>2, <1>4, <1>6, <1>7, <1>9 DEF ContactsInv

LEMMA ContactsInvNext ==
  ASSUME ContactsInv, [ContactsNext]_contactsVars
  PROVE  ContactsInv'
<1>1. ASSUME NEW r \in PostRequests, WriteFails(r)
      PROVE  ContactsInv'
  BY <1>1, NoPostTyped DEF WriteFails, ContactsInv
<1>2. CASE ServerCrash
  BY <1>2, NoPostTyped DEF ServerCrash, ContactsInv
<1>3. CASE UNCHANGED contactsVars
  BY <1>3 DEF contactsVars, ContactsInv, Active, ReadDB
<1> QED
  BY <1>1, <1>2, <1>3, ReceiveKeeps, BeginWriteKeeps, EndWriteKeeps DEF ContactsNext

LEMMA ContactsInvKept == ContactsInv => ContactsKept
<1> SUFFICES ASSUME ContactsInv, ~disturbed, \A r \in PostRequests : ~Active(r),
                    NEW w \in Subscribers
             PROVE  Find(w) = registeredAs[w]
  BY DEF ContactsKept
<1> DEFINE c == ReadDB
           mine == {k \in DOMAIN c : c[k].wallet = w}
<1>1. Faithful(c, registeredAs)
  BY DEF ContactsInv, Active
<1> HIDE DEF c
<1>2. DOMAIN c = 1 .. Len(c)
  BY <1>1 DEF Faithful
<1>3. \A k, l \in mine : k = l /\ k <= l
  BY <1>1, <1>2 DEF Faithful
<1>4. {k \in mine : \A l \in mine : k <= l} = mine
  BY <1>3
<1>5. Find(w) = {c[k].contact : k \in {k \in mine : \A l \in mine : k <= l}}
  BY Zenon DEF Find, c
<1>6. registeredAs[w] = {c[k].contact : k \in mine}
  BY <1>1, <1>2 DEF Faithful
<1> HIDE DEF mine
<1> QED
  BY <1>4, <1>5, <1>6
-----------------------------------------------------------------------------
(* The pages.                                                              *)

\* The visitor's page is one of four, and the others stand still.
LEMMA PageSteps ==
  ASSUME [PagesNext]_pagesVars
  PROVE  /\ [DashboardNext]_dashboardVars /\ [FrameNext]_frameVars
         /\ [TerminalNext]_terminalVars /\ [ContactsNext]_contactsVars
  BY DEF PagesNext, pagesVars, OnDashboard, OnFrame, OnTerminal, OnAlerts

PagesInv == DashboardInv /\ FrameInv /\ Displayed /\ WizardTyped /\ ContactsInv

LEMMA PagesInvariant == PagesSpec => []PagesInv
<1>1. PagesInit => PagesInv
  <2>1. FrameInit => FrameInv /\ Displayed
    BY PlainSound DEF FrameInit, FrameInv, Displayed, Home, FrameHtml
  <2> QED
    BY <2>1, DashboardInvInit, WizardTypedInit, ContactsInvInit DEF PagesInit, PagesInv
<1>2. PagesInv /\ [PagesNext]_pagesVars => PagesInv'
  BY PageSteps, FrameInvNext, DisplayedNext, DashboardInvNext, WizardTypedNext, ContactsInvNext
  DEF PagesInv
<1> QED
  BY <1>1, <1>2, PTL DEF PagesSpec

\* Whatever the language model answers, whichever buttons are pressed and whatever
\* addresses others write in between, what the wallet is asked to sign along the
\* frames' own buttons is the root and the window of one policy without errors.
\* frame/route.ts and frame/tx/route.ts check neither, so an address written by hand
\* puts its own before the wallet: the theorem says that it comes through as it was
\* written, and nowhere else.
THEOREM OffersAreSound == PagesSpec => []FrameOffersSound
<1>1. PagesInv => FrameOffersSound
  BY FrameInvOffers DEF PagesInv
<1> QED
  BY <1>1, PagesInvariant, PTL

\* Whatever the language model answers, a policy on display has its constraints within
\* their bounds, each of its leaves can be proved to belong to the root, and no answer
\* that differs in more than its risk profile compiles to the same root.
THEOREM CompiledIsSound == PagesSpec => []CompiledSound
<1>1. PagesInv => CompiledSound
  BY DisplayedSound DEF PagesInv
<1> QED
  BY <1>1, PagesInvariant, PTL

\* The types of all pages, whatever is read, typed, sent or answered in whichever
\* order: a refresh began at a moment of this visit, a handler waits exactly while
\* its refresh is in flight, and the wizard's types hold as well.
THEOREM PagesWellTyped == PagesSpec => []PagesTypeOK
<1>1. PagesInv => PagesTypeOK
  BY DashboardInvImplies
  DEF PagesInv, PagesTypeOK, WizardTyped, TokensTyped, FlightTyped, WorkTyped, StepTyped,
      ReadTyped, TerminalTypeOK, Connected
<1> QED
  BY <1>1, PagesInvariant, PTL

\* However old the data a page shows when the visitor authorizes, the root signed is
\* none or the one the agent is committed to: DelegateForm's stale data are harmless
\* because the registry never replaces a commitment.
THEOREM SignedRootIsCommitted == PagesSpec => []SignedRootCommitted
<1>1. PagesInv => SignedRootCommitted
  BY DashboardInvImplies DEF PagesInv
<1> QED
  BY <1>1, PagesInvariant, PTL

\* Although ids and records come from two reads, a refresh during which the chain
\* stood still shows every decision under its own id, and the chain's policy.
THEOREM QuietRefreshIsExact == PagesSpec => QuietRefreshExact
<1>1. PagesInv /\ [PagesNext]_pagesVars =>
        [\A who \in Refreshers :
           (refreshes[who] = Now /\ refreshes'[who] = 0 /\ shown' # shown)
             => Exact']_dashboardVars
  BY PageSteps, QuietRefresh DEF PagesInv, DashboardInv
<1> QED
  BY <1>1, PagesInvariant, PTL DEF PagesSpec, QuietRefreshExact

\* A pause that the agent's owner signed last holds when everything sent is mined,
\* whatever was shown when the button was pressed and whoever else acts meanwhile.
THEOREM PauseIsHeld == PagesSpec => []PauseHolds
<1>1. PagesInv => PauseHolds
  BY DashboardInvImplies DEF PagesInv
<1> QED
  BY <1>1, PagesInvariant, PTL

\* The policy IntentInput offers for registration was compiled from the text in the
\* field, unless that text was edited while the compiler was at work.
THEOREM PolicyIsOfIntent == PagesSpec => []PolicyOfIntent
<1>1. PagesInv => PolicyOfIntent
  BY DashboardInvImplies DEF PagesInv
<1> QED
  BY <1>1, PagesInvariant, PTL

\* The contacts file holds what each wallet was told, for any number of wallets and
\* registrations, as long as requests neither overlap nor fail.
THEOREM ContactsAreKept == PagesSpec => []ContactsKept
<1>1. PagesInv => ContactsKept
  BY ContactsInvKept DEF PagesInv
<1> QED
  BY <1>1, PagesInvariant, PTL
=============================================================================
