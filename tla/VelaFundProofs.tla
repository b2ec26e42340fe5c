--------------------------- MODULE VelaFundProofs ---------------------------
(***************************************************************************)
(* Proofs about VelaFund: its type invariant, that what the vault holds is *)
(* priced, that a halt freezes shares, positions and lists, that only      *)
(* trades inside the policy move positions, that nobody's share loses      *)
(* value by what others deposit, withdraw or configure, and that the vault *)
(* owes no more than it has. They hold for all sets of users, tokens,      *)
(* pools and positions, all prices and all amounts.                        *)
(*                                                                         *)
(* The last two are about sums: the supply is the sum of what the users    *)
(* hold, and the net asset value has a sum over the positions. The library *)
(* folds them over a set by a recursion that picks one element after the   *)
(* other; that the order does not matter is proved here, by induction over *)
(* the sizes of sets.                                                      *)
(***************************************************************************)
EXTENDS VelaFund, FiniteSetTheorems, WellFoundedInduction, TLAPS

\* The registry's own proofs, about the same variables.
Bodies == INSTANCE PolicyRegistryProofs

\* What the vault has to keep: its types, a price for every position, and a position
\* for every token it holds.
VaultInv ==
  /\ VaultTypeOK
  /\ \A k \in Configured : sqrtPrice[k.pool] # 0
  /\ \A t \in Tokens : held[t] > 0 => t \in supportedSwapToken

RegistryInv == Registry!TypeOK /\ Registry!PoliciesConsistent

FundInv == VaultInv /\ HookTypeOK /\ hour \in Hours /\ RegistryInv
-----------------------------------------------------------------------------
(* The registry.                                                           *)

LEMMA SameAssumption == Bodies!RegistryAssumption
  BY FundAssumption DEF Registry!RegistryAssumption, Bodies!RegistryAssumption

LEMMA SameTypes ==
  /\ Registry!PolicyCommitment = Bodies!PolicyCommitment
  /\ Registry!EnabledTiers = Bodies!EnabledTiers
  BY DEF Registry!PolicyCommitment, Registry!EnabledTiers,
         Bodies!PolicyCommitment, Bodies!EnabledTiers

LEMMA SameConsistent ==
  ASSUME NEW p PROVE Registry!Consistent(p) <=> Bodies!Consistent(p)
  BY DEF Registry!Consistent, Registry!NoPolicy, Registry!FlagsAgree,
         Registry!ScoreFresh, Registry!Score, Registry!WindowOpens,
         Registry!ValidActiveHours,
         Bodies!Consistent, Bodies!NoPolicy, Bodies!FlagsAgree,
         Bodies!ScoreFresh, Bodies!Score, Bodies!WindowOpens,
         Bodies!ValidActiveHours

LEMMA SameInvariant == RegistryInv <=> Bodies!RegistryInv
  BY SameTypes, SameConsistent
     DEF RegistryInv, Registry!TypeOK, Registry!PoliciesConsistent,
         Bodies!RegistryInv, Bodies!TypeOK, Bodies!PoliciesConsistent

LEMMA SameInvariantPrimed == RegistryInv' <=> Bodies!RegistryInv'
  BY SameTypes, SameConsistent
     DEF RegistryInv, Registry!TypeOK, Registry!PoliciesConsistent,
         Bodies!RegistryInv, Bodies!TypeOK, Bodies!PoliciesConsistent

LEMMA SameRegister ==
  ASSUME NEW a, NEW root, NEW tier, NEW start, NEW end
  PROVE  Registry!RegisterAgent(a, root, tier, start, end)
           <=> Bodies!RegisterAgent(a, root, tier, start, end)
  BY DEF Registry!RegisterAgent, Registry!Registered, Registry!IsRegistered,
         Registry!EnabledTiers, Registry!ValidActiveHours,
         Bodies!RegisterAgent, Bodies!Registered, Bodies!IsRegistered,
         Bodies!EnabledTiers, Bodies!ValidActiveHours

LEMMA SamePolicyCalls ==
  ASSUME NEW sender, NEW a, NEW start, NEW end
  PROVE  /\ Registry!TriggerCircuitBreaker(sender, a)
              <=> Bodies!TriggerCircuitBreaker(sender, a)
         /\ Registry!ResumeAgent(sender, a) <=> Bodies!ResumeAgent(sender, a)
         /\ Registry!SetTradingHours(sender, a, start, end)
              <=> Bodies!SetTradingHours(sender, a, start, end)
  BY DEF Registry!TriggerCircuitBreaker, Registry!MayBreak,
         Registry!IsRegistered, Registry!Broken, Registry!ResumeAgent,
         Registry!Resumed, Registry!SetTradingHours, Registry!Rescheduled,
         Registry!ValidActiveHours,
         Bodies!TriggerCircuitBreaker, Bodies!MayBreak,
         Bodies!IsRegistered, Bodies!Broken, Bodies!ResumeAgent,
         Bodies!Resumed, Bodies!SetTradingHours, Bodies!Rescheduled,
         Bodies!ValidActiveHours

\* The registry is called as anybody may call it.
LEMMA RegistryStepIsCall == RegistryStep => Bodies!Next
<1> SUFFICES ASSUME RegistryStep PROVE Bodies!Next
  OBVIOUS
<1>1. VaultAgent \in Agents
  BY FundAssumption
<1>2. ASSUME NEW root \in PolicyRoots, NEW tier \in TierInputs,
             NEW start \in HourInputs, NEW end \in HourInputs,
             Registry!RegisterAgent(VaultAgent, root, tier, start, end)
      PROVE  Bodies!Next
  BY <1>1, <1>2, SameRegister DEF Bodies!Next
<1>3. ASSUME NEW sender \in Accounts, NEW start \in HourInputs, NEW end \in HourInputs,
             Registry!SetTradingHours(sender, VaultAgent, start, end)
      PROVE  Bodies!Next
  <2>1. Bodies!PolicyCall(sender, VaultAgent)
    BY <1>3, SamePolicyCalls DEF Bodies!PolicyCall
  <2> QED
    BY <1>1, <2>1 DEF Bodies!Next
<1>4. ASSUME NEW sender \in Accounts,
             \/ Registry!TriggerCircuitBreaker(sender, VaultAgent)
             \/ Registry!ResumeAgent(sender, VaultAgent)
      PROVE  Bodies!Next
  <2>1. Bodies!PolicyCall(sender, VaultAgent)
    BY <1>4, SamePolicyCalls DEF Bodies!PolicyCall
  <2> QED
    BY <1>1, <2>1 DEF Bodies!Next
<1> QED
  BY <1>2, <1>3, <1>4 DEF RegistryStep

LEMMA RegistryStepKeeps ==
  ASSUME RegistryInv, RegistryStep
  PROVE  RegistryInv'
  BY RegistryStepIsCall, SameAssumption, SameInvariant, SameInvariantPrimed, Bodies!NextKeeps

LEMMA RegistryUntouched ==
  ASSUME RegistryInv, UNCHANGED registryVars
  PROVE  RegistryInv'
<1>1. [Bodies!Next]_(Bodies!registryVars)
  BY DEF registryVars, Bodies!registryVars
<1> QED
  BY <1>1, SameAssumption, SameInvariant, SameInvariantPrimed, Bodies!NextKeeps

\* An agent that is halted is not active, for the vault and the hook alike.
LEMMA HaltedIsInactive ==
  ASSUME RegistryInv, Halted
  PROVE  ~Policy.active
  BY FundAssumption
     DEF RegistryInv, Halted, Policy, Registry!CircuitBreakerTriggered,
         Registry!IsRegistered, Registry!PoliciesConsistent, Registry!Consistent,
         Registry!FlagsAgree, Registry!TypeOK, Registry!PolicyCommitment
-----------------------------------------------------------------------------
(* The vault, one lemma per thing that happens to it.                      *)

LEMMA TakeInKeeps ==
  ASSUME VaultInv, NEW u \in Users, NEW assets, NEW minted, NEW halted,
         TakeIn(u, assets, minted, halted)
  PROVE  VaultInv'
<1>1. assets \in Nat /\ minted \in Nat /\ assets <= wallet[u] /\ Asset \in Tokens
  BY VaultAssumption DEF TakeIn
<1>2. VaultTypeOK'
  BY <1>1 DEF VaultInv, VaultTypeOK, TakeIn, configVars, marketVars, Configured
<1>3. (\A k \in Configured : sqrtPrice[k.pool] # 0)'
  BY DEF VaultInv, TakeIn, configVars, marketVars, Configured
<1>4. (\A t \in Tokens : held[t] > 0 => t \in supportedSwapToken)'
  BY <1>1 DEF VaultInv, VaultTypeOK, TakeIn, configVars
<1> QED
  BY <1>2, <1>3, <1>4 DEF VaultInv

LEMMA PayOutKeeps ==
  ASSUME VaultInv, NEW u \in Users, NEW assets, NEW burnt, NEW halted,
         PayOut(u, assets, burnt, halted)
  PROVE  VaultInv'
<1>1. /\ assets \in Nat /\ burnt \in Nat /\ Asset \in Tokens
      /\ burnt <= shares[u] /\ assets <= held[Asset]
  BY VaultAssumption DEF PayOut
<1>2. VaultTypeOK'
  BY <1>1 DEF VaultInv, VaultTypeOK, PayOut, configVars, marketVars, Configured
<1>3. (\A k \in Configured : sqrtPrice[k.pool] # 0)'
  BY DEF VaultInv, PayOut, configVars, marketVars, Configured
<1>4. (\A t \in Tokens : held[t] > 0 => t \in supportedSwapToken)'
  BY <1>1 DEF VaultInv, VaultTypeOK, PayOut, configVars
<1> QED
  BY <1>2, <1>3, <1>4 DEF VaultInv

LEMMA TransferKeeps ==
  ASSUME VaultInv, NEW from \in Users, NEW to \in Users, NEW amount \in Nat, NEW halted,
         Transfer(from, to, amount, halted)
  PROVE  VaultInv'
<1>1. shares' \in [Users -> Nat]
  BY DEF VaultInv, VaultTypeOK, Transfer
<1> QED
  BY <1>1 DEF VaultInv, VaultTypeOK, Transfer, configVars, marketVars, Configured

LEMMA AddPositionKeeps ==
  ASSUME VaultInv, NEW sender, NEW k \in PositionKeys, AddPosition(sender, k)
  PROVE  VaultInv'
<1>1. k.token \in Tokens /\ k.pool \in Pools
  BY VaultAssumption
<1>2. positions' = [positions EXCEPT ![k] = held[k.token]] /\ held[k.token] \in Nat
  BY <1>1 DEF VaultInv, VaultTypeOK, AddPosition
<1>3. Configured' = Configured \cup {k}
  BY <1>2 DEF VaultInv, VaultTypeOK, Configured, Unconfigured
<1>4. VaultTypeOK'
  <2>1. positions' \in [PositionKeys -> Nat \cup {Unconfigured}]
    BY <1>2 DEF VaultInv, VaultTypeOK
  <2>2. supportedSwapToken' = {Asset} \cup {j.token : j \in Configured'}
    BY <1>3 DEF VaultInv, VaultTypeOK, AddPosition
  <2> QED
    BY <2>1, <2>2 DEF VaultInv, VaultTypeOK, AddPosition, shareVars, marketVars
<1>5. (\A j \in Configured : sqrtPrice[j.pool] # 0)'
  BY <1>3 DEF VaultInv, AddPosition, marketVars
<1>6. (\A t \in Tokens : held[t] > 0 => t \in supportedSwapToken)'
  BY DEF VaultInv, AddPosition
<1> QED
  BY <1>4, <1>5, <1>6 DEF VaultInv

LEMMA SyncKeeps ==
  ASSUME VaultInv, NEW k \in PositionKeys, SyncPositionBalance(k)
  PROVE  VaultInv'
<1>1. k.token \in Tokens
  BY VaultAssumption
<1>2. positions' = [positions EXCEPT ![k] = held[k.token]] /\ held[k.token] \in Nat
  BY <1>1 DEF VaultInv, VaultTypeOK, SyncPositionBalance
<1>3. Configured' = Configured
  BY <1>2 DEF VaultInv, VaultTypeOK, Configured, Unconfigured, SyncPositionBalance
<1>4. VaultTypeOK'
  <2>1. positions' \in [PositionKeys -> Nat \cup {Unconfigured}]
    BY <1>2 DEF VaultInv, VaultTypeOK
  <2> QED
    BY <1>3, <2>1 DEF VaultInv, VaultTypeOK, SyncPositionBalance, shareVars, marketVars
<1> QED
  BY <1>3, <1>4 DEF VaultInv, SyncPositionBalance, marketVars

LEMMA SetTrustedHookKeeps ==
  ASSUME VaultInv, NEW sender, NEW hook \in Hooks, SetTrustedHook(sender, hook)
  PROVE  VaultInv'
  BY DEF VaultInv, VaultTypeOK, SetTrustedHook, Configured, shareVars, marketVars

LEMMA MovePriceKeeps ==
  ASSUME VaultInv, NEW pool \in Pools, NEW price \in Nat, MovePrice(pool, price)
  PROVE  VaultInv'
<1>1. VaultTypeOK'
  BY DEF VaultInv, VaultTypeOK, MovePrice, Configured, shareVars, configVars
<1>2. (\A k \in Configured : sqrtPrice[k.pool] # 0)'
  BY DEF VaultInv, VaultTypeOK, MovePrice, Configured, configVars
<1> QED
  BY <1>1, <1>2 DEF VaultInv, MovePrice, configVars

\* A swap pays what the vault holds and takes what the pool holds, in two tokens the
\* vault supports.
LEMMA SwapKeeps ==
  ASSUME VaultInv, NEW sender, NEW halted, NEW admitted,
         NEW pool \in Pools, NEW zeroForOne \in BOOLEAN, NEW amountIn, NEW minAmountOut,
         NEW paid \in Nat, NEW got \in Nat, NEW price \in Nat \ {0},
         FillFor([pool |-> pool, zeroForOne |-> zeroForOne, amountIn |-> amountIn,
                  minAmountOut |-> minAmountOut], [paid |-> paid, got |-> got]),
         ExecuteHookSwap(sender, [pool |-> pool, zeroForOne |-> zeroForOne,
                                  amountIn |-> amountIn, minAmountOut |-> minAmountOut],
                         [paid |-> paid, got |-> got], price, halted, admitted)
  PROVE  VaultInv'
<1> DEFINE in == Input(pool, zeroForOne)
           out == Output(pool, zeroForOne)
<1>1. in \in Tokens /\ out \in Tokens /\ in # out
  BY VaultAssumption DEF Input, Output
<1>2. /\ paid <= held[in] /\ got <= reserve[out]
      /\ {in, out} \subseteq supportedSwapToken
      /\ held' = [held EXCEPT ![in] = @ - paid, ![out] = @ + got]
      /\ reserve' = [reserve EXCEPT ![in] = @ + paid, ![out] = @ - got]
      /\ sqrtPrice' = [sqrtPrice EXCEPT ![pool] = price]
      /\ UNCHANGED <<shareVars, configVars>>
  BY DEF ExecuteHookSwap, FillFor, Supported
<1> HIDE DEF in, out
<1>3. held' \in [Tokens -> Nat] /\ reserve' \in [Tokens -> Nat]
  BY <1>1, <1>2 DEF VaultInv, VaultTypeOK
<1>4. VaultTypeOK'
  BY <1>2, <1>3 DEF VaultInv, VaultTypeOK, Configured, shareVars, configVars
<1>5. (\A k \in Configured : sqrtPrice[k.pool] # 0)'
  BY <1>2 DEF VaultInv, VaultTypeOK, Configured, configVars
<1>6. (\A t \in Tokens : held[t] > 0 => t \in supportedSwapToken)'
  BY <1>1, <1>2 DEF VaultInv, VaultTypeOK, configVars
<1> QED
  BY <1>4, <1>5, <1>6 DEF VaultInv
-----------------------------------------------------------------------------
(* The steps.                                                              *)

\* Whatever a user does takes in assets, pays them out or transfers shares.
LEMMA UserCases ==
  ASSUME UserStep
  PROVE  \/ \E u \in Users : \E assets, minted : TakeIn(u, assets, minted, Halted)
         \/ \E u \in Users : \E assets, burnt : PayOut(u, assets, burnt, Halted)
         \/ \E u \in Users : \E to \in Users, amount \in Nat :
              Transfer(u, to, amount, Halted)
<1>1. PICK u \in Users :
        \/ \E assets \in AssetInputs : Deposit(u, assets, Halted) \/ Withdraw(u, assets, Halted)
        \/ \E amount \in ShareInputs : Mint(u, amount, Halted) \/ Redeem(u, amount, Halted)
        \/ Redeem(u, shares[u], Halted)
        \/ \E to \in Users, amount \in ShareInputs : Transfer(u, to, amount, Halted)
  BY DEF UserStep
<1>2. ASSUME NEW x, Deposit(u, x, Halted) \/ Mint(u, x, Halted)
      PROVE  \E assets, minted : TakeIn(u, assets, minted, Halted)
  BY <1>2, Zenon DEF Deposit, Mint
<1>3. ASSUME NEW x, Withdraw(u, x, Halted) \/ Redeem(u, x, Halted)
      PROVE  \E assets, burnt : PayOut(u, assets, burnt, Halted)
  BY <1>3, Zenon DEF Withdraw, Redeem
<1>4. ShareInputs \subseteq Nat
  BY FundAssumption
<1> QED
  BY <1>1, <1>2, <1>3, <1>4, Zenon

\* A swap, with what the pool answered and what the hook said to it.
SwapOf(pool, zeroForOne, amountIn, minAmountOut, paid, got, price) ==
  LET params == [pool |-> pool, zeroForOne |-> zeroForOne, amountIn |-> amountIn,
                 minAmountOut |-> minAmountOut]
      fill == [paid |-> paid, got |-> got]
  IN /\ FillFor(params, fill)
     /\ ExecuteHookSwap(VaultAgent, params, fill, price, Halted, Admitted(params))

\* The value of an amount at a price is a natural number.
LEMMA ValueType ==
  ASSUME NEW price \in Nat, NEW amount \in Nat, NEW side
  PROVE  ValueInAssetUnits(price, amount, side) \in Nat
<1> USE VaultAssumption
<1>1. CASE price = 0 \/ amount = 0
  BY <1>1 DEF ValueInAssetUnits
<1>2. ASSUME NEW x \in Nat, NEW d \in Nat \ {0} PROVE x \div d \in Nat
  BY <1>2
<1>3. ASSUME NEW x \in Nat, NEW y \in Nat PROVE x * y \in Nat
  BY <1>3
<1>4. CASE price # 0 /\ amount # 0
  <2>1. (((amount * price) \div Q96) * price) \div Q96 \in Nat
    BY <1>2, <1>3
  <2>2. (((amount * Q96) \div price) * Q96) \div price \in Nat
    <3>1. price \in Nat \ {0}
      BY <1>4
    <3>2. (amount * Q96) \div price \in Nat
      BY <1>2, <1>3, <3>1
    <3> QED
      BY <1>2, <1>3, <3>1, <3>2
  <2> QED
    BY <1>4, <2>1, <2>2 DEF ValueInAssetUnits
<1> QED
  BY <1>1, <1>4

LEMMA SwapCases ==
  ASSUME VaultInv, SwapStep
  PROVE  \E pool \in Pools, zeroForOne \in BOOLEAN, amountIn \in Nat, paid \in Nat,
            got \in Nat, price \in Nat \ {0}, minAmountOut \in Int :
           SwapOf(pool, zeroForOne, amountIn, minAmountOut, paid, got, price)
<1>1. PICK pool \in Pools, zeroForOne \in BOOLEAN, amountIn \in SwapInputs,
           paid \in SwapInputs, shortfall \in Shortfalls, price \in SqrtPrices :
        \E minAmountOut \in Limits(pool, zeroForOne, amountIn) :
          LET got == AtSpot(pool, zeroForOne, paid) - shortfall
          IN /\ got >= 0
             /\ SwapOf(pool, zeroForOne, amountIn, minAmountOut, paid, got, price)
  BY DEF SwapStep, SwapOf
<1>2. /\ amountIn \in Nat /\ paid \in Nat /\ price \in Nat \ {0} /\ shortfall \in Nat
      /\ sqrtPrice[pool] \in Nat
  BY FundAssumption DEF VaultInv, VaultTypeOK
<1> DEFINE got == AtSpot(pool, zeroForOne, paid) - shortfall
<1>3. AtSpot(pool, zeroForOne, paid) \in Int
  BY <1>2, ValueType DEF AtSpot
<1>4. Limits(pool, zeroForOne, amountIn) \subseteq Int
  <2>1. SqrtPrices \subseteq Nat
    BY FundAssumption
  <2> QED
    BY <1>2, <2>1, ValueType DEF Limits
<1>5. got \in Nat /\ \E minAmountOut \in Int :
        SwapOf(pool, zeroForOne, amountIn, minAmountOut, paid, got, price)
  BY <1>1, <1>2, <1>3, <1>4
<1> HIDE DEF got
<1> QED
  BY <1>2, <1>5

LEMMA VaultNextKeeps ==
  ASSUME VaultInv, [FundNext]_fundVars
  PROVE  VaultInv'
<1>1. CASE UserStep
  BY <1>1, UserCases, TakeInKeeps, PayOutKeeps, TransferKeeps
<1>2. CASE OwnerStep
  BY <1>2, AddPositionKeeps, SetTrustedHookKeeps DEF OwnerStep
<1>3. CASE SyncStep
  BY <1>3, SyncKeeps DEF SyncStep
<1>4. CASE SwapStep
  <2>1. PICK pool \in Pools, zeroForOne \in BOOLEAN, amountIn \in Nat, paid \in Nat,
             got \in Nat, price \in Nat \ {0}, minAmountOut \in Int :
               SwapOf(pool, zeroForOne, amountIn, minAmountOut, paid, got, price)
    BY <1>4, SwapCases
  <2> QED
    BY <2>1, SwapKeeps DEF SwapOf
<1>5. ASSUME UNCHANGED vaultVars PROVE VaultInv'
  BY <1>5 DEF VaultInv, VaultTypeOK, vaultVars, shareVars, configVars, marketVars, Configured
<1>6. CASE WorldStep
  <2>1. SqrtPrices \subseteq Nat
    BY FundAssumption
  <2> QED
    BY <1>5, <1>6, <2>1, MovePriceKeeps DEF WorldStep
<1>7. CASE RegistryStep \/ OperatorStep \/ UNCHANGED fundVars
  BY <1>5, <1>7 DEF RegistryStep, OperatorStep, fundVars
<1> QED
  BY <1>1, <1>2, <1>3, <1>4, <1>6, <1>7 DEF FundNext

LEMMA RegistryNextKeeps ==
  ASSUME RegistryInv, [FundNext]_fundVars
  PROVE  RegistryInv'
<1>1. CASE RegistryStep
  BY <1>1, RegistryStepKeeps
<1>2. CASE ~RegistryStep
  <2>1. UNCHANGED registryVars
    BY <1>2 DEF FundNext, UserStep, OwnerStep, SyncStep, OperatorStep, SwapStep, WorldStep,
                fundVars
  <2> QED
    BY <2>1, RegistryUntouched
<1> QED
  BY <1>1, <1>2

LEMMA HookNextKeeps ==
  ASSUME HookTypeOK, hour \in Hours, [FundNext]_fundVars
  PROVE  HookTypeOK' /\ hour' \in Hours
<1>1. CASE OperatorStep
  <2>1. ASSUME NEW sender, NEW allowed, Hook!SetAllowedPools(sender, VaultAgent, Policy, allowed)
        PROVE  HookTypeOK'
    BY <2>1 DEF HookTypeOK, Hook!SetAllowedPools
  <2>2. ASSUME NEW sender, NEW executor \in Executors,
               Hook!SetAgentExecutor(sender, VaultAgent, Policy, executor)
        PROVE  HookTypeOK'
    BY <2>2 DEF HookTypeOK, Hook!SetAgentExecutor
  <2> QED
    BY <1>1, <2>1, <2>2 DEF OperatorStep
<1>2. CASE ~OperatorStep
  <2>1. UNCHANGED hookVars /\ hour' \in Hours
    BY <1>2 DEF FundNext, UserStep, OwnerStep, SyncStep, RegistryStep, SwapStep, WorldStep,
                fundVars
  <2> QED
    BY <2>1 DEF hookVars, HookTypeOK
<1> QED
  BY <1>1, <1>2

LEMMA FundInitially == FundInit => FundInv
<1> SUFFICES ASSUME FundInit PROVE FundInv
  OBVIOUS
<1>1. Configured = {}
  BY DEF FundInit, VaultInit, Configured
<1>2. VaultInv
  BY <1>1, VaultAssumption DEF FundInit, VaultInit, VaultInv, VaultTypeOK
<1>3. HookTypeOK /\ hour \in Hours
  BY DEF FundInit, Hook!HookInit, HookTypeOK
<1>4. RegistryInv
  <2>1. Registry!NoPolicy \in Registry!PolicyCommitment
    BY DEF Registry!NoPolicy, Registry!PolicyCommitment, Registry!EnabledTiers
  <2>2. RegistryOwner \in Accounts
    BY FundAssumption DEF Registry!RegistryAssumption
  <2> QED
    BY <2>1, <2>2
       DEF FundInit, Registry!Init, RegistryInv, Registry!TypeOK,
           Registry!PoliciesConsistent, Registry!Consistent, Registry!NoPolicy
<1> QED
  BY <1>2, <1>3, <1>4 DEF FundInv

LEMMA FundNextKeeps == FundInv /\ [FundNext]_fundVars => FundInv'
  BY VaultNextKeeps, RegistryNextKeeps, HookNextKeeps DEF FundInv

\* Every reachable state of the fund satisfies the invariant.
THEOREM FundInvariant == FundSpec => []FundInv
  BY FundInitially, FundNextKeeps, PTL DEF FundSpec

\* Every variable of the vault, the hook and the registry keeps its type, and the
\* supported tokens are the asset and the tokens of the positions.
THEOREM FundWellTyped == FundSpec => []FundTypeOK
<1>1. FundInv => FundTypeOK
  BY DEF FundInv, VaultInv, RegistryInv, FundTypeOK
<1> QED
  BY <1>1, FundInvariant, PTL

\* The vault holds nothing its net asset value leaves out.
THEOREM HoldingsArePriced == FundSpec => []NothingUnpriced
<1>1. FundInv => NothingUnpriced
  BY DEF FundInv, VaultInv, VaultTypeOK, NothingUnpriced
<1> QED
  BY <1>1, FundInvariant, PTL
-----------------------------------------------------------------------------
(* The halt.                                                               *)

\* One step of a halted fund.
Frozen ==
  Halted =>
    /\ \A u \in Users : shares'[u] <= shares[u]
    /\ \A t \in Tokens \ {Asset} : held'[t] = held[t]
    /\ held'[Asset] <= held[Asset]
    /\ hookVars' = hookVars

\* A step that leaves shares, holdings and the hook's lists alone is no concern.
LEMMA FrozenUntouched ==
  ASSUME FundInv, UNCHANGED <<shares, held, hookVars>>
  PROVE  Frozen
  BY VaultAssumption DEF FundInv, VaultInv, VaultTypeOK, Frozen

LEMMA FrozenUser ==
  ASSUME FundInv, UserStep
  PROVE  Frozen
<1> SUFFICES ASSUME Halted
             PROVE  /\ \A u \in Users : shares'[u] <= shares[u]
                    /\ \A t \in Tokens \ {Asset} : held'[t] = held[t]
                    /\ held'[Asset] <= held[Asset]
                    /\ hookVars' = hookVars
  BY DEF Frozen
<1>1. hookVars' = hookVars
  BY DEF UserStep
<1>2. ASSUME NEW u \in Users, NEW assets, NEW burnt, PayOut(u, assets, burnt, Halted)
      PROVE  /\ \A v \in Users : shares'[v] <= shares[v]
             /\ \A t \in Tokens \ {Asset} : held'[t] = held[t]
             /\ held'[Asset] <= held[Asset]
  BY <1>2, VaultAssumption DEF PayOut, FundInv, VaultInv, VaultTypeOK
<1>3. ~ \E u \in Users : \E assets, minted : TakeIn(u, assets, minted, Halted)
  BY DEF TakeIn, MayUpdate
<1>4. ~ \E u \in Users : \E to \in Users, amount \in Nat : Transfer(u, to, amount, Halted)
  BY DEF Transfer, MayUpdate
<1> QED
  BY <1>1, <1>2, <1>3, <1>4, UserCases

LEMMA FrozenStep == FundInv /\ [FundNext]_fundVars => [Frozen]_fundVars
<1> SUFFICES ASSUME FundInv, FundNext PROVE Frozen
  OBVIOUS
<1>1. CASE UserStep
  BY <1>1, FrozenUser
<1>2. CASE OwnerStep \/ SyncStep \/ RegistryStep \/ WorldStep
  <2>1. UNCHANGED <<shares, held, hookVars>>
    BY <1>2 DEF OwnerStep, SyncStep, RegistryStep, WorldStep, AddPosition, SetTrustedHook,
                SyncPositionBalance, MovePrice, vaultVars, shareVars
  <2> QED
    BY <2>1, FrozenUntouched
<1>3. CASE OperatorStep
  <2>1. ~Halted
    BY <1>3, HaltedIsInactive
       DEF OperatorStep, Hook!SetAllowedPools, Hook!SetAgentExecutor, Hook!IsOperator, FundInv
  <2> QED
    BY <2>1 DEF Frozen
<1>4. CASE SwapStep
  <2>1. VaultInv
    BY DEF FundInv
  <2>2. PICK pool \in Pools, zeroForOne \in BOOLEAN, amountIn \in Nat, paid \in Nat,
             got \in Nat, price \in Nat \ {0}, minAmountOut \in Int :
               SwapOf(pool, zeroForOne, amountIn, minAmountOut, paid, got, price)
    BY <1>4, <2>1, SwapCases
  <2>3. ~Halted
    BY <2>2 DEF SwapOf, ExecuteHookSwap
  <2> QED
    BY <2>3 DEF Frozen
<1> QED
  BY <1>1, <1>2, <1>3, <1>4 DEF FundNext

\* While the agent is halted nobody gains a share, nothing is traded and the lists of
\* the hook stand still.
THEOREM HaltStopsEverything == FundSpec => HaltFreezes
<1>1. FundInv /\ [FundNext]_fundVars =>
        [Halted =>
           /\ \A u \in Users : shares'[u] <= shares[u]
           /\ \A t \in Tokens \ {Asset} : held'[t] = held[t]
           /\ held'[Asset] <= held[Asset]
           /\ hookVars' = hookVars]_fundVars
  BY FrozenStep DEF Frozen
<1> QED
  BY <1>1, FundInvariant, PTL DEF FundSpec, HaltFreezes
-----------------------------------------------------------------------------
(* The policy.                                                             *)

\* One step, seen from the positions it moves.
InPolicy ==
  (\E t \in Tokens \ {Asset} : held'[t] # held[t]) =>
    /\ Registry!IsActive(VaultAgent)
    /\ Registry!IsWithinTradingHours(VaultAgent, hour)
    /\ trustedExecutors[VaultAgent] = Vault
    /\ \E pool \in allowedPools[VaultAgent] :
         \A t \in Tokens : held'[t] # held[t] => t \in {Currency0[pool], Currency1[pool]}

LEMMA SwapInPolicy ==
  ASSUME FundInv, SwapStep
  PROVE  InPolicy
<1>1. PICK pool \in Pools, zeroForOne \in BOOLEAN, amountIn \in Nat, paid \in Nat,
           got \in Nat, price \in Nat \ {0}, minAmountOut \in Int :
             SwapOf(pool, zeroForOne, amountIn, minAmountOut, paid, got, price)
  BY SwapCases DEF FundInv
<1>2. /\ Registry!IsActive(VaultAgent)
      /\ Registry!IsWithinTradingHours(VaultAgent, hour)
      /\ trustedExecutors[VaultAgent] = Vault
      /\ pool \in allowedPools[VaultAgent]
  BY <1>1 DEF SwapOf, ExecuteHookSwap, Admitted, Hook!Admits, Hook!InTradingHours,
              Registry!IsWithinTradingHours, Policy
<1>3. ASSUME NEW t \in Tokens, held'[t] # held[t]
      PROVE  t \in {Currency0[pool], Currency1[pool]}
  BY <1>1, <1>3 DEF SwapOf, ExecuteHookSwap, Input, Output, FundInv, VaultInv, VaultTypeOK
<1> QED
  BY <1>2, <1>3 DEF InPolicy

LEMMA InPolicyStep == FundInv /\ [FundNext]_fundVars => [InPolicy]_fundVars
<1> SUFFICES ASSUME FundInv, FundNext PROVE InPolicy
  OBVIOUS
<1>1. CASE UserStep
  <2>1. \A t \in Tokens \ {Asset} : held'[t] = held[t]
    BY <1>1, UserCases
       DEF TakeIn, PayOut, Transfer, FundInv, VaultInv, VaultTypeOK
  <2> QED
    BY <2>1 DEF InPolicy
<1>2. CASE SwapStep
  BY <1>2, SwapInPolicy
<1>3. CASE ~UserStep /\ ~SwapStep
  <2>1. UNCHANGED held
    BY <1>3 DEF FundNext, OwnerStep, SyncStep, RegistryStep, OperatorStep, WorldStep,
                AddPosition, SetTrustedHook, SyncPositionBalance, MovePrice, vaultVars
  <2> QED
    BY <2>1 DEF InPolicy
<1> QED
  BY <1>1, <1>2, <1>3

\* Positions move only by trades of an active agent inside the policy it is committed
\* to, through the vault and in a pool its operator allowed.
THEOREM OnlyPolicyTrades == FundSpec => TradesInPolicy
<1>1. FundInv /\ [FundNext]_fundVars =>
        [(\E t \in Tokens \ {Asset} : held'[t] # held[t]) =>
           /\ Registry!IsActive(VaultAgent)
           /\ Registry!IsWithinTradingHours(VaultAgent, hour)
           /\ trustedExecutors[VaultAgent] = Vault
           /\ \E pool \in allowedPools[VaultAgent] :
                \A t \in Tokens : held'[t] # held[t] => t \in {Currency0[pool], Currency1[pool]}
        ]_fundVars
  BY InPolicyStep DEF InPolicy
<1> QED
  BY <1>1, FundInvariant, PTL DEF FundSpec, TradesInPolicy
-----------------------------------------------------------------------------
(* Sums, as the library folds them.                                        *)

\* What holds of zero, and of a number's successor with it, holds of every number.
LEMMA SetInduction ==
  ASSUME NEW T, 0 \in T, \A n \in Nat : n \in T => n + 1 \in T
  PROVE  Nat \subseteq T
<1> SUFFICES ASSUME Nat \ T # {} PROVE FALSE
  OBVIOUS
<1>1. \E m \in Nat \ T : \A n \in Nat \ T : ~(<<n, m>> \in OpToRel(<, Nat))
  BY NatLessThanWellFounded, WFMin, Zenon
<1>2. PICK m \in Nat \ T : \A n \in Nat \ T : ~(<<n, m>> \in OpToRel(<, Nat))
  BY <1>1
<1>3. \A n \in Nat \ T : ~(n < m)
  BY <1>2 DEF OpToRel
<1>4. m # 0 /\ m - 1 \in Nat
  OBVIOUS
<1> QED
  BY <1>3, <1>4

\* The partial sums of f over the sets of D, each without the element it begins with.
Pick(s) == CHOOSE x \in s : TRUE
Partial(it, f, D) ==
  it = [s \in D |-> IF s = {} THEN 0 ELSE f[Pick(s)] + it[s \ {Pick(s)}]]

LEMMA Picked ==
  ASSUME NEW s, s # {}
  PROVE  Pick(s) \in s
  BY DEF Pick

\* The library's fold is the partial sum of the whole set.
LEMMA SumIsPartial ==
  ASSUME NEW f, NEW S
  PROVE  SumFunctionOnSet(f, S) = (CHOOSE it : Partial(it, f, SUBSET S))[S]
  BY Zenon DEF SumFunctionOnSet, FoldFunctionOnSet, MapThenFoldSet, Partial, Pick

UpTo(S, n) == {s \in SUBSET S : Cardinality(s) <= n}

\* There are partial sums over the subsets of a finite set: the recursion of the fold
\* has a solution, one size of sets after the other.
LEMMA PartialExists ==
  ASSUME NEW f, NEW S, IsFiniteSet(S)
  PROVE  \E it : Partial(it, f, SUBSET S)
<1> DEFINE T == {n \in Nat : \E it : Partial(it, f, UpTo(S, n))}
<1>0. \A s \in SUBSET S : IsFiniteSet(s) /\ Cardinality(s) \in Nat
  BY FS_Subset, FS_CardinalityType
<1>1. 0 \in T
  <2> DEFINE it == [s \in UpTo(S, 0) |-> 0]
  <2>1. \A s \in UpTo(S, 0) : s = {}
    BY <1>0, FS_EmptySet DEF UpTo
  <2>2. \A s \in UpTo(S, 0) :
          0 = (IF s = {} THEN 0 ELSE f[Pick(s)] + it[s \ {Pick(s)}])
    BY <2>1
  <2>3. Partial(it, f, UpTo(S, 0))
    BY <2>2, Zenon DEF Partial
  <2> QED
    BY <2>3
<1>2. ASSUME NEW n \in Nat, n \in T
      PROVE  n + 1 \in T
  <2>1. PICK it : Partial(it, f, UpTo(S, n))
    BY <1>2
  <2> DEFINE next == [s \in UpTo(S, n + 1) |->
                        IF s = {} THEN 0 ELSE f[Pick(s)] + it[s \ {Pick(s)}]]
  <2>2. \A s \in UpTo(S, n) : s \in UpTo(S, n + 1)
    BY <1>0 DEF UpTo
  <2>3. \A s \in UpTo(S, n) : next[s] = it[s]
    BY <2>1, <2>2 DEF Partial
  <2>4. ASSUME NEW s \in UpTo(S, n + 1)
        PROVE  (IF s = {} THEN 0 ELSE f[Pick(s)] + it[s \ {Pick(s)}])
                 = (IF s = {} THEN 0 ELSE f[Pick(s)] + next[s \ {Pick(s)}])
    <3>1. CASE s = {}
      BY <3>1
    <3>2. CASE s # {}
      <4>1. Pick(s) \in s
        BY <3>2, Picked
      <4>2. s \ {Pick(s)} \in UpTo(S, n)
        BY <1>0, <4>1, FS_RemoveElement DEF UpTo
      <4> HIDE DEF next
      <4> QED
        BY <2>3, <3>2, <4>2
    <3> QED
      BY <3>1, <3>2
  <2>5. Partial(next, f, UpTo(S, n + 1))
    BY <2>4, Zenon DEF Partial
  <2> HIDE DEF next
  <2> QED
    BY <2>5
<1>3. Cardinality(S) \in T
  <2> HIDE DEF T
  <2> QED
    BY <1>0, <1>1, <1>2, SetInduction
<1>4. UpTo(S, Cardinality(S)) = SUBSET S
  BY FS_Subset DEF UpTo
<1> QED
  BY <1>3, <1>4

\* The partial sums over two families of sets agree where both have them.
LEMMA PartialAgree ==
  ASSUME NEW f, NEW A, NEW B, IsFiniteSet(A), B \subseteq A, NEW ia, NEW ib,
         Partial(ia, f, SUBSET A), Partial(ib, f, SUBSET B)
  PROVE  ia[B] = ib[B]
<1>0. \A s \in SUBSET A : IsFiniteSet(s) /\ Cardinality(s) \in Nat
  BY FS_Subset, FS_CardinalityType
<1> DEFINE T == {n \in Nat : \A s \in UpTo(B, n) : ia[s] = ib[s]}
<1>a. ASSUME NEW s \in SUBSET B
      PROVE  /\ ia[s] = IF s = {} THEN 0 ELSE f[Pick(s)] + ia[s \ {Pick(s)}]
             /\ ib[s] = IF s = {} THEN 0 ELSE f[Pick(s)] + ib[s \ {Pick(s)}]
  BY DEF Partial
<1>1. 0 \in T
  <2>1. \A s \in UpTo(B, 0) : s = {}
    BY <1>0, FS_EmptySet DEF UpTo
  <2> QED
    BY <1>a, <2>1
<1>2. ASSUME NEW n \in Nat, n \in T
      PROVE  n + 1 \in T
  <2>1. ASSUME NEW s \in UpTo(B, n + 1), s # {}
        PROVE  ia[s] = ib[s]
    <3>1. Pick(s) \in s
      BY <2>1, Picked
    <3>2. s \ {Pick(s)} \in UpTo(B, n) /\ s \in SUBSET B
      BY <1>0, <3>1, FS_RemoveElement DEF UpTo
    <3>3. ia[s \ {Pick(s)}] = ib[s \ {Pick(s)}]
      BY <1>2, <3>2
    <3> QED
      BY <1>a, <2>1, <3>2, <3>3
  <2>2. ASSUME NEW s \in UpTo(B, n + 1), s = {}
        PROVE  ia[s] = ib[s]
    BY <1>a, <2>2
  <2> QED
    BY <2>1, <2>2
<1>3. Cardinality(B) \in T
  <2> HIDE DEF T
  <2> QED
    BY <1>0, <1>1, <1>2, SetInduction
<1> QED
  BY <1>0, <1>3 DEF UpTo

LEMMA SumEmpty ==
  ASSUME NEW f
  PROVE  SumFunctionOnSet(f, {}) = 0
<1>1. PICK it : Partial(it, f, SUBSET {}) /\ SumFunctionOnSet(f, {}) = it[{}]
  BY PartialExists, SumIsPartial, FS_EmptySet, Zenon
<1> QED
  BY <1>1 DEF Partial

\* A sum begins with the element that is picked.
LEMMA SumPicked ==
  ASSUME NEW f, NEW S, IsFiniteSet(S), S # {}
  PROVE  SumFunctionOnSet(f, S) = f[Pick(S)] + SumFunctionOnSet(f, S \ {Pick(S)})
<1>1. PICK ia : Partial(ia, f, SUBSET S) /\ SumFunctionOnSet(f, S) = ia[S]
  BY PartialExists, SumIsPartial, Zenon
<1>2. PICK R : R = S \ {Pick(S)}
  OBVIOUS
<1>3. IsFiniteSet(R) /\ R \subseteq S
  BY <1>2, FS_RemoveElement
<1>4. PICK ib : Partial(ib, f, SUBSET R) /\ SumFunctionOnSet(f, R) = ib[R]
  BY <1>3, PartialExists, SumIsPartial, Zenon
<1>5. ia[S] = f[Pick(S)] + ia[R]
  BY <1>1, <1>2 DEF Partial
<1>6. Partial(ia, f, SUBSET S) /\ Partial(ib, f, SUBSET R)
  BY <1>1, <1>4
<1>7. ia[R] = ib[R]
  BY <1>3, <1>6, PartialAgree
<1> QED
  BY <1>1, <1>2, <1>4, <1>5, <1>7

\* A property of finite sets that the empty set has, and a set that has it for
\* itself without one element.
LEMMA SubsetInduction ==
  ASSUME NEW S, IsFiniteSet(S), NEW T, {} \in T,
         \A s \in SUBSET S : s # {} /\ (\A x \in s : s \ {x} \in T) => s \in T
  PROVE  S \in T
<1> DEFINE N == {n \in Nat : \A s \in UpTo(S, n) : s \in T}
<1>0. \A s \in SUBSET S : IsFiniteSet(s) /\ Cardinality(s) \in Nat
  BY FS_Subset, FS_CardinalityType
<1>1. 0 \in N
  <2>1. \A s \in UpTo(S, 0) : s = {}
    BY <1>0, FS_EmptySet DEF UpTo
  <2> QED
    BY <2>1
<1>2. ASSUME NEW n \in Nat, n \in N
      PROVE  n + 1 \in N
  <2>1. ASSUME NEW s \in UpTo(S, n + 1), s # {}
        PROVE  s \in T
    <3>1. \A x \in s : s \ {x} \in UpTo(S, n)
      BY <1>0, FS_RemoveElement DEF UpTo
    <3>2. s \in SUBSET S
      BY DEF UpTo
    <3> QED
      BY <1>2, <2>1, <3>1, <3>2
  <2> QED
    BY <2>1
<1>3. Cardinality(S) \in N
  <2> HIDE DEF N
  <2> QED
    BY <1>0, <1>1, <1>2, SetInduction
<1> QED
  BY <1>0, <1>3 DEF UpTo

LEMMA SumType ==
  ASSUME NEW f, NEW S, IsFiniteSet(S), \A x \in S : f[x] \in Int
  PROVE  SumFunctionOnSet(f, S) \in Int
<1> DEFINE T == {s \in SUBSET S : SumFunctionOnSet(f, s) \in Int}
<1>1. {} \in T
  BY SumEmpty
<1>2. ASSUME NEW s \in SUBSET S, s # {}, \A x \in s : s \ {x} \in T
      PROVE  s \in T
  <2>1. IsFiniteSet(s) /\ Pick(s) \in s /\ s \ {Pick(s)} \in T
    BY <1>2, FS_Subset, Picked
  <2>2. \A h : SumFunctionOnSet(h, s) = h[Pick(s)] + SumFunctionOnSet(h, s \ {Pick(s)})
    BY <1>2, <2>1, SumPicked, Zenon
  <2> QED
    BY <2>1, <2>2
<1> HIDE DEF T
<1>3. S \in T
  BY <1>1, <1>2, SubsetInduction
<1> QED
  BY <1>3 DEF T

LEMMA SumNat ==
  ASSUME NEW f, NEW S, IsFiniteSet(S), \A x \in S : f[x] \in Nat
  PROVE  SumFunctionOnSet(f, S) \in Nat
<1> DEFINE T == {s \in SUBSET S : SumFunctionOnSet(f, s) \in Nat}
<1>1. {} \in T
  BY SumEmpty
<1>2. ASSUME NEW s \in SUBSET S, s # {}, \A x \in s : s \ {x} \in T
      PROVE  s \in T
  <2>1. IsFiniteSet(s) /\ Pick(s) \in s /\ s \ {Pick(s)} \in T
    BY <1>2, FS_Subset, Picked
  <2>2. \A h : SumFunctionOnSet(h, s) = h[Pick(s)] + SumFunctionOnSet(h, s \ {Pick(s)})
    BY <1>2, <2>1, SumPicked, Zenon
  <2> QED
    BY <2>1, <2>2
<1> HIDE DEF T
<1>3. S \in T
  BY <1>1, <1>2, SubsetInduction
<1> QED
  BY <1>3 DEF T

\* A sum may begin with any of its elements.
LEMMA SumOut ==
  ASSUME NEW f, NEW S, IsFiniteSet(S), \A x \in S : f[x] \in Int, NEW x \in S
  PROVE  SumFunctionOnSet(f, S) = f[x] + SumFunctionOnSet(f, S \ {x})
<1> DEFINE Out(s) == \A y \in s : SumFunctionOnSet(f, s) = f[y] + SumFunctionOnSet(f, s \ {y})
           T == {s \in SUBSET S : Out(s)}
<1>0. \A s \in SUBSET S : IsFiniteSet(s) /\ SumFunctionOnSet(f, s) \in Int
  BY FS_Subset, SumType
<1>1. {} \in T
  OBVIOUS
<1>2. ASSUME NEW s \in SUBSET S, s # {}, \A y \in s : s \ {y} \in T
      PROVE  s \in T
  <2> DEFINE p == Pick(s)
  <2>1. p \in s /\ SumFunctionOnSet(f, s) = f[p] + SumFunctionOnSet(f, s \ {p})
    BY <1>0, <1>2, SumPicked, Picked
  <2> HIDE DEF p
  <2>2. ASSUME NEW y \in s, y # p
        PROVE  SumFunctionOnSet(f, s) = f[y] + SumFunctionOnSet(f, s \ {y})
    <3>1. Out(s \ {p}) /\ Out(s \ {y})
      BY <1>2, <2>1
    <3>2. SumFunctionOnSet(f, s \ {p}) = f[y] + SumFunctionOnSet(f, (s \ {p}) \ {y})
      BY <2>2, <3>1
    <3>3. SumFunctionOnSet(f, s \ {y}) = f[p] + SumFunctionOnSet(f, (s \ {y}) \ {p})
      BY <2>1, <2>2, <3>1
    <3>4. (s \ {p}) \ {y} = (s \ {y}) \ {p} /\ (s \ {y}) \ {p} \in SUBSET S
      OBVIOUS
    <3>5. SumFunctionOnSet(f, (s \ {y}) \ {p}) \in Int /\ f[y] \in Int /\ f[p] \in Int
      BY <1>0, <2>1, <3>4
    <3> DEFINE r == SumFunctionOnSet(f, (s \ {y}) \ {p})
    <3>6. SumFunctionOnSet(f, s) = f[p] + (f[y] + r)
      BY <2>1, <3>2, <3>4, Zenon
    <3>7. f[y] + SumFunctionOnSet(f, s \ {y}) = f[y] + (f[p] + r)
      BY <3>3, Zenon
    <3>8. r \in Int /\ f[y] \in Int /\ f[p] \in Int
      BY <3>5
    <3> HIDE DEF r
    <3>9. f[p] + (f[y] + r) = f[y] + (f[p] + r)
      BY <3>8
    <3> QED
      BY <3>6, <3>7, <3>9, Zenon
  <2> QED
    BY <2>1, <2>2
<1> HIDE DEF T
<1>3. S \in T
  BY <1>1, <1>2, SubsetInduction
<1> QED
  BY <1>3 DEF T

\* Two functions that agree on a set have the same sum over it.
LEMMA SumSame ==
  ASSUME NEW f, NEW g, NEW S, IsFiniteSet(S), \A x \in S : f[x] = g[x]
  PROVE  SumFunctionOnSet(f, S) = SumFunctionOnSet(g, S)
<1> DEFINE T == {s \in SUBSET S : SumFunctionOnSet(f, s) = SumFunctionOnSet(g, s)}
<1>1. {} \in T
  BY SumEmpty
<1>2. ASSUME NEW s \in SUBSET S, s # {}, \A x \in s : s \ {x} \in T
      PROVE  s \in T
  <2>1. IsFiniteSet(s) /\ Pick(s) \in s /\ s \ {Pick(s)} \in T
    BY <1>2, FS_Subset, Picked
  <2>2. \A h : SumFunctionOnSet(h, s) = h[Pick(s)] + SumFunctionOnSet(h, s \ {Pick(s)})
    BY <1>2, <2>1, SumPicked, Zenon
  <2> QED
    BY <2>1, <2>2
<1> HIDE DEF T
<1>3. S \in T
  BY <1>1, <1>2, SubsetInduction
<1> QED
  BY <1>3 DEF T

\* An addend of a sum of natural numbers is no larger than the sum.
LEMMA SumBounds ==
  ASSUME NEW f, NEW S, IsFiniteSet(S), \A x \in S : f[x] \in Nat, NEW x \in S
  PROVE  f[x] <= SumFunctionOnSet(f, S)
<1>1. SumFunctionOnSet(f, S) = f[x] + SumFunctionOnSet(f, S \ {x})
  BY SumOut
<1>2. SumFunctionOnSet(f, S \ {x}) \in Nat
  BY SumNat, FS_RemoveElement
<1> QED
  BY <1>1, <1>2

\* One addend changes, and the sum by as much.
LEMMA SumChange ==
  ASSUME NEW S, IsFiniteSet(S), NEW f \in [S -> Int], NEW g \in [S -> Int], NEW x \in S,
         \A y \in S \ {x} : g[y] = f[y]
  PROVE  /\ SumFunctionOnSet(f, S) \in Int /\ SumFunctionOnSet(g, S) \in Int
         /\ SumFunctionOnSet(g, S) - g[x] = SumFunctionOnSet(f, S) - f[x]
<1>1. PICK R : R = S \ {x}
  OBVIOUS
<1>2. /\ IsFiniteSet(R)
      /\ \A y \in S : f[y] \in Int /\ g[y] \in Int
      /\ \A y \in R : f[y] \in Int /\ g[y] = f[y]
  BY <1>1, FS_RemoveElement
<1>3. SumFunctionOnSet(f, S) = f[x] + SumFunctionOnSet(f, R)
  BY <1>1, <1>2, SumOut
<1>4. SumFunctionOnSet(g, S) = g[x] + SumFunctionOnSet(g, R)
  BY <1>1, <1>2, SumOut
<1>5. SumFunctionOnSet(f, R) = SumFunctionOnSet(g, R)
  BY <1>2, SumSame
<1>6. SumFunctionOnSet(f, R) \in Int
  BY <1>2, SumType
<1> QED
  BY <1>2, <1>3, <1>4, <1>5, <1>6

\* When every addend is within a ratio of another, so is the sum.
LEMMA SumRatio ==
  ASSUME NEW S, IsFiniteSet(S), NEW f, NEW g, \A x \in S : f[x] \in Nat /\ g[x] \in Nat,
         NEW n \in Nat, NEW m \in Nat, \A x \in S : f[x] * n <= g[x] * m
  PROVE  SumFunctionOnSet(f, S) * n <= SumFunctionOnSet(g, S) * m
<1> DEFINE T == {s \in SUBSET S :
                   SumFunctionOnSet(f, s) * n <= SumFunctionOnSet(g, s) * m}
<1>1. {} \in T
  BY SumEmpty
<1>2. ASSUME NEW s \in SUBSET S, s # {}, \A x \in s : s \ {x} \in T
      PROVE  s \in T
  <2>1. IsFiniteSet(s) /\ Pick(s) \in s /\ s \ {Pick(s)} \in T
    BY <1>2, FS_Subset, Picked
  <2>2. \A h : SumFunctionOnSet(h, s) = h[Pick(s)] + SumFunctionOnSet(h, s \ {Pick(s)})
    BY <1>2, <2>1, SumPicked, Zenon
  <2>3. PICK R \in SUBSET S : R = s \ {Pick(s)} /\ IsFiniteSet(R)
    BY <2>1, FS_RemoveElement
  <2>4. PICK a \in Nat, b \in Nat :
          a = SumFunctionOnSet(f, R) /\ b = SumFunctionOnSet(g, R)
    BY <2>3, SumNat
  <2>5. PICK x \in S : x = Pick(s)
    BY <2>1
  <2>6. f[x] \in Nat /\ g[x] \in Nat /\ f[x] * n <= g[x] * m /\ a * n <= b * m
    BY <2>1, <2>3, <2>4
  <2>7. ASSUME NEW p \in Nat, NEW q \in Nat, p * n <= q * m
        PROVE  (p + a) * n <= (q + b) * m
    <3>1. /\ (p + a) * n = p * n + a * n /\ (q + b) * m = q * m + b * m
          /\ p * n \in Nat /\ a * n \in Nat /\ q * m \in Nat /\ b * m \in Nat
      OBVIOUS
    <3> QED
      BY <2>6, <2>7, <3>1
  <2>8. (f[x] + a) * n <= (g[x] + b) * m
    BY <2>6, <2>7
  <2>9. SumFunctionOnSet(f, s) = f[x] + a /\ SumFunctionOnSet(g, s) = g[x] + b
    BY <2>2, <2>3, <2>4, <2>5
  <2> QED
    BY <2>8, <2>9
<1> HIDE DEF T
<1>3. S \in T
  BY <1>1, <1>2, SubsetInduction
<1> QED
  BY <1>3 DEF T
-----------------------------------------------------------------------------
(* Divisions.                                                              *)

\* What is rounded down is no more than the quotient, what is rounded up no less.
LEMMA DivBounds ==
  ASSUME NEW x \in Nat, NEW d \in Nat \ {0}
  PROVE  x \div d \in Nat /\ (x \div d) * d <= x /\ x < (x \div d) * d + d
  OBVIOUS

LEMMA CeilBounds ==
  ASSUME NEW x \in Nat, NEW d \in Nat \ {0}
  PROVE  CeilDiv(x, d) \in Nat /\ CeilDiv(x, d) * d >= x
<1>1. x + d - 1 \in Nat
  OBVIOUS
<1>2. CeilDiv(x, d) \in Nat /\ x + d - 1 < CeilDiv(x, d) * d + d
  BY <1>1, DivBounds DEF CeilDiv
<1>3. CeilDiv(x, d) * d \in Nat
  BY <1>2
<1> QED
  BY <1>2, <1>3

\* What comes in for shares minted, and goes out for shares burnt.
LEMMA FairIn ==
  ASSUME NEW a \in Nat, NEW m \in Nat, NEW t \in Nat, NEW s \in Nat, m * (t + 1) <= a * (s + 1)
  PROVE  (t + a + 1) * (s + 1) >= (t + 1) * (s + m + 1)
<1>1. (t + a + 1) * (s + 1) = (t + 1) * (s + 1) + a * (s + 1)
  OBVIOUS
<1>2. (t + 1) * (s + m + 1) = (t + 1) * (s + 1) + m * (t + 1)
  OBVIOUS
<1>3. (t + 1) * (s + 1) \in Nat /\ a * (s + 1) \in Nat /\ m * (t + 1) \in Nat
  OBVIOUS
<1> QED
  BY <1>1, <1>2, <1>3

LEMMA FairOut ==
  ASSUME NEW a \in Nat, NEW m \in Nat, NEW t \in Nat, NEW s \in Nat, a <= t, m <= s,
         a * (s + 1) <= m * (t + 1)
  PROVE  (t - a + 1) * (s + 1) >= (t + 1) * (s - m + 1)
<1>1. (t - a + 1) * (s + 1) = (t + 1) * (s + 1) - a * (s + 1)
  OBVIOUS
<1>2. (t + 1) * (s - m + 1) = (t + 1) * (s + 1) - m * (t + 1)
  OBVIOUS
<1>3. (t + 1) * (s + 1) \in Nat /\ a * (s + 1) \in Nat /\ m * (t + 1) \in Nat
  OBVIOUS
<1> QED
  BY <1>1, <1>2, <1>3
-----------------------------------------------------------------------------
(* The shares.                                                             *)

\* The supply is the shares of all users, and the asset itself is no position.
ShareInv ==
  /\ totalSupply = SumFunctionOnSet(shares, Users)
  /\ \A k \in Configured : k.token # Asset

LEMMA ShareInvInit == FundInit => ShareInv
<1> SUFFICES ASSUME FundInit PROVE ShareInv
  OBVIOUS
<1>1. Configured = {} /\ totalSupply = 0 /\ shares = [u \in Users |-> 0]
  BY DEF FundInit, VaultInit, Configured
<1> DEFINE T == {s \in SUBSET Users : SumFunctionOnSet(shares, s) = 0}
<1>2. {} \in T
  BY SumEmpty
<1>3. ASSUME NEW s \in SUBSET Users, s # {}, \A u \in s : s \ {u} \in T
      PROVE  s \in T
  <2>1. IsFiniteSet(s) /\ Pick(s) \in s /\ s \ {Pick(s)} \in T
    BY <1>3, FS_Subset, Picked, VaultAssumption
  <2>2. SumFunctionOnSet(shares, s) = shares[Pick(s)] + SumFunctionOnSet(shares, s \ {Pick(s)})
    BY <1>3, <2>1, SumPicked, Zenon
  <2> QED
    BY <1>1, <2>1, <2>2
<1> HIDE DEF T
<1>4. Users \in T
  BY <1>2, <1>3, SubsetInduction, VaultAssumption
<1> QED
  BY <1>1, <1>4 DEF T, ShareInv

\* When the shares of one user change, and the supply by as much.
LEMMA OneUser ==
  ASSUME NEW before \in [Users -> Int], NEW after \in [Users -> Int], NEW u \in Users,
         \A v \in Users \ {u} : after[v] = before[v]
  PROVE  /\ SumFunctionOnSet(before, Users) \in Int
         /\ SumFunctionOnSet(after, Users) \in Int
         /\ SumFunctionOnSet(after, Users) - after[u]
              = SumFunctionOnSet(before, Users) - before[u]
<1>1. IsFiniteSet(Users)
  BY VaultAssumption
<1> QED
  BY <1>1, SumChange

LEMMA TakeInShares ==
  ASSUME FundInv, ShareInv, NEW u \in Users, NEW assets, NEW minted, NEW halted,
         TakeIn(u, assets, minted, halted)
  PROVE  ShareInv'
<1>1. /\ minted \in Nat /\ shares[u] \in Int /\ shares \in [Users -> Int]
      /\ shares' = [shares EXCEPT ![u] = shares[u] + minted]
      /\ totalSupply' = totalSupply + minted
  BY DEF TakeIn, FundInv, VaultInv, VaultTypeOK
<1>2. /\ shares' \in [Users -> Int] /\ shares'[u] = shares[u] + minted
      /\ \A v \in Users \ {u} : shares'[v] = shares[v]
  BY <1>1
<1>3. /\ SumFunctionOnSet(shares, Users) \in Int /\ SumFunctionOnSet(shares', Users) \in Int
      /\ SumFunctionOnSet(shares', Users) - shares'[u]
           = SumFunctionOnSet(shares, Users) - shares[u]
  BY <1>1, <1>2, OneUser, Zenon
<1>4. totalSupply' = SumFunctionOnSet(shares', Users)
  <2>1. totalSupply = SumFunctionOnSet(shares, Users)
    BY DEF ShareInv
  <2> QED
    BY <1>1, <1>2, <1>3, <2>1
<1>5. Configured' = Configured
  BY DEF TakeIn, configVars, Configured
<1> QED
  BY <1>4, <1>5 DEF ShareInv

LEMMA PayOutShares ==
  ASSUME FundInv, ShareInv, NEW u \in Users, NEW assets, NEW burnt, NEW halted,
         PayOut(u, assets, burnt, halted)
  PROVE  ShareInv'
<1>1. /\ burnt \in Nat /\ shares[u] \in Int /\ shares \in [Users -> Int]
      /\ shares' = [shares EXCEPT ![u] = shares[u] - burnt]
      /\ totalSupply' = totalSupply - burnt
  BY DEF PayOut, FundInv, VaultInv, VaultTypeOK
<1>2. /\ shares' \in [Users -> Int] /\ shares'[u] = shares[u] - burnt
      /\ \A v \in Users \ {u} : shares'[v] = shares[v]
  BY <1>1
<1>3. /\ SumFunctionOnSet(shares, Users) \in Int /\ SumFunctionOnSet(shares', Users) \in Int
      /\ SumFunctionOnSet(shares', Users) - shares'[u]
           = SumFunctionOnSet(shares, Users) - shares[u]
  BY <1>1, <1>2, OneUser, Zenon
<1>4. totalSupply' = SumFunctionOnSet(shares', Users)
  <2>1. totalSupply = SumFunctionOnSet(shares, Users)
    BY DEF ShareInv
  <2>2. totalSupply' = totalSupply - burnt /\ burnt \in Nat /\ shares[u] \in Int
    BY <1>1
  <2>3. shares'[u] = shares[u] - burnt
    BY <1>2
  <2> QED
    BY <1>3, <2>1, <2>2, <2>3
<1>5. Configured' = Configured
  BY DEF PayOut, configVars, Configured
<1> QED
  BY <1>4, <1>5 DEF ShareInv

LEMMA TransferShares ==
  ASSUME FundInv, ShareInv, NEW from \in Users, NEW to \in Users, NEW amount \in Nat,
         NEW halted, Transfer(from, to, amount, halted)
  PROVE  ShareInv'
<1>1. /\ from # to /\ shares \in [Users -> Int] /\ shares[from] \in Int /\ shares[to] \in Int
      /\ shares' = [shares EXCEPT ![from] = shares[from] - amount, ![to] = shares[to] + amount]
      /\ totalSupply' = totalSupply
  BY DEF Transfer, FundInv, VaultInv, VaultTypeOK
<1>2. PICK less : less = [shares EXCEPT ![from] = shares[from] - amount]
  OBVIOUS
<1>3. /\ less \in [Users -> Int] /\ less[from] = shares[from] - amount
      /\ less[to] = shares[to]
      /\ \A v \in Users \ {from} : less[v] = shares[v]
  BY <1>1, <1>2
<1>4. /\ shares' \in [Users -> Int] /\ shares'[to] = less[to] + amount
      /\ \A v \in Users \ {to} : shares'[v] = less[v]
  BY <1>1, <1>2
<1>5. /\ SumFunctionOnSet(shares, Users) \in Int /\ SumFunctionOnSet(less, Users) \in Int
      /\ SumFunctionOnSet(less, Users) - less[from]
           = SumFunctionOnSet(shares, Users) - shares[from]
  BY <1>1, <1>3, OneUser, Zenon
<1>6. /\ SumFunctionOnSet(shares', Users) \in Int
      /\ SumFunctionOnSet(shares', Users) - shares'[to]
           = SumFunctionOnSet(less, Users) - less[to]
  BY <1>3, <1>4, OneUser, Zenon
<1>7. totalSupply' = SumFunctionOnSet(shares', Users)
  <2>1. totalSupply = SumFunctionOnSet(shares, Users)
    BY DEF ShareInv
  <2> QED
    BY <1>1, <1>3, <1>4, <1>5, <1>6, <2>1
<1>8. Configured' = Configured
  BY DEF Transfer, configVars, Configured
<1> QED
  BY <1>7, <1>8 DEF ShareInv

LEMMA ShareInvNext ==
  ASSUME FundInv, ShareInv, [FundNext]_fundVars
  PROVE  ShareInv'
<1>1. CASE UserStep
  BY <1>1, UserCases, TakeInShares, PayOutShares, TransferShares
<1>2. ASSUME UNCHANGED <<shares, totalSupply>>,
             \A k \in Configured' : k \in Configured \/ k.token # Asset
      PROVE  ShareInv'
  BY <1>2 DEF ShareInv
<1>3. CASE OwnerStep \/ SyncStep
  <2>1. UNCHANGED <<shares, totalSupply>>
    BY <1>3 DEF OwnerStep, SyncStep, AddPosition, SetTrustedHook, SyncPositionBalance, shareVars
  <2>2. ASSUME NEW k \in Configured', k \notin Configured
        PROVE  k.token # Asset
    <3>1. positions \in [PositionKeys -> Nat \cup {Unconfigured}]
      BY DEF FundInv, VaultInv, VaultTypeOK
    <3> QED
      BY <1>3, <2>2, <3>1
         DEF OwnerStep, SyncStep, AddPosition, SetTrustedHook, SyncPositionBalance, Configured
  <2> QED
    BY <1>2, <2>1, <2>2
<1>4. CASE ~(UserStep \/ OwnerStep \/ SyncStep)
  <2>1. SwapStep => UNCHANGED <<shares, totalSupply, positions>>
    BY DEF SwapStep, ExecuteHookSwap, shareVars, configVars
  <2>2. ~SwapStep => UNCHANGED <<shares, totalSupply, positions>>
    BY <1>4 DEF FundNext, RegistryStep, OperatorStep, WorldStep, MovePrice, fundVars,
                vaultVars, shareVars, configVars
  <2> QED
    BY <1>2, <2>1, <2>2 DEF Configured
<1> QED
  BY <1>1, <1>3, <1>4

\* The supply is what the users hold, in every reachable state.
LEMMA ShareInvariant == FundSpec => []ShareInv
  BY ShareInvInit, ShareInvNext, FundInvariant, PTL DEF FundSpec

\* Nobody holds more than there is.
LEMMA SupplyBounds ==
  ASSUME FundInv, ShareInv
  PROVE  totalSupply \in Nat /\ \A u \in Users : shares[u] <= totalSupply
<1>1. IsFiniteSet(Users) /\ \A u \in Users : shares[u] \in Nat
  BY VaultAssumption DEF FundInv, VaultInv, VaultTypeOK
<1> QED
  BY <1>1, SumNat, SumBounds DEF ShareInv

\* The supply is the sum of what the users hold.
THEOREM SupplyIsShares ==
  FundSpec => [](totalSupply = SumFunctionOnSet(shares, Users) /\ totalSupply \in Nat)
<1>1. FundInv /\ ShareInv => totalSupply = SumFunctionOnSet(shares, Users) /\ totalSupply \in Nat
  BY SupplyBounds DEF ShareInv
<1> QED
  BY <1>1, FundInvariant, ShareInvariant, PTL
-----------------------------------------------------------------------------
(* What a share is worth.                                                  *)

\* What each position is worth, and all of them together.
Worth == [k \in Configured |->
            ValueInAssetUnits(sqrtPrice[k.pool], PositionBalance(k, held), k.tokenIsCurrency0)]

Positioned == SumFunctionOnSet(Worth, Configured)

\* One step lowers nobody's claim.
Undiluted == (TotalAssets' + 1) * (totalSupply + 1) >= (TotalAssets + 1) * (totalSupply' + 1)

LEMMA TotalIs == TotalAssets = held[Asset] + Positioned
  BY DEF TotalAssets, TotalAssetsAt, SumFunction, Worth, Positioned

LEMMA TotalIsPrimed == TotalAssets' = held'[Asset] + Positioned'
  BY DEF TotalAssets, TotalAssetsAt, SumFunction, Worth, Positioned

LEMMA WorthOf ==
  ASSUME FundInv, NEW k \in PositionKeys
  PROVE  ValueInAssetUnits(sqrtPrice[k.pool], PositionBalance(k, held), k.tokenIsCurrency0)
           \in Nat
<1>1. k.pool \in Pools /\ k.token \in Tokens
  BY VaultAssumption
<1>2. sqrtPrice[k.pool] \in Nat /\ PositionBalance(k, held) \in Nat
  BY <1>1 DEF FundInv, VaultInv, VaultTypeOK, PositionBalance
<1> QED
  BY <1>2, ValueType

LEMMA WorthNat ==
  ASSUME FundInv
  PROVE  /\ IsFiniteSet(Configured) /\ \A k \in Configured : Worth[k] \in Nat
         /\ held[Asset] \in Nat /\ Positioned \in Nat
<1>1. IsFiniteSet(Configured)
  BY VaultAssumption, FS_Subset DEF Configured
<1>2. \A k \in Configured : Worth[k] \in Nat
  BY WorthOf DEF Worth, Configured
<1>3. held[Asset] \in Nat
  BY VaultAssumption DEF FundInv, VaultInv, VaultTypeOK
<1> QED
  BY <1>1, <1>2, <1>3, SumNat DEF Positioned

LEMMA TotalNat ==
  ASSUME FundInv
  PROVE  TotalAssets \in Nat /\ held[Asset] <= TotalAssets
  BY TotalIs, WorthNat

\* Positions are worth the same when prices and their balances are, and the asset is
\* no position.
LEMMA PositionedKept ==
  ASSUME ShareInv, sqrtPrice' = sqrtPrice, Configured' = Configured,
         \A t \in Tokens \ {Asset} : held'[t] = held[t]
  PROVE  Positioned' = Positioned
<1>1. ASSUME NEW k \in Configured PROVE held'[k.token] = held[k.token]
  BY VaultAssumption DEF Configured, ShareInv
<1>2. Worth' = Worth
  BY <1>1 DEF Worth, PositionBalance
<1> QED
  BY <1>2 DEF Positioned

\* Whoever is given no more shares than the assets brought are worth dilutes nobody.
LEMMA FairTakeIn ==
  ASSUME FundInv, ShareInv, NEW u \in Users, NEW assets, NEW minted, NEW halted,
         TakeIn(u, assets, minted, halted),
         minted * (TotalAssets + 1) <= assets * (totalSupply + 1)
  PROVE  Undiluted
<1>1. /\ assets \in Nat /\ minted \in Nat
      /\ held' = [held EXCEPT ![Asset] = @ + assets]
      /\ totalSupply' = totalSupply + minted
      /\ sqrtPrice' = sqrtPrice /\ Configured' = Configured
  BY DEF TakeIn, marketVars, configVars, Configured
<1>2. held'[Asset] = held[Asset] + assets /\ \A t \in Tokens \ {Asset} : held'[t] = held[t]
  BY <1>1, VaultAssumption DEF FundInv, VaultInv, VaultTypeOK
<1>3. TotalAssets' = TotalAssets + assets
  <2>1. Positioned' = Positioned
    BY <1>1, <1>2, PositionedKept
  <2> QED
    BY <1>1, <1>2, <2>1, TotalIs, TotalIsPrimed, WorthNat
<1>4. TotalAssets \in Nat /\ totalSupply \in Nat
  BY TotalNat, SupplyBounds
<1>5. (TotalAssets + assets + 1) * (totalSupply + 1)
        >= (TotalAssets + 1) * (totalSupply + minted + 1)
  BY <1>1, <1>4, FairIn
<1> QED
  BY <1>1, <1>3, <1>5 DEF Undiluted

\* Whoever is paid no more than the shares given up are worth dilutes nobody.
LEMMA FairPayOut ==
  ASSUME FundInv, ShareInv, NEW u \in Users, NEW assets, NEW burnt, NEW halted,
         PayOut(u, assets, burnt, halted),
         assets * (totalSupply + 1) <= burnt * (TotalAssets + 1)
  PROVE  Undiluted
<1>1. /\ assets \in Nat /\ burnt \in Nat
      /\ burnt <= shares[u] /\ assets <= held[Asset]
      /\ held' = [held EXCEPT ![Asset] = @ - assets]
      /\ totalSupply' = totalSupply - burnt
      /\ sqrtPrice' = sqrtPrice /\ Configured' = Configured
  BY DEF PayOut, marketVars, configVars, Configured
<1>2. held'[Asset] = held[Asset] - assets /\ \A t \in Tokens \ {Asset} : held'[t] = held[t]
  BY <1>1, VaultAssumption DEF FundInv, VaultInv, VaultTypeOK
<1>3. TotalAssets' = TotalAssets - assets
  <2>1. Positioned' = Positioned
    BY <1>1, <1>2, PositionedKept
  <2> QED
    BY <1>1, <1>2, <2>1, TotalIs, TotalIsPrimed, WorthNat
<1>4. /\ TotalAssets \in Nat /\ totalSupply \in Nat /\ shares[u] \in Nat
      /\ held[Asset] \in Nat /\ held[Asset] <= TotalAssets /\ shares[u] <= totalSupply
  BY TotalNat, WorthNat, SupplyBounds DEF FundInv, VaultInv, VaultTypeOK
<1>5. assets <= TotalAssets /\ burnt <= totalSupply
  BY <1>1, <1>4
<1>6. (TotalAssets - assets + 1) * (totalSupply + 1)
        >= (TotalAssets + 1) * (totalSupply - burnt + 1)
  BY <1>1, <1>4, <1>5, FairOut
<1> QED
  BY <1>1, <1>3, <1>6 DEF Undiluted

\* Nothing that counts has changed.
LEMMA FairSame ==
  ASSUME FundInv, ShareInv, UNCHANGED <<totalSupply, held, sqrtPrice>>, Configured' = Configured
  PROVE  Undiluted
<1>1. TotalAssets' = TotalAssets
  <2>1. Positioned' = Positioned
    BY PositionedKept
  <2> QED
    BY <2>1, TotalIs, TotalIsPrimed
<1>2. TotalAssets \in Nat /\ totalSupply \in Nat
  BY TotalNat, SupplyBounds
<1>3. (TotalAssets + 1) * (totalSupply + 1) \in Nat
  BY <1>2
<1> QED
  BY <1>1, <1>3 DEF Undiluted

LEMMA FairStill ==
  ASSUME FundInv, ShareInv, UNCHANGED <<totalSupply, held, positions, sqrtPrice>>
  PROVE  Undiluted
  BY FairSame DEF Configured

\* Deposits and redemptions round down what is given, mints and withdrawals round
\* up what is taken.
LEMMA FairUser ==
  ASSUME FundInv, ShareInv, UserStep
  PROVE  Undiluted
<1>0. TotalAssets \in Nat /\ totalSupply \in Nat
  BY TotalNat, SupplyBounds
<1> DEFINE t == TotalAssets + 1
           s == totalSupply + 1
<1>1. t \in Nat \ {0} /\ s \in Nat \ {0}
  BY <1>0
<1> HIDE DEF t, s
<1>2. ASSUME NEW u \in Users, NEW assets \in Nat, Deposit(u, assets, Halted)
      PROVE  Undiluted
  <2>1. TakeIn(u, assets, (assets * s) \div t, Halted)
    BY <1>2 DEF Deposit, ConvertToShares, t, s
  <2>2. assets * s \in Nat
    BY <1>1
  <2>3. ((assets * s) \div t) * t <= assets * s
    BY <1>1, <2>2, DivBounds
  <2> QED
    BY <2>1, <2>3, FairTakeIn DEF t, s
<1>3. ASSUME NEW u \in Users, NEW amount \in Nat, Mint(u, amount, Halted)
      PROVE  Undiluted
  <2>1. TakeIn(u, CeilDiv(amount * t, s), amount, Halted)
    BY <1>3 DEF Mint, t, s
  <2>2. amount * t \in Nat
    BY <1>1
  <2>3. amount * t <= CeilDiv(amount * t, s) * s
    BY <1>1, <2>2, CeilBounds
  <2> QED
    BY <2>1, <2>3, FairTakeIn DEF t, s
<1>4. ASSUME NEW u \in Users, NEW assets \in Nat, Withdraw(u, assets, Halted)
      PROVE  Undiluted
  <2>1. PayOut(u, assets, CeilDiv(assets * s, t), Halted)
    BY <1>4 DEF Withdraw, t, s
  <2>2. assets * s \in Nat
    BY <1>1
  <2>3. assets * s <= CeilDiv(assets * s, t) * t
    BY <1>1, <2>2, CeilBounds
  <2> QED
    BY <2>1, <2>3, FairPayOut DEF t, s
<1>5. ASSUME NEW u \in Users, NEW amount \in Nat, Redeem(u, amount, Halted)
      PROVE  Undiluted
  <2>1. PayOut(u, (amount * t) \div s, amount, Halted)
    BY <1>5 DEF Redeem, ConvertToAssets, t, s
  <2>2. amount * t \in Nat
    BY <1>1
  <2>3. ((amount * t) \div s) * s <= amount * t
    BY <1>1, <2>2, DivBounds
  <2> QED
    BY <2>1, <2>3, FairPayOut DEF t, s
<1>6. ASSUME NEW u, NEW v, NEW amount, Transfer(u, v, amount, Halted)
      PROVE  Undiluted
  BY <1>6, FairStill DEF Transfer, configVars, marketVars
<1>7. /\ AssetInputs \subseteq Nat /\ ShareInputs \subseteq Nat
      /\ \A u \in Users : shares[u] \in Nat
  BY FundAssumption DEF FundInv, VaultInv, VaultTypeOK
<1> QED
  BY <1>2, <1>3, <1>4, <1>5, <1>6, <1>7 DEF UserStep

\* A new position adds its worth.
LEMMA FairAddPosition ==
  ASSUME FundInv, ShareInv, NEW sender, NEW k \in PositionKeys, AddPosition(sender, k)
  PROVE  Undiluted
<1>1. /\ positions[k] = Unconfigured
      /\ positions' = [positions EXCEPT ![k] = held[k.token]]
      /\ UNCHANGED <<totalSupply, held, sqrtPrice>>
      /\ positions \in [PositionKeys -> Nat \cup {Unconfigured}]
      /\ held[k.token] \in Nat
  BY VaultAssumption DEF AddPosition, shareVars, marketVars, FundInv, VaultInv, VaultTypeOK
<1>2. k \notin Configured /\ Configured' = Configured \cup {k}
  BY <1>1 DEF Configured, Unconfigured
<1>3. \A j \in Configured' :
        Worth'[j] = ValueInAssetUnits(sqrtPrice[j.pool], PositionBalance(j, held),
                                      j.tokenIsCurrency0)
  BY <1>1 DEF Worth, PositionBalance
<1>4. /\ IsFiniteSet(Configured) /\ IsFiniteSet(Configured')
      /\ \A j \in Configured' : Worth'[j] \in Nat
      /\ \A j \in Configured' : Worth'[j] \in Int
      /\ \A j \in Configured : Worth'[j] = Worth[j]
  <2>1. IsFiniteSet(Configured) /\ IsFiniteSet(Configured')
    BY <1>2, WorthNat, FS_AddElement
  <2>2. \A j \in Configured' : Worth'[j] \in Nat
    BY <1>2, <1>3, WorthOf DEF Configured
  <2>3. \A j \in Configured : Worth'[j] = Worth[j]
    BY <1>2, <1>3 DEF Worth
  <2> QED
    BY <2>1, <2>2, <2>3
<1>5. Positioned' = Worth'[k] + SumFunctionOnSet(Worth', Configured)
  <2>1. Positioned' = SumFunctionOnSet(Worth', Configured')
    BY DEF Positioned
  <2>2. k \in Configured' /\ Configured' \ {k} = Configured
    BY <1>2
  <2>3. SumFunctionOnSet(Worth', Configured')
          = Worth'[k] + SumFunctionOnSet(Worth', Configured' \ {k})
    <3>1. PICK worth, now : worth = Worth' /\ now = Configured'
      OBVIOUS
    <3>2. IsFiniteSet(now) /\ (\A j \in now : worth[j] \in Int) /\ k \in now
      BY <1>4, <2>2, <3>1, Zenon
    <3>3. SumFunctionOnSet(worth, now) = worth[k] + SumFunctionOnSet(worth, now \ {k})
      BY <3>2, SumOut
    <3> QED
      BY <3>1, <3>3, Zenon
  <2> QED
    BY <2>1, <2>2, <2>3
<1>6. SumFunctionOnSet(Worth', Configured) = Positioned
  BY <1>4, SumSame, Zenon DEF Positioned
<1>7. TotalAssets' >= TotalAssets /\ TotalAssets' \in Nat
  <2>1. Worth'[k] \in Nat /\ Positioned \in Nat /\ held[Asset] \in Nat
    BY <1>2, <1>4, WorthNat
  <2> QED
    BY <1>1, <1>5, <1>6, <2>1, TotalIs, TotalIsPrimed
<1>8. TotalAssets \in Nat /\ totalSupply \in Nat
  BY TotalNat, SupplyBounds
<1>9. ASSUME NEW a \in Nat, NEW b \in Nat, NEW c \in Nat, a >= b PROVE (a + 1) * c >= (b + 1) * c
  <2>1. a + 1 = (b + 1) + (a - b) /\ a - b \in Nat
    BY <1>9
  <2>2. (a + 1) * c = (b + 1) * c + (a - b) * c /\ (a - b) * c \in Nat /\ (b + 1) * c \in Nat
    BY <2>1
  <2> QED
    BY <2>2
<1>10. (TotalAssets' + 1) * (totalSupply + 1) >= (TotalAssets + 1) * (totalSupply + 1)
  <2>1. totalSupply + 1 \in Nat
    BY <1>8
  <2> QED
    BY <1>7, <1>8, <1>9, <2>1
<1> QED
  BY <1>1, <1>10 DEF Undiluted

\* A trade that leaves what the pools hold as it was leaves what the vault holds.
LEMMA FairSwap ==
  ASSUME FundInv, ShareInv, SwapStep, UNCHANGED <<sqrtPrice, reserve>>
  PROVE  Undiluted
<1>1. PICK pool \in Pools, zeroForOne \in BOOLEAN, amountIn \in Nat, paid \in Nat,
           got \in Nat, price \in Nat \ {0}, minAmountOut \in Int :
             SwapOf(pool, zeroForOne, amountIn, minAmountOut, paid, got, price)
  BY SwapCases DEF FundInv
<1> DEFINE in == Input(pool, zeroForOne)
           out == Output(pool, zeroForOne)
<1>2. in \in Tokens /\ out \in Tokens /\ in # out
  BY VaultAssumption DEF Input, Output
<1>3. /\ held' = [held EXCEPT ![in] = @ - paid, ![out] = @ + got]
      /\ reserve' = [reserve EXCEPT ![in] = @ + paid, ![out] = @ - got]
      /\ UNCHANGED <<totalSupply, positions>>
  BY <1>1 DEF SwapOf, ExecuteHookSwap, shareVars, configVars
<1> HIDE DEF in, out
<1>4. held \in [Tokens -> Nat] /\ reserve \in [Tokens -> Nat]
  BY DEF FundInv, VaultInv, VaultTypeOK
<1>5. paid = 0 /\ got = 0
  <2>1. reserve'[in] = reserve[in] + paid /\ reserve'[out] = reserve[out] - got
    BY <1>2, <1>3, <1>4
  <2> QED
    BY <1>2, <1>4, <2>1
<1>6. held' = held
  BY <1>2, <1>3, <1>4, <1>5
<1> QED
  BY <1>3, <1>6, FairStill

LEMMA FairStep ==
  ASSUME FundInv, ShareInv, FundNext, UNCHANGED <<sqrtPrice, reserve>>
  PROVE  Undiluted
<1>1. CASE UserStep
  BY <1>1, FairUser
<1>2. CASE OwnerStep
  <2>1. ASSUME NEW sender, NEW hook, SetTrustedHook(sender, hook) PROVE Undiluted
    BY <2>1, FairStill DEF SetTrustedHook, shareVars
  <2> QED
    BY <1>2, <2>1, FairAddPosition DEF OwnerStep
<1>3. CASE SyncStep
  <2>1. PICK k \in PositionKeys : SyncPositionBalance(k)
    BY <1>3 DEF SyncStep
  <2>2. Configured' = Configured /\ UNCHANGED <<totalSupply, held>>
    <3>1. /\ positions[k] # Unconfigured /\ positions' = [positions EXCEPT ![k] = held[k.token]]
          /\ held[k.token] \in Nat /\ positions \in [PositionKeys -> Nat \cup {Unconfigured}]
          /\ UNCHANGED <<totalSupply, held>>
      BY <2>1, VaultAssumption
         DEF SyncPositionBalance, shareVars, FundInv, VaultInv, VaultTypeOK
    <3> QED
      BY <3>1 DEF Configured, Unconfigured
  <2> QED
    BY <2>2, FairSame
<1>4. CASE SwapStep
  BY <1>4, FairSwap
<1>5. CASE RegistryStep \/ OperatorStep \/ WorldStep
  <2>1. UNCHANGED <<totalSupply, held, positions>>
    BY <1>5 DEF RegistryStep, OperatorStep, WorldStep, MovePrice, vaultVars, shareVars, configVars
  <2> QED
    BY <2>1, FairStill
<1> QED
  BY <1>1, <1>2, <1>3, <1>4, <1>5 DEF FundNext

\* Deposits, mints, withdrawals, redemptions, transfers, syncs and new positions never
\* lower what a share is worth, at any price and any amount, whatever is rounded.
THEOREM NobodyIsDiluted == FundSpec => NobodyDiluted
<1>1. FundInv /\ ShareInv /\ [FundNext]_fundVars =>
        [sqrtPrice' = sqrtPrice /\ reserve' = reserve =>
           (TotalAssets' + 1) * (totalSupply + 1)
             >= (TotalAssets + 1) * (totalSupply' + 1)]_fundVars
  BY FairStep DEF Undiluted
<1> QED
  BY <1>1, FundInvariant, ShareInvariant, PTL DEF FundSpec, NobodyDiluted
-----------------------------------------------------------------------------
(* What the vault owes.                                                    *)

\* What each holder would be paid for all of its shares.
Claims == [u \in Users |-> ConvertToAssets(shares[u])]

\* All holders together are owed no more than there is: every claim is rounded down,
\* and the virtual share keeps its part.
LEMMA ClaimsBounded ==
  ASSUME FundInv, ShareInv
  PROVE  /\ SumFunctionOnSet(Claims, Users) <= TotalAssets
         /\ \A u \in Users : ConvertToAssets(shares[u]) <= TotalAssets
<1>1. PICK a \in Nat, s \in Nat : a = TotalAssets + 1 /\ s = totalSupply
  BY TotalNat, SupplyBounds
<1>2. IsFiniteSet(Users) /\ \A u \in Users : shares[u] \in Nat
  BY VaultAssumption DEF FundInv, VaultInv, VaultTypeOK
<1>3. ASSUME NEW u \in Users
      PROVE  /\ Claims[u] = ConvertToAssets(shares[u]) /\ Claims[u] \in Nat
             /\ Claims[u] * (s + 1) <= shares[u] * a
  <2>1. PICK x \in Nat : x = shares[u] * a
    BY <1>2
  <2>2. Claims[u] = x \div (s + 1)
    BY <1>1, <2>1 DEF Claims, ConvertToAssets
  <2> QED
    BY <2>1, <2>2, DivBounds DEF Claims
<1>4. PICK c \in Nat : c = SumFunctionOnSet(Claims, Users)
  BY <1>2, <1>3, SumNat
<1>5. c * (s + 1) <= s * a
  <2>1. PICK n \in Nat : n = s + 1
    OBVIOUS
  <2>2. /\ \A u \in Users : Claims[u] \in Nat /\ shares[u] \in Nat
        /\ \A u \in Users : Claims[u] * n <= shares[u] * a
    BY <1>2, <1>3, <2>1
  <2>3. SumFunctionOnSet(Claims, Users) * n <= SumFunctionOnSet(shares, Users) * a
    BY <1>2, <2>2, SumRatio
  <2> QED
    BY <1>1, <1>4, <2>1, <2>3 DEF ShareInv
<1>6. c < a
  <2>1. SUFFICES ASSUME c >= a PROVE FALSE
    OBVIOUS
  <2>2. a * (s + 1) <= c * (s + 1)
    BY <2>1
  <2>3. a * (s + 1) = s * a + a
    OBVIOUS
  <2>4. a > 0
    BY <1>1, TotalNat
  <2> QED
    BY <1>5, <2>2, <2>3, <2>4
<1>7. c <= TotalAssets
  BY <1>1, <1>6, TotalNat
<1>8. ASSUME NEW u \in Users PROVE Claims[u] <= c
  BY <1>2, <1>3, <1>4, SumBounds
<1>9. ASSUME NEW u \in Users PROVE ConvertToAssets(shares[u]) <= TotalAssets
  BY <1>3, <1>7, <1>8, TotalNat
<1> QED
  BY <1>4, <1>7, <1>9

\* The vault never owes more than its net asset value, for any number of holders and
\* whatever was rounded on the way. So a redemption that is refused is refused for
\* want of idle asset alone: as long as no position is worth anything, "users must
\* always be able to exit" of VelaVault.sol is true, the halt notwithstanding.
THEOREM ClaimsAreCovered ==
  FundSpec => []( /\ SumFunctionOnSet(Claims, Users) <= TotalAssets
                  /\ TotalAssets = held[Asset] => AlwaysExit )
<1>1. FundInv /\ ShareInv => /\ SumFunctionOnSet(Claims, Users) <= TotalAssets
                             /\ TotalAssets = held[Asset] => AlwaysExit
  BY ClaimsBounded DEF AlwaysExit
<1> QED
  BY <1>1, FundInvariant, ShareInvariant, PTL
-----------------------------------------------------------------------------
(* The registry, as the fund uses it.                                      *)

\* A step of the fund calls the registry, or leaves it alone.
LEMMA FundCallsRegistry == [FundNext]_fundVars => [Bodies!Next]_(Bodies!registryVars)
<1> SUFFICES ASSUME [FundNext]_fundVars PROVE [Bodies!Next]_(Bodies!registryVars)
  OBVIOUS
<1>1. CASE UNCHANGED registryVars
  BY <1>1 DEF registryVars, Bodies!registryVars
<1> QED
  BY <1>1, RegistryStepIsCall DEF FundNext, UserStep, OwnerStep, SyncStep, OperatorStep,
                                  SwapStep, WorldStep, fundVars

\* The vault and its hook read a registry that behaves as the registry alone does:
\* the policy under which capital moves is never replaced, and an agent is halted
\* and resumed as AgentStanding says.
THEOREM FundKeepsCommitments ==
  FundSpec => Bodies!Spec /\ Bodies!CommitmentFixed /\ Bodies!ImplementsStanding
<1>1. FundInit => Bodies!Init
  BY DEF FundInit, Registry!Init, Registry!NoPolicy, Bodies!Init, Bodies!NoPolicy
<1>2. FundSpec => Bodies!Spec
  BY <1>1, FundCallsRegistry, PTL DEF FundSpec, Bodies!Spec
<1> QED
  BY <1>2, SameAssumption, Bodies!CommitmentNeverReplaced, Bodies!RegistryImplementsStanding,
     PTL
=============================================================================
