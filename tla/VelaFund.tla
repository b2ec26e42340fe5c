------------------------------ MODULE VelaFund ------------------------------
(***************************************************************************)
(* The capital of one vault under the policy of its agent: VelaVault with  *)
(* the hook it trusts and the registry both of them read. Users come and   *)
(* go, the agent trades and keeps its lists, the owners configure and      *)
(* halt, prices and hours pass. One transaction is one step: a swap runs   *)
(* through the vault, the pool manager, the hook and back.                 *)
(*                                                                         *)
(* The registry is PolicyRegistry without the recording of outcomes: what  *)
(* the fund sees of outcomes is the halt, and TriggerCircuitBreaker by an  *)
(* authorized account (the attestation contract is one) stands for it.     *)
(***************************************************************************)
EXTENDS VelaVault

CONSTANTS
  Accounts, Agents, RegistryOwner, NoAccount, PolicyRoots, NoRoot,
  TierInputs, HourInputs,
  MaxComplianceScore, AutoBreakScore, AutoBreakMinDecisions, MaxDecisions,
  Executors, MaxSqrtPrice, UsdcScalar, BaseScalar, TierMaxUsdc,
  Vault,           \* the vault's address
  Hours,           \* the hours of the day that are told apart
  AssetInputs,     \* the asset amounts users name
  ShareInputs,     \* the share amounts users name
  SwapInputs,      \* the amounts the agent swaps
  SqrtPrices,      \* the prices pools reach
  Shortfalls       \* by how much a fill is short of the pool's spot price

VARIABLES
  policies, decisionRecorders, circuitBreakers,   \* PolicyRegistry
  allowedPools, trustedExecutors,                 \* VelaHook
  hour                                            \* the UTC hour of the block

Registry == INSTANCE PolicyRegistry
Hook == INSTANCE VelaHook WITH NoExecutor <- NoAccount

ASSUME FundAssumption ==
  /\ Registry!RegistryAssumption
  /\ Hook!HookAssumption
  /\ VaultAgent \in Agents
  /\ VaultOwner \in Accounts
  /\ Vault \in Executors
  /\ Hours \subseteq 0 .. 23
  /\ AssetInputs \subseteq Nat /\ ShareInputs \subseteq Nat /\ SwapInputs \subseteq Nat
  /\ SqrtPrices \subseteq Nat \ {0} /\ Shortfalls \subseteq Nat

registryVars == <<policies, decisionRecorders, circuitBreakers>>
hookVars == <<allowedPools, trustedExecutors>>
fundVars == <<vaultVars, registryVars, hookVars, hour>>

Policy == policies[VaultAgent]
Halted == Registry!CircuitBreakerTriggered(VaultAgent)
-----------------------------------------------------------------------------
(* The transactions and events.                                            *)

UserStep ==
  /\ \E u \in Users :
       \/ \E assets \in AssetInputs : Deposit(u, assets, Halted) \/ Withdraw(u, assets, Halted)
       \/ \E amount \in ShareInputs : Mint(u, amount, Halted) \/ Redeem(u, amount, Halted)
       \/ Redeem(u, shares[u], Halted)
       \/ \E to \in Users, amount \in ShareInputs : Transfer(u, to, amount, Halted)
  /\ UNCHANGED <<registryVars, hookVars, hour>>

OwnerStep ==
  /\ \E sender \in Accounts :
       \/ \E k \in PositionKeys : AddPosition(sender, k)
       \/ \E hook \in Hooks : SetTrustedHook(sender, hook)
  /\ UNCHANGED <<registryVars, hookVars, hour>>

SyncStep ==
  /\ \E k \in PositionKeys : SyncPositionBalance(k)
  /\ UNCHANGED <<registryVars, hookVars, hour>>

RegistryStep ==
  /\ \/ \E root \in PolicyRoots, tier \in TierInputs, start, end \in HourInputs :
          Registry!RegisterAgent(VaultAgent, root, tier, start, end)
     \/ \E sender \in Accounts :
          \/ Registry!TriggerCircuitBreaker(sender, VaultAgent)
          \/ Registry!ResumeAgent(sender, VaultAgent)
          \/ \E start, end \in HourInputs :
               Registry!SetTradingHours(sender, VaultAgent, start, end)
  /\ UNCHANGED <<vaultVars, hookVars, hour>>

OperatorStep ==
  /\ \E sender \in Accounts :
       \/ \E listed \in SUBSET Pools : \E allowed \in [listed -> BOOLEAN] :
            Hook!SetAllowedPools(sender, VaultAgent, Policy, allowed)
       \/ \E executor \in Executors : Hook!SetAgentExecutor(sender, VaultAgent, Policy, executor)
  /\ UNCHANGED <<vaultVars, registryVars, hour>>

\* What the hook answers when the pool manager asks it about the vault's swap.
Admitted(params) ==
  Hook!Admits(VaultAgent, Policy, Halted, Registry!IsActive(VaultAgent), Vault, hour,
              params.pool, sqrtPrice[params.pool], params.zeroForOne, params.amountIn)

\* The agent derives its slippage limit from a price it read some time before.
Limits(pool, zeroForOne, amount) ==
  {ValueInAssetUnits(price, amount, zeroForOne) : price \in SqrtPrices}

SwapStep ==
  /\ \E pool \in Pools, zeroForOne \in BOOLEAN, amountIn, paid \in SwapInputs,
        shortfall \in Shortfalls, price \in SqrtPrices :
       \E minAmountOut \in Limits(pool, zeroForOne, amountIn) :
         LET params == [pool |-> pool, zeroForOne |-> zeroForOne, amountIn |-> amountIn,
                        minAmountOut |-> minAmountOut]
             fill == [paid |-> paid, got |-> AtSpot(pool, zeroForOne, paid) - shortfall]
         IN /\ fill.got >= 0
            /\ FillFor(params, fill)
            /\ ExecuteHookSwap(VaultAgent, params, fill, price, Halted, Admitted(params))
  /\ UNCHANGED <<registryVars, hookVars, hour>>

WorldStep ==
  \/ /\ \E pool \in Pools, price \in SqrtPrices : MovePrice(pool, price)
     /\ UNCHANGED <<registryVars, hookVars, hour>>
  \/ /\ hour' \in Hours
     /\ UNCHANGED <<vaultVars, registryVars, hookVars>>

FundInit ==
  /\ VaultInit
  /\ Registry!Init
  /\ Hook!HookInit
  /\ hour \in Hours

FundNext ==
  \/ UserStep \/ OwnerStep \/ SyncStep \/ RegistryStep \/ OperatorStep
  \/ SwapStep \/ WorldStep

FundSpec == FundInit /\ [][FundNext]_fundVars
-----------------------------------------------------------------------------
(* What the fund guarantees.                                               *)

VaultTypeOK ==
  /\ wallet \in [Users -> Nat] /\ shares \in [Users -> Nat] /\ totalSupply \in Int
  /\ held \in [Tokens -> Nat] /\ reserve \in [Tokens -> Nat]
  /\ positions \in [PositionKeys -> Nat \cup {Unconfigured}]
  /\ supportedSwapToken = {Asset} \cup {k.token : k \in Configured}
  /\ trustedHook \in Hooks \cup {NoHook}
  /\ sqrtPrice \in [Pools -> Nat]

HookTypeOK ==
  /\ allowedPools \in [Agents -> SUBSET Pools]
  /\ trustedExecutors \in [Agents -> Executors \cup {NoAccount}]

\* Every variable stays within its type, and the tokens the vault swaps are the asset
\* and the tokens of its positions.
FundTypeOK == VaultTypeOK /\ HookTypeOK /\ hour \in Hours /\ Registry!TypeOK

\* While the agent is halted nobody gains a share, nothing is traded, and the agent
\* cannot prepare a trade either: its allowlist and executor stand still.
HaltFreezes ==
  [][Halted =>
       /\ \A u \in Users : shares'[u] <= shares[u]
       /\ \A t \in Tokens \ {Asset} : held'[t] = held[t]
       /\ held'[Asset] <= held[Asset]
       /\ hookVars' = hookVars]_fundVars

\* Whatever moves a position of the vault is a trade of an active agent, in the
\* window it is committed to, in a pool its operator allowed, through the vault.
\* An agent that never registered passes the vault's own check and trades nothing.
TradesInPolicy ==
  [][(\E t \in Tokens \ {Asset} : held'[t] # held[t]) =>
       /\ Registry!IsActive(VaultAgent)
       /\ Registry!IsWithinTradingHours(VaultAgent, hour)
       /\ trustedExecutors[VaultAgent] = Vault
       /\ \E pool \in allowedPools[VaultAgent] :
            \A t \in Tokens : held'[t] # held[t] => t \in {Currency0[pool], Currency1[pool]}
    ]_fundVars

\* No deposit, withdrawal, transfer, sync or configuration lowers what a share is
\* worth: whatever the others do, only trades and prices move a holder's claim.
NobodyDiluted ==
  [][sqrtPrice' = sqrtPrice /\ reserve' = reserve =>
       (TotalAssets' + 1) * (totalSupply + 1) >= (TotalAssets + 1) * (totalSupply' + 1)]_fundVars

\* The vault never holds what its net asset value leaves out: a token it can come to
\* hold by trading has a position, priced by an initialised pool.
NothingUnpriced ==
  \A t \in Tokens \ {Asset} :
    held[t] > 0 => \E k \in Configured : k.token = t /\ sqrtPrice[k.pool] # 0

\* VelaVault.sol: "users must always be able to exit". A holder's redemption of all
\* its shares is paid.
AlwaysExit ==
  \A u \in Users : ConvertToAssets(shares[u]) <= held[Asset]

\* VelaHook.sol: "Swap's USDC value does not exceed the agent's tier ceiling". What
\* a trade takes out of a position is worth no more than that, at the price at which
\* the vault itself values the position.
TradesUnderCeiling ==
  [][\A k \in Configured :
       ValueInAssetUnits(sqrtPrice[k.pool], held[k.token] - held'[k.token], k.tokenIsCurrency0)
         <= Hook!Ceiling(Policy.tier)]_fundVars
=============================================================================
