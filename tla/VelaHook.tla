------------------------------ MODULE VelaHook ------------------------------
(***************************************************************************)
(* contracts/src/hooks/VelaHook.sol: the Uniswap v4 hook that admits or    *)
(* refuses every swap of the pools it is installed in. It keeps an         *)
(* allowlist of pools and one trusted executor per agent; everything else  *)
(* it reads: the agent's policy from the registry, the price from the pool *)
(* and the hour from the block.                                            *)
(*                                                                         *)
(* A policy `p` is what registry.getPolicy returned, and `halted` and      *)
(* `active` are the answers of the registry's two other views.             *)
(***************************************************************************)
EXTENDS Integers

CONSTANTS
  Agents,          \* the agents that may be registered
  Executors,       \* the addresses that call PoolManager.swap
  NoExecutor,      \* address(0)
  Pools,           \* the pools the hook is installed in
  Q96,             \* the fixed-point unit of a pool's square root price
  MaxSqrtPrice,    \* the cap on the square root price, type(uint128).max
  UsdcScalar,      \* USDC_DECIMALS_SCALAR
  BaseScalar,      \* BASE_TOKEN_DECIMALS_SCALAR
  TierMaxUsdc      \* TierMaxUsdc[tier]: maxValuePerTxUsdc, in whole USDC

\* What a deployment's constants satisfy; the module that composes the hook with
\* a vault and a registry assumes it.
HookAssumption ==
  /\ NoExecutor \notin Executors
  /\ Q96 \in Nat /\ UsdcScalar \in Nat \ {0} /\ UsdcScalar <= Q96 * Q96
  /\ BaseScalar \in Nat \ {0} /\ MaxSqrtPrice \in Nat
  /\ TierMaxUsdc \in [0 .. 3 -> Nat]

VARIABLES
  allowedPools,      \* allowedPools[a]: the pools agent a may trade in
  trustedExecutors   \* trustedExecutors[a]: the one caller that trades for a

hookVars == <<allowedPools, trustedExecutors>>

HookInit ==
  /\ allowedPools = [a \in Agents |-> {}]
  /\ trustedExecutors = [a \in Agents |-> NoExecutor]

Bounded(sqrtPrice) == IF sqrtPrice > MaxSqrtPrice THEN MaxSqrtPrice ELSE sqrtPrice

\* _sqrtPriceToUsdc: both divisions round down, the first one before the amount
\* comes in.
SqrtPriceToUsdc(sqrtPrice, amount) ==
  LET pricePerFullToken ==
        (Bounded(sqrtPrice) * Bounded(sqrtPrice)) \div ((Q96 * Q96) \div UsdcScalar)
  IN (amount * pricePerFullToken) \div BaseScalar

\* The hook's value of an exact-input swap: an input of currency1 is taken for USDC.
SwapValue(sqrtPrice, zeroForOne, amountIn) ==
  IF zeroForOne THEN SqrtPriceToUsdc(sqrtPrice, amountIn) ELSE amountIn

Ceiling(tier) == TierMaxUsdc[tier] * UsdcScalar

\* Mutant of InTradingHours: the closing hour still trades.
InTradingHoursInclusive(p, hour) ==
  hour >= p.activeHoursStartUtc /\ hour <= p.activeHoursEndUtc

InTradingHours(p, hour) ==
  hour >= p.activeHoursStartUtc /\ hour < p.activeHoursEndUtc

\* beforeSwap: may `sender` make this swap for the agent of the hook data?
Admits(a, p, halted, active, sender, hour, pool, sqrtPrice, zeroForOne, amountIn) ==
  /\ ~halted
  /\ active
  /\ sender = trustedExecutors[a]
  /\ InTradingHours(p, hour)
  /\ pool \in allowedPools[a]
  /\ SwapValue(sqrtPrice, zeroForOne, amountIn) <= Ceiling(p.tier)

\* getPolicy reverts for an agent that is not registered: nobody is its operator.
IsOperator(sender, p) == sender = p.operator /\ p.active

\* The two arrays of the call are one function here: of a pool that is listed
\* twice the last flag stays.
SetAllowedPools(sender, a, p, allowed) ==
  /\ IsOperator(sender, p)
  /\ allowedPools' = [allowedPools EXCEPT ![a] =
       {pool \in Pools : IF pool \in DOMAIN allowed THEN allowed[pool] ELSE pool \in @}]
  /\ UNCHANGED trustedExecutors

SetAgentExecutor(sender, a, p, executor) ==
  /\ executor # NoExecutor
  /\ IsOperator(sender, p)
  /\ trustedExecutors' = [trustedExecutors EXCEPT ![a] = executor]
  /\ UNCHANGED allowedPools
=============================================================================
