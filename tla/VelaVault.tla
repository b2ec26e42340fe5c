----------------------------- MODULE VelaVault -----------------------------
(***************************************************************************)
(* contracts/src/VelaVault.sol: the capital of one vault. Users deposit    *)
(* the asset and hold shares; the agent swaps the vault's tokens; the net  *)
(* asset value is the idle asset plus every configured position at its     *)
(* pool's spot price. The vault's decision feed is DecisionFeed.           *)
(*                                                                         *)
(* `halted` is registry.circuitBreakerTriggered(agent), and `admitted` the *)
(* answer of the hook. The ERC-4626 arithmetic is OpenZeppelin's, with one *)
(* virtual share and one virtual asset.                                    *)
(***************************************************************************)
EXTENDS Integers, FiniteSets, FiniteSetsExt

CONSTANTS
  Users,           \* the holders of the asset and of shares
  VaultAgent,      \* `agent`
  VaultOwner,      \* `owner`, the deployer
  Asset,           \* asset()
  Tokens,          \* the ERC-20 tokens, the asset among them
  Pools,           \* the initialised or later initialised pools
  Currency0,       \* Currency0[pool], Currency1[pool]: the tokens of a pool
  Currency1,
  PoolHook,        \* PoolHook[pool]: the hook in the pool's key
  Hooks,           \* the hooks the owner may trust
  NoHook,          \* address(0)
  PositionKeys,    \* the positions the owner may register
  Q96,             \* the fixed-point unit of a square root price
  Endowment,       \* Endowment[u]: the asset user u starts with
  Liquidity,       \* Liquidity[token]: what the pools hold at the start
  MaxShares        \* bound: the shares there are at once

ASSUME VaultAssumption ==
  /\ Asset \in Tokens /\ IsFiniteSet(Tokens)
  /\ Currency0 \in [Pools -> Tokens] /\ Currency1 \in [Pools -> Tokens]
  /\ \A pool \in Pools : Currency0[pool] # Currency1[pool]
  /\ NoHook \notin Hooks
  /\ PositionKeys \subseteq [pool : Pools, token : Tokens, tokenIsCurrency0 : BOOLEAN]
  /\ IsFiniteSet(PositionKeys) /\ IsFiniteSet(Users)
  /\ Q96 \in Nat \ {0}
  /\ Endowment \in [Users -> Nat]
  /\ Liquidity \in [Tokens -> Nat]
  /\ MaxShares \in Nat

VARIABLES
  wallet,        \* wallet[u]: the asset user u holds
  shares,        \* shares[u]: balanceOf(u)
  totalSupply,   \* the shares there are
  held,          \* held[token]: token.balanceOf(vault)
  positions,     \* positions[key]: the last synced balance, or Unconfigured
  supportedSwapToken,  \* the tokens the vault swaps
  trustedHook,
  sqrtPrice,     \* sqrtPrice[pool]: slot0 of the pool, 0 before it is initialised
  reserve        \* reserve[token]: what the pools hold

shareVars == <<wallet, shares, totalSupply>>
configVars == <<positions, supportedSwapToken, trustedHook>>
marketVars == <<sqrtPrice, reserve>>
vaultVars == <<shareVars, held, configVars, marketVars>>

Unconfigured == -1

Configured == {k \in PositionKeys : positions[k] # Unconfigured}

VaultInit ==
  /\ wallet = Endowment
  /\ shares = [u \in Users |-> 0] /\ totalSupply = 0
  /\ held = [t \in Tokens |-> 0]
  /\ positions = [k \in PositionKeys |-> Unconfigured]
  /\ supportedSwapToken = {Asset}
  /\ trustedHook = NoHook
  /\ sqrtPrice = [pool \in Pools |-> 0]
  /\ reserve = Liquidity
-----------------------------------------------------------------------------
(* Value.                                                                  *)

\* _valueInAssetUnits: the price is applied as its square root, twice, and each
\* application rounds down.
ValueInAssetUnits(price, amount, tokenIsCurrency0) ==
  IF price = 0 \/ amount = 0 THEN 0
  ELSE IF tokenIsCurrency0 THEN (((amount * price) \div Q96) * price) \div Q96
  ELSE (((amount * Q96) \div price) * Q96) \div price

\* Mutant of PositionBalance: the stored snapshot is used.
PositionBalanceSynced(k, balances) == positions[k]

\* Net asset value reads the live balance, not the stored one.
PositionBalance(k, balances) == balances[k.token]

TotalAssetsAt(prices, balances) ==
  balances[Asset] + SumFunction([k \in Configured |->
    ValueInAssetUnits(prices[k.pool], PositionBalance(k, balances), k.tokenIsCurrency0)])

TotalAssets == TotalAssetsAt(sqrtPrice, held)

CeilDiv(a, b) == (a + b - 1) \div b

\* ERC4626._convertToShares and _convertToAssets, rounded down.
ConvertToShares(assets) == (assets * (totalSupply + 1)) \div (TotalAssets + 1)
ConvertToAssets(amount) == (amount * (TotalAssets + 1)) \div (totalSupply + 1)
-----------------------------------------------------------------------------
(* Shares.                                                                 *)

\* Mutant of MayUpdate: with the breaker tripped only transfers are stopped.
MayUpdateMint(kind, halted) == kind # "transfer" \/ ~halted

\* _update: with the breaker tripped only burns pass. transfer and transferFrom
\* make the same check once more.
MayUpdate(kind, halted) == kind = "burn" \/ ~halted

\* What _deposit moves. Amounts are unsigned, in the code by their type.
TakeIn(u, assets, minted, halted) ==
  /\ {assets, minted} \subseteq Nat
  /\ MayUpdate("mint", halted)
  /\ assets <= wallet[u]
  /\ totalSupply + minted <= MaxShares   \* bound, not in the code
  /\ wallet' = [wallet EXCEPT ![u] = @ - assets]
  /\ held' = [held EXCEPT ![Asset] = @ + assets]
  /\ shares' = [shares EXCEPT ![u] = @ + minted]
  /\ totalSupply' = totalSupply + minted
  /\ UNCHANGED <<configVars, marketVars>>

Deposit(u, assets, halted) == TakeIn(u, assets, ConvertToShares(assets), halted)

\* mint(): the price of the shares is rounded up.
Mint(u, amount, halted) ==
  TakeIn(u, CeilDiv(amount * (TotalAssets + 1), totalSupply + 1), amount, halted)

\* The asset that is paid out is the idle asset: a payment beyond it reverts.
PayOut(u, assets, burnt, halted) ==
  /\ {assets, burnt} \subseteq Nat
  /\ MayUpdate("burn", halted)
  /\ burnt <= shares[u] /\ assets <= held[Asset]
  /\ shares' = [shares EXCEPT ![u] = @ - burnt]
  /\ totalSupply' = totalSupply - burnt
  /\ held' = [held EXCEPT ![Asset] = @ - assets]
  /\ wallet' = [wallet EXCEPT ![u] = @ + assets]
  /\ UNCHANGED <<configVars, marketVars>>

\* withdraw(): the shares burnt are rounded up.
Withdraw(u, assets, halted) ==
  /\ assets <= ConvertToAssets(shares[u])
  /\ PayOut(u, assets, CeilDiv(assets * (totalSupply + 1), TotalAssets + 1), halted)

Redeem(u, amount, halted) ==
  PayOut(u, ConvertToAssets(amount), amount, halted)

\* transfer and transferFrom.
Transfer(from, to, amount, halted) ==
  /\ from # to
  /\ amount <= shares[from]
  /\ MayUpdate("transfer", halted)
  /\ shares' = [shares EXCEPT ![from] = @ - amount, ![to] = @ + amount]
  /\ UNCHANGED <<wallet, totalSupply, held, configVars, marketVars>>
-----------------------------------------------------------------------------
(* Configuration.                                                          *)

\* Mutant of AddPosition: the token is not supported for swaps.
AddPositionUnsupported(sender, k) ==
  /\ sender = VaultOwner
  /\ k.token # Asset
  /\ sqrtPrice[k.pool] # 0
  /\ positions[k] = Unconfigured
  /\ positions' = [positions EXCEPT ![k] = held[k.token]]
  /\ UNCHANGED <<shareVars, held, supportedSwapToken, trustedHook, marketVars>>

AddPosition(sender, k) ==
  /\ sender = VaultOwner
  /\ k.token # Asset
  /\ sqrtPrice[k.pool] # 0
  /\ positions[k] = Unconfigured
  /\ positions' = [positions EXCEPT ![k] = held[k.token]]
  /\ supportedSwapToken' = supportedSwapToken \cup {k.token}
  /\ UNCHANGED <<shareVars, held, trustedHook, marketVars>>

\* Anybody may call it.
SyncPositionBalance(k) ==
  /\ positions[k] # Unconfigured
  /\ positions' = [positions EXCEPT ![k] = held[k.token]]
  /\ UNCHANGED <<shareVars, held, supportedSwapToken, trustedHook, marketVars>>

SetTrustedHook(sender, hook) ==
  /\ sender = VaultOwner
  /\ hook # NoHook
  /\ trustedHook' = hook
  /\ UNCHANGED <<shareVars, held, positions, supportedSwapToken, marketVars>>
-----------------------------------------------------------------------------
(* Trading.                                                                *)

Input(pool, zeroForOne) == IF zeroForOne THEN Currency0[pool] ELSE Currency1[pool]
Output(pool, zeroForOne) == IF zeroForOne THEN Currency1[pool] ELSE Currency0[pool]

\* What `amount` of the input is worth in the output at the pool's price.
AtSpot(pool, zeroForOne, amount) ==
  ValueInAssetUnits(sqrtPrice[pool], amount, zeroForOne)

\* Mutant of Supported: any two currencies of a pool pass.
SupportedAny(tokens) == TRUE

\* _requireSupportedCurrency, of the currencies of a swap.
Supported(tokens) == tokens \subseteq supportedSwapToken

\* executeHookSwap and unlockCallback. The pool takes at most the input, for the
\* price limit may stop it, and moves its price: `fill` is what it answers.
ExecuteHookSwap(sender, params, fill, price, halted, admitted) ==
  LET in == Input(params.pool, params.zeroForOne)
      out == Output(params.pool, params.zeroForOne)
  IN /\ sender = VaultAgent
     /\ ~halted
     /\ trustedHook # NoHook
     /\ PoolHook[params.pool] = trustedHook
     /\ Supported({in, out})
     /\ params.amountIn # 0
     /\ admitted
     /\ fill.paid <= held[in]
     /\ fill.got >= params.minAmountOut
     /\ held' = [held EXCEPT ![in] = @ - fill.paid, ![out] = @ + fill.got]
     /\ reserve' = [reserve EXCEPT ![in] = @ + fill.paid, ![out] = @ - fill.got]
     /\ sqrtPrice' = [sqrtPrice EXCEPT ![params.pool] = price]
     /\ UNCHANGED <<shareVars, configVars>>

\* The fills the pool may give: never better than its spot price.
FillFor(params, fill) ==
  /\ sqrtPrice[params.pool] # 0
  /\ fill.paid <= params.amountIn
  /\ fill.got <= AtSpot(params.pool, params.zeroForOne, fill.paid)
  /\ fill.got <= reserve[Output(params.pool, params.zeroForOne)]

\* The pool is initialised, or somebody else trades in it.
MovePrice(pool, price) ==
  /\ price # 0
  /\ sqrtPrice' = [sqrtPrice EXCEPT ![pool] = price]
  /\ UNCHANGED <<shareVars, held, configVars, reserve>>
=============================================================================
