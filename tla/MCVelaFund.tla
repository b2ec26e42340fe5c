----------------------------- MODULE MCVelaFund -----------------------------
(***************************************************************************)
(* A small instance of VelaFund: two users, one pool of a volatile token   *)
(* against the asset, priced one to four or one to one. The fixed-point    *)
(* units are scaled down together: a whole unit of the asset is 4 of its   *)
(* smallest units and a whole unit of the token is 4 * 4 * 4, as 10^6 and  *)
(* 10^18 are for USDC and an 18-decimal token.                             *)
(***************************************************************************)
EXTENDS VelaFund, TLC

CONSTANTS alice, bob, agent, deployer, vault, none, root, zeroRoot,
          usd, eth, main, velaHook, noHook

MCCurrency0 == [pool \in Pools |-> eth]
MCCurrency1 == [pool \in Pools |-> usd]
MCPoolHook == [pool \in Pools |-> velaHook]
MCPositionKeys == {[pool |-> main, token |-> eth, tokenIsCurrency0 |-> TRUE]}
MCEndowment == [u \in Users |-> 2]
MCLiquidity == [t \in Tokens |-> IF t = usd THEN 2 ELSE 8]
MCDeepLiquidity == [t \in Tokens |-> 8]

UsersAlike == Permutations(Users)

MCTierMaxUsdc == [tier \in 0 .. 3 |-> IF tier = 0 THEN 1 ELSE 100]
=============================================================================
