--------------------------- MODULE PolicyCompiler ---------------------------
(***************************************************************************)
(* policy-engine/src and api/policy/compile: an answer of the language     *)
(* model becomes clamped constraints, the conflicts among them, a Merkle   *)
(* tree over them and a tier.                                              *)
(*                                                                         *)
(* Numbers come from the model's JSON and need not be whole: every number  *)
(* is an integer count of halves until it is rounded. The explanation and  *)
(* the messages are text and left out.                                     *)
(***************************************************************************)
EXTENDS Integers, Sequences, FiniteSets

CONSTANTS
  NaNumber,      \* a field that is missing, not a number or not finite
  PoolId,        \* the only pool of POOL_IDS, MOCK_USDC_USDT_V4
  FallbackPool   \* ETH_USDC_V4, what sanitizePools falls back to

ASSUME CompilerAssumption == NaNumber \notin Int /\ PoolId # FallbackPool

Halves == Int \cup {NaNumber}

\* The whole, in basis points: the upper bound of the two shares.
AllBps == 10000

\* What parseModelJson returns: the model may have answered anything.
ParseToolInput ==
  [ max_allocation_per_pool_bps : Halves, stop_loss_bps : Halves,
    active_hours_start_utc : Halves, active_hours_end_utc : Halves,
    max_value_per_tx_usdc : Halves,
    allowed_pools : Seq(STRING), risk_profile : STRING,
    estimated_apy_min : Halves, estimated_apy_max : Halves ]

\* What the clamps are to make of it.
PolicyConstraints ==
  [ max_allocation_per_pool_bps : 100 .. AllBps, stop_loss_bps : 100 .. AllBps,
    active_hours_start_utc : 0 .. 23, active_hours_end_utc : 1 .. 24,
    allowed_pools : Seq({PoolId, FallbackPool}) \ {<< >>},
    max_value_per_tx_usdc : {v \in Int : v >= 2 * 100},
    risk_profile : {"conservative", "moderate", "aggressive"} ]
-----------------------------------------------------------------------------
(* nlp.ts: from an untrusted answer to constraints.                        *)

ToFiniteNumber(value, fallback) == IF value = NaNumber THEN fallback ELSE value

\* Math.round of a number of halves.
Round(h) == (h + 1) \div 2

\* Mutant of ClampNumber: the lower bound serves as fallback only.
ClampNumberAbove(value, min, max) ==
  LET x == Round(ToFiniteNumber(value, 2 * min)) IN IF x > max THEN max ELSE x

\* clampNumber: what is not a number becomes the lower bound.
ClampNumber(value, min, max) ==
  LET x == Round(ToFiniteNumber(value, 2 * min))
  IN IF x < min THEN min ELSE IF x > max THEN max ELSE x

\* sanitizePools keeps the known pools, with their repetitions: the only one that is
\* known, as often as it was named.
SanitizePools(pools) ==
  LET filtered == Cardinality({k \in 1 .. Len(pools) : pools[k] = PoolId})
  IN IF filtered = 0 THEN <<FallbackPool>> ELSE [k \in 1 .. filtered |-> PoolId]

SanitizeRiskProfile(value) ==
  IF value \in {"moderate", "aggressive"} THEN value ELSE "conservative"

\* max_value_per_tx_usdc is neither rounded nor bounded from above: it stays
\* in halves, the other fields are whole.
ParseIntent(input) ==
  [ max_allocation_per_pool_bps |->
      ClampNumber(input.max_allocation_per_pool_bps, 100, AllBps),
    stop_loss_bps |-> ClampNumber(input.stop_loss_bps, 100, AllBps),
    active_hours_start_utc |-> ClampNumber(input.active_hours_start_utc, 0, 23),
    active_hours_end_utc |-> ClampNumber(input.active_hours_end_utc, 1, 24),
    allowed_pools |-> SanitizePools(input.allowed_pools),
    max_value_per_tx_usdc |->
      LET v == ToFiniteNumber(input.max_value_per_tx_usdc, 2 * 10000)
      IN IF v < 2 * 100 THEN 2 * 100 ELSE v,
    risk_profile |-> SanitizeRiskProfile(input.risk_profile) ]

EstimatedApyRange(input) ==
  << ClampNumber(input.estimated_apy_min, 0, 100),
     ClampNumber(input.estimated_apy_max, 0, 100) >>
-----------------------------------------------------------------------------
(* conflict-detector.ts: one rule per line of CHECKS, code |-> condition.  *)

IsAggressive(c) == c.risk_profile = "aggressive"
IsConservative(c) == c.risk_profile = "conservative"

StablePools == {FallbackPool, "ETH_USDT_V4"}

Checks(c) ==
  [ INVALID_ACTIVE_HOURS |-> c.active_hours_start_utc >= c.active_hours_end_utc,
    NO_ALLOWED_POOLS |-> c.allowed_pools = << >>,
    AGGRESSIVE_TIGHT_STOP |-> IsAggressive(c) /\ c.stop_loss_bps < 500,
    STOP_LOSS_TOO_TIGHT |-> c.stop_loss_bps < 100,
    AGGRESSIVE_LOW_DRAWDOWN |-> IsAggressive(c) /\ c.stop_loss_bps < 1000,
    LIMITED_TRADING_HOURS |->
      /\ c.active_hours_end_utc - c.active_hours_start_utc < 4
      /\ ~IsConservative(c),
    CONSERVATIVE_HIGH_CONCENTRATION |->
      IsConservative(c) /\ c.max_allocation_per_pool_bps > 5000,
    STOP_LOSS_TIGHT_RELATIVE_TO_ALLOCATION |->
      /\ 10 * c.stop_loss_bps < c.max_allocation_per_pool_bps
      /\ c.max_allocation_per_pool_bps > 2000,
    AGGRESSIVE_STABLE_ONLY |->
      /\ IsAggressive(c)
      /\ \A k \in 1 .. Len(c.allowed_pools) : c.allowed_pools[k] \in StablePools,
    HIGH_TX_VALUE_CONSERVATIVE |->
      IsConservative(c) /\ c.max_value_per_tx_usdc > 2 * 50000,
    FULL_HOURS_AGGRESSIVE |->
      /\ IsAggressive(c)
      /\ c.active_hours_start_utc = 0 /\ c.active_hours_end_utc = 24 ]

Errors == {"INVALID_ACTIVE_HOURS", "NO_ALLOWED_POOLS", "AGGRESSIVE_TIGHT_STOP",
           "STOP_LOSS_TOO_TIGHT"}

Conflicts(c) == {code \in DOMAIN Checks(c) : Checks(c)[code]}

Valid(c) == Conflicts(c) \cap Errors = {}
-----------------------------------------------------------------------------
(* merkle.ts: the hash is collision free, and sortPairs makes the order of *)
(* two children immaterial. A leaf is hashed twice, so it is no node.      *)

\* A leaf's label is a field, or a pool with its place among the pools.
EncodeLeaf(label, place, value) == [label |-> label, place |-> place, value |-> value]
HashPair(a, b) == [children |-> {a, b}]

Leaves(c) ==
  << EncodeLeaf("max_allocation_per_pool_bps", 0, c.max_allocation_per_pool_bps),
     EncodeLeaf("stop_loss_bps", 0, c.stop_loss_bps),
     EncodeLeaf("active_hours_start_utc", 0, c.active_hours_start_utc),
     EncodeLeaf("active_hours_end_utc", 0, c.active_hours_end_utc),
     EncodeLeaf("max_value_per_tx_usdc", 0, c.max_value_per_tx_usdc \div 2) >>
  \o [k \in 1 .. Len(c.allowed_pools) |-> EncodeLeaf(c.allowed_pools[k], k, 0)]

\* The layer above: neighbours are paired, an odd last one is passed up as it is.
Layer(nodes) ==
  [k \in 1 .. (Len(nodes) + 1) \div 2 |->
     IF 2 * k > Len(nodes) THEN nodes[2 * k - 1]
     ELSE HashPair(nodes[2 * k - 1], nodes[2 * k])]

\* layers[1] are the leaves; the last layer of n leaves is at most the n-th.
Layers(leaves) ==
  LET layers[k \in 1 .. Len(leaves)] ==
        IF k = 1 THEN leaves ELSE Layer(layers[k - 1])
  IN layers

Root(leaves) == Layers(leaves)[Len(leaves)][1]

\* getHexProof: the sibling in every layer that pairs the node, from below.
Sibling(k) == IF k % 2 = 1 THEN k + 1 ELSE k - 1

\* Mutant of Proof: an odd last node gets itself as sibling.
ProofDuplicatingOdd(leaves, index) ==
  LET at[k \in 1 .. Len(leaves)] == IF k = 1 THEN index ELSE (at[k - 1] + 1) \div 2
      layer == Layers(leaves)
      step(k) == LET s == Sibling(at[k])
                 IN << layer[k][IF s > Len(layer[k]) THEN at[k] ELSE s] >>
      path[k \in 0 .. Len(leaves)] ==
        IF k = 0 THEN << >> ELSE path[k - 1] \o (IF Len(layer[k]) = 1 THEN << >> ELSE step(k))
  IN path[Len(leaves)]

\* A layer that does not pair the node contributes nothing.
Proof(leaves, index) ==
  LET at[k \in 1 .. Len(leaves)] == IF k = 1 THEN index ELSE (at[k - 1] + 1) \div 2
      layer == Layers(leaves)
      step(k) == LET s == Sibling(at[k])
                 IN IF s > Len(layer[k]) THEN << >> ELSE <<layer[k][s]>>
      path[k \in 0 .. Len(leaves)] ==
        IF k = 0 THEN << >> ELSE path[k - 1] \o step(k)
  IN path[Len(leaves)]

\* tree.verify: hash the leaf with its siblings and compare with the root.
Verify(proof, leaf, root) ==
  LET up[k \in 0 .. Len(proof)] ==
        IF k = 0 THEN leaf ELSE HashPair(up[k - 1], proof[k])
  IN up[Len(proof)] = root
-----------------------------------------------------------------------------
(* types.ts, index.ts and the route.                                       *)

\* deriveTier; PRO takes everything above STANDARD, its own ceiling or not.
DeriveTier(maxValue) ==
  IF maxValue <= 2 * 1000 THEN 0 ELSE IF maxValue <= 2 * 10000 THEN 1 ELSE 2

\* BigInt() throws on a value that is not whole, and the route answers 500.
Compiles(input) == ParseIntent(input).max_value_per_tx_usdc % 2 = 0

CompilePolicy(input) ==
  LET c == ParseIntent(input)
  IN [ constraints |-> c,
       estimated_apy_range |-> EstimatedApyRange(input),
       conflicts |-> Conflicts(c),
       valid |-> Valid(c),
       policyRoot |-> Root(Leaves(c)),
       merkleLeaves |-> Leaves(c),
       tier |-> DeriveTier(c.max_value_per_tx_usdc) ]
=============================================================================
