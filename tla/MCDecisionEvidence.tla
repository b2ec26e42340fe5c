------------------------- MODULE MCDecisionEvidence -------------------------
EXTENDS DecisionEvidence

\* A trade, one in another pool and above the ceiling, and no JSON.
MCReads ==
  [ swap |-> [action |-> "swap", value |-> 1, pool |-> "configured"],
    elsewhere |-> [action |-> "rebalance", value |-> 2, pool |-> "other"],
    prose |-> Unreadable,
    bad |-> [action |-> "swap", value |-> 2, pool |-> "configured"] ]
MCTexts == DOMAIN MCReads
MCSignatures == {[by |-> key, over |-> "swap"] : key \in {Enclave, OtherKey}}
=============================================================================
