--------------------------- MODULE MCPolicyPages ---------------------------
EXTENDS PolicyPages
CONSTANTS AgentA, Visitor, RegOwner, RootA, RootV

\* An answer of the language model; numbers are twice their value.
Answer(alloc, stop, start, end, value, pools, risk) ==
  [ max_allocation_per_pool_bps |-> alloc, stop_loss_bps |-> stop,
    active_hours_start_utc |-> start, active_hours_end_utc |-> end,
    max_value_per_tx_usdc |-> value, allowed_pools |-> pools, risk_profile |-> risk,
    estimated_apy_min |-> NaNumber, estimated_apy_max |-> 24 ]

\* On the dashboard: a policy without errors, one whose window never opens.
MCAnswers ==
  { Answer(5000, 3000, 12, 48, 20000, <<PoolId>>, "moderate"),
    Answer(5000, 3000, 44, 12, 20000, <<PoolId>>, "moderate") }

\* In the frame: missing, negative, fractional, too large values, unknown and
\* repeated pools, and the values on which the conflict rules turn.
MCWideAnswers ==
  { Answer(alloc, stop, start, end, value, pools, risk) :
      alloc \in {NaNumber, 30000}, stop \in {-2, 999},
      start \in {12, 47}, end \in {NaNumber, 45, 60},
      value \in {199, 2001, 200000}, pools \in {<<>>, <<PoolId, "WBTC", PoolId>>},
      risk \in {"aggressive", "degen"} }

\* An address of somebody's writing names no root, or that of a policy, with hours
\* that its window does not have.
MCHandRoots == {NoTarget, CompilePolicy(CHOOSE a \in MCWideAnswers : Compiles(a)).policyRoot}
MCHandHours == {24, NaNumber}

\* The model's reply to the terminal, hold because of the hour or not.
MCReplies ==
  {
    [action |-> "hold", value |-> 0, aboutHours |-> FALSE],
    [action |-> "hold", value |-> 0, aboutHours |-> TRUE] }

MCAccounts == {AgentA, Visitor, RegOwner}
MCAgents == {AgentA, Visitor}
MCRoots == {RootA, RootV} \cup {CompilePolicy(a).policyRoot : a \in MCAnswers}
MCFirstRoot == [a \in MCAgents |-> IF a = AgentA THEN RootA ELSE RootV]
=============================================================================
