------------------------- MODULE MCPolicyRegistry -------------------------
(***************************************************************************)
(* A small instance of PolicyRegistry with the real score constants: one   *)
(* agent, the registry owner and one more account that gains and loses the *)
(* recorder and breaker roles.                                             *)
(***************************************************************************)
EXTENDS PolicyRegistry

CONSTANTS agent, deployer, attestation, none, root, zeroRoot

MCTierInputs == {1, 4}

\* 0, a proper start, midnight as an end, and an end past the day.
MCHourInputs == {0, 9, 24, 25}
=============================================================================
