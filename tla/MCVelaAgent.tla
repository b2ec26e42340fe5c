---------------------------- MODULE MCVelaAgent ----------------------------
(***************************************************************************)
(* A small instance of VelaAgent: one vault, a trade interval of two       *)
(* ticks, a terminal of two attempts, one fault.                           *)
(***************************************************************************)
EXTENDS VelaAgent

CONSTANTS agent, fund, inferred, confirmed, noHash, blob, operatorTriggered, noCID, loop

MCVaultAgent == [v \in Vaults |-> agent]
=============================================================================
