----------------------- MODULE MCAttestationContract -----------------------
(***************************************************************************)
(* A small instance of AttestationContract: one agent that runs two        *)
(* vaults with two decisions each, two enclave keys that signed different  *)
(* decisions, a watchtower, and a deployer that may hand the contract      *)
(* over. The score constants are scaled down so that the automatic break   *)
(* is two outcomes away.                                                   *)
(***************************************************************************)
EXTENDS AttestationContract, TLC

CONSTANTS agent, deployer, attestation, tower, none, root, zeroRoot,
          fund, twin, buy, sell, noHash, cid, noCID, key, rotated

MCVaultAgent == [v \in Vaults |-> agent]

\* Each key signed one of the two decisions.
MCSigned == {[by |-> key, over |-> buy], [by |-> rotated, over |-> sell]}

\* The two vaults are alike, and so are the two decisions if their keys are
\* renamed with them.
Renamings ==
  Permutations(Vaults) \cup
    {(buy :> sell) @@ (sell :> buy) @@ (key :> rotated) @@ (rotated :> key)}
=============================================================================
