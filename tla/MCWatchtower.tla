---------------------------- MODULE MCWatchtower ----------------------------
(***************************************************************************)
(* A small instance of Watchtower: one vault, whose agent commits to the   *)
(* payload the enclave signed, under a CID that serves that payload        *)
(* (`held`) or under one that serves another (`forged`). With liveness     *)
(* only `held` is used: a fetch that fails takes the step that a payload   *)
(* that does not verify takes.                                             *)
(***************************************************************************)
EXTENDS Watchtower

CONSTANTS agent, deployer, attestation, tower, none, root, zeroRoot,
          fund, buy, noHash, held, forged, noCID, key, missing

MCVaultAgent == [v \in Vaults |-> agent]

MCSigned == {[by |-> key, over |-> buy]}

MCBlob == [cid \in EvidenceCIDs |->
             IF cid = held THEN [by |-> key, over |-> buy] ELSE [by |-> key, over |-> noHash]]
=============================================================================
