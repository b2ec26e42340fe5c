--------------------------- MODULE DecisionLedger ---------------------------
(***************************************************************************)
(* What the decision feed promises its readers, with no registry, no roles *)
(* and no calls between contracts: every vault's feed grows at its end,    *)
(* what was committed is never rewritten, and a decision becomes attested  *)
(* at most once, forever, and only if an enclave signed what it committed. *)
(*                                                                         *)
(* AttestationContract, with the registry and the vaults it calls,         *)
(* implements this specification: see its Ledger.                          *)
(***************************************************************************)
EXTENDS Integers

CONSTANTS
  Vaults,      \* the vaults, each with a feed of its own
  Ids,         \* the decision ids
  Hashes,      \* the digests a decision commits to
  NoHash,      \* what an id not committed yet reads as
  Endorsed     \* the digests that carry a signature of some enclave

VARIABLES
  length,      \* length[v]: the number of decisions committed in v
  content,     \* content[v][id]: what decision id of v committed to
  attested     \* attested[v]: the ids of the attested decisions of v

vars == <<length, content, attested>>

Init ==
  /\ length = [v \in Vaults |-> 0]
  /\ content = [v \in Vaults |-> [id \in Ids |-> NoHash]]
  /\ attested = [v \in Vaults |-> {}]

Commit(v, h) ==
  /\ length[v] \in Ids
  /\ length' = [length EXCEPT ![v] = @ + 1]
  /\ content' = [content EXCEPT ![v][length[v]] = h]
  /\ UNCHANGED attested

Attest(v, id) ==
  /\ id \in Ids /\ id < length[v]
  /\ id \notin attested[v]
  /\ content[v][id] \in Endorsed
  /\ attested' = [attested EXCEPT ![v] = @ \cup {id}]
  /\ UNCHANGED <<length, content>>

Next ==
  \E v \in Vaults :
    \/ \E h \in Hashes : Commit(v, h)
    \/ \E id \in Ids : Attest(v, id)

Spec == Init /\ [][Next]_vars
=============================================================================
