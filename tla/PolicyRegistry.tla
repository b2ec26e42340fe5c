--------------------------- MODULE PolicyRegistry ---------------------------
(***************************************************************************)
(* contracts/src/PolicyRegistry.sol: the policy each agent committed to,   *)
(* its compliance record, and the circuit breaker that halts it.           *)
(*                                                                         *)
(* One transaction is one step. A call that reverts changes nothing, so a  *)
(* `revert` of the code is a missing guard's negation here. The operators  *)
(* that return a policy (Registered, OutcomeRecorded, Broken, ...) are     *)
(* the bodies of the code's functions: AttestationContract composes them   *)
(* when it makes two registry calls in one transaction.                    *)
(***************************************************************************)
EXTENDS Integers

CONSTANTS
  Accounts,        \* every address that calls or is granted a role
  Agents,          \* the accounts that register a policy
  RegistryOwner,   \* `owner`, set by the constructor and never reassigned
  NoAccount,       \* address(0)
  PolicyRoots,     \* the non-zero policy roots
  NoRoot,          \* bytes32(0)
  TierInputs,      \* values of the `tier` argument callers pass
  HourInputs,      \* values of the two uint8 hour arguments callers pass
  MaxComplianceScore,      \* MAX_COMPLIANCE_SCORE, 1000
  AutoBreakScore,          \* AUTO_BREAK_SCORE, 200
  AutoBreakMinDecisions,   \* AUTO_BREAK_MIN_DECISIONS, 10
  MaxDecisions             \* bound: outcomes recorded per agent

ASSUME RegistryAssumption ==
  /\ Agents \subseteq Accounts
  /\ RegistryOwner \in Accounts
  /\ NoAccount \notin Accounts
  /\ NoRoot \notin PolicyRoots
  /\ TierInputs \subseteq Nat
  /\ HourInputs \subseteq 0 .. 255
  /\ MaxComplianceScore \in Nat
  /\ AutoBreakScore \in Nat
  /\ AutoBreakMinDecisions \in Nat
  /\ MaxDecisions \in Nat

VARIABLES
  policies,            \* policies[a]: the PolicyCommitment of agent a
  decisionRecorders,   \* the accounts authorized to record outcomes
  circuitBreakers      \* the accounts authorized to trip any breaker

registryVars == <<policies, decisionRecorders, circuitBreakers>>

\* The constructor enables the four tiers, and nothing changes them later.
EnabledTiers == 0 .. 3

\* maxValuePerTxUsdc is left out: the tier determines it. policyURI is text.
PolicyCommitment ==
  [ owner : Accounts \cup {NoAccount},
    operator : Accounts \cup {NoAccount},
    policyRoot : PolicyRoots \cup {NoRoot},
    tier : EnabledTiers,
    activeHoursStartUtc : 0 .. 24,
    activeHoursEndUtc : 0 .. 24,
    totalDecisions : Nat,
    compliantDecisions : Nat,
    complianceScore : Nat,
    active : BOOLEAN,
    circuitBreaker : BOOLEAN ]

\* An unwritten mapping entry reads as zeros.
NoPolicy ==
  [ owner |-> NoAccount, operator |-> NoAccount, policyRoot |-> NoRoot,
    tier |-> 0, activeHoursStartUtc |-> 0, activeHoursEndUtc |-> 0,
    totalDecisions |-> 0, compliantDecisions |-> 0, complianceScore |-> 0,
    active |-> FALSE, circuitBreaker |-> FALSE ]

IsRegistered(a) == policies[a].owner # NoAccount

\* Mutant of ValidActiveHours: the upper end of the window is not checked.
ValidActiveHoursUncapped(start, end) == start < 24 /\ end # 0 /\ start < end

ValidActiveHours(start, end) ==
  start < 24 /\ end # 0 /\ end <= 24 /\ start < end

\* The views the vault and the hook read.
IsActive(a) == IsRegistered(a) /\ policies[a].active /\ ~policies[a].circuitBreaker

CircuitBreakerTriggered(a) == IsRegistered(a) /\ policies[a].circuitBreaker

IsWithinTradingHours(a, hour) ==
  /\ hour >= policies[a].activeHoursStartUtc
  /\ hour < policies[a].activeHoursEndUtc
-----------------------------------------------------------------------------
(* The bodies of the functions, on one policy.                             *)

Registered(sender, root, tier, start, end) ==
  [ owner |-> sender, operator |-> sender, policyRoot |-> root,
    tier |-> tier, activeHoursStartUtc |-> start, activeHoursEndUtc |-> end,
    totalDecisions |-> 0, compliantDecisions |-> 0,
    complianceScore |-> MaxComplianceScore,
    active |-> TRUE, circuitBreaker |-> FALSE ]

Score(compliant, total) == (compliant * MaxComplianceScore) \div total

\* Mutant of MustAutoBreak: the floor itself is already too low.
MustAutoBreakAtFloor(total, score) ==
  total >= AutoBreakMinDecisions /\ score <= AutoBreakScore

MustAutoBreak(total, score) ==
  total >= AutoBreakMinDecisions /\ score < AutoBreakScore

\* Mutant of OutcomeRecorded: the score is taken before the counters move.
OutcomeRecordedStaleScore(p, compliant) ==
  LET total == p.totalDecisions + 1
      good == p.compliantDecisions + (IF compliant THEN 1 ELSE 0)
      score == IF p.totalDecisions = 0 THEN MaxComplianceScore
               ELSE Score(p.compliantDecisions, p.totalDecisions)
      breaks == MustAutoBreak(total, score)
  IN [p EXCEPT !.totalDecisions = total,
               !.compliantDecisions = good,
               !.complianceScore = score,
               !.active = @ /\ ~breaks,
               !.circuitBreaker = @ \/ breaks]

OutcomeRecorded(p, compliant) ==
  LET total == p.totalDecisions + 1
      good == p.compliantDecisions + (IF compliant THEN 1 ELSE 0)
      score == Score(good, total)
      breaks == MustAutoBreak(total, score)
  IN [p EXCEPT !.totalDecisions = total,
               !.compliantDecisions = good,
               !.complianceScore = score,
               !.active = @ /\ ~breaks,
               !.circuitBreaker = @ \/ breaks]

Broken(p) == [p EXCEPT !.active = FALSE, !.circuitBreaker = TRUE]

\* Mutant of Resumed: the owner's resume also wipes the record.
ResumedAfresh(p) ==
  [p EXCEPT !.active = TRUE, !.circuitBreaker = FALSE, !.totalDecisions = 0,
            !.compliantDecisions = 0, !.complianceScore = MaxComplianceScore]

Resumed(p) == [p EXCEPT !.active = TRUE, !.circuitBreaker = FALSE]

Rescheduled(p, start, end) ==
  [p EXCEPT !.activeHoursStartUtc = start, !.activeHoursEndUtc = end]
-----------------------------------------------------------------------------
(* The transactions.                                                       *)

\* registerAgent is registerAgentWithPolicy with the hours 0 and 24.
RegisterAgent(sender, root, tier, start, end) ==
  /\ root # NoRoot
  /\ ~IsRegistered(sender)
  /\ tier \in EnabledTiers
  /\ ValidActiveHours(start, end)
  /\ policies' = [policies EXCEPT ![sender] = Registered(sender, root, tier, start, end)]
  /\ UNCHANGED <<decisionRecorders, circuitBreakers>>

MayBreak(sender, a) ==
  IsRegistered(a) /\ (sender = policies[a].owner \/ sender \in circuitBreakers)

TriggerCircuitBreaker(sender, a) ==
  /\ MayBreak(sender, a)
  /\ policies' = [policies EXCEPT ![a] = Broken(@)]
  /\ UNCHANGED <<decisionRecorders, circuitBreakers>>

ResumeAgent(sender, a) ==
  /\ IsRegistered(a)
  /\ sender = policies[a].owner
  /\ ~(policies[a].active /\ ~policies[a].circuitBreaker)
  /\ policies' = [policies EXCEPT ![a] = Resumed(@)]
  /\ UNCHANGED <<decisionRecorders, circuitBreakers>>

SetTradingHours(sender, a, start, end) ==
  /\ IsRegistered(a)
  /\ sender = policies[a].owner
  /\ ValidActiveHours(start, end)
  /\ policies' = [policies EXCEPT ![a] = Rescheduled(@, start, end)]
  /\ UNCHANGED <<decisionRecorders, circuitBreakers>>

MayRecord(sender, a) ==
  /\ sender \in decisionRecorders
  /\ IsRegistered(a)
  /\ policies[a].active
  /\ policies[a].totalDecisions < MaxDecisions   \* bound, not in the code

\* recordDecision and recordAttestation.
RecordOutcome(sender, a, compliant) ==
  /\ MayRecord(sender, a)
  /\ policies' = [policies EXCEPT ![a] = OutcomeRecorded(@, compliant)]
  /\ UNCHANGED <<decisionRecorders, circuitBreakers>>

SetContracts(sender, account) ==
  /\ sender = RegistryOwner
  /\ account # NoAccount
  /\ decisionRecorders' = decisionRecorders \cup {account}
  /\ circuitBreakers' = circuitBreakers \cup {account}
  /\ UNCHANGED policies

SetDecisionRecorder(sender, account, authorized) ==
  /\ sender = RegistryOwner
  /\ decisionRecorders' = IF authorized THEN decisionRecorders \cup {account}
                          ELSE decisionRecorders \ {account}
  /\ UNCHANGED <<policies, circuitBreakers>>

SetCircuitBreaker(sender, account, authorized) ==
  /\ sender = RegistryOwner
  /\ circuitBreakers' = IF authorized THEN circuitBreakers \cup {account}
                        ELSE circuitBreakers \ {account}
  /\ UNCHANGED <<policies, decisionRecorders>>
-----------------------------------------------------------------------------
Init ==
  /\ policies = [a \in Agents |-> NoPolicy]
  /\ decisionRecorders = {RegistryOwner}
  /\ circuitBreakers = {RegistryOwner}

\* A call on an agent's policy by `sender`, and an administration call.
PolicyCall(sender, a) ==
  \/ TriggerCircuitBreaker(sender, a)
  \/ ResumeAgent(sender, a)
  \/ \E start, end \in HourInputs : SetTradingHours(sender, a, start, end)
  \/ \E compliant \in BOOLEAN : RecordOutcome(sender, a, compliant)

AdminCall(sender, account) ==
  \/ SetContracts(sender, account)
  \/ \E authorized \in BOOLEAN :
       \/ SetDecisionRecorder(sender, account, authorized)
       \/ SetCircuitBreaker(sender, account, authorized)

Next ==
  \/ \E a \in Agents, root \in PolicyRoots \cup {NoRoot}, tier \in TierInputs,
        start, end \in HourInputs : RegisterAgent(a, root, tier, start, end)
  \/ \E sender \in Accounts, a \in Agents : PolicyCall(sender, a)
  \/ \E sender, account \in Accounts : AdminCall(sender, account)

Spec == Init /\ [][Next]_registryVars
-----------------------------------------------------------------------------
(* What the registry must guarantee.                                       *)

\* Every variable stays within its type.
TypeOK ==
  /\ policies \in [Agents -> PolicyCommitment]
  /\ decisionRecorders \subseteq Accounts
  /\ circuitBreakers \subseteq Accounts

\* The two halt flags never disagree. The vault reads circuitBreakerTriggered,
\* the hook reads isActive and _recordOutcome reads `active` alone: an agent
\* halted for one of them is halted for all of them.
FlagsAgree(p) == p.active = ~p.circuitBreaker

\* The cached score is the score of the counters it is cached from.
ScoreFresh(p) ==
  /\ p.compliantDecisions <= p.totalDecisions
  /\ p.complianceScore = IF p.totalDecisions = 0 THEN MaxComplianceScore
                         ELSE Score(p.compliantDecisions, p.totalDecisions)

\* A registered agent has a daily window in which it can trade.
WindowOpens(p) == ValidActiveHours(p.activeHoursStartUtc, p.activeHoursEndUtc)

Consistent(p) ==
  IF p.owner = NoAccount THEN p = NoPolicy
  ELSE FlagsAgree(p) /\ ScoreFresh(p) /\ WindowOpens(p)

\* Halt flags, counters, score and window of every policy fit together, however
\* outcomes, breaks, resumes and window changes by different callers interleave.
PoliciesConsistent == \A a \in Agents : Consistent(policies[a])

Commitment(p) == <<p.owner, p.operator, p.policyRoot, p.tier>>

\* q is a later state of the policy p: same commitment, no outcome lost.
Continues(p, q) ==
  /\ Commitment(q) = Commitment(p)
  /\ q.compliantDecisions >= p.compliantDecisions
  /\ q.totalDecisions - q.compliantDecisions
       >= p.totalDecisions - p.compliantDecisions

\* A committed policy is never replaced: root, tier, owner and operator of a
\* registered agent are fixed, and its record is never reset or shortened.
CommitmentFixed ==
  [][\A a \in Agents :
       IsRegistered(a) => Continues(policies[a], policies'[a])]_registryVars

\* How a policy reads as an abstract standing and two counts of outcomes.
StandingOf(p) ==
  IF p.owner = NoAccount THEN "absent"
  ELSE IF p.active THEN "trading" ELSE "halted"

Standing == INSTANCE AgentStanding WITH
  Scale <- MaxComplianceScore,
  Floor <- AutoBreakScore,
  MinOutcomes <- AutoBreakMinDecisions,
  standing <- [a \in Agents |-> StandingOf(policies[a])],
  good <- [a \in Agents |-> policies[a].compliantDecisions],
  bad <- [a \in Agents |->
            policies[a].totalDecisions - policies[a].compliantDecisions]

\* The registry is an implementation of AgentStanding: its two flags and its
\* rounded score halt an agent exactly when the unrounded share of compliant
\* outcomes is below the floor, or somebody trips the breaker.
ImplementsStanding == Standing!Spec
=============================================================================
