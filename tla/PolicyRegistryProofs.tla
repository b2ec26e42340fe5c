----------------------- MODULE PolicyRegistryProofs -----------------------
(***************************************************************************)
(* PolicyRegistry for any accounts, tiers and score constants: types, the  *)
(* consistency of every policy, and the implementation of AgentStanding.   *)
(***************************************************************************)
EXTENDS PolicyRegistry, TLAPS

\* Dividing rounds down, and rounding down never crosses a whole number: the
\* rounded score is below the floor exactly when the products say so. This is
\* why _recordOutcome's integer division never halts an agent too early or late.
LEMMA FloorBelow ==
  ASSUME NEW m \in Nat, NEW n \in Nat \ {0}, NEW k \in Nat
  PROVE  /\ m \div n \in Nat
         /\ (m \div n < k) <=> (m < k * n)
<1> DEFINE q == m \div n
           r == m % n
<1>1. q \in Nat /\ r \in Nat /\ r < n /\ m = q * n + r
  OBVIOUS
<1> HIDE DEF q, r
<1>2. ASSUME q < k PROVE m < k * n
  <2>1. q + 1 <= k
    BY <1>1, <1>2
  <2>2. (q + 1) * n <= k * n
    BY <2>1, <1>1
  <2>3. (q + 1) * n = q * n + n
    BY <1>1
  <2> QED
    BY <1>1, <2>2, <2>3
<1>3. ASSUME ~(q < k) PROVE ~(m < k * n)
  <2>1. k * n <= q * n
    BY <1>1, <1>3
  <2> QED
    BY <1>1, <2>1
<1> QED
  BY <1>1, <1>2, <1>3 DEF q

\* Score stays a natural number, whatever the counters.
LEMMA ScoreType ==
  ASSUME NEW c \in Nat, NEW t \in Nat \ {0}
  PROVE  Score(c, t) \in Nat
<1>1. c * MaxComplianceScore \in Nat
  BY RegistryAssumption
<1> QED
  BY <1>1, FloorBelow, RegistryAssumption DEF Score
-----------------------------------------------------------------------------
(* The bodies of the functions keep a policy well typed and consistent.    *)

Sound(p) == p \in PolicyCommitment /\ Consistent(p)

LEMMA NoPolicySound == Sound(NoPolicy)
  BY DEF Sound, NoPolicy, PolicyCommitment, Consistent, EnabledTiers

LEMMA RegisteredSound ==
  ASSUME NEW a \in Accounts, NEW root \in PolicyRoots, NEW tier \in EnabledTiers,
         NEW start \in Int, NEW end \in Int, start >= 0, ValidActiveHours(start, end)
  PROVE  Sound(Registered(a, root, tier, start, end))
<1> DEFINE q == Registered(a, root, tier, start, end)
<1>1. start \in 0 .. 24 /\ end \in 0 .. 24
  BY DEF ValidActiveHours
<1>2. a # NoAccount /\ MaxComplianceScore \in Nat
  BY RegistryAssumption
<1>3. q \in PolicyCommitment
  BY <1>1, <1>2 DEF Registered, PolicyCommitment
<1>4. FlagsAgree(q)
  BY DEF Registered, FlagsAgree
<1>5. ScoreFresh(q)
  BY DEF Registered, ScoreFresh
<1>6. WindowOpens(q) /\ q.owner = a
  BY DEF Registered, WindowOpens
<1> QED
  BY <1>2, <1>3, <1>4, <1>5, <1>6 DEF Sound, Consistent

LEMMA OutcomeRecordedSound ==
  ASSUME NEW p \in PolicyCommitment, Consistent(p), p.owner # NoAccount,
         NEW ok \in BOOLEAN
  PROVE  Sound(OutcomeRecorded(p, ok))
<1> DEFINE total == p.totalDecisions + 1
           good == p.compliantDecisions + (IF ok THEN 1 ELSE 0)
           score == Score(good, total)
           breaks == MustAutoBreak(total, score)
<1>1. total \in Nat \ {0} /\ good \in Nat /\ good <= total
  BY DEF PolicyCommitment, Consistent, ScoreFresh
<1>2. score \in Nat
  BY <1>1, ScoreType
<1>3. breaks \in BOOLEAN
  BY DEF MustAutoBreak
<1> HIDE DEF breaks, score
<1>4. OutcomeRecorded(p, ok) =
        [p EXCEPT !.totalDecisions = total, !.compliantDecisions = good,
                  !.complianceScore = score, !.active = @ /\ ~breaks,
                  !.circuitBreaker = @ \/ breaks]
  BY DEF OutcomeRecorded, score, breaks
<1>5. OutcomeRecorded(p, ok) \in PolicyCommitment
  BY <1>1, <1>2, <1>3, <1>4 DEF PolicyCommitment
<1>6. FlagsAgree(OutcomeRecorded(p, ok))
  BY <1>3, <1>4 DEF PolicyCommitment, Consistent, FlagsAgree
<1>7. ScoreFresh(OutcomeRecorded(p, ok)) /\ WindowOpens(OutcomeRecorded(p, ok))
  BY <1>1, <1>4 DEF PolicyCommitment, Consistent, ScoreFresh, WindowOpens, score
<1> QED
  BY <1>4, <1>5, <1>6, <1>7 DEF Sound, Consistent, PolicyCommitment

LEMMA BrokenSound ==
  ASSUME NEW p \in PolicyCommitment, Consistent(p), p.owner # NoAccount
  PROVE  Sound(Broken(p))
  BY DEF Sound, Broken, PolicyCommitment, Consistent, FlagsAgree, ScoreFresh, WindowOpens

LEMMA ResumedSound ==
  ASSUME NEW p \in PolicyCommitment, Consistent(p), p.owner # NoAccount
  PROVE  Sound(Resumed(p))
  BY DEF Sound, Resumed, PolicyCommitment, Consistent, FlagsAgree, ScoreFresh, WindowOpens

LEMMA RescheduledSound ==
  ASSUME NEW p \in PolicyCommitment, Consistent(p), p.owner # NoAccount,
         NEW start \in Nat, NEW end \in Nat, ValidActiveHours(start, end)
  PROVE  Sound(Rescheduled(p, start, end))
<1> DEFINE q == Rescheduled(p, start, end)
<1>1. start \in 0 .. 24 /\ end \in 0 .. 24
  BY DEF ValidActiveHours
<1>2. q \in PolicyCommitment
  BY <1>1 DEF Rescheduled, PolicyCommitment
<1>3. FlagsAgree(q) /\ ScoreFresh(q) /\ q.owner = p.owner
  BY <1>1 DEF Rescheduled, PolicyCommitment, Consistent, FlagsAgree, ScoreFresh
<1>4. WindowOpens(q)
  BY <1>1 DEF Rescheduled, PolicyCommitment, WindowOpens
<1> QED
  BY <1>2, <1>3, <1>4 DEF Sound, Consistent
-----------------------------------------------------------------------------
(* The invariant.                                                          *)

RegistryInv == TypeOK /\ PoliciesConsistent

LEMMA SoundPolicy ==
  ASSUME RegistryInv, NEW a \in Agents
  PROVE  policies[a] \in PolicyCommitment /\ Consistent(policies[a])
  BY DEF RegistryInv, TypeOK, PoliciesConsistent

\* Writing one sound policy keeps the invariant.
LEMMA WriteSound ==
  ASSUME RegistryInv, NEW a \in Agents, NEW q, Sound(q),
         policies' = [policies EXCEPT ![a] = q],
         UNCHANGED <<decisionRecorders, circuitBreakers>>
  PROVE  RegistryInv'
  BY DEF RegistryInv, TypeOK, PoliciesConsistent, Sound

\* A call on one policy writes the policy the function's body returns.
LEMMA PolicyCallKeeps ==
  ASSUME RegistryInv, NEW sender \in Accounts, NEW a \in Agents,
         PolicyCall(sender, a)
  PROVE  RegistryInv'
<1> USE SoundPolicy
<1>1. CASE TriggerCircuitBreaker(sender, a)
  BY <1>1, BrokenSound, WriteSound DEF TriggerCircuitBreaker, MayBreak, IsRegistered
<1>2. CASE ResumeAgent(sender, a)
  BY <1>2, ResumedSound, WriteSound DEF ResumeAgent, IsRegistered
<1>3. ASSUME NEW start \in HourInputs, NEW end \in HourInputs,
             SetTradingHours(sender, a, start, end)
      PROVE  RegistryInv'
  <2>1. start \in Nat /\ end \in Nat
    BY RegistryAssumption
  <2> QED
    BY <1>3, <2>1, RescheduledSound, WriteSound DEF SetTradingHours, IsRegistered
<1>4. ASSUME NEW ok \in BOOLEAN, RecordOutcome(sender, a, ok)
      PROVE  RegistryInv'
  BY <1>4, OutcomeRecordedSound, WriteSound DEF RecordOutcome, MayRecord, IsRegistered
<1> QED
  BY <1>1, <1>2, <1>3, <1>4 DEF PolicyCall

LEMMA RegisterKeeps ==
  ASSUME RegistryInv, NEW a \in Agents, NEW root \in PolicyRoots \cup {NoRoot},
         NEW tier \in TierInputs, NEW start \in HourInputs, NEW end \in HourInputs,
         RegisterAgent(a, root, tier, start, end)
  PROVE  RegistryInv'
<1>1. a \in Accounts /\ start \in Int /\ end \in Int /\ start >= 0
  BY RegistryAssumption
<1>2. root \in PolicyRoots /\ tier \in EnabledTiers /\ ValidActiveHours(start, end)
  BY DEF RegisterAgent
<1>3. Sound(Registered(a, root, tier, start, end))
  BY <1>1, <1>2, RegisteredSound
<1> QED
  BY <1>3, WriteSound DEF RegisterAgent

LEMMA AdminKeeps ==
  ASSUME RegistryInv, NEW sender \in Accounts, NEW account \in Accounts,
         AdminCall(sender, account)
  PROVE  RegistryInv'
<1>1. UNCHANGED policies
  BY DEF AdminCall, SetContracts, SetDecisionRecorder, SetCircuitBreaker
<1>2. decisionRecorders' \subseteq Accounts
  BY DEF RegistryInv, TypeOK, AdminCall, SetContracts, SetDecisionRecorder,
         SetCircuitBreaker
<1>3. circuitBreakers' \subseteq Accounts
  BY DEF RegistryInv, TypeOK, AdminCall, SetContracts, SetDecisionRecorder,
         SetCircuitBreaker
<1> QED
  BY <1>1, <1>2, <1>3 DEF RegistryInv, TypeOK, PoliciesConsistent

LEMMA NextKeeps == RegistryInv /\ [Next]_registryVars => RegistryInv'
<1> SUFFICES ASSUME RegistryInv, [Next]_registryVars PROVE RegistryInv'
  OBVIOUS
<1>1. CASE UNCHANGED registryVars
  BY <1>1 DEF registryVars, RegistryInv, TypeOK, PoliciesConsistent
<1> QED
  BY <1>1, PolicyCallKeeps, RegisterKeeps, AdminKeeps DEF Next

\* In every reachable state the variables are well typed and every policy is
\* consistent: its flags agree, its score is fresh and its window opens.
THEOREM RegistryInvariant == Spec => [](TypeOK /\ PoliciesConsistent)
<1>1. Init => RegistryInv
  BY NoPolicySound, RegistryAssumption
     DEF Init, RegistryInv, TypeOK, PoliciesConsistent, Sound
<1>2. RegistryInv => TypeOK /\ PoliciesConsistent
  BY DEF RegistryInv
<1> QED
  BY <1>1, <1>2, NextKeeps, PTL DEF Spec

\* Whatever callers pass and in whichever order they call, every stored policy has
\* an enabled tier, hours of the day and a boolean for each flag: the type holds.
THEOREM RegistryWellTyped == Spec => []TypeOK
  BY RegistryInvariant, PTL
-----------------------------------------------------------------------------
(* What a transaction can do to one policy, seen from outside.             *)

\* Every step leaves a policy alone or applies one function's body to it.
Touches(p, q, a) ==
  \/ q = p
  \/ /\ p.owner = NoAccount
     /\ \E root \in PolicyRoots, tier \in EnabledTiers, start, end \in 0 .. 255 :
          ValidActiveHours(start, end) /\ q = Registered(a, root, tier, start, end)
  \/ /\ p.owner # NoAccount
     /\ \/ q = Broken(p)
        \/ q = Resumed(p) /\ ~p.active
        \/ \E start, end \in 0 .. 255 :
             ValidActiveHours(start, end) /\ q = Rescheduled(p, start, end)
        \/ \E ok \in BOOLEAN : p.active /\ q = OutcomeRecorded(p, ok)

\* A step changes at most one policy, and in one of these ways.
LEMMA StepTouchesOne ==
  ASSUME RegistryInv, [Next]_registryVars
  PROVE  \/ UNCHANGED policies
         \/ \E a \in Agents : \E q :
              /\ policies' = [policies EXCEPT ![a] = q]
              /\ Touches(policies[a], q, a)
<1>1. ASSUME NEW a \in Agents, NEW root \in PolicyRoots \cup {NoRoot},
             NEW tier \in TierInputs, NEW start \in HourInputs, NEW end \in HourInputs,
             RegisterAgent(a, root, tier, start, end)
      PROVE  \E q : /\ policies' = [policies EXCEPT ![a] = q]
                    /\ Touches(policies[a], q, a)
  <2>1. start \in 0 .. 255 /\ end \in 0 .. 255 /\ root \in PolicyRoots
    BY <1>1, RegistryAssumption DEF RegisterAgent
  <2>2. Touches(policies[a], Registered(a, root, tier, start, end), a)
    BY <1>1, <2>1 DEF RegisterAgent, IsRegistered, Touches
  <2> QED
    BY <1>1, <2>2 DEF RegisterAgent
<1>2. ASSUME NEW sender \in Accounts, NEW a \in Agents, PolicyCall(sender, a)
      PROVE  \E q : /\ policies' = [policies EXCEPT ![a] = q]
                    /\ Touches(policies[a], q, a)
  <2>1. CASE TriggerCircuitBreaker(sender, a)
    BY <2>1 DEF TriggerCircuitBreaker, MayBreak, IsRegistered, Touches
  <2>2. CASE ResumeAgent(sender, a)
    <3>1. ~policies[a].active
      BY <2>2, SoundPolicy DEF ResumeAgent, IsRegistered, Consistent, FlagsAgree
    <3> QED
      BY <2>2, <3>1 DEF ResumeAgent, IsRegistered, Touches
  <2>3. ASSUME NEW start \in HourInputs, NEW end \in HourInputs,
               SetTradingHours(sender, a, start, end)
        PROVE  \E q : /\ policies' = [policies EXCEPT ![a] = q]
                      /\ Touches(policies[a], q, a)
    <3>1. start \in 0 .. 255 /\ end \in 0 .. 255
      BY RegistryAssumption
    <3> QED
      BY <2>3, <3>1 DEF SetTradingHours, IsRegistered, Touches
  <2>4. ASSUME NEW ok \in BOOLEAN, RecordOutcome(sender, a, ok)
        PROVE  \E q : /\ policies' = [policies EXCEPT ![a] = q]
                      /\ Touches(policies[a], q, a)
    BY <2>4 DEF RecordOutcome, MayRecord, IsRegistered, Touches
  <2> QED
    BY <1>2, <2>1, <2>2, <2>3, <2>4 DEF PolicyCall
<1>3. ASSUME NEW sender \in Accounts, NEW account \in Accounts,
             AdminCall(sender, account)
      PROVE  UNCHANGED policies
  BY <1>3 DEF AdminCall, SetContracts, SetDecisionRecorder, SetCircuitBreaker
<1> QED
  BY <1>1, <1>2, <1>3 DEF Next, registryVars

LEMMA TouchesContinues ==
  ASSUME NEW p \in PolicyCommitment, Consistent(p), p.owner # NoAccount,
         NEW q, NEW a, Touches(p, q, a)
  PROVE  Continues(p, q)
<1> USE DEF Continues, Commitment
<1>1. CASE q = p
  BY <1>1 DEF PolicyCommitment
<1>2. CASE q = Broken(p)
  BY <1>2 DEF PolicyCommitment, Broken
<1>3. CASE q = Resumed(p)
  BY <1>3 DEF PolicyCommitment, Resumed
<1>4. ASSUME NEW start \in 0 .. 255, NEW end \in 0 .. 255, q = Rescheduled(p, start, end)
      PROVE  Continues(p, q)
  BY <1>4 DEF PolicyCommitment, Rescheduled
<1>5. ASSUME NEW ok \in BOOLEAN, q = OutcomeRecorded(p, ok)
      PROVE  Continues(p, q)
  <2>1. /\ Commitment(q) = Commitment(p)
        /\ q.totalDecisions = p.totalDecisions + 1
        /\ q.compliantDecisions = p.compliantDecisions + (IF ok THEN 1 ELSE 0)
    BY <1>5 DEF PolicyCommitment, OutcomeRecorded
  <2> QED
    BY <2>1 DEF PolicyCommitment
<1> QED
  BY <1>1, <1>2, <1>3, <1>4, <1>5 DEF Touches

\* What a transaction leaves of any registered policy is a later state of it.
LEMMA StepContinues ==
  ASSUME RegistryInv, [Next]_registryVars, NEW a \in Agents, IsRegistered(a)
  PROVE  Continues(policies[a], policies'[a])
<1>1. policies[a] \in PolicyCommitment /\ Consistent(policies[a])
  BY SoundPolicy
<1>2. CASE UNCHANGED policies
  BY <1>1, <1>2, TouchesContinues DEF Touches, IsRegistered
<1>3. ASSUME NEW b \in Agents, NEW q, policies' = [policies EXCEPT ![b] = q],
             Touches(policies[b], q, b)
      PROVE  Continues(policies[a], policies'[a])
  <2>1. policies'[a] = IF a = b THEN q ELSE policies[a]
    BY <1>3 DEF RegistryInv, TypeOK
  <2>2. CASE a = b
    BY <1>1, <1>3, <2>1, <2>2, TouchesContinues DEF IsRegistered
  <2>3. CASE a # b
    BY <1>1, <2>1, <2>3, TouchesContinues DEF IsRegistered, Touches
  <2> QED
    BY <2>2, <2>3
<1> QED
  BY <1>2, <1>3, StepTouchesOne

\* Once registered, an agent keeps its owner, operator, root and tier, and every
\* outcome recorded for it: no later transaction replaces or resets a policy.
THEOREM CommitmentNeverReplaced == Spec => CommitmentFixed
<1>1. RegistryInv /\ [Next]_registryVars =>
        [\A a \in Agents :
           IsRegistered(a) => Continues(policies[a], policies'[a])]_registryVars
  BY StepContinues
<1>2. Spec => []RegistryInv
  BY RegistryInvariant, PTL DEF RegistryInv
<1> QED
  BY <1>1, <1>2, PTL DEF Spec, CommitmentFixed
-----------------------------------------------------------------------------
(* The registry implements AgentStanding.                                  *)

Good(p) == p.compliantDecisions
Bad(p) == p.totalDecisions - p.compliantDecisions

\* How one function's body changes a policy, read as an abstract step.
AbstractTouch(p, q) ==
  \/ /\ StandingOf(q) = StandingOf(p)
     /\ Good(q) = Good(p) /\ Bad(q) = Bad(p)
  \/ /\ StandingOf(p) = "absent" /\ StandingOf(q) = "trading"
     /\ Good(q) = Good(p) /\ Bad(q) = Bad(p)
  \/ /\ StandingOf(p) # "absent" /\ StandingOf(q) = "halted"
     /\ Good(q) = Good(p) /\ Bad(q) = Bad(p)
  \/ /\ StandingOf(p) = "halted" /\ StandingOf(q) = "trading"
     /\ Good(q) = Good(p) /\ Bad(q) = Bad(p)
  \/ /\ StandingOf(p) = "trading"
     /\ \/ Good(q) = Good(p) + 1 /\ Bad(q) = Bad(p)
        \/ Good(q) = Good(p) /\ Bad(q) = Bad(p) + 1
     /\ StandingOf(q) = IF Standing!Failing(Good(q), Bad(q)) THEN "halted" ELSE "trading"

\* The rounded test of _recordOutcome is the abstract floor.
LEMMA AutoBreakIsFloor ==
  ASSUME NEW g \in Nat, NEW t \in Nat \ {0}, g <= t
  PROVE  MustAutoBreak(t, Score(g, t)) <=> Standing!Failing(g, t - g)
<1>1. g * MaxComplianceScore \in Nat
  BY RegistryAssumption
<1>2. (Score(g, t) < AutoBreakScore) <=> (g * MaxComplianceScore < AutoBreakScore * t)
  BY <1>1, FloorBelow, RegistryAssumption DEF Score
<1>3. g + (t - g) = t
  OBVIOUS
<1> QED
  BY <1>2, <1>3 DEF MustAutoBreak, Standing!Failing, Standing!BelowFloor

LEMMA OutcomeAbstract ==
  ASSUME NEW p \in PolicyCommitment, Consistent(p), p.owner # NoAccount, p.active,
         NEW ok \in BOOLEAN
  PROVE  AbstractTouch(p, OutcomeRecorded(p, ok))
<1> DEFINE total == p.totalDecisions + 1
           good == p.compliantDecisions + (IF ok THEN 1 ELSE 0)
           q == OutcomeRecorded(p, ok)
<1>1. total \in Nat \ {0} /\ good \in Nat /\ good <= total
  BY DEF PolicyCommitment, Consistent, ScoreFresh
<1>2. /\ q.owner = p.owner /\ q.totalDecisions = total
      /\ q.compliantDecisions = good
  BY DEF PolicyCommitment, OutcomeRecorded
<1>3. q.active = ~MustAutoBreak(total, Score(good, total))
  <2> DEFINE breaks == MustAutoBreak(total, Score(good, total))
  <2>1. breaks \in BOOLEAN
    BY DEF MustAutoBreak
  <2>2. q.active = (p.active /\ ~breaks)
    BY DEF PolicyCommitment, OutcomeRecorded
  <2> QED
    BY <2>1, <2>2
<1>4. StandingOf(q) = IF Standing!Failing(good, total - good) THEN "halted" ELSE "trading"
  BY <1>1, <1>2, <1>3, AutoBreakIsFloor DEF StandingOf
<1>5. StandingOf(p) = "trading"
  BY DEF StandingOf
<1>6. Good(q) = good /\ Bad(q) = total - good
  BY <1>2 DEF Good, Bad
<1>7. \/ Good(q) = Good(p) + 1 /\ Bad(q) = Bad(p)
      \/ Good(q) = Good(p) /\ Bad(q) = Bad(p) + 1
  BY <1>1, <1>6 DEF Good, Bad, PolicyCommitment
<1>8. StandingOf(q) = IF Standing!Failing(Good(q), Bad(q)) THEN "halted" ELSE "trading"
  BY <1>4, <1>6
<1> QED
  BY <1>5, <1>7, <1>8 DEF AbstractTouch

LEMMA TouchAbstract ==
  ASSUME NEW p \in PolicyCommitment, Consistent(p), NEW a \in Agents, NEW q,
         Touches(p, q, a)
  PROVE  AbstractTouch(p, q)
<1>1. CASE q = p
  BY <1>1 DEF AbstractTouch
<1>2. ASSUME p.owner = NoAccount,
             NEW root \in PolicyRoots, NEW tier \in EnabledTiers,
             NEW start \in 0 .. 255, NEW end \in 0 .. 255,
             q = Registered(a, root, tier, start, end)
      PROVE  AbstractTouch(p, q)
  <2>1. p = NoPolicy
    BY <1>2 DEF Consistent
  <2>2. a # NoAccount
    BY RegistryAssumption
  <2>3. StandingOf(p) = "absent" /\ StandingOf(q) = "trading"
    BY <1>2, <2>2 DEF StandingOf, Registered
  <2>4. Good(q) = Good(p) /\ Bad(q) = Bad(p)
    BY <1>2, <2>1 DEF Good, Bad, Registered, NoPolicy
  <2> QED
    BY <2>3, <2>4 DEF AbstractTouch
<1>3. ASSUME p.owner # NoAccount, q = Broken(p)
      PROVE  AbstractTouch(p, q)
  BY <1>3 DEF AbstractTouch, Broken, PolicyCommitment, StandingOf, Good, Bad
<1>4. ASSUME p.owner # NoAccount, q = Resumed(p), ~p.active
      PROVE  AbstractTouch(p, q)
  BY <1>4 DEF AbstractTouch, Resumed, PolicyCommitment, StandingOf, Good, Bad
<1>5. ASSUME p.owner # NoAccount, NEW start \in 0 .. 255, NEW end \in 0 .. 255,
             q = Rescheduled(p, start, end)
      PROVE  AbstractTouch(p, q)
  BY <1>5 DEF AbstractTouch, Rescheduled, PolicyCommitment, StandingOf, Good, Bad
<1>6. ASSUME p.owner # NoAccount, p.active, NEW ok \in BOOLEAN, q = OutcomeRecorded(p, ok)
      PROVE  AbstractTouch(p, q)
  BY <1>6, OutcomeAbstract
<1> QED
  BY <1>1, <1>2, <1>3, <1>4, <1>5, <1>6 DEF Touches

\* One policy changing abstractly is one step, or a stutter, of the abstraction.
LEMMA AbstractStep ==
  ASSUME RegistryInv, NEW a \in Agents, NEW q,
         policies' = [policies EXCEPT ![a] = q],
         AbstractTouch(policies[a], q)
  PROVE  [Standing!Next]_(Standing!vars)
<1> DEFINE sd == [b \in Agents |-> StandingOf(policies[b])]
           gd == [b \in Agents |-> policies[b].compliantDecisions]
           bd == [b \in Agents |->
                    policies[b].totalDecisions - policies[b].compliantDecisions]
           p == policies[a]
<1>1. policies' = [b \in Agents |-> IF b = a THEN q ELSE policies[b]]
  BY DEF RegistryInv, TypeOK
<1>2. /\ sd' = [sd EXCEPT ![a] = StandingOf(q)]
      /\ gd' = [gd EXCEPT ![a] = Good(q)]
      /\ bd' = [bd EXCEPT ![a] = Bad(q)]
  BY <1>1 DEF Good, Bad
<1>3. sd[a] = StandingOf(p) /\ gd[a] = Good(p) /\ bd[a] = Bad(p)
  BY DEF Good, Bad
<1>4. sd'[a] = StandingOf(q) /\ gd'[a] = Good(q) /\ bd'[a] = Bad(q)
  BY <1>2
<1>5. /\ sd \in [Agents -> {"absent", "trading", "halted"}]
      /\ DOMAIN gd = Agents /\ DOMAIN bd = Agents
      /\ gd = [b \in Agents |-> gd[b]] /\ bd = [b \in Agents |-> bd[b]]
  BY DEF StandingOf
<1> HIDE DEF sd, gd, bd, p
<1>6. CASE StandingOf(q) = StandingOf(p) /\ Good(q) = Good(p) /\ Bad(q) = Bad(p)
  <2>1. sd' = sd /\ gd' = gd /\ bd' = bd
    BY <1>2, <1>3, <1>5, <1>6
  <2> QED
    BY <2>1 DEF Standing!vars, sd, gd, bd
<1>7. CASE /\ StandingOf(p) = "absent" /\ StandingOf(q) = "trading"
           /\ Good(q) = Good(p) /\ Bad(q) = Bad(p)
  <2>1. sd[a] = "absent" /\ sd' = [sd EXCEPT ![a] = "trading"] /\ gd' = gd /\ bd' = bd
    BY <1>2, <1>3, <1>5, <1>7
  <2>2. Standing!Enroll(a)
    BY <2>1 DEF Standing!Enroll, sd, gd, bd
  <2> QED
    BY <2>2 DEF Standing!Next
<1>8. CASE /\ StandingOf(p) # "absent" /\ StandingOf(q) = "halted"
           /\ Good(q) = Good(p) /\ Bad(q) = Bad(p)
  <2>1. sd[a] # "absent" /\ sd' = [sd EXCEPT ![a] = "halted"] /\ gd' = gd /\ bd' = bd
    BY <1>2, <1>3, <1>5, <1>8
  <2>2. Standing!Halt(a)
    BY <2>1 DEF Standing!Halt, sd, gd, bd
  <2> QED
    BY <2>2 DEF Standing!Next
<1>9. CASE /\ StandingOf(p) = "halted" /\ StandingOf(q) = "trading"
           /\ Good(q) = Good(p) /\ Bad(q) = Bad(p)
  <2>1. sd[a] = "halted" /\ sd' = [sd EXCEPT ![a] = "trading"] /\ gd' = gd /\ bd' = bd
    BY <1>2, <1>3, <1>5, <1>9
  <2>2. Standing!Resume(a)
    BY <2>1 DEF Standing!Resume, sd, gd, bd
  <2> QED
    BY <2>2 DEF Standing!Next
<1>10. CASE /\ StandingOf(p) = "trading"
            /\ Good(q) = Good(p) + 1 /\ Bad(q) = Bad(p)
            /\ StandingOf(q) =
                 IF Standing!Failing(Good(q), Bad(q)) THEN "halted" ELSE "trading"
  <2>1. /\ sd[a] = "trading" /\ gd' = [gd EXCEPT ![a] = gd[a] + 1] /\ bd' = bd
        /\ sd' = [sd EXCEPT ![a] =
                     IF Standing!Failing(gd'[a], bd'[a]) THEN "halted" ELSE "trading"]
    BY <1>2, <1>3, <1>4, <1>5, <1>10
  <2>2. Standing!GoodOutcome(a)
    BY <2>1 DEF Standing!GoodOutcome, Standing!Settle, sd, gd, bd
  <2> QED
    BY <2>2 DEF Standing!Next
<1>11. CASE /\ StandingOf(p) = "trading"
            /\ Good(q) = Good(p) /\ Bad(q) = Bad(p) + 1
            /\ StandingOf(q) =
                 IF Standing!Failing(Good(q), Bad(q)) THEN "halted" ELSE "trading"
  <2>1. /\ sd[a] = "trading" /\ bd' = [bd EXCEPT ![a] = bd[a] + 1] /\ gd' = gd
        /\ sd' = [sd EXCEPT ![a] =
                     IF Standing!Failing(gd'[a], bd'[a]) THEN "halted" ELSE "trading"]
    BY <1>2, <1>3, <1>4, <1>5, <1>11
  <2>2. Standing!BadOutcome(a)
    BY <2>1 DEF Standing!BadOutcome, Standing!Settle, sd, gd, bd
  <2> QED
    BY <2>2 DEF Standing!Next
<1> QED
  BY <1>6, <1>7, <1>8, <1>9, <1>10, <1>11 DEF AbstractTouch, p

\* The registry is an AgentStanding: outcomes are recorded only for an agent that
\* trades, and its rounded score halts it exactly below the unrounded floor.
THEOREM RegistryImplementsStanding == Spec => ImplementsStanding
<1>1. Init => Standing!Init
  BY DEF Init, Standing!Init, StandingOf, NoPolicy
<1>2. RegistryInv /\ [Next]_registryVars => [Standing!Next]_(Standing!vars)
  <2> SUFFICES ASSUME RegistryInv, [Next]_registryVars
               PROVE  [Standing!Next]_(Standing!vars)
    OBVIOUS
  <2>1. CASE UNCHANGED policies
    BY <2>1 DEF Standing!vars
  <2>2. ASSUME NEW a \in Agents, NEW q, policies' = [policies EXCEPT ![a] = q],
               Touches(policies[a], q, a)
        PROVE  [Standing!Next]_(Standing!vars)
    <3>1. AbstractTouch(policies[a], q)
      BY <2>2, SoundPolicy, TouchAbstract
    <3> QED
      BY <2>2, <3>1, AbstractStep
  <2> QED
    BY <2>1, <2>2, StepTouchesOne
<1>3. Spec => []RegistryInv
  BY RegistryInvariant, PTL DEF RegistryInv
<1> QED
  BY <1>1, <1>2, <1>3, PTL DEF Spec, ImplementsStanding, Standing!Spec
=============================================================================
