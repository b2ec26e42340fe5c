------------------------ MODULE PolicyDashboardProofs ------------------------
(***************************************************************************)
(* The compiler's bounds, and the dashboard for any policies, answers of   *)
(* the language model, wallets and decisions.                              *)
(*                                                                         *)
(* Every property of the dashboard is about data that were read, compiled  *)
(* or signed earlier. The invariants carry it through what lies between:   *)
(* a refresh in flight, a prompt of the wallet, a request at the compiler, *)
(* a transaction in the pool.                                              *)
(***************************************************************************)
EXTENDS PolicyDashboard, PolicyRegistryProofs, FiniteSetTheorems, SequenceTheorems
-----------------------------------------------------------------------------
(* The compiler.                                                           *)

\* A clamped number is a whole number between the bounds, whatever was answered.
LEMMA Clamped ==
  ASSUME NEW value \in Halves, NEW min \in Int, NEW max \in Int, min <= max
  PROVE  ClampNumber(value, min, max) \in min .. max
<1> DEFINE h == ToFiniteNumber(value, 2 * min)
<1>1. h \in Int
  BY DEF ToFiniteNumber, Halves
<1>2. Round(h) \in Int
  BY <1>1 DEF Round
<1> QED
  BY <1>2 DEF ClampNumber

\* sanitizePools leaves one pool at least, and none that is not known.
LEMMA PoolsKnown ==
  ASSUME NEW pools \in Seq(STRING)
  PROVE  \E n \in Nat \ {0} : SanitizePools(pools) \in [1 .. n -> {PoolId, FallbackPool}]
<1> DEFINE named == {k \in 1 .. Len(pools) : pools[k] = PoolId}
<1>1. Cardinality(named) \in Nat
  <2>1. IsFiniteSet(1 .. Len(pools))
    BY LenProperties, FS_Interval
  <2> QED
    BY <2>1, FS_Subset, FS_CardinalityType
<1>2. SanitizePools(pools) = IF Cardinality(named) = 0 THEN <<FallbackPool>>
                             ELSE [k \in 1 .. Cardinality(named) |-> PoolId]
  BY DEF SanitizePools
<1> HIDE DEF named
<1>3. CASE Cardinality(named) = 0
  <2>1. <<FallbackPool>> \in [1 .. 1 -> {PoolId, FallbackPool}]
    OBVIOUS
  <2> QED
    BY <1>2, <1>3, <2>1
<1>4. CASE Cardinality(named) # 0
  BY <1>1, <1>2, <1>4
<1> QED
  BY <1>3, <1>4

WithinBounds(c) ==
  /\ c.max_allocation_per_pool_bps \in 100 .. AllBps
  /\ c.stop_loss_bps \in 100 .. AllBps
  /\ c.active_hours_start_utc \in 0 .. 23
  /\ c.active_hours_end_utc \in 1 .. 24
  /\ c.allowed_pools # << >>
  /\ c.risk_profile \in {"conservative", "moderate", "aggressive"}

\* Constraints are within their bounds and the pools are never none, for every
\* answer of the language model: nlp.ts trusts no number it is given.
THEOREM ConstraintsBounded ==
  ASSUME NEW input \in ParseToolInput
  PROVE  WithinBounds(ParseIntent(input))
<1>0. AllBps \in Int /\ 100 <= AllBps
  BY DEF AllBps
<1>1. /\ input.max_allocation_per_pool_bps \in Halves /\ input.stop_loss_bps \in Halves
      /\ input.active_hours_start_utc \in Halves /\ input.active_hours_end_utc \in Halves
  BY DEF ParseToolInput
<1>2. SanitizePools(input.allowed_pools) # << >>
  <2>1. input.allowed_pools \in Seq(STRING)
    BY DEF ParseToolInput
  <2> QED
    BY <2>1, PoolsKnown
<1>3. SanitizeRiskProfile(input.risk_profile) \in {"conservative", "moderate", "aggressive"}
  BY DEF SanitizeRiskProfile
<1>4. ClampNumber(input.max_allocation_per_pool_bps, 100, AllBps) \in 100 .. AllBps
  BY <1>0, <1>1, Clamped
<1>5. ClampNumber(input.stop_loss_bps, 100, AllBps) \in 100 .. AllBps
  BY <1>0, <1>1, Clamped
<1>6. ClampNumber(input.active_hours_start_utc, 0, 23) \in 0 .. 23
  BY <1>0, <1>1, Clamped
<1>7. ClampNumber(input.active_hours_end_utc, 1, 24) \in 1 .. 24
  BY <1>0, <1>1, Clamped
<1> DEFINE c == ParseIntent(input)
<1>8. /\ c.max_allocation_per_pool_bps
           = ClampNumber(input.max_allocation_per_pool_bps, 100, AllBps)
      /\ c.stop_loss_bps = ClampNumber(input.stop_loss_bps, 100, AllBps)
      /\ c.active_hours_start_utc = ClampNumber(input.active_hours_start_utc, 0, 23)
      /\ c.active_hours_end_utc = ClampNumber(input.active_hours_end_utc, 1, 24)
      /\ c.allowed_pools = SanitizePools(input.allowed_pools)
      /\ c.risk_profile = SanitizeRiskProfile(input.risk_profile)
  BY DEF ParseIntent
<1> HIDE DEF c
<1>9. WithinBounds(c)
  BY <1>2, <1>3, <1>4, <1>5, <1>6, <1>7, <1>8 DEF WithinBounds
<1> QED
  BY <1>9 DEF c

\* A policy without errors has a window that opens.
LEMMA ValidOpens ==
  ASSUME NEW c, c.active_hours_start_utc \in Int, c.active_hours_end_utc \in Int, Valid(c)
  PROVE  c.active_hours_start_utc < c.active_hours_end_utc
<1>1. "INVALID_ACTIVE_HOURS" \in Errors
  BY DEF Errors
<1>2. "INVALID_ACTIVE_HOURS" \in DOMAIN Checks(c)
  BY DEF Checks
<1>3. ~Checks(c)["INVALID_ACTIVE_HOURS"]
  BY <1>1, <1>2 DEF Valid, Conflicts
<1>4. Checks(c)["INVALID_ACTIVE_HOURS"] = (c.active_hours_start_utc >= c.active_hours_end_utc)
  BY DEF Checks
<1>5. ~(c.active_hours_start_utc >= c.active_hours_end_utc)
  BY <1>3, <1>4, Zenon
<1> QED
  BY <1>5
-----------------------------------------------------------------------------
(* The dashboard: types.                                                   *)

Tx == [from : Wallets, call : {"pause", "resume", "register"},
       root : PolicyRoots \cup {NoRoot}, tier : {1}, start : Nat, end : Nat]

Requested == [of : Intents \cup {NoIntent}, overtaken : BOOLEAN]
CompiledPolicy ==
  [of : Intents \cup {NoIntent}, overtaken : BOOLEAN,
   answer : {a \in Answers : Compiles(a)}]

ChainTyped ==
  /\ RegistryInv
  /\ feed \in Seq(Statuses)
  /\ past \in Seq([policy : PolicyCommitment, feed : Seq(Statuses)])
  /\ Len(past) \in 1 .. MaxMoments

PoolTyped ==
  /\ pool \in Seq(Tx)
  /\ sent \in 0 .. MaxPool /\ Len(pool) <= sent

HandlerTyped ==
  /\ handler \in [stage : {"idle", "prompt", "refreshing"},
                  call : {"none", "pause", "resume", "register", "sign"},
                  root : PolicyRoots \cup {NoRoot}, start : Nat, end : Nat]
  /\ handler.stage = "prompt" => handler.call # "none"
  /\ refreshes \in [Refreshers -> 0 .. Len(past)]
  /\ (handler.stage = "refreshing") = (refreshes["handler"] # 0)

\* What the form keeps of a text it no longer shows, it keeps as overtaken.
FormTyped ==
  /\ form \in [intent : Intents \cup {NoIntent}, compiled : SUBSET CompiledPolicy,
               request : Requested]
  /\ (form.request # NoRequest /\ ~form.request.overtaken)
       => form.request.of = form.intent
  /\ \A c \in form.compiled : c.of # form.intent => c.overtaken

DashTyped ==
  /\ ChainTyped /\ PoolTyped /\ HandlerTyped /\ FormTyped
  /\ wallet \in Wallets \cup {NoAccount}
  /\ lastPress \in {"none", "pause", "resume"}
  /\ shown.root \in PolicyRoots \cup {NoRoot}

LEMMA DashTypedSuffices == DashTyped => DashboardTypeOK /\ PolicyOfIntent
  BY DEF DashTyped, ChainTyped, PoolTyped, HandlerTyped, FormTyped, DashboardTypeOK,
         PolicyOfIntent, RegistryInv, Now
-----------------------------------------------------------------------------
(* The chain.                                                              *)

\* Breaking, resuming and recording keep the commitment.
LEMMA PolicyCallStep ==
  ASSUME RegistryInv, NEW sender \in Accounts, NEW a \in Agents, PolicyCall(sender, a)
  PROVE  /\ IsRegistered(a)
         /\ policies'[a].owner = policies[a].owner
         /\ policies'[a].policyRoot = policies[a].policyRoot
         /\ \A b \in Agents \ {a} : policies'[b] = policies[b]
<1>1. policies \in [Agents -> PolicyCommitment] /\ policies[a] \in PolicyCommitment
  BY DEF RegistryInv, TypeOK
<1>2. CASE TriggerCircuitBreaker(sender, a)
  BY <1>1, <1>2 DEF TriggerCircuitBreaker, MayBreak, Broken, PolicyCommitment
<1>3. CASE ResumeAgent(sender, a)
  BY <1>1, <1>3 DEF ResumeAgent, Resumed, PolicyCommitment
<1>4. ASSUME NEW start \in HourInputs, NEW end \in HourInputs,
             SetTradingHours(sender, a, start, end)
      PROVE  /\ IsRegistered(a)
             /\ policies'[a].owner = policies[a].owner
             /\ policies'[a].policyRoot = policies[a].policyRoot
             /\ \A b \in Agents \ {a} : policies'[b] = policies[b]
  BY <1>1, <1>4 DEF SetTradingHours, Rescheduled, PolicyCommitment
<1>5. ASSUME NEW ok \in BOOLEAN, RecordOutcome(sender, a, ok)
      PROVE  /\ IsRegistered(a)
             /\ policies'[a].owner = policies[a].owner
             /\ policies'[a].policyRoot = policies[a].policyRoot
             /\ \A b \in Agents \ {a} : policies'[b] = policies[b]
  BY <1>1, <1>5 DEF RecordOutcome, MayRecord, OutcomeRecorded, PolicyCommitment
<1> QED
  BY <1>2, <1>3, <1>4, <1>5 DEF PolicyCall

\* The owner of a policy is the agent it is registered for.
Owned == \A a \in Agents : policies[a].owner \in {NoAccount, a}

\* The agent's commitment has been the same at every moment of the visit, unless
\* there was none, and so is what any page has of it.
RootInv ==
  LET roots == {NoRoot, policies[AgentAddress].policyRoot}
  IN /\ \A i \in 1 .. Len(past) : past[i].policy.policyRoot \in roots
     /\ shown.root \in roots /\ delegation \in roots
     /\ handler.call = "sign" => handler.root \in roots

RegistryStep ==
  /\ RegistryInv' /\ Owned'
  /\ policies'[AgentAddress] \in PolicyCommitment
  /\ policies[AgentAddress].policyRoot \in {NoRoot, policies'[AgentAddress].policyRoot}

LEMMA RegistryStepOfCall ==
  ASSUME RegistryInv, Owned, NEW sender \in Accounts, PolicyCall(sender, AgentAddress)
  PROVE  RegistryStep
<1>1. AgentAddress \in Agents
  BY DashboardAssumption
<1>2. RegistryInv'
  BY <1>1, PolicyCallKeeps
<1>3. Owned'
  BY <1>1, PolicyCallStep DEF Owned
<1> QED
  BY <1>1, <1>2, <1>3, PolicyCallStep DEF RegistryStep, RegistryInv, TypeOK

LEMMA RegistryStepOfRegistration ==
  ASSUME RegistryInv, Owned, NEW tx \in Tx,
         RegisterAgent(tx.from, tx.root, tx.tier, tx.start, tx.end)
  PROVE  RegistryStep
<1>1. AgentAddress \in Agents /\ tx.from \in Agents /\ tx.from \in Accounts
  BY DashboardAssumption, RegistryAssumption DEF Tx
<1>2. tx.root \in PolicyRoots /\ tx.tier \in EnabledTiers /\ tx.start \in Int /\ tx.end \in Int
      /\ tx.start >= 0 /\ ValidActiveHours(tx.start, tx.end) /\ ~IsRegistered(tx.from)
  BY DEF Tx, RegisterAgent
<1> DEFINE q == Registered(tx.from, tx.root, tx.tier, tx.start, tx.end)
<1>3. Sound(q) /\ q.owner = tx.from
  BY <1>1, <1>2, RegisteredSound DEF Registered
<1>4. policies' = [policies EXCEPT ![tx.from] = q]
      /\ UNCHANGED <<decisionRecorders, circuitBreakers>>
  BY DEF RegisterAgent
<1> HIDE DEF q
<1>5. RegistryInv'
  BY <1>1, <1>3, <1>4, WriteSound
<1>6. policies \in [Agents -> PolicyCommitment]
  BY DEF RegistryInv, TypeOK
<1>7. Owned'
  BY <1>1, <1>3, <1>4, <1>6 DEF Owned
<1>8. policies[AgentAddress].policyRoot \in {NoRoot, policies'[AgentAddress].policyRoot}
  <2>1. CASE tx.from = AgentAddress
    <3>1. policies[AgentAddress] = NoPolicy
      BY <1>1, <1>2, <2>1, SoundPolicy DEF IsRegistered, Consistent
    <3> QED
      BY <3>1 DEF NoPolicy
  <2>2. CASE tx.from # AgentAddress
    BY <1>1, <1>4, <1>6, <2>2
  <2> QED
    BY <2>1, <2>2
<1> QED
  BY <1>1, <1>5, <1>7, <1>8 DEF RegistryStep, RegistryInv, TypeOK

\* The chain moves on: the new moment is of the same kind.
LEMMA MomentAdded ==
  ASSUME ChainTyped, RegistryStep, feed' \in Seq(Statuses), Moves
  PROVE  /\ ChainTyped'
         /\ Len(past') = Len(past) + 1
         /\ \A i \in 1 .. Len(past) : past'[i] = past[i]
         /\ past'[Len(past) + 1].policy = policies'[AgentAddress]
<1> DEFINE M == [policy : PolicyCommitment, feed : Seq(Statuses)]
<1>1. Moment \in M
  BY DEF Moment, RegistryStep
<1>2. past \in Seq(M) /\ past' = Append(past, Moment) /\ Len(past) < MaxMoments
  BY DEF ChainTyped, Moves, Now
<1>3. /\ past' \in Seq(M)
      /\ Len(past') = Len(past) + 1
      /\ \A i \in 1 .. Len(past) : past'[i] = past[i]
      /\ past'[Len(past) + 1] = Moment
  BY <1>1, <1>2, AppendProperties
<1>4. Len(past') \in 1 .. MaxMoments
  BY <1>2, <1>3, DashboardAssumption DEF ChainTyped
<1> QED
  BY <1>3, <1>4 DEF ChainTyped, RegistryStep, Moment

\* Either the chain moves on, or it stands still.
ChainStep ==
  /\ ChainTyped' /\ Owned'
  /\ policies[AgentAddress].policyRoot \in {NoRoot, policies'[AgentAddress].policyRoot}
  /\ Len(past) <= Len(past')
  /\ \A i \in 1 .. Len(past) : past'[i] = past[i]
  /\ \A i \in Len(past) + 1 .. Len(past') : past'[i].policy = policies'[AgentAddress]

LEMMA ChainStepMoves ==
  ASSUME ChainTyped, RegistryStep, feed' \in Seq(Statuses), Moves
  PROVE  ChainStep
<1>1. Len(past) \in Nat
  BY DEF ChainTyped
<1> QED
  BY <1>1, MomentAdded DEF ChainStep, RegistryStep

LEMMA ChainStepStands ==
  ASSUME ChainTyped, Owned, UNCHANGED chainVars
  PROVE  ChainStep
<1>1. Len(past) \in Nat
  BY DEF ChainTyped
<1>2. ChainTyped' /\ Owned'
  BY DEF chainVars, ChainTyped, Owned, RegistryInv, TypeOK, PoliciesConsistent
<1> QED
  BY <1>1, <1>2 DEF ChainStep, chainVars

LEMMA MinedStep ==
  ASSUME ChainTyped, Owned, NEW tx \in Tx,
         \/ tx.call = "register" /\ MineRegistration(tx)
         \/ tx.call = "pause" /\ MinePause(tx)
         \/ tx.call = "resume" /\ MineResume(tx)
  PROVE  ChainStep
<1>1. RegistryInv /\ feed \in Seq(Statuses) /\ tx.from \in Accounts
  BY DashboardAssumption, RegistryAssumption DEF ChainTyped, Tx
<1>2. CASE UNCHANGED chainVars
  BY <1>2, ChainStepStands
<1>3. CASE RegistryStep /\ UNCHANGED feed /\ Moves
  BY <1>1, <1>3, ChainStepMoves
<1>4. CASE MineRegistration(tx)
  BY <1>1, <1>2, <1>3, <1>4, RegistryStepOfRegistration DEF MineRegistration
<1>5. CASE MinePause(tx)
  BY <1>1, <1>2, <1>3, <1>5, RegistryStepOfCall DEF MinePause, PolicyCall
<1>6. CASE MineResume(tx)
  BY <1>1, <1>2, <1>3, <1>6, RegistryStepOfCall DEF MineResume, PolicyCall
<1> QED
  BY <1>4, <1>5, <1>6

LEMMA OthersStep ==
  ASSUME ChainTyped, Owned, OthersAct
  PROVE  ChainStep
<1>1. RegistryInv /\ feed \in Seq(Statuses) /\ AgentAddress \in Agents
      /\ RegistryOwner \in Accounts
  BY DashboardAssumption, RegistryAssumption DEF ChainTyped
<1>2. CASE feed' = Append(feed, "Pending") /\ UNCHANGED registryVars
  <2>1. feed' \in Seq(Statuses)
    BY <1>1, <1>2, AppendProperties DEF Statuses
  <2>2. RegistryStep
    BY <1>1, <1>2
    DEF RegistryStep, registryVars, Owned, RegistryInv, TypeOK, PoliciesConsistent
  <2> QED
    BY <2>1, <2>2, ChainStepMoves DEF OthersAct
<1>3. ASSUME NEW k \in DOMAIN feed, NEW compliant \in BOOLEAN,
             feed' = [feed EXCEPT ![k] = IF compliant THEN "Attested" ELSE "Failed"],
             RecordOutcome(RegistryOwner, AgentAddress, compliant)
      PROVE  ChainStep
  <2>1. feed' \in Seq(Statuses)
    <3>1. k \in 1 .. Len(feed)
      BY <1>1
    <3> QED
      BY <1>1, <1>3, <3>1, ExceptSeq DEF Statuses
  <2>2. RegistryStep
    BY <1>1, <1>3, RegistryStepOfCall DEF PolicyCall
  <2> QED
    BY <2>1, <2>2, ChainStepMoves DEF OthersAct
<1>4. CASE TriggerCircuitBreaker(RegistryOwner, AgentAddress) /\ UNCHANGED feed
  <2>1. RegistryStep
    BY <1>1, <1>4, RegistryStepOfCall DEF PolicyCall
  <2> QED
    BY <1>1, <1>4, <2>1, ChainStepMoves DEF OthersAct
<1> QED
  BY <1>2, <1>3, <1>4 DEF OthersAct
-----------------------------------------------------------------------------
(* The pool.                                                               *)

\* Taking one transaction out of the pool closes the gap it leaves.
LEMMA TakenOut ==
  ASSUME NEW S, NEW s \in Seq(S), NEW k \in 1 .. Len(s),
         NEW t, t = SubSeq(s, 1, k - 1) \o SubSeq(s, k + 1, Len(s))
  PROVE  /\ t \in Seq(S)
         /\ Len(t) = Len(s) - 1
         /\ \A j \in 1 .. Len(t) : t[j] = IF j < k THEN s[j] ELSE s[j + 1]
<1> DEFINE n == Len(s)
           a == SubSeq(s, 1, k - 1)
           b == SubSeq(s, k + 1, n)
<1>1. n \in Nat /\ k \in Int /\ 1 <= k /\ k <= n
  OBVIOUS
<1>2. \A i \in 1 .. n : s[i] \in S
  BY ElementOfSeq
<1>3. /\ a \in Seq(S) /\ Len(a) = k - 1
      /\ \A i \in 1 .. k - 1 : a[i] = s[i]
  <2>1. \A i \in 1 .. k - 1 : s[i] \in S
    BY <1>1, <1>2
  <2>2. /\ a \in Seq(S) /\ Len(a) = IF 1 <= k - 1 THEN (k - 1) - 1 + 1 ELSE 0
        /\ \A i \in 1 .. (k - 1) - 1 + 1 : a[i] = s[1 + i - 1]
    BY <1>1, <2>1, SubSeqProperties
  <2> QED
    BY <1>1, <2>2
<1>4. /\ b \in Seq(S) /\ Len(b) = n - k
      /\ \A i \in 1 .. n - k : b[i] = s[k + i]
  <2>1. \A i \in k + 1 .. n : s[i] \in S
    BY <1>1, <1>2
  <2>2. /\ b \in Seq(S) /\ Len(b) = IF k + 1 <= n THEN n - (k + 1) + 1 ELSE 0
        /\ \A i \in 1 .. n - (k + 1) + 1 : b[i] = s[(k + 1) + i - 1]
    BY <1>1, <2>1, SubSeqProperties
  <2> QED
    BY <1>1, <2>2
<1>5. t = a \o b
  OBVIOUS
<1> HIDE DEF a, b, n
<1>6. /\ t \in Seq(S) /\ Len(t) = (k - 1) + (n - k)
      /\ \A i \in 1 .. (k - 1) + (n - k) : t[i] = IF i <= k - 1 THEN a[i] ELSE b[i - (k - 1)]
  <2>1. /\ a \o b \in Seq(S) /\ Len(a \o b) = Len(a) + Len(b)
        /\ \A i \in 1 .. Len(a) + Len(b) :
             (a \o b)[i] = IF i <= Len(a) THEN a[i] ELSE b[i - Len(a)]
    BY <1>3, <1>4, ConcatProperties
  <2> QED
    BY <1>3, <1>4, <1>5, <2>1
<1>7. /\ Len(t) = n - 1
      /\ \A i \in 1 .. n - 1 : t[i] = IF i <= k - 1 THEN a[i] ELSE b[i - (k - 1)]
  <2>1. (k - 1) + (n - k) = n - 1
    BY <1>1
  <2> QED
    BY <1>6, <2>1
<1>8. ASSUME NEW j \in 1 .. n - 1
      PROVE  t[j] = IF j < k THEN s[j] ELSE s[j + 1]
  <2>1. CASE j < k
    <3>1. j <= k - 1 /\ j \in 1 .. k - 1
      BY <1>1, <2>1
    <3> QED
      BY <1>3, <1>7, <2>1, <3>1
  <2>2. CASE ~(j < k)
    <3>1. j - (k - 1) \in 1 .. n - k /\ k + (j - (k - 1)) = j + 1 /\ ~(j <= k - 1)
      BY <1>1, <2>2
    <3>2. t[j] = b[j - (k - 1)]
      BY <1>7, <3>1
    <3> QED
      BY <1>4, <2>2, <3>1, <3>2
  <2> QED
    BY <2>1, <2>2
<1>9. t \in Seq(S) /\ Len(t) = n - 1
  BY <1>6, <1>7
<1> QED
  BY <1>8, <1>9 DEF n
-----------------------------------------------------------------------------
(* The dashboard's invariant: types, owners and roots.                     *)

DashInv == DashTyped /\ Owned /\ RootInv

LEMMA CompiledWindow ==
  ASSUME NEW a \in Answers, Compiles(a)
  PROVE  /\ CompilePolicy(a).policyRoot \in PolicyRoots
         /\ CompilePolicy(a).constraints.active_hours_start_utc \in Nat
         /\ CompilePolicy(a).constraints.active_hours_end_utc \in Nat
<1>1. a \in ParseToolInput /\ CompilePolicy(a).policyRoot \in PolicyRoots
  BY DashboardAssumption
<1>2. WithinBounds(ParseIntent(a))
  BY <1>1, ConstraintsBounded
<1>3. CompilePolicy(a).constraints = ParseIntent(a)
  BY Zenon DEF CompilePolicy
<1>4. /\ ParseIntent(a).active_hours_start_utc \in Nat
      /\ ParseIntent(a).active_hours_end_utc \in Nat
  <2>1. /\ ParseIntent(a).active_hours_start_utc \in 0 .. 23
        /\ ParseIntent(a).active_hours_end_utc \in 1 .. 24
    BY <1>2, Zenon DEF WithinBounds
  <2> QED
    BY <2>1
<1> QED
  BY <1>1, <1>3, <1>4

LEMMA DashInvInit == DashboardInit => DashInv
<1> SUFFICES ASSUME DashboardInit PROVE DashInv
  OBVIOUS
<1>0. /\ decisionRecorders = {RegistryOwner} /\ circuitBreakers = {RegistryOwner}
      /\ feed = << >> /\ past = <<[policy |-> policies[AgentAddress], feed |-> feed]>>
      /\ pool = << >> /\ sent = 0 /\ wallet = NoAccount
      /\ shown = NothingShown
      /\ refreshes = [who \in Refreshers |-> IF who = "timer" THEN 1 ELSE 0]
      /\ handler = Idle /\ lastPress = "none"
      /\ form = [intent |-> NoIntent, compiled |-> {}, request |-> NoRequest]
      /\ delegation = NoRoot
  BY Zenon DEF DashboardInit
<1>1. AgentAddress \in Agents /\ Agents \subseteq Accounts /\ RegistryOwner \in Accounts
  BY DashboardAssumption, RegistryAssumption
<1>2. PICK registered \in {{}, Agents} : \E breaker \in BOOLEAN :
        policies = [a \in Agents |->
          IF a \notin registered THEN NoPolicy
          ELSE [Registered(a, FirstRoot[a], 1, 6, 24) EXCEPT
                  !.active = ~breaker, !.circuitBreaker = breaker]]
  BY Zenon DEF DashboardInit
<1>3. PICK breaker \in BOOLEAN :
        policies = [a \in Agents |->
          IF a \notin registered THEN NoPolicy
          ELSE [Registered(a, FirstRoot[a], 1, 6, 24) EXCEPT
                  !.active = ~breaker, !.circuitBreaker = breaker]]
  BY <1>2
<1>4. ASSUME NEW a \in Agents
      PROVE  Sound(policies[a]) /\ policies[a].owner \in {NoAccount, a}
  <2> DEFINE p == Registered(a, FirstRoot[a], 1, 6, 24)
  <2>1. FirstRoot[a] \in PolicyRoots /\ a \in Accounts /\ a # NoAccount
    BY <1>1, DashboardAssumption, RegistryAssumption
  <2>2. ValidActiveHours(6, 24) /\ 1 \in EnabledTiers
    BY DEF ValidActiveHours, EnabledTiers
  <2>3. Sound(p) /\ p.owner = a /\ p.active = TRUE /\ p.circuitBreaker = FALSE
    BY <2>1, <2>2, RegisteredSound DEF Registered
  <2>4. p \in PolicyCommitment /\ Consistent(p) /\ p.owner # NoAccount
    BY <2>1, <2>3 DEF Sound
  <2> HIDE DEF p
  <2>5. CASE a \notin registered
    <3>1. policies[a] = NoPolicy
      BY <1>3, <2>5
    <3> QED
      BY <3>1, NoPolicySound DEF NoPolicy
  <2>6. CASE a \in registered
    <3>1. policies[a] = [p EXCEPT !.active = ~breaker, !.circuitBreaker = breaker]
      BY <1>3, <2>6 DEF p
    <3>2. CASE breaker
      <4>1. policies[a] = Broken(p)
        BY <3>1, <3>2 DEF Broken
      <4> QED
        BY <2>3, <2>4, <4>1, BrokenSound DEF Broken, PolicyCommitment
    <3>3. CASE ~breaker
      <4>1. policies[a] = Resumed(p)
        BY <3>1, <3>3 DEF Resumed
      <4> QED
        BY <2>3, <2>4, <4>1, ResumedSound, ZenonT(60) DEF Resumed, PolicyCommitment
    <3> QED
      BY <3>2, <3>3
  <2> QED
    BY <2>5, <2>6
<1>5. policies \in [Agents -> PolicyCommitment] /\ PoliciesConsistent
  <2>1. policies \in [Agents -> PolicyCommitment]
    <3>1. \A a \in Agents : policies[a] \in PolicyCommitment
      BY <1>4 DEF Sound
    <3>2. DOMAIN policies = Agents /\ policies = [a \in DOMAIN policies |-> policies[a]]
      BY <1>3
    <3> QED
      BY <3>1, <3>2
  <2> QED
    BY <1>4, <2>1 DEF Sound, PoliciesConsistent
<1>6. RegistryInv /\ Owned
  BY <1>0, <1>1, <1>4, <1>5 DEF RegistryInv, TypeOK, Owned
<1> DEFINE m == [policy |-> policies[AgentAddress], feed |-> feed]
           M == [policy : PolicyCommitment, feed : Seq(Statuses)]
<1>7. feed \in Seq(Statuses) /\ m \in M
  BY <1>0, <1>1, <1>5, EmptySeq
<1>8. past = <<m>>
  BY <1>0
<1> HIDE DEF m, M
<1>9. past \in Seq(M) /\ Len(past) = 1 /\ past[1] = m
  BY <1>7, <1>8
<1>10. ChainTyped
  BY <1>6, <1>7, <1>9, DashboardAssumption DEF ChainTyped, M
<1>11. PoolTyped
  BY <1>0, EmptySeq, DashboardAssumption DEF PoolTyped
<1>12. HandlerTyped
  BY <1>0, <1>9 DEF HandlerTyped, Idle, Refreshers
<1>13. FormTyped
  BY <1>0, DashboardAssumption DEF FormTyped, NoRequest, Requested
<1>14. RootInv
  BY <1>0, <1>9 DEF RootInv, m, NothingShown, Idle
<1> QED
  BY <1>0, <1>6, <1>10, <1>11, <1>12, <1>13, <1>14 DEF DashInv, DashTyped, NothingShown

\* A step of the chain is none of the page's.
LEMMA ChainKeeps ==
  ASSUME DashInv, ChainStep, PoolTyped', UNCHANGED <<uiVars, shown, refreshes>>
  PROVE  DashInv'
<1>1. Len(past) \in Nat /\ Len(past') \in Nat /\ Len(past) <= Len(past')
  BY DEF DashInv, DashTyped, ChainTyped, ChainStep
<1>2. HandlerTyped'
  BY <1>1 DEF DashInv, DashTyped, HandlerTyped, uiVars
<1>3. FormTyped'
  BY DEF DashInv, DashTyped, FormTyped, uiVars
<1> DEFINE r == policies[AgentAddress].policyRoot
           rn == policies'[AgentAddress].policyRoot
<1>4. r \in {NoRoot, rn}
  BY DEF ChainStep
<1>5. \A i \in 1 .. Len(past') : past'[i].policy.policyRoot \in {NoRoot, rn}
  <2> SUFFICES ASSUME NEW i \in 1 .. Len(past')
               PROVE  past'[i].policy.policyRoot \in {NoRoot, rn}
    OBVIOUS
  <2>1. CASE i \in 1 .. Len(past)
    BY <1>4, <2>1 DEF ChainStep, DashInv, RootInv
  <2>2. CASE i \in Len(past) + 1 .. Len(past')
    BY <2>2 DEF ChainStep
  <2> QED
    BY <1>1, <2>1, <2>2
<1>6. RootInv'
  BY <1>4, <1>5 DEF DashInv, RootInv, uiVars
<1> QED
  BY <1>2, <1>3, <1>6 DEF DashInv, DashTyped, ChainStep, uiVars

LEMMA MineKeeps ==
  ASSUME DashInv, Mine
  PROVE  DashInv'
<1>1. pool \in Seq(Tx) /\ sent \in 0 .. MaxPool /\ Len(pool) <= sent
  BY DEF DashInv, DashTyped, PoolTyped
<1>2. PICK k \in DOMAIN pool :
        /\ pool' = SubSeq(pool, 1, k - 1) \o SubSeq(pool, k + 1, Len(pool))
        /\ \/ pool[k].call = "register" /\ MineRegistration(pool[k])
           \/ pool[k].call = "pause" /\ MinePause(pool[k])
           \/ pool[k].call = "resume" /\ MineResume(pool[k])
  BY Zenon DEF Mine
<1>3. k \in 1 .. Len(pool) /\ pool[k] \in Tx
  BY <1>1, <1>2
<1>4. ChainStep
  BY <1>2, <1>3, MinedStep DEF DashInv, DashTyped
<1>5. pool' \in Seq(Tx) /\ Len(pool') = Len(pool) - 1
  BY <1>1, <1>2, <1>3, TakenOut
<1>6. PoolTyped'
  BY <1>1, <1>3, <1>5, DashboardAssumption DEF PoolTyped, Mine
<1> QED
  BY <1>4, <1>6, ChainKeeps DEF Mine

LEMMA OthersKeep ==
  ASSUME DashInv, OthersAct
  PROVE  DashInv'
<1>1. PoolTyped'
  BY DEF OthersAct, DashInv, DashTyped, PoolTyped
<1> QED
  BY <1>1, OthersStep, ChainKeeps DEF OthersAct, DashInv, DashTyped

\* The chain stands still while the page acts.
LEMMA StillChain ==
  ASSUME DashInv, UNCHANGED chainVars
  PROVE  /\ ChainTyped' /\ Owned' /\ past' = past
         /\ policies' = policies
  BY DEF chainVars, DashInv, DashTyped, ChainTyped, Owned, RegistryInv, TypeOK,
         PoliciesConsistent

\* The handler is asked for something else, or for nothing.
Request ==
  [stage : {"idle", "prompt", "refreshing"},
   call : {"none", "pause", "resume", "register", "sign"},
   root : PolicyRoots \cup {NoRoot}, start : Nat, end : Nat]

LEMMA IdleTyped == Idle \in Request /\ Idle.stage = "idle" /\ Idle.call = "none"
  BY DEF Idle, Request

\* Every action of the page leaves most of the page alone.
LEMMA PageKeeps ==
  ASSUME DashInv, UNCHANGED chainVars, PoolTyped', HandlerTyped', FormTyped',
         wallet' \in Wallets \cup {NoAccount},
         lastPress' \in {"none", "pause", "resume"},
         shown'.root \in {NoRoot, policies[AgentAddress].policyRoot},
         delegation' \in {NoRoot, policies[AgentAddress].policyRoot},
         handler'.call = "sign" =>
           handler'.root \in {NoRoot, policies[AgentAddress].policyRoot}
  PROVE  DashInv'
<1>1. ChainTyped' /\ Owned' /\ past' = past /\ policies' = policies
  BY StillChain
<1>2. policies[AgentAddress].policyRoot \in PolicyRoots \cup {NoRoot}
  BY DashboardAssumption
  DEF DashInv, DashTyped, ChainTyped, RegistryInv, TypeOK, PolicyCommitment
<1>3. RootInv'
  BY <1>1 DEF DashInv, RootInv
<1> QED
  BY <1>1, <1>2, <1>3 DEF DashInv, DashTyped

LEMMA RefreshKeeps ==
  ASSUME DashInv, NEW who \in Refreshers, Refreshing(who)
  PROVE  DashInv'
<1>1. /\ refreshes[who] # 0 /\ refreshes' = [refreshes EXCEPT ![who] = 0]
      /\ handler' = IF who = "handler" THEN Idle ELSE handler
      /\ UNCHANGED <<chainVars, pool, sent, page, wallet, lastPress, form, delegation>>
  BY DEF Refreshing, RefreshDone, RefreshFailed, HandlerResumes
<1>2. /\ refreshes \in [Refreshers -> 0 .. Len(past)] /\ Len(past) \in Nat
      /\ RootInv /\ past' = past
  BY <1>1, StillChain DEF DashInv, DashTyped, HandlerTyped, ChainTyped
<1>3. shown'.root \in {NoRoot, policies[AgentAddress].policyRoot}
  <2>1. CASE RefreshDone(who)
    <3>1. PICK policyAt \in refreshes[who] .. Now : \E countAt, recentAt \in refreshes[who] .. Now :
            shown' = Display([policy |-> policyAt, count |-> countAt, recent |-> recentAt])
      BY <2>1 DEF RefreshDone
    <3>2. PICK countAt \in refreshes[who] .. Now : \E recentAt \in refreshes[who] .. Now :
            shown' = Display([policy |-> policyAt, count |-> countAt, recent |-> recentAt])
      BY <3>1
    <3>3. PICK recentAt \in refreshes[who] .. Now :
            shown' = Display([policy |-> policyAt, count |-> countAt, recent |-> recentAt])
      BY <3>2
    <3>4. shown'.root = past[policyAt].policy.policyRoot
      BY <3>3 DEF Display
    <3>5. policyAt \in 1 .. Len(past)
      BY <1>1, <1>2, <3>1 DEF Now
    <3> QED
      BY <1>2, <3>4, <3>5 DEF RootInv
  <2>2. CASE RefreshFailed(who)
    BY <1>2, <2>2 DEF RefreshFailed, RootInv
  <2> QED
    BY <2>1, <2>2 DEF Refreshing
<1>4. HandlerTyped'
  <2>1. CASE who = "handler"
    BY <1>1, <1>2, <2>1, IdleTyped DEF HandlerTyped, Request
  <2>2. CASE who # "handler"
    BY <1>1, <1>2, <2>2 DEF HandlerTyped, DashInv, DashTyped, Refreshers
  <2> QED
    BY <2>1, <2>2
<1>5. PoolTyped' /\ FormTyped'
  BY <1>1 DEF DashInv, DashTyped, PoolTyped, FormTyped
<1>6. handler'.call = "sign" => handler'.root \in {NoRoot, policies[AgentAddress].policyRoot}
  BY <1>1, <1>2, IdleTyped DEF RootInv
<1> QED
  BY <1>1, <1>2, <1>3, <1>4, <1>5, <1>6, PageKeeps DEF DashInv, DashTyped, RootInv

LEMMA TimerKeeps ==
  ASSUME DashInv, Timer
  PROVE  DashInv'
<1>1. /\ refreshes' = [refreshes EXCEPT !["timer"] = Len(past)]
      /\ UNCHANGED <<chainVars, pool, sent, uiVars, shown>>
  BY DEF Timer, StartRefresh, Now
<1>2. past' = past /\ Len(past) \in Nat
  BY <1>1, StillChain DEF DashInv, DashTyped, ChainTyped
<1>3. HandlerTyped'
  BY <1>1, <1>2 DEF DashInv, DashTyped, HandlerTyped, Refreshers, uiVars
<1>4. PoolTyped' /\ FormTyped'
  BY <1>1 DEF DashInv, DashTyped, PoolTyped, FormTyped, uiVars
<1> QED
  BY <1>1, <1>3, <1>4, PageKeeps DEF DashInv, DashTyped, RootInv, uiVars

LEMMA SwitchKeeps ==
  ASSUME DashInv, SwitchWallet
  PROVE  DashInv'
<1>1. /\ wallet' \in Wallets \cup {NoAccount}
      /\ UNCHANGED <<chainVars, pool, sent, page, handler, lastPress, form, delegation,
                     shown, refreshes>>
  BY DEF SwitchWallet
<1>2. past' = past
  BY <1>1, StillChain
<1>3. PoolTyped' /\ FormTyped' /\ HandlerTyped'
  BY <1>1, <1>2 DEF DashInv, DashTyped, PoolTyped, FormTyped, HandlerTyped
<1> QED
  BY <1>1, <1>3, PageKeeps DEF DashInv, DashTyped, RootInv

LEMMA AskKeeps ==
  ASSUME DashInv, NEW request \in Request, Ask(request), request.call # "none",
         request.call = "sign" => request.root \in {NoRoot, policies[AgentAddress].policyRoot}
  PROVE  DashInv'
<1>1. /\ handler.stage = "idle" /\ handler' = [request EXCEPT !.stage = "prompt"]
      /\ UNCHANGED <<chainVars, pool, sent, page, wallet, lastPress, form, delegation,
                     shown, refreshes>>
  BY DEF Ask
<1>2. past' = past
  BY <1>1, StillChain
<1>3. /\ handler' \in Request /\ handler'.stage = "prompt"
      /\ handler'.call = request.call /\ handler'.root = request.root
  BY <1>1 DEF Request
<1>4. HandlerTyped'
  BY <1>1, <1>2, <1>3 DEF DashInv, DashTyped, HandlerTyped, Request
<1>5. PoolTyped' /\ FormTyped'
  BY <1>1 DEF DashInv, DashTyped, PoolTyped, FormTyped
<1> QED
  BY <1>1, <1>3, <1>4, <1>5, PageKeeps DEF DashInv, DashTyped, RootInv

LEMMA ToggleKeeps ==
  ASSUME DashInv, PressToggle
  PROVE  DashInv'
<1> DEFINE request == [Idle EXCEPT !.call = IF shown.breaker THEN "resume" ELSE "pause"]
<1>1. request \in Request /\ request.call \in {"resume", "pause"}
  BY IdleTyped DEF Request
<1>2. Ask(request)
  BY DEF PressToggle
<1> HIDE DEF request
<1> QED
  BY <1>1, <1>2, AskKeeps

LEMMA AuthorizationKeeps ==
  ASSUME DashInv, PressSignAuthorization
  PROVE  DashInv'
<1> DEFINE request == [Idle EXCEPT !.call = "sign", !.root = shown.root]
<1>1. request \in Request /\ request.call = "sign" /\ request.root = shown.root
  BY IdleTyped DEF Request, DashInv, DashTyped
<1>2. Ask(request)
  BY DEF PressSignAuthorization
<1>3. shown.root \in {NoRoot, policies[AgentAddress].policyRoot}
  BY DEF DashInv, RootInv
<1> HIDE DEF request
<1> QED
  BY <1>1, <1>2, <1>3, AskKeeps

LEMMA RegisterPolicyKeeps ==
  ASSUME DashInv, PressRegisterPolicy
  PROVE  DashInv'
<1>1. PICK c \in form.compiled :
        LET p == CompilePolicy(c.answer)
        IN Ask([Idle EXCEPT !.call = "register", !.root = p.policyRoot,
                  !.start = p.constraints.active_hours_start_utc,
                  !.end = p.constraints.active_hours_end_utc])
  BY Zenon DEF PressRegisterPolicy
<1> DEFINE p == CompilePolicy(c.answer)
           request == [Idle EXCEPT !.call = "register", !.root = p.policyRoot,
                         !.start = p.constraints.active_hours_start_utc,
                         !.end = p.constraints.active_hours_end_utc]
<1>2. c.answer \in Answers /\ Compiles(c.answer)
  BY DEF DashInv, DashTyped, FormTyped, CompiledPolicy
<1>3. p.policyRoot \in PolicyRoots /\ p.constraints.active_hours_start_utc \in Nat
      /\ p.constraints.active_hours_end_utc \in Nat
  BY <1>2, CompiledWindow
<1>4. Ask(request)
  BY <1>1
<1> HIDE DEF p
<1>5. request \in Request /\ request.call = "register"
  BY <1>3, IdleTyped DEF Request
<1> HIDE DEF request
<1> QED
  BY <1>4, <1>5, AskKeeps

LEMMA RejectKeeps ==
  ASSUME DashInv, WalletRejects
  PROVE  DashInv'
<1>1. /\ handler.stage = "prompt" /\ handler' = Idle
      /\ UNCHANGED <<chainVars, pool, sent, page, wallet, lastPress, form, delegation,
                     shown, refreshes>>
  BY DEF WalletRejects
<1>2. past' = past
  BY <1>1, StillChain
<1>3. HandlerTyped'
  BY <1>1, <1>2, IdleTyped DEF DashInv, DashTyped, HandlerTyped, Request
<1>4. PoolTyped' /\ FormTyped'
  BY <1>1 DEF DashInv, DashTyped, PoolTyped, FormTyped
<1> QED
  BY <1>1, <1>3, <1>4, IdleTyped, PageKeeps DEF DashInv, DashTyped, RootInv

LEMMA SignKeeps ==
  ASSUME DashInv, WalletSigns
  PROVE  DashInv'
<1>1. /\ handler.stage = "prompt" /\ handler.call = "sign" /\ handler' = Idle
      /\ delegation' = handler.root
      /\ UNCHANGED <<chainVars, pool, sent, page, wallet, lastPress, form, shown, refreshes>>
  BY DEF WalletSigns
<1>2. past' = past
  BY <1>1, StillChain
<1>3. HandlerTyped'
  BY <1>1, <1>2, IdleTyped DEF DashInv, DashTyped, HandlerTyped, Request
<1>4. PoolTyped' /\ FormTyped'
  BY <1>1 DEF DashInv, DashTyped, PoolTyped, FormTyped
<1> QED
  BY <1>1, <1>3, <1>4, IdleTyped, PageKeeps DEF DashInv, DashTyped, RootInv

\* What the wallet sends.
LEMMA SentTyped ==
  ASSUME DashInv, WalletSends
  PROVE  \E tx \in Tx : /\ pool' = Append(pool, tx)
                        /\ tx.from = wallet /\ tx.call = handler.call
<1> DEFINE tx == [from |-> wallet,
                  call |-> IF handler.call = "register" THEN "register" ELSE CallSent,
                  root |-> handler.root, tier |-> 1,
                  start |-> handler.start, end |-> handler.end]
<1>1. handler \in Request /\ handler.call \in {"pause", "resume", "register"}
  BY DEF WalletSends, DashInv, DashTyped, HandlerTyped, Request
<1>2. wallet \in Wallets
  BY DEF WalletSends, Ready
<1>3. tx \in Tx /\ tx.from = wallet /\ tx.call = handler.call
  BY <1>1, <1>2 DEF Tx, Request, CallSent
<1>4. pool' = Append(pool, tx)
  BY DEF WalletSends
<1> QED
  BY <1>3, <1>4

LEMMA SendKeeps ==
  ASSUME DashInv, WalletSends
  PROVE  DashInv'
<1>1. /\ handler.stage = "prompt" /\ handler.call # "sign"
      /\ handler' = [handler EXCEPT !.stage = "refreshing"]
      /\ refreshes' = [refreshes EXCEPT !["handler"] = Len(past)]
      /\ sent' = sent + 1
      /\ sent < IF page = "create" THEN 1 ELSE MaxPool
      /\ UNCHANGED <<chainVars, page, wallet, form, delegation, shown>>
  BY DEF WalletSends, StartRefresh, Now
<1>2. past' = past /\ Len(past) \in 1 .. MaxMoments
  BY <1>1, StillChain DEF DashInv, DashTyped, ChainTyped
<1>3. HandlerTyped'
  BY <1>1, <1>2, DashboardAssumption DEF DashInv, DashTyped, HandlerTyped, Refreshers
<1>4. PoolTyped'
  <2>1. PICK tx \in Tx : pool' = Append(pool, tx)
    BY SentTyped
  <2>2. pool \in Seq(Tx) /\ sent \in 0 .. MaxPool /\ Len(pool) <= sent
    BY DEF DashInv, DashTyped, PoolTyped
  <2>3. pool' \in Seq(Tx) /\ Len(pool') = Len(pool) + 1
    BY <2>1, <2>2, AppendProperties
  <2>4. sent < MaxPool
    BY <1>1, <2>2, DashboardAssumption
  <2> QED
    BY <1>1, <2>2, <2>3, <2>4, DashboardAssumption DEF PoolTyped
<1>5. FormTyped'
  BY <1>1 DEF DashInv, DashTyped, FormTyped
<1>6. lastPress' \in {"none", "pause", "resume"}
  BY <1>1 DEF WalletSends, DashInv, DashTyped, HandlerTyped
<1>7. handler'.call = handler.call
  BY <1>1 DEF DashInv, DashTyped, HandlerTyped
<1> QED
  BY <1>1, <1>3, <1>4, <1>5, <1>6, <1>7, PageKeeps DEF DashInv, DashTyped, RootInv

\* The form.
LEMMA FormKeeps ==
  ASSUME DashInv, Edit \/ PressCompile \/ CompileAnswers
  PROVE  DashInv'
<1>1. UNCHANGED <<chainVars, pool, sent, page, wallet, handler, lastPress, delegation,
                  shown, refreshes>>
  BY DEF Edit, PressCompile, CompileAnswers
<1>2. past' = past
  BY <1>1, StillChain
<1>3. form \in [intent : Intents \cup {NoIntent}, compiled : SUBSET CompiledPolicy,
                request : Requested]
  BY DEF DashInv, DashTyped, FormTyped
<1>4. FormTyped'
  <2>1. CASE Edit
    <3>1. PICK intent \in Intents \cup {NoIntent} :
            form' = [form EXCEPT !.intent = intent, !.compiled = {},
                                 !.request.overtaken = form.request # NoRequest]
      BY <2>1 DEF Edit, Edited
    <3>2. form' = [intent |-> intent, compiled |-> {},
                   request |-> [of |-> form.request.of,
                                overtaken |-> form.request # NoRequest]]
      BY <1>3, <3>1 DEF Requested
    <3>3. CASE form.request = NoRequest
      <4>1. form' = [intent |-> intent, compiled |-> {}, request |-> NoRequest]
        <5>1. form.request.of = NoIntent
          BY <3>3 DEF NoRequest
        <5>2. (form.request # NoRequest) = FALSE
          BY <3>3
        <5>3. form' = [intent |-> intent, compiled |-> {},
                       request |-> [of |-> NoIntent, overtaken |-> FALSE]]
          BY <3>2, <5>1, <5>2, Zenon
        <5> QED
          BY <5>3 DEF NoRequest
      <4>2. NoRequest \in Requested
        BY DEF NoRequest, Requested
      <4> QED
        BY <4>1, <4>2 DEF FormTyped
    <3>4. CASE form.request # NoRequest
      BY <1>3, <3>2, <3>4 DEF FormTyped, Requested
    <3> QED
      BY <3>3, <3>4
  <2>2. CASE PressCompile
    <3>1. /\ form.request = NoRequest
          /\ form' = [form EXCEPT !.compiled = {}, !.request.of = form.intent]
      BY <2>2 DEF PressCompile
    <3>2. form' = [intent |-> form.intent, compiled |-> {},
                   request |-> [of |-> form.intent, overtaken |-> FALSE]]
      <4>1. form' = [intent |-> form.intent, compiled |-> {},
                     request |-> [of |-> form.intent, overtaken |-> form.request.overtaken]]
        BY <1>3, <3>1 DEF Requested
      <4>2. form.request.overtaken = FALSE
        BY <3>1 DEF NoRequest
      <4> QED
        BY <4>1, <4>2, Zenon
    <3> QED
      BY <1>3, <3>2 DEF FormTyped, Requested
  <2>3. CASE CompileAnswers
    <3>1. PICK compiled \in {{}} \cup
               {{[of |-> form.request.of, overtaken |-> form.request.overtaken, answer |-> a]} :
                  a \in {a \in Answers : Compiles(a)}} :
            form' = [form EXCEPT !.compiled = compiled, !.request = NoRequest]
      BY <2>3 DEF CompileAnswers
    <3>2. form' = [intent |-> form.intent, compiled |-> compiled, request |-> NoRequest]
      BY <1>3, <3>1
    <3>3. NoRequest \in Requested
      BY DEF NoRequest, Requested
    <3>4. \A c \in compiled : /\ c \in CompiledPolicy
                              /\ c.of = form.request.of
                              /\ c.overtaken = form.request.overtaken
      BY <1>3, <3>1 DEF CompiledPolicy, Requested
    <3>5. form.request # NoRequest /\ form.request.overtaken \in BOOLEAN
      BY <1>3, <2>3 DEF CompileAnswers, Requested
    <3>6. ~form.request.overtaken => form.request.of = form.intent
      BY <3>5 DEF DashInv, DashTyped, FormTyped
    <3>7. form' \in [intent : Intents \cup {NoIntent}, compiled : SUBSET CompiledPolicy,
                     request : Requested]
      BY <1>3, <3>2, <3>3, <3>4
    <3>8. \A c \in form'.compiled : c.of # form'.intent => c.overtaken
      BY <3>2, <3>4, <3>5, <3>6
    <3> QED
      BY <3>2, <3>7, <3>8 DEF FormTyped
  <2> QED
    BY <2>1, <2>2, <2>3
<1>5. PoolTyped' /\ HandlerTyped'
  BY <1>1, <1>2 DEF DashInv, DashTyped, PoolTyped, HandlerTyped
<1> QED
  BY <1>1, <1>4, <1>5, PageKeeps DEF DashInv, DashTyped, RootInv

LEMMA DashInvNext ==
  ASSUME DashInv, [DashboardNext]_dashboardVars
  PROVE  DashInv'
<1>1. CASE UNCHANGED dashboardVars
  <2>1. UNCHANGED <<chainVars, pool, sent, uiVars, shown, refreshes>>
    BY <1>1 DEF dashboardVars
  <2>2. past' = past
    BY <2>1, StillChain
  <2>3. PoolTyped' /\ HandlerTyped' /\ FormTyped'
    BY <2>1, <2>2 DEF DashInv, DashTyped, PoolTyped, HandlerTyped, FormTyped, uiVars
  <2> QED
    BY <2>1, <2>3, PageKeeps DEF DashInv, DashTyped, RootInv, uiVars
<1> QED
  BY <1>1, MineKeeps, OthersKeep, RefreshKeeps, TimerKeeps, SwitchKeeps, ToggleKeeps,
     AuthorizationKeeps, RegisterPolicyKeeps, RejectKeeps, SignKeeps, SendKeeps, FormKeeps
  DEF DashboardNext, VisitorActs

LEMMA DashInvRoot == DashInv => SignedRootCommitted
  BY DEF DashInv, RootInv, SignedRootCommitted
-----------------------------------------------------------------------------
(* The dashboard: PAUSE.                                                   *)

\* The last word on the agent is in the pool, or has been spoken.
PauseUnderWay(k) ==
  /\ IF k = 0 THEN policies[AgentAddress].circuitBreaker
     ELSE pool[k].from = AgentAddress /\ pool[k].call = "pause"
  /\ \A j \in k + 1 .. Len(pool) : ~(pool[j].from = AgentAddress /\ pool[j].call = "resume")

PauseInv ==
  /\ page # "vault" => lastPress = "none" /\ handler.call \notin {"pause", "resume"}
  /\ page = "vault" =>
       /\ handler.call # "register"
       /\ \A i \in 1 .. Len(pool) : pool[i].call # "register"
  /\ (lastPress = "pause" /\ IsRegistered(AgentAddress)) =>
       \E k \in 0 .. Len(pool) : PauseUnderWay(k)

LEMMA PauseInvHolds == DashInv /\ PauseInv => PauseHolds
<1> SUFFICES ASSUME DashInv, PauseInv, lastPress = "pause", pool = << >>, IsRegistered(AgentAddress)
             PROVE  CircuitBreakerTriggered(AgentAddress)
  BY DEF PauseHolds
<1>1. PICK k \in 0 .. Len(pool) : PauseUnderWay(k)
  BY DEF PauseInv
<1>2. k = 0
  BY <1>1
<1> QED
  BY <1>1, <1>2 DEF PauseUnderWay, CircuitBreakerTriggered

LEMMA PauseInvInit == DashboardInit => PauseInv
<1> SUFFICES ASSUME DashboardInit PROVE PauseInv
  OBVIOUS
<1>1. pool = << >> /\ handler = Idle /\ lastPress = "none"
  BY Zenon DEF DashboardInit
<1> QED
  BY <1>1, IdleTyped DEF PauseInv

\* Where neither pool nor policy nor press changes, the handler takes up what its
\* page offers, or nothing.
LEMMA PauseCalm ==
  ASSUME PauseInv, UNCHANGED <<policies, pool, page, lastPress>>,
         \/ handler'.call \in {handler.call, "none", "sign"}
         \/ page = "vault" /\ handler'.call \in {"pause", "resume"}
         \/ page = "create" /\ handler'.call = "register"
  PROVE  PauseInv'
<1>1. \A k : PauseUnderWay(k) => PauseUnderWay(k)'
  BY DEF PauseUnderWay
<1> QED
  BY <1>1 DEF PauseInv, IsRegistered

LEMMA PauseAsk ==
  ASSUME DashInv, PauseInv, NEW request \in Request, Ask(request),
         \/ request.call = "sign"
         \/ page = "vault" /\ request.call \in {"pause", "resume"}
         \/ page = "create" /\ request.call = "register"
  PROVE  PauseInv'
<1>1. handler' = [request EXCEPT !.stage = "prompt"]
      /\ UNCHANGED <<policies, pool, page, lastPress>>
  BY DEF Ask, chainVars
<1>2. handler'.call = request.call
  BY <1>1 DEF Request
<1> QED
  BY <1>1, <1>2, PauseCalm

LEMMA PausePage ==
  ASSUME DashInv, PauseInv,
         \/ \E who \in Refreshers : Refreshing(who)
         \/ Timer \/ SwitchWallet \/ PressToggle \/ PressSignAuthorization
         \/ PressRegisterPolicy \/ Edit \/ PressCompile \/ CompileAnswers
         \/ WalletRejects \/ WalletSigns \/ UNCHANGED dashboardVars
  PROVE  PauseInv'
<1>1. CASE UNCHANGED <<policies, pool, page, lastPress>> /\ handler' \in {handler, Idle}
  BY <1>1, IdleTyped, PauseCalm
<1>2. ASSUME NEW who \in Refreshers, Refreshing(who)
      PROVE  PauseInv'
  BY <1>1, <1>2 DEF Refreshing, RefreshDone, RefreshFailed, HandlerResumes, chainVars
<1>3. CASE Timer \/ SwitchWallet \/ UNCHANGED dashboardVars
  BY <1>1, <1>3 DEF Timer, SwitchWallet, dashboardVars, chainVars, uiVars
<1>4. CASE Edit \/ PressCompile \/ CompileAnswers
  BY <1>1, <1>4 DEF Edit, PressCompile, CompileAnswers, chainVars
<1>5. CASE WalletRejects \/ WalletSigns
  BY <1>1, <1>5 DEF WalletRejects, WalletSigns, chainVars
<1>6. CASE PressToggle
  <2> DEFINE request == [Idle EXCEPT !.call = IF shown.breaker THEN "resume" ELSE "pause"]
  <2>1. request \in Request /\ request.call \in {"resume", "pause"}
    BY IdleTyped DEF Request
  <2>2. page = "vault" /\ Ask(request)
    BY <1>6 DEF PressToggle
  <2> HIDE DEF request
  <2> QED
    BY <2>1, <2>2, PauseAsk
<1>7. CASE PressSignAuthorization
  <2> DEFINE request == [Idle EXCEPT !.call = "sign", !.root = shown.root]
  <2>1. request \in Request /\ request.call = "sign"
    BY IdleTyped DEF Request, DashInv, DashTyped
  <2>2. Ask(request)
    BY <1>7 DEF PressSignAuthorization
  <2> HIDE DEF request
  <2> QED
    BY <2>1, <2>2, PauseAsk
<1>8. CASE PressRegisterPolicy
  <2>1. PICK c \in form.compiled :
          LET p == CompilePolicy(c.answer)
          IN Ask([Idle EXCEPT !.call = "register", !.root = p.policyRoot,
                    !.start = p.constraints.active_hours_start_utc,
                    !.end = p.constraints.active_hours_end_utc])
    BY <1>8, Zenon DEF PressRegisterPolicy
  <2> DEFINE p == CompilePolicy(c.answer)
             request == [Idle EXCEPT !.call = "register", !.root = p.policyRoot,
                           !.start = p.constraints.active_hours_start_utc,
                           !.end = p.constraints.active_hours_end_utc]
  <2>2. c.answer \in Answers /\ Compiles(c.answer)
    BY DEF DashInv, DashTyped, FormTyped, CompiledPolicy
  <2>3. p.policyRoot \in PolicyRoots /\ p.constraints.active_hours_start_utc \in Nat
        /\ p.constraints.active_hours_end_utc \in Nat
    BY <2>2, CompiledWindow
  <2>4. Ask(request) /\ page = "create"
    BY <1>8, <2>1 DEF PressRegisterPolicy
  <2> HIDE DEF p
  <2>5. request \in Request /\ request.call = "register"
    BY <2>3, IdleTyped DEF Request
  <2> HIDE DEF request
  <2> QED
    BY <2>4, <2>5, PauseAsk
<1> QED
  BY <1>2, <1>3, <1>4, <1>5, <1>6, <1>7, <1>8

\* The wallet sends what the agent's owner pressed last behind all it sent before.
LEMMA PauseSent ==
  ASSUME DashInv, PauseInv, WalletSends
  PROVE  PauseInv'
<1>1. PICK tx \in Tx : pool' = Append(pool, tx) /\ tx.from = wallet /\ tx.call = handler.call
  BY SentTyped
<1>2. /\ UNCHANGED <<policies, page>>
      /\ handler.call \in {"pause", "resume", "register"}
      /\ handler' = [handler EXCEPT !.stage = "refreshing"]
      /\ lastPress' = IF handler.call # "register" /\ wallet = AgentAddress
                      THEN handler.call ELSE lastPress
  BY DEF WalletSends, chainVars, DashInv, DashTyped, HandlerTyped
<1>3. pool \in Seq(Tx) /\ Len(pool) \in Nat /\ handler'.call = handler.call
  BY <1>2 DEF DashInv, DashTyped, PoolTyped, HandlerTyped
<1>4. /\ Len(pool') = Len(pool) + 1
      /\ \A i \in 1 .. Len(pool) : pool'[i] = pool[i]
      /\ pool'[Len(pool) + 1] = tx
  BY <1>1, <1>3, AppendProperties
<1>5. (page # "vault" => lastPress' = "none" /\ handler'.call \notin {"pause", "resume"})
      /\ (page = "vault" => handler'.call # "register")
  BY <1>2, <1>3 DEF PauseInv
<1>6. page = "vault" => \A i \in 1 .. Len(pool') : pool'[i].call # "register"
  <2> SUFFICES ASSUME page = "vault", NEW i \in 1 .. Len(pool')
               PROVE  pool'[i].call # "register"
    OBVIOUS
  <2>1. CASE i \in 1 .. Len(pool)
    BY <1>4, <2>1 DEF PauseInv
  <2>2. CASE i = Len(pool) + 1
    BY <1>1, <1>4, <2>2 DEF PauseInv
  <2> QED
    BY <1>3, <1>4, <2>1, <2>2
<1>7. ASSUME lastPress' = "pause", IsRegistered(AgentAddress)'
      PROVE  \E k \in 0 .. Len(pool') : PauseUnderWay(k)'
  <2>1. CASE handler.call = "pause" /\ wallet = AgentAddress
    <3>0. PICK k \in Nat : k = Len(pool) + 1
      BY <1>3
    <3>1. k \in 0 .. Len(pool') /\ k # 0 /\ k + 1 > Len(pool')
      BY <1>3, <1>4, <3>0
    <3>2. PauseUnderWay(k)'
      BY <1>1, <1>3, <1>4, <2>1, <3>0, <3>1 DEF PauseUnderWay
    <3> QED
      BY <3>1, <3>2
  <2>2. CASE handler.call = "resume" /\ wallet = AgentAddress
    BY <1>2, <1>7, <2>2
  <2>3. CASE handler.call = "register" \/ wallet # AgentAddress
    <3>1. lastPress = "pause" /\ IsRegistered(AgentAddress)
      BY <1>2, <1>7, <2>3 DEF IsRegistered
    <3>2. PICK k \in 0 .. Len(pool) : PauseUnderWay(k)
      BY <3>1 DEF PauseInv
    <3>3. ~(tx.from = AgentAddress /\ tx.call = "resume")
      BY <1>1, <2>3
    <3>4. \A j \in k + 1 .. Len(pool') :
            ~(pool'[j].from = AgentAddress /\ pool'[j].call = "resume")
      <4> SUFFICES ASSUME NEW j \in k + 1 .. Len(pool')
                   PROVE  ~(pool'[j].from = AgentAddress /\ pool'[j].call = "resume")
        OBVIOUS
      <4>1. CASE j = Len(pool) + 1
        BY <1>4, <3>3, <4>1
      <4>2. CASE j # Len(pool) + 1
        <5>1. j \in k + 1 .. Len(pool) /\ j \in 1 .. Len(pool)
          BY <1>3, <1>4, <4>2
        <5> QED
          BY <1>4, <3>2, <5>1 DEF PauseUnderWay
      <4> QED
        BY <4>1, <4>2
    <3>5. IF k = 0 THEN policies'[AgentAddress].circuitBreaker
          ELSE pool'[k].from = AgentAddress /\ pool'[k].call = "pause"
      <4>1. CASE k = 0
        BY <1>2, <3>2, <4>1 DEF PauseUnderWay
      <4>2. CASE k # 0
        BY <1>4, <3>2, <4>2 DEF PauseUnderWay
      <4> QED
        BY <4>1, <4>2
    <3>6. k \in 0 .. Len(pool')
      BY <1>3, <1>4
    <3> QED
      BY <3>4, <3>5, <3>6 DEF PauseUnderWay
  <2> QED
    BY <1>2, <2>1, <2>2, <2>3
<1> QED
  BY <1>2, <1>5, <1>6, <1>7 DEF PauseInv

\* Recording and breaking never take a breaker back.
LEMMA BreakerStays ==
  ASSUME RegistryInv, NEW sender \in Accounts, NEW ok \in BOOLEAN,
         \/ TriggerCircuitBreaker(sender, AgentAddress)
         \/ RecordOutcome(sender, AgentAddress, ok)
  PROVE  /\ policies'[AgentAddress].owner = policies[AgentAddress].owner
         /\ policies[AgentAddress].circuitBreaker => policies'[AgentAddress].circuitBreaker
<1>1. AgentAddress \in Agents
  BY DashboardAssumption
<1>2. policies \in [Agents -> PolicyCommitment] /\ policies[AgentAddress] \in PolicyCommitment
  BY <1>1 DEF RegistryInv, TypeOK
<1>3. CASE TriggerCircuitBreaker(sender, AgentAddress)
  BY <1>1, <1>2, <1>3 DEF TriggerCircuitBreaker, Broken, PolicyCommitment
<1>4. CASE RecordOutcome(sender, AgentAddress, ok)
  BY <1>1, <1>2, <1>4 DEF RecordOutcome, OutcomeRecorded, PolicyCommitment
<1> QED
  BY <1>3, <1>4

LEMMA PauseOthers ==
  ASSUME DashInv, PauseInv, OthersAct
  PROVE  PauseInv'
<1>1. RegistryInv /\ RegistryOwner \in Accounts
  BY RegistryAssumption DEF DashInv, DashTyped, ChainTyped
<1>2. UNCHANGED <<pool, page, lastPress, handler>>
  BY DEF OthersAct, uiVars
<1>3. /\ policies'[AgentAddress].owner = policies[AgentAddress].owner
      /\ policies[AgentAddress].circuitBreaker => policies'[AgentAddress].circuitBreaker
  <2>1. CASE UNCHANGED registryVars
    BY <2>1 DEF registryVars
  <2>2. ASSUME NEW ok \in BOOLEAN,
               \/ TriggerCircuitBreaker(RegistryOwner, AgentAddress)
               \/ RecordOutcome(RegistryOwner, AgentAddress, ok)
        PROVE  /\ policies'[AgentAddress].owner = policies[AgentAddress].owner
               /\ policies[AgentAddress].circuitBreaker => policies'[AgentAddress].circuitBreaker
    BY <1>1, <2>2, BreakerStays
  <2> QED
    BY <2>1, <2>2 DEF OthersAct
<1>4. \A k : PauseUnderWay(k) => PauseUnderWay(k)'
  BY <1>2, <1>3 DEF PauseUnderWay
<1> QED
  BY <1>2, <1>3, <1>4 DEF PauseInv, IsRegistered

\* What being mined is to the breaker of a registered agent.
LEMMA PauseMined ==
  ASSUME DashInv, NEW tx \in Tx, tx.call # "register",
         \/ tx.call = "register" /\ MineRegistration(tx)
         \/ tx.call = "pause" /\ MinePause(tx)
         \/ tx.call = "resume" /\ MineResume(tx),
         IsRegistered(AgentAddress)'
  PROVE  /\ IsRegistered(AgentAddress)
         /\ (tx.from = AgentAddress /\ tx.call = "pause") =>
              policies'[AgentAddress].circuitBreaker
         /\ ~(tx.from = AgentAddress /\ tx.call = "resume") =>
              (policies[AgentAddress].circuitBreaker => policies'[AgentAddress].circuitBreaker)
<1>1. /\ RegistryInv /\ tx.from \in Accounts /\ AgentAddress \in Agents
      /\ policies[AgentAddress].owner \in {NoAccount, AgentAddress}
      /\ policies \in [Agents -> PolicyCommitment]
  BY DashboardAssumption, RegistryAssumption
  DEF DashInv, DashTyped, ChainTyped, Tx, Owned, RegistryInv, TypeOK
<1>2. CASE UNCHANGED policies /\ (tx.call = "pause" => ~MayBreak(tx.from, AgentAddress))
  BY <1>1, <1>2 DEF IsRegistered, MayBreak
<1>3. CASE tx.call = "pause" /\ TriggerCircuitBreaker(tx.from, AgentAddress)
  <2>1. IsRegistered(AgentAddress)
    BY <1>3 DEF TriggerCircuitBreaker, MayBreak
  <2>2. policies'[AgentAddress].circuitBreaker
    BY <1>1, <1>3 DEF TriggerCircuitBreaker, Broken, PolicyCommitment
  <2> QED
    BY <1>3, <2>1, <2>2
<1>4. CASE tx.call = "resume" /\ ResumeAgent(tx.from, AgentAddress)
  BY <1>1, <1>4 DEF ResumeAgent, IsRegistered
<1>5. CASE tx.call = "pause" /\ MinePause(tx)
  BY <1>2, <1>3, <1>5 DEF MinePause, chainVars
<1>6. CASE tx.call = "resume" /\ MineResume(tx)
  BY <1>2, <1>4, <1>6 DEF MineResume, chainVars
<1> QED
  BY <1>5, <1>6

LEMMA PauseMine ==
  ASSUME DashInv, PauseInv, Mine
  PROVE  PauseInv'
<1>1. PICK i \in DOMAIN pool :
        /\ \A earlier \in 1 .. i - 1 : pool[earlier].from # pool[i].from
        /\ pool' = SubSeq(pool, 1, i - 1) \o SubSeq(pool, i + 1, Len(pool))
        /\ \/ pool[i].call = "register" /\ MineRegistration(pool[i])
           \/ pool[i].call = "pause" /\ MinePause(pool[i])
           \/ pool[i].call = "resume" /\ MineResume(pool[i])
  BY Zenon DEF Mine
<1>2. pool \in Seq(Tx) /\ Len(pool) \in Nat /\ i \in 1 .. Len(pool) /\ pool[i] \in Tx
  BY <1>1 DEF DashInv, DashTyped, PoolTyped
<1>3. /\ Len(pool') = Len(pool) - 1
      /\ \A j \in 1 .. Len(pool) - 1 : pool'[j] = IF j < i THEN pool[j] ELSE pool[j + 1]
  <2>0. pool' = SubSeq(pool, 1, i - 1) \o SubSeq(pool, i + 1, Len(pool))
    BY <1>1
  <2>1. /\ Len(pool') = Len(pool) - 1
        /\ \A j \in 1 .. Len(pool') : pool'[j] = IF j < i THEN pool[j] ELSE pool[j + 1]
    BY ONLY <1>2, <2>0, TakenOut, ZenonT(60)
  <2> QED
    BY ONLY <1>2, <2>1
<1>4. UNCHANGED <<page, lastPress, handler>>
  BY DEF Mine, uiVars
<1>5. page = "vault" => \A j \in 1 .. Len(pool') : pool'[j].call # "register"
  BY <1>2, <1>3 DEF PauseInv
<1>6. ASSUME lastPress' = "pause", IsRegistered(AgentAddress)'
      PROVE  \E k \in 0 .. Len(pool') : PauseUnderWay(k)'
  <2>1. page = "vault" /\ pool[i].call # "register"
    BY <1>2, <1>4, <1>6 DEF PauseInv
  <2>2. /\ IsRegistered(AgentAddress)
        /\ (pool[i].from = AgentAddress /\ pool[i].call = "pause") =>
             policies'[AgentAddress].circuitBreaker
        /\ ~(pool[i].from = AgentAddress /\ pool[i].call = "resume") =>
             (policies[AgentAddress].circuitBreaker => policies'[AgentAddress].circuitBreaker)
    BY <1>1, <1>2, <1>6, <2>1, PauseMined
  <2>3. PICK k \in 0 .. Len(pool) : PauseUnderWay(k)
    BY <1>4, <1>6, <2>2 DEF PauseInv
  <2>4. \A j \in k + 1 .. Len(pool) : ~(pool[j].from = AgentAddress /\ pool[j].call = "resume")
    BY <2>3 DEF PauseUnderWay
  <2>5. CASE k = 0
    <3>1. policies'[AgentAddress].circuitBreaker
      BY <1>2, <2>2, <2>3, <2>4, <2>5 DEF PauseUnderWay
    <3>2. \A j \in 1 .. Len(pool') : ~(pool'[j].from = AgentAddress /\ pool'[j].call = "resume")
      BY <1>2, <1>3, <2>4, <2>5
    <3>3. PauseUnderWay(0)'
      BY <3>1, <3>2 DEF PauseUnderWay
    <3> QED
      BY <1>2, <1>3, <3>3
  <2>6. CASE k = i
    <3>1. policies'[AgentAddress].circuitBreaker /\ pool[i].from = AgentAddress
      BY <1>2, <2>2, <2>3, <2>6 DEF PauseUnderWay
    <3>2. \A j \in 1 .. Len(pool') : ~(pool'[j].from = AgentAddress /\ pool'[j].call = "resume")
      <4> SUFFICES ASSUME NEW j \in 1 .. Len(pool')
                   PROVE  ~(pool'[j].from = AgentAddress /\ pool'[j].call = "resume")
        OBVIOUS
      <4>1. CASE j < i
        <5>1. j \in 1 .. i - 1 /\ pool'[j] = pool[j]
          BY <1>2, <1>3, <4>1
        <5> QED
          BY <1>1, <3>1, <5>1
      <4>2. CASE ~(j < i)
        <5>1. j + 1 \in k + 1 .. Len(pool) /\ pool'[j] = pool[j + 1]
          BY <1>2, <1>3, <2>6, <4>2
        <5> QED
          BY <2>4, <5>1
      <4> QED
        BY <4>1, <4>2
    <3>3. PauseUnderWay(0)'
      BY <3>1, <3>2 DEF PauseUnderWay
    <3> QED
      BY <1>2, <1>3, <3>3
  <2>7. CASE k # 0 /\ k # i
    <3>0. PICK m \in Nat : m = IF i < k THEN k - 1 ELSE k
      BY <1>2, <2>7
    <3>1. m \in 1 .. Len(pool') /\ pool'[m] = pool[k]
      BY <1>2, <1>3, <2>7, <3>0
    <3>2. pool[k].from = AgentAddress /\ pool[k].call = "pause"
      BY <2>3, <2>7 DEF PauseUnderWay
    <3>3. \A j \in m + 1 .. Len(pool') :
            ~(pool'[j].from = AgentAddress /\ pool'[j].call = "resume")
      <4> SUFFICES ASSUME NEW j \in m + 1 .. Len(pool')
                   PROVE  ~(pool'[j].from = AgentAddress /\ pool'[j].call = "resume")
        OBVIOUS
      <4>1. CASE j < i
        <5>1. j \in k + 1 .. Len(pool) /\ pool'[j] = pool[j]
          BY <1>2, <1>3, <2>7, <3>0, <4>1
        <5> QED
          BY <2>4, <5>1
      <4>2. CASE ~(j < i)
        <5>1. j + 1 \in k + 1 .. Len(pool) /\ pool'[j] = pool[j + 1]
          BY <1>2, <1>3, <2>7, <3>0, <4>2
        <5> QED
          BY <2>4, <5>1
      <4> QED
        BY <4>1, <4>2
    <3>4. PauseUnderWay(m)'
      BY <3>1, <3>2, <3>3 DEF PauseUnderWay
    <3> QED
      BY <3>1, <3>4
  <2> QED
    BY <2>5, <2>6, <2>7
<1> QED
  BY <1>4, <1>5, <1>6 DEF PauseInv

LEMMA PauseInvNext ==
  ASSUME DashInv, PauseInv, [DashboardNext]_dashboardVars
  PROVE  PauseInv'
  BY PausePage, PauseSent, PauseOthers, PauseMine DEF DashboardNext, VisitorActs
-----------------------------------------------------------------------------
(* What a refresh displays.                                               *)

\* Only a refresh that has read everything changes what is displayed.
LEMMA OnlyRefreshesShow ==
  ASSUME [DashboardNext]_dashboardVars, shown' # shown
  PROVE  \E who \in Refreshers : RefreshDone(who)
<1>1. ASSUME NEW w \in Refreshers, RefreshFailed(w) PROVE shown' = shown
  BY <1>1 DEF RefreshFailed
<1>2. ASSUME NEW request, Ask(request) PROVE shown' = shown
  BY <1>2 DEF Ask
<1>3. VisitorActs => shown' = shown
  BY <1>2 DEF VisitorActs, SwitchWallet, PressToggle, PressSignAuthorization,
              PressRegisterPolicy, Edit, PressCompile, WalletRejects, WalletSends, WalletSigns
<1>4. Mine \/ OthersAct \/ Timer \/ CompileAnswers => shown' = shown
  BY DEF Mine, OthersAct, Timer, CompileAnswers
<1> QED
  BY <1>1, <1>3, <1>4 DEF DashboardNext, Refreshing, dashboardVars

\* The ids worked out from the count agree with the records when both are of one moment.
LEMMA NumberedExact ==
  ASSUME NEW feeds \in Seq(Statuses),
         NEW k \in DOMAIN Numbered(Len(feeds), RecentDecisions(feeds, MaxRecent))
  PROVE  LET d == Numbered(Len(feeds), RecentDecisions(feeds, MaxRecent))[k]
         IN d.id = d.record.hash
<1> DEFINE n == IF Len(feeds) < MaxRecent THEN Len(feeds) ELSE MaxRecent
           record(i) == [hash |-> Len(feeds) - i, status |-> feeds[Len(feeds) - i + 1]]
<1>1. RecentDecisions(feeds, MaxRecent) = [i \in 1 .. n |-> record(i)]
  BY DEF RecentDecisions
<1> HIDE DEF n
<1>2. k \in 1 .. n
  BY <1>1 DEF Numbered
<1>3. Numbered(Len(feeds), RecentDecisions(feeds, MaxRecent))[k]
        = [id |-> Len(feeds) - k, record |-> record(k)]
  BY <1>1, <1>2 DEF Numbered
<1> QED
  BY <1>3

\* A refresh that began at the moment it ends at displays that moment.
LEMMA QuietRefresh ==
  ASSUME DashInv, [DashboardNext]_dashboardVars, NEW who \in Refreshers,
         refreshes[who] = Now, refreshes'[who] = 0, shown' # shown
  PROVE  Exact'
<1>1. PICK w \in Refreshers : RefreshDone(w)
  BY OnlyRefreshesShow
<1>2. refreshes \in [Refreshers -> 0 .. Len(past)] /\ Len(past) \in 1 .. MaxMoments
  BY DEF DashInv, DashTyped, HandlerTyped, ChainTyped
<1>3. w = who
  BY <1>1, <1>2 DEF RefreshDone, Now
<1>4. past' = past /\ Now' = Now /\ Now \in 1 .. Len(past)
  BY <1>1, <1>2 DEF RefreshDone, chainVars, Now
<1>5. \A m \in refreshes[who] .. Now : m = Now
  BY <1>2 DEF Now
<1> DEFINE now == [policy |-> Now, count |-> Now, recent |-> Now]
<1>6. shown' = Display(now)
  BY <1>1, <1>3, <1>5, Zenon DEF RefreshDone
<1>7. shown' = Display(now)'
  BY <1>4, <1>6 DEF Display
<1>8. shown'.decisions
        = Numbered(Len(past[Now].feed), RecentDecisions(past[Now].feed, MaxRecent))
  BY <1>6 DEF Display
<1>9. past[Now].feed \in Seq(Statuses)
  <2>1. past \in Seq([policy : PolicyCommitment, feed : Seq(Statuses)])
    BY DEF DashInv, DashTyped, ChainTyped
  <2>2. past[Now] \in [policy : PolicyCommitment, feed : Seq(Statuses)]
    BY <1>4, <2>1, ElementOfSeq, Zenon
  <2> QED
    BY <2>2
<1> HIDE DEF now
<1>10. \A k \in DOMAIN shown'.decisions : shown'.decisions[k].id = shown'.decisions[k].record.hash
  BY <1>8, <1>9, NumberedExact, Zenon
<1> QED
  BY <1>7, <1>10 DEF Exact, now
-----------------------------------------------------------------------------
DashboardInv == DashInv /\ PauseInv

LEMMA DashboardInvInit == DashboardInit => DashboardInv
  BY DashInvInit, PauseInvInit DEF DashboardInv

LEMMA DashboardInvNext ==
  ASSUME DashboardInv, [DashboardNext]_dashboardVars
  PROVE  DashboardInv'
  BY DashInvNext, PauseInvNext DEF DashboardInv

LEMMA DashboardInvImplies ==
  DashboardInv => /\ DashboardTypeOK /\ PolicyOfIntent
                  /\ SignedRootCommitted /\ PauseHolds
  BY DashTypedSuffices, DashInvRoot, PauseInvHolds DEF DashboardInv, DashInv
=============================================================================
