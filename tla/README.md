# Vela: models and proofs

TLA+ models of Vela, a fund whose capital is traded by an AI agent under a policy that contracts
enforce and a watchtower polices. TLC checks small instances; TLAPS proves the main theorems for
every value of the constants. All paths below are relative to the repository root (`src/` here).

Run a model with `tlc -config X.cfg M` and a proof with `tlapm M.tla`; `PROJECT.json` lists every
run, theorem, hazard and finding, and maps each definition to the lines it stands for.

## 1. The system

| Component | State it keeps | Operations | Talks to |
|---|---|---|---|
| Policy registry (`contracts/src/PolicyRegistry.sol`) | one policy per agent: commitment (root, tier, owner, operator), window, two halt flags, outcome counters and cached score; recorders; breakers | register, record an outcome, trip the breaker, resume, set hours, grant and revoke roles | read by vault, hook, agent; written by attestation contract and owners |
| Attestation contract (`AttestationContract.sol`) | enclave keys, watchtowers, owner, `settled[vault][id]` | register/revoke key, set watchtower, `verifyAndSettle`, `reportFailure` | calls vault (`markAttested`) and registry (`recordAttestation`, `triggerCircuitBreaker`) in one transaction |
| Vault, decision feed (`VelaVault.sol`) | `totalDecisions`, `_decisions` | `commitDecision`, `markAttested` | agent, route, attestation contract, watchtower |
| Vault, capital (`VelaVault.sol`) | shares, token balances, positions, supported tokens, trusted hook | ERC-4626 deposit/mint/withdraw/redeem, transfer, `addPosition`, `syncPositionBalance`, `setTrustedHook`, `executeHookSwap` with `unlockCallback` | registry (halt), pool manager, hook |
| Hook (`hooks/VelaHook.sol`) | allowed pools and one trusted executor per agent | `beforeSwap`, `setAllowedPools`, `setAgentExecutor` | registry, pool price |
| Execution router, test tokens | operator; daily mint counters | swap for an operator; capped mint | pool manager |
| Scripts (`contracts/script`) | none | deploy and wire roles, configure pools and positions | all contracts |
| Watchtower (`watchtower/src`) | in memory: `reported`, one tick's scan and queue | poll, fetch evidence, verify, settle or report, alert | vault, attestation contract, 0G storage |
| Agent (`agent/src`) | in memory: `lastTradeTimestamp`, `running`, background settlements | read policy and price, infer, upload, commit, swap, settle | registry, vault, attestation contract, 0G |
| Execution route (`frontend/src/app/api/agent/execute`) | none between requests | commit and swap with the agent's key | vault |
| Policy compiler (`policy-engine/src`, `api/policy/compile`) | none | intent to policy, conflict detection, Merkle root, tier | inference |
| Terminal (`AgentTerminal.tsx`) | wizard step, busy flag, balances, timers, pending decision | compile, register, mint, deposit, poll, fetch and confirm with retries, alerts | routes, contracts |
| Dashboard and wallet (`WalletProvider.tsx`, `VelaShell.tsx`, `IntentInput.tsx`, `DelegateForm.tsx`) | what is displayed, the refreshes under way, one handler, the policy form, a signed authorization | refresh by timer and by handler, pause/resume, compile and register, sign | contracts, compile route, the wallet |
| Frame (`api/frame`, `api/frame/tx`) | none on the server; the last frame and its button targets at the client | home, status, compile, conflicts, register, the transaction to sign | compiler, contracts |
| Alerts (`api/alerts/register`) | one JSON file | read, append or replace, write | terminal, watchtower |
| 0G clients (`agent/src/zero-g*.ts`) | none | upload and fetch a record, ask for a decision and its signature | agent, watchtower |
| Demo scripts (`frontend/scripts`) | none | commit staged decisions with the agent's key | vault, 0G |
| Landing page, image route, generated client | none | reads | contracts |

What is hard in it, and what makes each part correct:

- **Interleaving of callers.** Contracts are atomic, their callers are not: the watchtower, the agent's
  background settlement, the execution route and owners act on one decision and one policy in any
  order. Two flags, two counters and a score must stay one fact (registry); `settled`, the vault's
  status and the compliance record must stay one fact (attestation).
- **State read before an await and used after it.** The watchtower reads `isSettled`, then fetches for
  seconds, then settles or reports; prices and policies are read before the swap that uses them.
- **Lost replies, crashes, nonces.** A transaction is submitted in one step and mined later or
  reverted; the sender may have gone, or have been told of a timeout. A report, a swap or a whole
  confirmation may then be made twice.
- **The halt.** One flag is read in five places; everything that gains shares, moves positions or
  prepares a trade must stop, and exits must not.
- **Money arithmetic.** Shares are priced at live net asset value; every division rounds; the hook and
  the vault read the same pool price and must mean the same by it.
- **Pages over a moving chain.** A page shows what some refresh read; a press acts on it minutes later,
  while other refreshes, edits, timers and account switches go on. What is paused, signed, registered
  or confirmed must still be what was meant.
- **Records and what they vouch for.** A decision is read out of a signed text, stored, committed by
  hash, traded and attested in five steps that fail separately, and other programs commit with the
  same key. Who looks later must find on record what was traded.
- **Liveness.** Every bad or unsettled decision must be answered although calls fail, ticks abort and
  keys are revoked; retries must end.

## 2. Modules

| Module | What it is | Code |
|---|---|---|
| `AgentStanding` | abstract: an agent is absent, trading or halted, with counts of good and bad outcomes; halted exactly when somebody halts it or its unrounded share falls below the floor | promise of the registry |
| `PolicyRegistry` | one action per registry function | `PolicyRegistry.sol` |
| `DecisionLedger` | abstract: an append-only ledger whose entries may be attested once, on endorsed content | promise of feed and attestation |
| `DecisionFeed` | the feed of every vault | `VelaVault.sol` 149-187 |
| `AttestationContract` | attestation contract, instances of registry and feed: one transaction, one step | `AttestationContract.sol` |
| `Watchtower` | the process, its transaction queue, the chain and the other actors around it; extends `AttestationContract` | `watchtower/src/*.rs` |
| `VelaHook` | allowlist, executor, price arithmetic, `beforeSwap` | `VelaHook.sol` |
| `VelaVault` | capital, net asset value, ERC-4626 arithmetic, swaps | `VelaVault.sol`, OpenZeppelin as external |
| `VelaFund` | vault, hook and registry composed; users, agent, operator, owners, market and clock | the three contracts, `ConfigureHook.s.sol`, `agent.ts` |
| `VelaAgent` | decision loop, execution route and the terminal's retries on one key; extends `DecisionFeed` | `agent.ts`, `execute/route.ts`, `AgentTerminal.tsx` 658-758 |
| `PolicyCompiler` | pure: clamps, conflict checks, tier, Merkle tree and proofs | `policy-engine/src/*.ts` |
| `PolicyFrame` | the frame as its client sees it: one request, one frame | `api/frame/route.ts`, `api/frame/tx/route.ts` |
| `PolicyDashboard` | the page's data and its refreshes, wallet, policy form and delegation over the registry and a feed | `WalletProvider.tsx`, `VelaShell.tsx`, `IntentInput.tsx`, `DelegateForm.tsx`, `api/policy/compile` |
| `VelaTerminal` | the wizard: calls, timers, receipts, tokens and shares | `AgentTerminal.tsx`, `api/agent/decision`, `MockUSDC.sol` |
| `AlertContacts` | overlapping requests on one file | `api/alerts/register/route.ts` |
| `PolicyPages` | the four pages composed; a visitor is at one of them | |
| `DecisionEvidence` | what a decision's record says: the agent's iteration with contents, storage, route, demo scripts and the watchtower's judgement | `agent.ts`, `zero-g.ts`, `zero-g-compute.ts`, `frontend/scripts/inject-*.ts`, `checker.rs`, `main.rs` |
| `PolicyRegistryProofs`, `AttestationContractProofs`, `VelaFundProofs`, `WatchtowerProofs`, `VelaAgentProofs`, `DecisionEvidenceProofs`, `PolicyDashboardProofs`, `PolicyPagesProofs` | theorems about these modules; the last also has those of `VelaTerminal`, `PolicyFrame` and `AlertContacts` | |
| `MC*` | instances for TLC | |

How code becomes TLA+:

- A contract call is one step: Solidity reverts are guards that fail, and nested calls (settlement into
  vault and registry, swap through pool manager and hook and back) are conjuncts of the same action.
- An off-chain process ends a step at every `await`. `Watchtower!at` and `VelaAgent!stage` say which
  call is in flight; the other variables of a process are its locals and its memory.
- A submitted transaction waits in `pool` and is mined in nonce order. The watchtower does not wait for
  its receipt (`pauser.rs` awaits `send()` only); agent and route do (`awaited`, `receipt`).
- Hashes, CIDs and signatures are model values; a signature is the pair of its key and what it signed.
  Explanations, events and logs are left out.
- A browser handler, too, ends a step at every `await`: `handler.stage` (dashboard) and `work.stage`
  (terminal) are the call in flight; a `setTimeout` is a member of `due`, and a refresh keeps in
  `refreshes` the moment it began. `past` is the chain's history, one moment per block: each read of
  a refresh may see another moment.
- The compiler's numbers are twice their value, so that rounding half a unit is seen; a missing or
  non-finite number is `NaNumber`. A hash is the structure it hashes: equal hashes, equal contents.
- Amounts are integers and every division rounds as the code's does. Widths are not modelled: 256-bit
  sums of token amounts do not overflow below the bounds the tokens have; the one place where the code
  caps a value for width (`VelaHook` bounds the square root price) is modelled.
- OpenZeppelin ERC-4626 and ERC-20, the Uniswap pool manager and the chain are not in the
  repository; they are modelled from how the code uses them and marked external in the map. The pool
  answers any fill between nothing and its spot price and may move its price to any value: no curve is
  assumed.

## 3. Runs

Passing runs:

| Run | Instance | Shows |
|---|---|---|
| `registry` | 3 accounts, 1 agent, the real constants 1000/200/10, eleven outcomes | `TypeOK`; `PoliciesConsistent`: flags, counters, score, window fit; `CommitmentFixed`: a commitment is never replaced nor a record shortened; `ImplementsStanding`: the rounded, cached score halts exactly when the exact share does |
| `attestation` | 2 vaults of one agent, 2 decisions per vault, 2 keys, 2 hashes, 3 outcomes, floor 4/10 after 2 | `SettlementAgrees`, `SettlementsRecorded`, `ReportHalts`, `SettledOnEvidence`, `ImplementsLedger` |
| `watchtower` | 1 vault, 2 decisions, evidence that verifies unless its fetch fails, scan limit 2, 2 transactions in flight, 1 disturbance: a crash, a lost reply, or a break, a verdict or a report of somebody else | `NothingReportedEarly`, `OneReportPerLife`, and the liveness `EveryDecisionAnswered` |
| `fund` | 2 users, 1 pool, 2 prices, 2 hours, amounts 2 and 8 | `NothingUnpriced`, `HaltFreezes`, `TradesInPolicy`, `NobodyDiluted` |
| `pages` | 3 moments, 2 transactions in flight, 2 visitors, 2 fetches, 5 presses, 2 posts; 288 answers of the language model in the frame, 2 on the dashboard | `PauseHolds`: after the owner signed a pause and everything sent is mined, the agent is halted; `PolicyOfIntent`: the compiled policy in the form is known to be of its intent or known to be overtaken; `SignedRootCommitted`: a signed root was once committed for the agent; `CompiledSound`: the bounds of hours, allocation and stop loss, a pool, every Merkle proof verifies, and no other constraints have the root; `FrameOffersSound`: what the frame's own buttons lead the wallet to is one policy without errors, and an address written by hand never mixes with one; `SharesBeforeAgent`; `ContactsKept`: posts that do not overlap, and no crash, lose nothing; `QuietRefreshExact`: a refresh during which nothing is mined displays the chain as it was; and the liveness `DisplaySettles`, `ActionsAnswered`, `TerminalAnswers` |
| `evidence` | 2 decisions, 2 records, 4 texts, 2 signatures | `AttestedVerifies`, `TradeOnRecord`, and the liveness `InjectedReported` |
| `agent` | 3 decisions, 2 attempts of the terminal, interval 2 ticks, 2 transactions in flight, 1 fault | `CommittedBeforeCapital`, `LoopTradesSpaced`, `AttestedWasTraded`, and the liveness `ConfirmationAnswered` |

Violation runs, each a disagreement between the code and what a document or comment says of it
(quoted in `PROJECT.json`):

| Run | Property | What TLC finds |
|---|---|---|
| `false_alarm` | `NoAlarmOnAttested` | a report takes effect on a decision that was attested meanwhile, with valid evidence |
| `exit` | `AlwaysExit` | shares are worth positions too, redemption pays only the idle asset |
| `ceiling` | `TradesUnderCeiling` | the hook takes slot0 for a human price: sales of the 18-decimal token are worth nothing to it, and the tier ceiling does not bind |
| `double_trade` | `OneSwapPerConfirmation` | a timeout on the receipt of a mined swap makes the terminal send the request again |
| `blind_trade` | `TradedAsShown` | the operator confirms the decision on display; the route trades an amount of its own without reading it |

Bounds, and why they are enough:

- `MaxDecisions`, `MaxFeed`: one outcome more than the automatic break needs (registry, with the real
  constants); the attestation instance scales the floor down (10, 4, 2) so that a break, a resume and
  another outcome fit in three. Two vaults with two decisions each are enough to mix up ids and vaults and to write over an
  older entry of a feed; the vaults are symmetric, and so are the two decisions with their keys;
  the watchtower needs two decisions to drop one of them with a tick.
- `MaxPool = 2`: two transactions suffice for one to change what the other meets. `MaxFaults = 1`: the
  properties count faults, so one shows both the budget and its use. In the watchtower it bounds
  `Disturbances`, crashes and lost replies together with what others do against or for the agent
  (`OthersAccuse`, `OthersVouch`). With liveness its store holds good evidence only (a failing fetch takes
  the step a bad payload takes); the run `false_alarm` has both. Decisions pass their timeout in the order
  of the feed, since the age is counted from the block of the commitment. `ScanLimit`: as many as the
  decisions. With one fewer, `EveryDecisionAnswered` fails at once (section 6).
- `MaxShares = 5`, endowments of 2, one position: enough for a second depositor to buy in after a trade
  at either price, with rounding in both directions. Fixed-point units are scaled together: 4
  smallest units of the asset and 64 of the token make a whole, as 10^6 and 10^18 do, and Q96 is 16.
  Users are symmetric.
- `MaxClock = 2`, interval 2: a trade at the start, one too early and one on time. `Attempts = 2`
  stands for 5: the second attempt already races the first.
- `pages`: `MaxMoments = 3` lets two things happen under one refresh, which is what mixes up its reads;
  one decision is displayed of at most two (`MaxRecent`), so that the numbers matter. Two visitors make
  an account switch, two fetches a retry and its end. `MaxPresses = 5` brings a visitor through all
  steps of the wizard with one press to spare. Policies of the frame: missing, negative, fractional
  and too large values, unknown and repeated pools, and both sides of each conflict rule's threshold
  that they reach. The pages share no state but the chain that only the dashboard reads, so a visit to
  one at a time loses no interleaving between them.
- `evidence`: two decisions let a route's or a script's one come between the agent's upload and its
  commitment; of the four texts one reads
  as a trade of the configured pool, one as a rebalance in another pool above the ceiling, one is not
  JSON, and one is the scripts' bad decision.

Deadlock is checked in every run but `pages`, where a visitor may stop pressing and the bound on
presses is reached.

## 4. Fairness

Safety runs assume none. `WatchtowerSpec`: the process keeps taking steps and blocks are mined
(weak); attestation timeouts elapse (weak); a scan read, an `isSettled` read and a report that are
tried in tick after tick succeed at last (strong, per decision). That is what an endless loop with a
sleep on a live node gives; nothing is assumed of evidence fetches, settlements, alerts, the agent or
the owners, and calls may fail as often as they like. `VelaAgent`: blocks are mined, a request that
the route has is carried on to an answer, and the terminal handles an answer it has (weak); the loop
and the operator may stop. `PolicyPages`: timers fire, and every read or request of a page is answered
or given up by the transport (weak); a refresh begun by the timer again and again succeeds at last
(strong). Wallets, visitors and blocks may stop. `DecisionEvidence`: time passes and the watchtower,
whose own liveness is `Watchtower`'s business, comes to each decision it may report (weak);
nothing obliges it to report one that verifies (`TowerDespairs`: a fetch or a settlement that fails past
the timeout).

## 5. Proofs

All proofs are by an inductive invariant and one lemma per action, for every value of the constants
that satisfies the named assumptions. Each proofs module names its invariant at the top and ends in
the theorems; `PROJECT.json` lists those a reader should know of.

- `PolicyRegistryProofs`. `RegistryInv` is `TypeOK` with `PoliciesConsistent`; it is inductive because
  every function body maps a sound policy to a sound policy (`RegisteredSound` to `RescheduledSound`).
  From it: `RegistryWellTyped`, `RegistryInvariant`, `CommitmentNeverReplaced` and the refinement
  `RegistryImplementsStanding`, whose core is `FloorBelow`: comparing a rounded-down quotient with an
  integer floor is comparing the unrounded share.
- `AttestationContractProofs`. The feed invariant (types and `SettlementAgrees`) and the registry's
  own invariant, reused through an instance of its proofs: reporting composes two bodies and both are
  sound. `SettlementsRecorded` needs that the settlements of an agent are counted over all its vaults:
  a step adds at most one pair to the set and exactly one compliant outcome (facts on cardinality from
  the library). Seen from the registry (`SeenFromRegistry`), every step is one of its own or the two
  calls of a report: from that `ContractsKeepCommitments`, the registry's `CommitmentFixed` for the
  three contracts together. Also `FailureReportHalts`, `SettlementNeedsEvidence`,
  `ContractsImplementLedger`. The step lemmas behind them (`ReportsHalt`, `CallsNeedEvidence`,
  `LedgerStep`, `RecordedStep`, `CommitmentsStay`) ask only for the invariant and for the contracts'
  steps, so that the watchtower can use them.
- `VelaFundProofs`. `FundInv` adds to the types that every position has an initialised pool and that
  every token held is supported; both are needed, since a swap checks support and the price is only
  checked when a position is added. With the registry's invariant (halted means not `active`, which is
  what the hook's operator check reads) it gives `FundWellTyped`, `HoldingsArePriced`,
  `HaltStopsEverything` and `OnlyPolicyTrades`. A second invariant, `ShareInv`, says that the supply is
  the sum of the users' shares (`SupplyIsShares`). With it and with the bounds of a rounded division
  come `NobodyIsDiluted`, where every rounding of OpenZeppelin's favours those who stay, and
  `ClaimsAreCovered`: all holders together are owed no more than the net asset value. The latter bounds
  the disagreement that the run `exit` shows: what is missing there is idle asset, never value, and
  while no position is worth anything `AlwaysExit` is true. `FundKeepsCommitments` maps every step of
  the fund to a step of the registry and takes over the registry's theorems.
- `WatchtowerProofs`. `WatchtowerInv` joins the contracts' invariant, to which every step of the chain
  maps (the contracts' `Next`), with what each stage of a tick may rely on about the head of its queue:
  `late` only of a decision that is overdue, not in `reported`, and evidence at the settle call that is
  not `Missing`. Neither property is inductive without it, because the age is computed before an await
  and used after it. The reports of a decision are bounded by the faults, and by one more if it is in
  `reported` or a report of it is under way. Gives `WatchtowerWellTyped`, `ReportedOncePerLife`,
  `ReportedOnlyLate`. Because every step of the system is one of the contracts' (`ChainSteps`), their
  guarantees hold while the process runs: `LedgerUnderWatch` and `ContractsUnderWatch`. Others may halt
  and judge the agent too: its owner, its breakers and recorders, and the contract's owner by a report of
  his own. The histories `accusations` and `vouchers` count what they do, and `ClearInv` says that until
  the watchtower has reported an overdue decision, no report is in the pool, the failed outcomes are at
  most the accusations, and the agent is halted only if there was one. That is `HaltedOnlyForCause`: the
  watchtower's failures cost an agent nothing, and what it is charged with, somebody did. It assumes that the floor of the score is not above a full score (200 and 1000 in the code):
  otherwise a compliant outcome could halt.
- `VelaAgentProofs`. A decision goes from the feed to a flow, from the flow to a swap in the pool, and
  from there to the swaps that took effect; `AgentInv` says that it is at one of these places at a
  time, that an awaited transaction matches the stage of its flow, and that the attempts the terminal
  has not made yet are idle. That is what a lost receipt or a restart must not break. Gives
  `AgentWellTyped`, `DecisionBeforeSwap`, `OnlyTradesAttested`. `TradesAreSpaced` rests on a second
  invariant, `SpacingInv`, an account in which every fault pays for one thing: a trade that came too
  soon, a swap in flight that the loop has lost sight of, or the one trade that may come too soon next.
- `DecisionEvidenceProofs`. `EvidenceInv`: what the iteration keeps of its record and of its commitment
  is what storage and the feed hold, and storage and feed only grow. Gives `EvidenceWellTyped`,
  `AttestedCanBeChecked` and `TradesAreOnRecord`, for all texts, signatures and documents.
- `PolicyDashboardProofs`. `ConstraintsBounded`: whatever the language model answers, the clamps leave
  bounded numbers and a pool. Then the dashboard's own invariants: its types with what the form knows
  of its intent (`DashTyped`), the root in every place it travels through, from the chain's past over
  the refreshes and the display to the wallet (`RootInv`), and the order of nonces in which a press on
  pause and what follows it reach the registry (`PauseInv`). Last, what a refresh displays: when all
  its reads saw one moment, each decision stands beside the id it has on the chain.
- `PolicyPagesProofs`. The wizard: `WizardInv` is the types with `Earned`, "an entrance to the agent
  means shares were read, and what was read is below what somebody holds"; it is needed because timers
  and late answers set the steps 6 and 8. The frame: `FrameInv` is about every button of the last
  frame, since each is one press from the wallet, and tells the frame's own targets from those that came
  in an address written by hand. The contacts: `ContactsInv` is about the copy of the
  file that each request holds while it is written. Together with the dashboard's they give
  `PagesWellTyped`, `PauseIsHeld`, `PolicyIsOfIntent`, `SignedRootIsCommitted`, `OffersAreSound`,
  `QuietRefreshIsExact`, `AgentAfterShares` and `ContactsAreKept`. The Merkle tree has a section of its
  own, about trees of any size: `LayersTree` says what the layers are, `ProofVerifies` that the proof of
  each place verifies, `RootBinds` that trees of one root have the same set of leaves (of the compiler's
  leaves, which name field and place, that makes the constraints the same), `VerifiedIsLeaf` that nothing
  else can be shown to be in it; hashing is free of collisions, and no leaf is a pair of nodes. With
  them, and with the compiler's bounds in every frame, `CompiledIsSound`.

Every safety and action property of a passing run is the property of a theorem. What the folds over
sets and the recursive functions of the model compute is proved by induction over numbers: the
library's induction theorems take an operator as a parameter, which the provers cannot instantiate, so
`SetInduction` is stated of a set of numbers instead and follows from the least number outside it. No
module declares a RECURSIVE operator.

Only model-checked: liveness under fairness, and whatever depends on enabledness, which the provers do
not treat. These are `EveryDecisionAnswered`, `ConfirmationAnswered`, `DisplaySettles`,
`ActionsAnswered`, `TerminalAnswers` and `InjectedReported`.

## 6. Disagreements and limits met while modelling

The five violation runs above are about promises that a text of the repository makes and the code
breaks. The following were read off the code while it was translated; the models follow the code.

*Watchtower.* A decision older than `scan_limit` reads is never read again, and one that was reported
stays pending and keeps its place: with a scan limit below the number of decisions
`EveryDecisionAnswered` fails at once (`monitor.rs` 49). A report that is submitted
and then reverts leaves its id in `reported`: nobody looks at its receipt, and the decision is not
reported again until the process restarts.

*Demo scripts.* `inject-tamper.ts` 10-11 and 201 announce a hash mismatch within 30 seconds. Its record
carries no `signed_payload`, so the watchtower treats it as unattested and reports it only when the
attestation timeout, 90 seconds, has passed; the tampered copy lies under another CID than the
committed one.

*Agent.* A constraint evaluated as FAIL is written on the record and does not stop the trade. The
signature of the inference is kept if it has 65 bytes and is not recovered before the trade. A policy
URI that cannot be decoded gives default constraints. Market data is synthetic, and the policy names
pools as the compiler does (`USDC_USDT`) where the contracts have pool ids.

*Route and terminal.* The decision route ends its summary with "Constraints verified" without having
verified any. In the wizard a hold sends the operator to step 6 while step 6 is displayed
(`AgentTerminal.tsx` 668-676), so nothing runs again and the cycle ends there. Compilation errors and
conflicts do not keep a policy from being registered from the terminal; its tier is the constant 1
whatever the compiler derived, registration goes on without a receipt, and the status of the receipts
of mint and deposit is not looked at (`SharesBeforeAgent` holds because the shares are read again).
Without a policy URI it registers `ipfs://vela-policy-...`, under which nothing is stored.

*Dashboard and frame.* Terminal and dashboard display the policy of the configured agent address, not
of the connected wallet. "Transaction confirmed" is shown when the transaction was sent
(`VelaShell.tsx` 79). The comment at `policy-engine/src/index.ts` 19-20 says that `compilePolicy` throws
on an invalid window or an empty pool list; it returns the conflicts. The frame's transaction names
a `registerPolicy` that the registry does not have, and both buttons of the home frame lead back to
the home frame, since every button posts to the screen it is on. Neither route of the frame checks the
root and the hours in the address of a request (`frame/route.ts` 232-234, `frame/tx/route.ts` 6-8): a POST
written by hand is offered for signature whatever it names. `Visit` and `VisitTx` are such requests, and
`FrameOffersSound` is about what the frame's own buttons carry; the call that is signed reverts in either
case. A compilation overtaken by an edit is not discarded (`IntentInput.tsx` 48): its root is then
registered with the new text, which is the one case `PolicyOfIntent` exempts. A commitment between a
refresh's read of the count and its read of the decisions shifts every id on display until the next
refresh: `QuietRefreshExact` exempts such a refresh, `DisplaySettles` says that its effect passes.

*Alerts.* Registrations that overlap lose contacts, and a file caught in the middle of a write reads
as empty and is then written back: `ContactsKept` is therefore stated of posts that do not overlap and
of a process that does not crash, and says that nothing else loses one.

*What the budgeted properties leave open.* `OneReportPerLife` allows one more report for each crash and each
lost reply, as the code does. `InjectedReported` assumes an owner who resumes the agent again and again; it
is of the watchtower's judgement only, whose scan limit is `Watchtower`'s subject: as there, it needs fewer
pending decisions than `WATCHTOWER_SCAN_LIMIT`.

## 7. Not modelled, and why

- Allowances and withdrawal on behalf of others: OpenZeppelin's, and no check of this code depends
  on the caller of a share operation.
- `MaxDecisions` outcomes and the roles of recorders are left out of `VelaFund` (the halt stands for
  them); `PolicyRegistry` and `AttestationContract` have them.
- Tokens sent to the vault by a plain ERC-20 transfer, outside its functions: they raise its balances, so
  `NothingUnpriced`, `TradesInPolicy` and the valuation properties are about what moves by shares and trades.
- Addresses that are no vault of the deployment: `verifyAndSettle` and `reportFailure` take any contract that
  answers like a vault (`AttestationContract.sol` 124, 161), the model the vaults in `Vaults`.
- Granting and revoking the watchtower's and the contract's roles while the watchtower runs: `PolicyRegistry`
  and `AttestationContract` have those calls, `Watchtower` takes the deployment's roles as they are, except
  for the enclave key.
- A second refresh by the dashboard's timer before the first one ended: `setInterval` allows it, the model
  has one refresh by the timer and one by the handler in flight.
- Gas, reentrancy beyond the call structure, and integer widths.
- Wording: prompts, explanations, typed commands and help texts of the terminal, layout, the feed's
  rendering. Where two texts lead to different behaviour they are two values (`Texts`, `Intents`).
- The image route, the landing page and the decision feed's view: they read and draw.
- The generated database client: nothing in the application imports it.
- `VelaExecutionRouter`: one guard on its caller and no state of the fund; the deployment trusts the
  vault as executor. `MockUSDT` and the rollover of the mint cap at midnight.
- Address mining, liquidity and swap scripts, `discover-providers`: input and output only.

## 8. Plan

Done: registry, attestation, watchtower, fund and agent, then the policy compiler with the pages on
top of it, alerts, and the decision's record across agent, route, scripts and watchtower; proofs of
all safety and action properties (section 5). What is left, most important first:

1. **Two positions of one token** in `VelaFund`: net asset value counts a token once per key
   (`VelaVault.sol` 203-214).
2. **Slippage**: `VelaAgent` and `VelaFund` in one model, to relate a swap's output to the price the
   agent read, with partial fills (`agent.ts` 554-568).
3. **The execution router** as a second trusted executor, and what the hook then promises.
4. **Test tokens**: the daily mint cap at the day's rollover.
5. **Proofs**: the registry under the dashboard (`CommitmentFixed` of `PagesSpec`), and that holders
   who leave one after the other are all paid while the capital is idle.
