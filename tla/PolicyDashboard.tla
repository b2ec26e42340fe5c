-------------------------- MODULE PolicyDashboard --------------------------
(***************************************************************************)
(* The dashboard: WalletProvider keeps a copy of the chain, refreshed by a *)
(* timer and by the handlers; VelaShell pauses and resumes the agent,      *)
(* IntentInput compiles and registers a policy, DelegateForm has a message *)
(* signed. Each handler awaits a wallet or a server, and what it read      *)
(* before it awaited is what it uses afterwards.                           *)
(*                                                                         *)
(* A read sees the chain at some moment between its request and its        *)
(* answer: `past` remembers those moments, `since` the one a refresh began *)
(* at. One visit is of one page, and every page has a data provider of its *)
(* own. Nothing here waits for a receipt.                                  *)
(*                                                                         *)
(* Three bounds keep a visit small: one handler runs at a time, the sidebar *)
(* is used on the pages without a form, and nobody else moves the chain    *)
(* while the create page is open.                                          *)
(***************************************************************************)
EXTENDS PolicyRegistry, PolicyCompiler

CONSTANTS
  AgentAddress,  \* AGENT_ADDRESS, whose policy every page shows
  Wallets,       \* the accounts the visitor's wallet holds
  Intents,       \* the texts the visitor may type
  NoIntent,      \* the empty text
  Answers,       \* what the language model may answer
  FirstRoot,     \* the root each agent has registered, if it has, before the visit
  MaxRecent,     \* how many decisions a refresh asks for, 12
  MaxMoments,    \* bound: moments of the chain in one visit
  MaxPool        \* bound: transactions sent in one visit

ASSUME DashboardAssumption ==
  /\ AgentAddress \in Agents
  /\ Wallets \subseteq Agents
  /\ FirstRoot \in [Agents -> PolicyRoots]
  /\ NoIntent \notin Intents
  /\ MaxRecent \in Nat \ {0}
  /\ MaxMoments \in Nat \ {0}
  /\ MaxPool \in Nat \ {0}
  /\ Answers \subseteq ParseToolInput
  /\ \A a \in Answers : Compiles(a) => CompilePolicy(a).policyRoot \in PolicyRoots

VARIABLES
  feed,        \* the vault's decisions, by id from 0: "Pending", "Attested", "Failed"
  past,        \* the moments of the chain so far, the last is now
  pool,        \* transactions sent and not mined, in nonce order
  sent,        \* how many were sent
  page,        \* the page this visit is of: "create", "delegate" or another, "vault"
  wallet,      \* the connected account; NoAccount if none, or on another chain
  shown,       \* VelaData: what the page displays of the chain
  refreshes,   \* the moment each refresh in flight began at, 0 when there is none
  handler,     \* the handler of the page that is running
  lastPress,   \* what the agent's owner last signed, "pause" or "resume"
  form,        \* IntentInput
  delegation   \* DelegateForm: the root in the message signed last

chainVars == <<policies, decisionRecorders, circuitBreakers, feed, past>>
uiVars == <<page, wallet, handler, lastPress, form, delegation>>
dashboardVars == <<chainVars, pool, sent, uiVars, shown, refreshes>>

Refreshers == {"timer", "handler"}
Statuses == {"Pending", "Attested", "Failed"}
-----------------------------------------------------------------------------
(* The chain, as the page's reads see it.                                  *)

Now == Len(past)

\* Mutant of Moment: the policy read is the one of the connected wallet.
MomentOfWallet ==
  [policy |-> policies'[IF wallet \in Agents THEN wallet ELSE AgentAddress],
   feed |-> feed']

\* What getPolicy(AGENT_ADDRESS), totalDecisions and recentDecisions are read
\* from, after the step.
Moment == [policy |-> policies'[AgentAddress], feed |-> feed']

\* The chain moves on by one moment. MaxMoments bounds their number.
Moves == Now < MaxMoments /\ past' = Append(past, Moment)

\* A registration, a pause or a resume is mined; one that reverts only leaves
\* the pool, and the page is not told.
MineRegistration(tx) ==
  \/ /\ RegisterAgent(tx.from, tx.root, tx.tier, tx.start, tx.end)
     /\ UNCHANGED feed
     /\ Moves
  \/ /\ ~(/\ tx.root # NoRoot /\ ~IsRegistered(tx.from) /\ tx.tier \in EnabledTiers
          /\ ValidActiveHours(tx.start, tx.end))
     /\ UNCHANGED chainVars

MinePause(tx) ==
  \/ TriggerCircuitBreaker(tx.from, AgentAddress) /\ UNCHANGED feed /\ Moves
  \/ ~MayBreak(tx.from, AgentAddress) /\ UNCHANGED chainVars

MineResume(tx) ==
  \/ ResumeAgent(tx.from, AgentAddress) /\ UNCHANGED feed /\ Moves
  \/ /\ ~(/\ IsRegistered(AgentAddress) /\ tx.from = policies[AgentAddress].owner
          /\ policies[AgentAddress].circuitBreaker)
     /\ UNCHANGED chainVars

\* An account's transactions are mined in the order of their nonces.
Mine ==
  /\ \E k \in DOMAIN pool :
       LET tx == pool[k]
       IN /\ \A earlier \in 1 .. k - 1 : pool[earlier].from # tx.from
          /\ pool' = SubSeq(pool, 1, k - 1) \o SubSeq(pool, k + 1, Len(pool))
          /\ \/ tx.call = "register" /\ MineRegistration(tx)
             \/ tx.call = "pause" /\ MinePause(tx)
             \/ tx.call = "resume" /\ MineResume(tx)
  /\ UNCHANGED <<sent, uiVars, shown, refreshes>>

\* Others act meanwhile: the agent commits a decision, a decision is settled and
\* recorded, the watchtower trips the breaker.
OthersAct ==
  /\ page # "create"
  /\ \/ /\ IsActive(AgentAddress) /\ feed' = Append(feed, "Pending")
        /\ UNCHANGED registryVars
     \/ \E k \in DOMAIN feed, compliant \in BOOLEAN :
          /\ feed[k] = "Pending"
          /\ feed' = [feed EXCEPT ![k] = IF compliant THEN "Attested" ELSE "Failed"]
          /\ RecordOutcome(RegistryOwner, AgentAddress, compliant)
     \/ /\ TriggerCircuitBreaker(RegistryOwner, AgentAddress)
        /\ UNCHANGED feed
  /\ Moves
  /\ UNCHANGED <<pool, sent, uiVars, shown, refreshes>>
-----------------------------------------------------------------------------
(* WalletProvider: VelaDataProvider.                                       *)

NothingShown ==
  [root |-> NoRoot, active |-> FALSE, breaker |-> FALSE, compliant |-> 0,
   score |-> 0, count |-> 0, decisions |-> << >>]

\* recentDecisions(n): the newest first.
RecentDecisions(decisions, n) ==
  [k \in 1 .. (IF Len(decisions) < n THEN Len(decisions) ELSE n) |->
     LET i == Len(decisions) - k
     IN [hash |-> i, status |-> decisions[i + 1]]]

\* Mutant of Numbered: the ids are one too high.
NumberedFromOne(count, recent) ==
  [k \in DOMAIN recent |-> [id |-> count - k + 1, record |-> recent[k]]]

\* The records carry no id: it is worked out from totalDecisions.
Numbered(count, recent) ==
  [k \in DOMAIN recent |-> [id |-> count - k, record |-> recent[k]]]

\* What a refresh displays whose reads saw the moments `at`: each read of the
\* Promise.all has a moment of its own. Assets and supply are read the same way;
\* they and the counts of logs are figures only and left out.
Display(at) ==
  LET p == past[at.policy].policy
      count == Len(past[at.count].feed)
  IN [root |-> p.policyRoot, active |-> p.active, breaker |-> p.circuitBreaker,
      compliant |-> p.compliantDecisions, score |-> p.complianceScore,
      count |-> count,
      decisions |-> Numbered(count, RecentDecisions(past[at.recent].feed, MaxRecent))]

\* refresh: starts regardless of any other refresh in flight.
StartRefresh(who) == refreshes' = [refreshes EXCEPT ![who] = Now]

Idle == [stage |-> "idle", call |-> "none", root |-> NoRoot,
         start |-> 0, end |-> 0]

\* What has been awaited is over, done or failed: the handler goes on.
HandlerResumes(who) ==
  IF who = "handler" THEN handler' = Idle
  ELSE UNCHANGED handler

\* All reads succeed, and what they read is displayed, newer or older than what
\* is displayed already.
RefreshDone(who) ==
  LET span == refreshes[who] .. Now
  IN /\ refreshes[who] # 0
     /\ \E policyAt, countAt, recentAt \in span :
          shown' = Display([policy |-> policyAt, count |-> countAt, recent |-> recentAt])
     /\ refreshes' = [refreshes EXCEPT ![who] = 0]
     /\ HandlerResumes(who)
     /\ UNCHANGED <<chainVars, pool, sent, page, wallet, lastPress, form, delegation>>

\* Mutant of RefreshFailed: the failure is thrown past the handler.
RefreshFailedThrown(who) ==
  /\ refreshes[who] # 0
  /\ refreshes' = [refreshes EXCEPT ![who] = 0]
  /\ UNCHANGED <<chainVars, pool, sent, uiVars, shown>>

\* A failed read leaves the data as they were; refresh itself never throws.
RefreshFailed(who) ==
  /\ refreshes[who] # 0
  /\ refreshes' = [refreshes EXCEPT ![who] = 0]
  /\ HandlerResumes(who)
  /\ UNCHANGED <<chainVars, pool, sent, page, wallet, lastPress, form, delegation, shown>>

\* Mutant of Timer: the data are polled until there are some.
TimerUntilShown ==
  /\ shown = NothingShown /\ refreshes["timer"] = 0
  /\ StartRefresh("timer")
  /\ UNCHANGED <<chainVars, pool, sent, uiVars, shown>>

\* The effect that polls every 30 s. One refresh of the timer's is in flight at
\* a time: the transport gives a read up before that.
Timer ==
  /\ refreshes["timer"] = 0
  /\ StartRefresh("timer")
  /\ UNCHANGED <<chainVars, pool, sent, uiVars, shown>>
-----------------------------------------------------------------------------
(* The wallet.                                                             *)

\* The visitor connects, disconnects, changes the account or the network.
SwitchWallet ==
  /\ \E w \in Wallets \cup {NoAccount} : wallet' = w /\ w # wallet
  /\ UNCHANGED <<chainVars, pool, sent, page, handler, lastPress, form, delegation,
                 shown, refreshes>>

\* assertReady, with the account and the chain the handler was created with.
Ready == wallet \in Wallets

\* The handler asks the wallet; what it will send is settled now.
Ask(request) ==
  /\ handler.stage = "idle" /\ Ready
  /\ handler' = [request EXCEPT !.stage = "prompt"]
  /\ UNCHANGED <<chainVars, pool, sent, page, wallet, lastPress, form, delegation,
                 shown, refreshes>>

\* The visitor rejects, or the wallet is no longer able to send.
WalletRejects ==
  /\ handler.stage = "prompt"
  /\ handler' = Idle
  /\ UNCHANGED <<chainVars, pool, sent, page, wallet, lastPress, form, delegation,
                 shown, refreshes>>

\* Mutant of CallSent: which of the two it is, is looked up after the await.
CallSentLate == IF shown.breaker THEN "resume" ELSE "pause"

\* The call settled when the button was pressed.
CallSent == handler.call

\* writeContractAsync: the account connected by now sends it. The handler goes
\* on to refresh, whether the transaction will be mined or will revert.
WalletSends ==
  /\ handler.stage = "prompt" /\ handler.call # "sign" /\ Ready
  /\ sent < IF page = "create" THEN 1 ELSE MaxPool   \* bound, not in the code
  /\ sent' = sent + 1
  /\ pool' = Append(pool,
       [from |-> wallet, call |-> IF handler.call = "register" THEN "register" ELSE CallSent,
        root |-> handler.root, tier |-> 1, start |-> handler.start, end |-> handler.end])
  /\ lastPress' = IF handler.call # "register" /\ wallet = AgentAddress
                  THEN handler.call ELSE lastPress
  /\ handler' = [handler EXCEPT !.stage = "refreshing"]
  /\ StartRefresh("handler")
  /\ UNCHANGED <<chainVars, page, wallet, form, delegation, shown>>
-----------------------------------------------------------------------------
(* VelaShell: toggleCircuitBreaker, on every page.                         *)

\* What the button says follows from the data shown, fresh or not.
PressToggle ==
  page = "vault" /\ Ask([Idle EXCEPT !.call = IF shown.breaker THEN "resume" ELSE "pause"])
-----------------------------------------------------------------------------
(* DelegateForm, and signMessage.                                          *)

\* The message names the wallet, the vault, the agent and the root shown.
PressSignAuthorization ==
  page = "delegate" /\ Ask([Idle EXCEPT !.call = "sign", !.root = shown.root])

\* The account connected by now signs: not necessarily the owner it names.
WalletSigns ==
  /\ handler.stage = "prompt" /\ handler.call = "sign" /\ Ready
  /\ delegation' = handler.root
  /\ handler' = Idle
  /\ UNCHANGED <<chainVars, pool, sent, page, wallet, lastPress, form, shown, refreshes>>
-----------------------------------------------------------------------------
(* IntentInput.                                                            *)

\* `overtaken`: the text was edited while the request was under way.
NoRequest == [of |-> NoIntent, overtaken |-> FALSE]

\* Mutant of Edited: the compiled policy stays for the new text.
EditedKeeping(intent) ==
  [form EXCEPT !.intent = intent, !.request.overtaken = form.request # NoRequest]

\* Typing, and CLEAR: the compiled policy is dropped, a request is not.
Edited(intent) ==
  [form EXCEPT !.intent = intent, !.compiled = {},
               !.request.overtaken = form.request # NoRequest]

Edit ==
  /\ page = "create"
  /\ \E intent \in Intents \cup {NoIntent} :
       intent # form.intent /\ form' = Edited(intent)
  /\ UNCHANGED <<chainVars, pool, sent, page, wallet, handler, lastPress, delegation,
                 shown, refreshes>>

PressCompile ==
  /\ page = "create" /\ form.request = NoRequest /\ form.intent # NoIntent
  /\ form' = [form EXCEPT !.compiled = {}, !.request.of = form.intent]
  /\ UNCHANGED <<chainVars, pool, sent, page, wallet, handler, lastPress, delegation,
                 shown, refreshes>>

\* The response of api/policy/compile: a policy, valid or not, or an error.
CompileAnswers ==
  /\ form.request # NoRequest
  /\ \E compiled \in {{}} \cup
          {{[of |-> form.request.of, overtaken |-> form.request.overtaken, answer |-> a]} :
             a \in {a \in Answers : Compiles(a)}} :
       form' = [form EXCEPT !.compiled = compiled, !.request = NoRequest]
  /\ UNCHANGED <<chainVars, pool, sent, page, wallet, handler, lastPress, delegation,
                 shown, refreshes>>

\* deployPolicy: conflicts do not keep it from being sent, and the tier is fixed.
PressRegisterPolicy ==
  /\ page = "create"
  /\ \E c \in form.compiled :
       LET p == CompilePolicy(c.answer)
       IN Ask([Idle EXCEPT !.call = "register", !.root = p.policyRoot,
                 !.start = p.constraints.active_hours_start_utc,
                 !.end = p.constraints.active_hours_end_utc])
-----------------------------------------------------------------------------
\* The page is opened: the agent may have registered, the visitor is connected
\* or not, and the first refresh has begun.
DashboardInit ==
  /\ \E registered \in {{}, Agents}, breaker \in BOOLEAN :
       policies = [a \in Agents |->
         IF a \notin registered THEN NoPolicy
         ELSE [Registered(a, FirstRoot[a], 1, 6, 24) EXCEPT
                 !.active = ~breaker, !.circuitBreaker = breaker]]
  /\ decisionRecorders = {RegistryOwner}
  /\ circuitBreakers = {RegistryOwner}
  /\ feed = << >>
  /\ past = <<[policy |-> policies[AgentAddress], feed |-> feed]>>
  /\ pool = << >>
  /\ sent = 0
  /\ page \in {"create", "delegate", "vault"}
  /\ wallet = NoAccount
  /\ shown = NothingShown
  /\ refreshes = [who \in Refreshers |-> IF who = "timer" THEN 1 ELSE 0]
  /\ handler = Idle
  /\ lastPress = "none"
  /\ form = [intent |-> NoIntent, compiled |-> {}, request |-> NoRequest]
  /\ delegation = NoRoot

Refreshing(who) == RefreshDone(who) \/ RefreshFailed(who)

VisitorActs ==
  \/ SwitchWallet \/ PressToggle \/ PressSignAuthorization \/ PressRegisterPolicy
  \/ Edit \/ PressCompile
  \/ WalletRejects \/ WalletSends \/ WalletSigns

DashboardNext ==
  \/ Mine \/ OthersAct \/ Timer \/ CompileAnswers
  \/ \E who \in Refreshers : Refreshing(who)
  \/ VisitorActs

DashboardSpec == DashboardInit /\ [][DashboardNext]_dashboardVars
-----------------------------------------------------------------------------
\* Type invariant: the data shown are the chain's kind of data, and whatever
\* began, began at a moment of this visit.
DashboardTypeOK ==
  /\ TypeOK
  /\ feed \in Seq(Statuses)
  /\ Len(past) \in 1 .. MaxMoments
  /\ sent \in 0 .. MaxPool /\ Len(pool) <= sent
  /\ wallet \in Wallets \cup {NoAccount}
  /\ refreshes \in [Refreshers -> 0 .. Now]
  /\ handler.stage \in {"idle", "prompt", "refreshing"}
  /\ handler.call \in {"none", "pause", "resume", "register", "sign"}
  /\ (handler.stage = "refreshing") = (refreshes["handler"] # 0)
  /\ lastPress \in {"none", "pause", "resume"}
  /\ form.intent \in Intents \cup {NoIntent}

\* The data shown are those of the chain now, every decision under its own id.
Exact ==
  /\ shown = Display([policy |-> Now, count |-> Now, recent |-> Now])
  /\ \A k \in DOMAIN shown.decisions :
       shown.decisions[k].id = shown.decisions[k].record.hash

\* A refresh during which the chain stood still displays the chain. (Ids come from
\* totalDecisions, records from recentDecisions: two reads, and a decision
\* committed between them shifts every id, until the next refresh.)
QuietRefreshExact ==
  [][\A who \in Refreshers :
       (refreshes[who] = Now /\ refreshes'[who] = 0 /\ shown' # shown) => Exact']_dashboardVars

\* When the agent's owner last signed PAUSE, and all that was sent is mined, the
\* agent is halted: whatever stale state the button was drawn from, however
\* often it was pressed, with whichever refreshes arriving in whichever order.
PauseHolds ==
  (lastPress = "pause" /\ pool = << >> /\ IsRegistered(AgentAddress))
    => CircuitBreakerTriggered(AgentAddress)

\* The policy offered for registration is the one of the text in the field,
\* which goes on chain with it, unless the text was edited while the compiler
\* was at work: that answer is not discarded.
PolicyOfIntent ==
  \A c \in form.compiled : c.of # form.intent => c.overtaken

\* A delegation is signed for the root the agent is committed to, or for none:
\* the data shown may be old, but a commitment never changes.
SignedRootCommitted ==
  delegation \in {NoRoot, policies[AgentAddress].policyRoot}

\* A handler that waits for its refresh comes to an end: the buttons are
\* released, whatever fails.
ActionsAnswered == (handler.stage = "refreshing") ~> (handler.stage = "idle")
=============================================================================
