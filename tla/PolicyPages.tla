---------------------------- MODULE PolicyPages ----------------------------
(***************************************************************************)
(* What the frontend offers a visitor: the dashboard, the frame, the       *)
(* terminal, and the contacts for alerts that visitors register. Each has  *)
(* state of its own, and they meet only in the policy compiler and on the  *)
(* chain: a visit is of one of them.                                       *)
(***************************************************************************)
EXTENDS PolicyDashboard, PolicyFrame, VelaTerminal, AlertContacts

VARIABLE visit

pagesVars == <<dashboardVars, frameVars, terminalVars, contactsVars, visit>>

OnDashboard(A) ==
  visit = "dashboard" /\ A /\ UNCHANGED <<frameVars, terminalVars, contactsVars, visit>>
OnFrame(A) ==
  visit = "frame" /\ A /\ UNCHANGED <<dashboardVars, terminalVars, contactsVars, visit>>
OnTerminal(A) ==
  visit = "terminal" /\ A /\ UNCHANGED <<dashboardVars, frameVars, contactsVars, visit>>
OnAlerts(A) ==
  visit = "alerts" /\ A /\ UNCHANGED <<dashboardVars, frameVars, terminalVars, visit>>

\* Where the dashboard's visit begins is immaterial to the other visits.
PagesInit ==
  /\ DashboardInit /\ FrameInit /\ TerminalInit /\ ContactsInit
  /\ visit \in {"dashboard", "frame", "terminal", "alerts"}
  /\ visit # "dashboard" => page = "create" /\ ~IsRegistered(AgentAddress)

PagesNext ==
  \/ OnDashboard(DashboardNext)
  \/ OnFrame(FrameNext)
  \/ OnTerminal(TerminalNext)
  \/ OnAlerts(ContactsNext)

\* setInterval and setTimeout fire, and the transport answers every read and
\* request or gives it up; and a refresh that is tried again and again succeeds in
\* the end. Nothing makes a wallet or a visitor answer.
PagesFairness ==
  /\ WF_pagesVars(OnDashboard(Timer))
  /\ WF_pagesVars(OnDashboard(Refreshing("handler")))
  /\ SF_pagesVars(OnDashboard(RefreshDone("timer")))
  /\ WF_pagesVars(OnTerminal(BeginFetch))
  /\ WF_pagesVars(OnTerminal(DecisionArrives \/ FetchFailed))

PagesSpec == PagesInit /\ [][PagesNext]_pagesVars /\ PagesFairness
-----------------------------------------------------------------------------
\* Type invariant of every page.
PagesTypeOK == DashboardTypeOK /\ TerminalTypeOK

\* The chain stands still in the end, and then the display agrees with it for
\* good, though refreshes overlap and an older one may be displayed last.
DisplaySettles == visit = "dashboard" => <>[]Exact
=============================================================================
