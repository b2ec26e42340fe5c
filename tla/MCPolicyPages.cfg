SPECIFICATION PagesSpec
CONSTANTS
  AgentA = AgentA
  Visitor = Visitor
  RootA = RootA
  RootV = RootV
  RegOwner = RegOwner
  Accounts <- MCAccounts
  Agents <- MCAgents
  RegistryOwner = RegOwner
  NoAccount = NoAccount
  PolicyRoots <- MCRoots
  NoRoot = NoRoot
  TierInputs = {1}
  HourInputs = {6}
  MaxComplianceScore = 1000
  AutoBreakScore = 200
  AutoBreakMinDecisions = 10
  MaxDecisions = 2
  NaNumber = NaNumber
  PoolId = "USDC_USDT"
  FallbackPool = "ETH_USDC"
  AgentAddress = AgentA
  Wallets = {AgentA, Visitor}
  Intents = {"steady", "bold"}
  NoIntent = ""
  Answers <- MCAnswers
  FirstRoot <- MCFirstRoot
  MaxRecent = 1
  MaxMoments = 3
  MaxPool = 2
  WideAnswers <- MCWideAnswers
  NoTarget = NoTarget
  HandRoots <- MCHandRoots
  HandHours <- MCHandHours
  Visitors = {V1, V2}
  NoVisitor = NoVisitor
  MintAmount = 1
  Amounts = {1}
  Replies <- MCReplies
  TierCeiling = 4
  DemoCap = 3
  DemoTrade = 2
  MaxFetches = 2
  MaxPresses = 5
  Subscribers = {S1, S2}
  ContactDetails = {C1, C2}
  PostRequests = {1, 2}
INVARIANTS
  PagesTypeOK
  PauseHolds
  PolicyOfIntent
  SignedRootCommitted
  CompiledSound
  FrameOffersSound
  SharesBeforeAgent
  ContactsKept
PROPERTIES
  QuietRefreshExact
  DisplaySettles
  ActionsAnswered
  TerminalAnswers
CHECK_DEADLOCK FALSE
