SPECIFICATION WatchtowerSpec
CONSTANTS
  agent = agent
  deployer = deployer
  attestation = attestation
  tower = tower
  none = none
  root = root
  zeroRoot = zeroRoot
  fund = fund
  buy = buy
  noHash = noHash
  held = held
  forged = forged
  noCID = noCID
  key = key
  missing = missing
  Accounts = {agent, deployer, attestation, tower}
  Agents = {agent}
  RegistryOwner = deployer
  NoAccount = none
  PolicyRoots = {root}
  NoRoot = zeroRoot
  TierInputs = {1}
  HourInputs = {0, 24}
  MaxComplianceScore = 1000
  AutoBreakScore = 200
  AutoBreakMinDecisions = 10
  MaxDecisions = 8
  Vaults = {fund}
  VaultAgent <- MCVaultAgent
  Hashes = {buy}
  NoHash = noHash
  EvidenceCIDs = {held}
  NoCID = noCID
  MaxFeed = 2
  Attestation = attestation
  Deployer = deployer
  Successors = {}
  EnclaveKeys = {key}
  WatchtowerAccounts = {tower}
  Signed <- MCSigned
  Tower = tower
  Fund = fund
  ConfiguredEnclave = key
  ScanLimit = 2
  Blob <- MCBlob
  Missing = missing
  MaxPool = 2
  MaxFaults = 1
INVARIANTS
  WatchtowerTypeOK
  OneReportPerLife
  NothingReportedEarly
PROPERTY EveryDecisionAnswered
