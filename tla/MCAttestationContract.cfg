\* Three outcomes and two decisions per vault.
SPECIFICATION Spec
CONSTANTS
  agent = agent
  deployer = deployer
  attestation = attestation
  tower = tower
  none = none
  root = root
  zeroRoot = zeroRoot
  fund = fund
  twin = twin
  buy = buy
  sell = sell
  noHash = noHash
  cid = cid
  noCID = noCID
  key = key
  rotated = rotated
  Accounts = {agent, deployer, attestation, tower}
  Agents = {agent}
  RegistryOwner = deployer
  NoAccount = none
  PolicyRoots = {root}
  NoRoot = zeroRoot
  TierInputs = {1}
  HourInputs = {0, 24}
  MaxComplianceScore = 10
  AutoBreakScore = 4
  AutoBreakMinDecisions = 2
  MaxDecisions = 3
  Vaults = {fund, twin}
  VaultAgent <- MCVaultAgent
  Hashes = {buy, sell}
  NoHash = noHash
  EvidenceCIDs = {cid}
  NoCID = noCID
  MaxFeed = 2
  Attestation = attestation
  Deployer = deployer
  Successors = {tower}
  EnclaveKeys = {key, rotated}
  WatchtowerAccounts = {tower}
  Signed <- MCSigned
SYMMETRY Renamings
INVARIANTS
  TypeOK
  SettlementAgrees
  SettlementsRecorded
PROPERTIES
  ReportHalts
  SettledOnEvidence
  ImplementsLedger
