\* Eleven outcomes: one more than the auto-break needs.
SPECIFICATION Spec
CONSTANTS
  agent = agent
  deployer = deployer
  attestation = attestation
  none = none
  root = root
  zeroRoot = zeroRoot
  Accounts = {agent, deployer, attestation}
  Agents = {agent}
  RegistryOwner = deployer
  NoAccount = none
  PolicyRoots = {root}
  NoRoot = zeroRoot
  TierInputs <- MCTierInputs
  HourInputs <- MCHourInputs
  MaxComplianceScore = 1000
  AutoBreakScore = 200
  AutoBreakMinDecisions = 10
  MaxDecisions = 11
INVARIANTS
  TypeOK
  PoliciesConsistent
PROPERTIES
  CommitmentFixed
  ImplementsStanding
