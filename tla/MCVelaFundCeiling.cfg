\* One user and a deep pool: trades far above the ceiling of tier 0.
SPECIFICATION FundSpec
CONSTANTS
  alice = alice
  bob = bob
  agent = agent
  deployer = deployer
  vault = vault
  none = none
  root = root
  zeroRoot = zeroRoot
  usd = usd
  eth = eth
  main = main
  velaHook = velaHook
  noHook = noHook
  Users = {alice}
  VaultAgent = agent
  VaultOwner = deployer
  Asset = usd
  Tokens = {usd, eth}
  Pools = {main}
  Currency0 <- MCCurrency0
  Currency1 <- MCCurrency1
  PoolHook <- MCPoolHook
  Hooks = {velaHook}
  NoHook = noHook
  PositionKeys <- MCPositionKeys
  Q96 = 16
  Endowment <- MCEndowment
  Liquidity <- MCDeepLiquidity
  MaxShares = 5
  Accounts = {agent, deployer}
  Agents = {agent}
  RegistryOwner = deployer
  NoAccount = none
  PolicyRoots = {root}
  NoRoot = zeroRoot
  TierInputs = {0}
  HourInputs = {0, 9}
  MaxComplianceScore = 1000
  AutoBreakScore = 200
  AutoBreakMinDecisions = 10
  MaxDecisions = 0
  Executors = {vault}
  MaxSqrtPrice = 32
  UsdcScalar = 4
  BaseScalar = 64
  TierMaxUsdc <- MCTierMaxUsdc
  Vault = vault
  Hours = {0, 9}
  AssetInputs = {2}
  ShareInputs = {2}
  SwapInputs = {2, 8}
  SqrtPrices = {8, 16}
  Shortfalls = {0}
PROPERTY TradesUnderCeiling
