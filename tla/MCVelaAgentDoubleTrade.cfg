\* One confirmation, two attempts: the receipt of a swap is lost.
SPECIFICATION Spec
CONSTANTS
  agent = agent
  fund = fund
  inferred = inferred
  confirmed = confirmed
  noHash = noHash
  blob = blob
  operatorTriggered = operatorTriggered
  noCID = noCID
  loop = loop
  Vaults = {fund}
  VaultAgent <- MCVaultAgent
  Hashes = {inferred, confirmed}
  NoHash = noHash
  EvidenceCIDs = {blob, operatorTriggered}
  NoCID = noCID
  MaxFeed = 3
  Fund = fund
  Loop = loop
  Attempts = 2
  LoopHash = inferred
  LoopCID = blob
  OperatorHash = confirmed
  OperatorCID = operatorTriggered
  MinTradeInterval = 2
  MaxClock = 2
  MaxPool = 2
  MaxFaults = 1
INVARIANT OneSwapPerConfirmation
