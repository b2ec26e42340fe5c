SPECIFICATION EvidenceSpec
CONSTANTS
  Texts <- MCTexts
  Reads <- MCReads
  Unreadable = Unreadable
  Enclave = Enclave
  OtherKey = OtherKey
  Signatures <- MCSignatures
  NoSignature = NoSignature
  PoolName = "configured"
  MaxValue = 1
  PolicyRoot = PolicyRoot
  DemoRoot = DemoRoot
  Documents = {{}, {"other"}}
  BadText = "bad"
  MaxFeed = 2
  MaxStored = 2
INVARIANTS
  EvidenceTypeOK
  AttestedVerifies
  TradeOnRecord
PROPERTY
  InjectedReported
