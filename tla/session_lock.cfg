\* Two operations of one wallet: the idle lock fires while one is open.
SPECIFICATION FairSpec
CONSTANTS
  batch = batch
  step1 = step1
  step2 = step2
  send = send
  other = other
  walletA = walletA
  walletB = walletB
  None = None
  Ops = {send, batch}
  Parent <- Nesting
  VaultOf <- Wallets
  Sealed = {walletA, walletB}
  Limited = {}
  MaxOps = 1
  MaxSignatures = 1
PROPERTIES
  LockNeverMidOperation
CHECK_DEADLOCK FALSE
