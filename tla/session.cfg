\* Every interleaving of a batch that covers one nested operation, a single
\* operation of the same wallet that may ride on it as well, one of another
\* wallet and one of a Ledger, with the sign-only switches.
SPECIFICATION SwitchSpec
CONSTANTS
  batch = batch
  step1 = step1
  send = send
  other = other
  ledger = ledger
  walletA = walletA
  walletB = walletB
  None = None
  Ops = {batch, step1, send, other}
  Parent <- Nesting
  VaultOf <- Wallets
  Sealed = {walletA, walletB}
  Limited = {batch}
  MaxOps = 1
  MaxSignatures = 1
  DeviceOps = {ledger}
INVARIANTS
  TypeOK
  HandleLivesWithItsScope
  SoundWithoutOverlap
  SignOnlyHolds
PROPERTIES
  SignsUnderOwnPassword
CHECK_DEADLOCK FALSE
