SPECIFICATION Spec
CONSTANTS
  c1 = c1
  c2 = c2
  c3 = c3
  c4 = c4
  w1 = w1
  w2 = w2
  ledger = ledger
  avax = avax
  sol = sol
  None = None
  Calls <- MCCalls
  Wallets = {w1, w2, ledger}
  WalletOf <- MCWalletOf
  External = {ledger}
  Keys = {avax, sol}
  KeyOf <- MCKeyOf
  Amount <- MCAmount
  Factor <- MCFromC
  Signatures <- MCMoves
  Limit <- MCLimit
  MaxSends = 3
  MaxPlanned = 3
  MaxApprovals = 2
  MaxAtOnce = 2
INVARIANTS
  NeverMoreThanBudget
CHECK_DEADLOCK FALSE
