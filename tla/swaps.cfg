SPECIFICATION FairSpec
CONSTANTS
  NumSwaps = 2
  Legs <- MCLegs
  Waits = {1, 2}
  Quick = {2}
  MaxKept = 1
  MaxLooks = 1
  MaxContinues = 2
  MaxReloads = 1
INVARIANTS
  TypeOK
  SecondStepOnce
  Tracked
PROPERTIES
  MintedIsNoticed
