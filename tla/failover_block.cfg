SPECIFICATION FairSpec
CONSTANTS
  main1 = main1
  main2 = main2
  test1 = test1
  hMain1 = hMain1
  hMain2 = hMain2
  hTest1 = hTest1
  e1 = e1
  e2 = e2
  None = None
  Registered <- WithTestnet
  NetId <- Ids
  HostOf <- Names
  ServesInfo = {main1, test1}
  ForeignHosts = {}
  Users = {u1}
  Escalations = {e1, e2}
  MaxShortTimers = 1
  MaxClassifying = 1
PROPERTIES BlockedOnlyWhenExhausted
