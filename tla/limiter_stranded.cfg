\* A waiter whose reset timer a newcomer disarms is never served.
SPECIFICATION FairSpec
CONSTANTS
    Calls = {c1, c2, c3}
    MaxRequestsInputs = {1}
    WindowMsInputs = {1}
    PauseMsInputs <- Pauses
    ClockCap = 2
    MaxPendingResumes = 2
PROPERTY
    EveryWaiterServed
