\* Three calls, budgets and windows of one or two, pauses of zero or two ticks,
\* two pause timers pending: every order of calls, timers and ticks.  Timers and
\* the clock are fair, callers are free.
SPECIFICATION FairSpec
CONSTANTS
    Calls = {c1, c2, c3}
    MaxRequestsInputs <- FormInputs
    WindowMsInputs <- FormInputs
    PauseMsInputs <- Pauses
    ClockCap = 2
    MaxPendingResumes = 2
INVARIANTS
    TypeOK
    EveryCallAccountedFor
    BudgetPerWindow
PROPERTIES
    WindowsDoNotOverlap
    WaitersReleasedInOrder
    GateSpec
    PauseEnds
    ServedWhileTimerKept
