CONSTANTS
    fast = fast
    slow = slow
    Clocks = {fast, slow}
    Period <- Periods
    Uptime = 4
    MaxTime = 10
    MaxRegs = 1
    Width = 6
SPECIFICATION Spec
CHECK_DEADLOCK FALSE
INVARIANTS
    NextEventIsNear
    PhaseIsKept
    TicksArePaced
    NoEventSlept
    RegisteringStartsClock
