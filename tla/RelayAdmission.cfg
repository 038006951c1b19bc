SPECIFICATION Spec
CONSTANTS
    WS = {"w1", "w2", "w3"}
    HTTP = {"h1", "h2"}
    Clients = {"c1"}
    NoClient = "none"
    Budget = 2
    PressureStart = 2
    PressureTarget = 1
    IdleLimit = 1
    Waiters = 1
    PoolLimit = 1
INVARIANTS NoLostWakeup ReapKeepsUp PoolSound StopQuiet
PROPERTIES ImplementsCapacity ShutdownEnds
CHECK_DEADLOCK FALSE
