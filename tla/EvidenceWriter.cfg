SPECIFICATION WriterSpec
CONSTANTS
    r1 = r1
    r2 = r2
    r3 = r3
    Records <- MCRecords
    Ts <- MCTs
    Capacity = 1
    MaxClock = 1
    Sentinel = Sentinel
    Prep = Prep
    NoRecord = NoRecord
    NoGap = NoGap
INVARIANTS WriterTypeOK Accounted CleanClose
PROPERTIES CloseEndsWriter
