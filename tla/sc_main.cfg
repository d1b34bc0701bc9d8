\* One server, two scans, every failure, one crash or shutdown.
SPECIFICATION Spec
CONSTANTS
    s1 = s1
    Servers <- OneServer
    NoServer = NoServer
    MaxScans = 2
    MaxDowns = 1
INVARIANTS
    TypeOK
    RunningHoldsLease
    NothingIsLeftBehind
PROPERTIES
    DoneWasNotReplaced
    ImplementsHistory
    EveryScanEnds
    LostLeaseStops
    ShutdownEnds
\* All scans of the bound may be over.
CHECK_DEADLOCK FALSE
