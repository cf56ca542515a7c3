SPECIFICATION Spec
CONSTANTS
    main = main
    p1 = p1
    p2 = p2
    None = None
    Threads <- MCThreads
    Main <- MCMain
    Offers <- MCOffers
INVARIANTS
    MonitorIsOwned
    NothingHeldOutside
    NoHoldAndWait
    CallRestoresMonitor
    NobodySleepsOnSetEvent
