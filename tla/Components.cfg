\* Small instances of the components, one at a time.
SPECIFICATION Spec
INVARIANTS
    TypeOK
    CounterAhead
    ReservationsWithinLimits
    AgentsKeepTheirPlace
    SomeItemIsReady
    AgentsKeepApart
    ClientRequestsHold
    MessagesReachTheirTask
    ClosedTaskEvidence
PROPERTIES
    ClosedArrives
    EveryItemIsAdmitted
    ViewCatchesUp
    ReadyAgentIsFound
    RemoteSuccessIsSeen
CHECK_DEADLOCK FALSE
