CONSTANTS
    Event = {e1, e2}
    MaxBlock = 5
    InitialDelta = 3
    MaxTrials = 4
SPECIFICATION FairSpec
INVARIANTS TypeOK LogsExact
PROPERTIES ScanTerminates ImplementsEventScan
