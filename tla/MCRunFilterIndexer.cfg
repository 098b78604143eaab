CONSTANTS
    Event = {1, 2}
    MaxBlock = 3
    Handlers = {h1}
    Addr = {a1}
    Genesis = 1
    MaxCrashes = 1
    MaxFaults = 0
SPECIFICATION SpecFromGenesis
INVARIANTS TypeOK NothingSkipped AnswerAccounted TransfersStored
PROPERTIES ProgressKept
