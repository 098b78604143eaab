CONSTANTS
    Event = {1, 2}
    MaxBlock = 3
    Handlers = {}
    Addr = {a1}
    Genesis = 1
    MaxCrashes = 1
    MaxFaults = 0
SPECIFICATION Spec
INVARIANTS TransfersCollected
