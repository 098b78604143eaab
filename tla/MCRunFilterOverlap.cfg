CONSTANTS
    Event = {1, 2}
    MaxBlock = 4
    Handlers = {}
    Addr = {a1}
    Genesis = 1
    MaxCrashes = 0
    MaxFaults = 0
SPECIFICATION Spec
INVARIANTS DelegatesCollected
