CONSTANTS
    Event = {1}
    MaxBlock = 2
    Handlers = {h1}
    Addr = {a1}
    Genesis = 1
    MaxCrashes = 1
    MaxFaults = 1
SPECIFICATION FairSpec
PROPERTIES EventSettled
