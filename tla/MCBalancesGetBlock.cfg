CONSTANTS
    Perps = 1
    MaxAddrs = 1
    MaxBlock = 1
SPECIFICATION Spec
INVARIANTS GetSameAsPost
CHECK_DEADLOCK FALSE
