CONSTANTS
    Addr = {a1, a2, a3}
    PerpProxy = proxy
    MaxCash = 1
    MaxShares = 1
    MaxPool = 7
    MaxRows = 0
    Inc = 2
SPECIFICATION Spec
SYMMETRY Symmetry
INVARIANTS ReportSumsToPoolAtBlock
\* The computation ends.
CHECK_DEADLOCK FALSE
