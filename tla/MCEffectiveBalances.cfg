CONSTANTS
    Addr = {a1, a2, a3}
    PerpProxy = proxy
    MaxCash = 1
    MaxShares = 1
    MaxPool = 7
    MaxRows = 2
    Inc = 2
SPECIFICATION Spec
SYMMETRY Symmetry
INVARIANTS ReportSumsToPool ReportedDue ReportNamesAll
\* The computation ends.
CHECK_DEADLOCK FALSE
