CONSTANTS
    Query = {q1, q2}
    MaxClients = 4
SPECIFICATION Spec
SYMMETRY Symmetry
INVARIANTS TypeOK DefeatedOnlyByOthers ScansOnDistinctClients ScanMissesBounded
