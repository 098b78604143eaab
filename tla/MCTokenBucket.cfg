CONSTANTS
    Caller = {c1, c2}
    Capacity = 2
    RateNum = 2
    RateDen = 3
    MaxElapsed = 4
    MaxWindow = 7
SPECIFICATION FairSpec
INVARIANTS TypeOK WindowBound
PROPERTIES SomeoneServed
