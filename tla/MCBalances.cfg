CONSTANTS
    Perps = 2
    MaxAddrs = 1
    MaxBlock = 1
SPECIFICATION FairSpec
INVARIANTS TypeOK AnswerComplete
PROPERTIES CallReturns
\* The call returns; what it leaves behind stops or stays blocked.
CHECK_DEADLOCK FALSE
