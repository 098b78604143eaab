CONSTANTS
    Request = {r1, r2, r3}
    TTL = 2
SPECIFICATION FairSpec
INVARIANTS TypeOK AnswerFresh NoSecondFetch
PROPERTIES Refreshed
