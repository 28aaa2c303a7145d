SPECIFICATION Spec
CHECK_DEADLOCK FALSE
CONSTANTS
    Jobs <- LongIdentity
    Answers <- NoAnswers
    Cap = 12
    MaxFragment = 8
    MaxFails = 0
INVARIANT LengthsMatch
