SPECIFICATION Spec
CHECK_DEADLOCK FALSE
CONSTANTS
    Jobs <- MCJobs
    Answers <- MCAnswers
    Cap = 12
    MaxFragment = 8
    MaxFails = 1
INVARIANTS
    LengthsMatch
    BinderAtEnd
    SentWholeOrFailed
    WithinBuffer
    Framed
PROPERTIES
    AllReturned
