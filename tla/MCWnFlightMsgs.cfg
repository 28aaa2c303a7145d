SPECIFICATION Spec
CHECK_DEADLOCK FALSE
CONSTANTS
    Messages <- MCMessages
    HonestHellos <- MCHellos
    RandomSz = 1
    HrrRandom <- MCHrr
    Sid <- MCSid
    Group = 29
    ShareSz = 1
    MaxChain = 2
    Bodies <- MCBodies
    HonestBodies <- MCHonest
INVARIANTS
    SlicesInBounds
    ParsedIsEncoded
    HonestIsParsed
    AcceptedIsTheAnswer
PROPERTIES
    Terminates
