SPECIFICATION Spec
CHECK_DEADLOCK FALSE
CONSTANTS
    Cases <- ShippedCases
    Anchor <- MCAnchor
    MaxChain = 3
    SpkiSz = 1
    Verifies <- MCVerifies
INVARIANTS
    OfferedIsAccepted
