SPECIFICATION Spec
CHECK_DEADLOCK FALSE
CONSTANTS
    Cases <- MCCases
    Anchor <- MCAnchor
    MaxChain = 3
    SpkiSz = 1
    Verifies <- MCVerifies
INVARIANTS
    AcceptedIsVouched
    ProperPathAccepted
    IdentityBound
    VerifiedIsBound
    KeyReleased
    HonestIsVerified
    FipsOffersApproved
