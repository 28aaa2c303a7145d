SPECIFICATION Spec
CHECK_DEADLOCK FALSE
CONSTANTS
    Builds = {"hybrid", "p256", "x25519"}
    MaxFails = 2
INVARIANTS
    NoCorruption
    NothingLeft
    WireIsRfc8446
    SessionIsRfc8446
