SPECIFICATION Spec
CHECK_DEADLOCK FALSE
CONSTANTS
    Word64 = 16
    Setups <- ConnectSetups
INVARIANTS
    TypeOK
    Agreement
    FlightExact
    ReassemblyFaithful
    HonestSucceeds
    HsNonceUnique
    NoSessionOnFailure
