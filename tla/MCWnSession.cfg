SPECIFICATION Spec
CONSTANTS
    Word64 = 16
    DataLens = {1}
    OutCaps = {1}
    ScratchCap = 2
    HsBodies <- KuHs
    MaxSends = 2
    MaxPeerRecords = 3
    MaxFaults = 1
    MaxCryptoFails = 1
INVARIANTS
    KeysInStep
    KeyUpdatesAnswered
    NonceUnique
PROPERTIES
    ClosedIsFinal
    RecvIsChannel
    SendIsChannel
