SPECIFICATION FairSpec
CONSTANTS
    Word64 = 16
    DataLens = {0, 2, 3}
    OutCaps = {1}
    ScratchCap = 2
    HsBodies <- AnyHs
    MaxSends = 1
    MaxPeerRecords = 2
    MaxFaults = 1
    MaxCryptoFails = 0
INVARIANTS
    TypeOK
PROPERTIES
    RecvIsChannel
    RecvReturns
