SPECIFICATION FairSpec
CHECK_DEADLOCK FALSE
CONSTANTS
    Word64 = 16
    Setups <- LiveSetups
PROPERTIES
    ConnectReturns
    ServerCompletes
