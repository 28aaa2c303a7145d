SPECIFICATION Spec
CHECK_DEADLOCK FALSE
CONSTANTS
    Word64 = 16
    Setups <- AlertSetups
PROPERTIES
    AlertOnFailure
