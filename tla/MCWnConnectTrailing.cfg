SPECIFICATION Spec
CHECK_DEADLOCK FALSE
CONSTANTS
    Word64 = 16
    Setups <- TrailingSetups
INVARIANTS
    NothingAfterFinished
