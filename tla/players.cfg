SPECIFICATION StoreSpec
CONSTANTS
    Names <- MCNames
    Fold <- MCFold
    Requests <- MCRequests
    OpOf <- MCOpOf
    NameOf <- MCNameOf
    OldTokens = {"old"}
    HandTokens = {"hand"}
    None = None
    Bad = Bad
    MaxEdits = 1
    MaxCrashes = 1
INVARIANTS AnsweredIsInForce
PROPERTIES ImplementsPlayerList EditsArePickedUp
CHECK_DEADLOCK FALSE
