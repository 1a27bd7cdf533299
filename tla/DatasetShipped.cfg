SPECIFICATION Spec
CONSTANTS
    Configs <- MCShipped
    MaxErrors <- MCNoErrors
    MaxCrashes = 0
INVARIANT AlreadyTransferred
