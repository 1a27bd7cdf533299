SPECIFICATION FairSpec
CONSTANTS
    Configs <- MCConfigs
    MaxInvocations = 4
    MaxAborts = 2
INVARIANTS
    TypeOK
    MeasuredAsNamed
    StalenessBounded
    IndexFresh
    Reported
    HangsAsDocumented
PROPERTIES
    Ends
CHECK_DEADLOCK FALSE
