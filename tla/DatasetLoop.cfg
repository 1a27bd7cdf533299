SPECIFICATION FairSpec
CONSTANTS
    Configs <- MCConfigs
    MaxErrors <- MCErrors
    MaxCrashes = 1
INVARIANTS
    TypeOK
    MeasuredAsNamed
    SampleCoherent
    GapsReported
    DurationRestored
PROPERTIES
    Terminates
