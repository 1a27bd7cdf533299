SPECIFICATION FairSpec
CONSTANTS
    numDCs = 4
    Predictions <- MCPredictions
    regionCounts <- MCRegionCounts
INVARIANTS
    TypeOK
    ThinnedOut
    ListedRank
    InferredOrder
    ChannelsUsable
PROPERTIES
    Terminates
