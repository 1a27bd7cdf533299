SPECIFICATION Spec
CONSTANTS
    numDCs = 4
    Predictions <- MCPredictions
    regionCounts <- MCRegionCounts
INVARIANT ClosenessOrder
