SPECIFICATION Spec
CONSTANTS
    n1 = n1
    n2 = n2
    n3 = n3
    AllIPs <- MCAllIPs
    Layouts <- MCLayouts
    Selections <- MCSelections
    Kinds = {"static", "snapshot"}
    Modes = {1, 2, 3}
    Heeded = {"cleared"}
    MaxCalls = 2
    NumPorts = 2
    Prompt = {"cleanup", "start", "sleep"}
    Faults = {}
INVARIANTS
    TypeOK
    OneClientPerServer
    StartsComplete
    RecordsRound
CHECK_DEADLOCK FALSE
