SPECIFICATION FairSpec
CONSTANTS
    n1 = n1
    n2 = n2
    n3 = n3
    AllIPs <- MCTwoIPs
    Layouts <- MCTwoRegions
    Selections <- MCBothIPs
    Kinds = {"static", "snapshot"}
    Modes = {1, 2, 3}
    Heeded = {"sent", "cleared"}
    MaxCalls = 3
    NumPorts = 2
    Prompt = {"cleanup", "start", "sleep"}
    Faults = {"bad"}
PROPERTIES
    CallsSpec
    Returns
