SPECIFICATION Spec
CONSTANTS
    a = a
    b = b
    Id <- MCId
    Tool <- MCTool
    McpTool <- MCMcpTool
    MaxCalls = 3
    MaxWork = 3
    MaxModes = 1
    SeenCapacity = 1
    MaxLaunches = 2
INVARIANTS IdsRunOnce RunsAreApproved EditsStay CallsAreAnswered ListedToolsAreServed
SYMMETRY Ids
CHECK_DEADLOCK FALSE
