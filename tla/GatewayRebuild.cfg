SPECIFICATION Spec
CONSTANTS
    Conversations <- MCConversations
    Windows = {0, 1, 2, 3}
    Hour = {"h1"}
    MaxOpens = 2
    Run = {r1}
    Client = {c1}
    Switched = {llama}
    Model <- MCModel
    Endpoint <- MCEndpoint
    None = None
    TypeOf <- MCType
    KeyOf <- MCType
    Hosted = {}
    DefaultUpstream = "anthropic"
    Builtin <- MCBuiltin
    Pulled = {llama}
    Manual <- MCManual
    Routing <- MCRouting
    claude = claude
    gpt = gpt
    llama = llama
    lost = lost
INVARIANT HourlyByHour
CHECK_DEADLOCK FALSE
