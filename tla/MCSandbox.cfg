SPECIFICATION SandboxSpec
CONSTANTS
    a = a
    b = b
    Traders = {a, b}
    Free = Free
    None = None
    MAX_CALLS = 1
    TIME_WINDOW = 1
    MaxCalls <- MCMaxCalls
    MaxUnread = 1
    MaxTime = 2
INVARIANTS
    AddedOnce
    InitTaken
    StartedOnce
    OrdersKept
    WindowBound
