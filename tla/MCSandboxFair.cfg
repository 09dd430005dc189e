SPECIFICATION FairSandboxSpec
CONSTANTS
    a = a
    b = b
    Traders = {a, b}
    Free = Free
    None = None
    MAX_CALLS = 1
    TIME_WINDOW = 1
    MaxCalls <- MCOneCall
    MaxUnread = 0
    MaxTime = 0
PROPERTIES
    Answered
    Removed
