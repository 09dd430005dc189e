CONSTANTS
    a1 = a1
    a2 = a2
    bot = bot
    Traders <- MCTraders
    Leveraged <- MCLeveraged
    InitialCapital <- MCInitialCapital
    Tickers = {"ETH"}
    Orders <- MCOrders
    OrderFee = 50
    MaxVolume = 150
    MaxOrders = 3
    RecycledIds <- MCIds
    Present <- MCPresent
    Pid <- MCPid
    PidUnit = 4
    IdSpace = 16
    MaxCancels = 1
SPECIFICATION CycleSpec
INVARIANTS FulfilledSide
CHECK_DEADLOCK FALSE
