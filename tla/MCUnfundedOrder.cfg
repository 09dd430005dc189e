CONSTANTS
    a1 = a1
    a2 = a2
    bot = bot
    Traders <- MCTraders
    Leveraged <- MCLeveraged
    InitialCapital <- MCInitialCapital
    Tickers = {"ETH", "BTC"}
    Orders <- MCOrders
    OrderFee = 50
    MaxVolume = 150
    MaxOrders = 3
    RecycledIds = {}
SPECIFICATION FairSpec
PROPERTIES UnfundedThrownOut
