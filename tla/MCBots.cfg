CONSTANTS
    mm1 = mm1
    mm2 = mm2
    retail = retail
    a1 = a1
    Traders <- MCTraders
    Leveraged <- MCLeveraged
    InitialCapital <- MCInitialCapital
    Tickers = {"ETH"}
    Orders <- MCOrders
    OrderFee = 1
    MaxVolume = 2500
    MaxOrders = 100
    RecycledIds = {}
    Bots <- MCBots
    MarketMakers <- MCMarketMakers
    TickerOf <- MCTickerOf
    Theos <- MCTheos
    MaxTicks = 2
    MaxPlaced = 1
SPECIFICATION BotsSpec
INVARIANTS QuotesTracked HalfUtilized
