CONSTANTS
    a1 = a1
    a2 = a2
    bot = bot
    Traders <- MCTraders
    Leveraged <- MCLeveraged
    InitialCapital <- MCInitialCapital
    Tickers = {"ETH", "BTC"}
    Orders <- MCOrders
    OrderFee = 50
    MaxVolume = 150
    MaxOrders = 4
    RecycledIds = {1}
SPECIFICATION FairSpec
INVARIANTS LevelsMatchBook InterestMatchesBook OpenVolumeBounded TrackerMatchesBook
PROPERTIES ImplementsLedger DebtsAreOwnSales TradesWithinLimits PriceTimePriority MatchingTerminates
