SPECIFICATION ContestSpec
CONSTANTS
    None = None
    NoAlgorithm = None
    NotPressed = NotPressed
    Calls = 10
    MaxNoise = 1
    NumWrappers = 2
    Language <- MCLanguage
    Template <- MCTemplate
    TickerNames = {"ETH", "BTC", "LTC"}
    MaxUpdates = 1
    Inputs <- MCInputs
INVARIANTS
    VerdictFounded
    Settled
    StartedTogether
PROPERTIES
    TimeoutFinal
    LintAnswers
    AcceptedLoads
    StartupEnds
    EndsWithExchange
CHECK_DEADLOCK FALSE
