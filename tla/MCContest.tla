------------------------------- MODULE MCContest -------------------------------
(***************************************************************************)
(* Two algorithms, one in Python and one in C++; one of them is the        *)
(* author's: the template, or the template with one thing wrong.           *)
(***************************************************************************)
EXTENDS Contest

CONSTANT None

MCLanguage == <<"python", "cpp">>

TemplateIn(language) ==
    [language |-> language, empty |-> FALSE,
     does |-> [e \in Entries |-> "returns"], methods |-> Callbacks,
     reads |-> {}, binds |-> {"Side", "Ticker"}, prints |-> {},
     writes |-> {}, heavy |-> FALSE]

MCTemplate == [language \in Languages |-> TemplateIn(language)]

Doing(t, entry, outcome) == [t EXCEPT !.does[entry] = outcome]

Variants(t) ==
    {t} \cup {Doing(t, entry, outcome) :
                 entry \in {"import", "construct", "on_trade_update"},
                 outcome \in {"throws", "dies", "hangs"}}
        \cup {Doing(t, "construct", "varies"), Doing(t, "on_account_update", "varies"),
              [t EXCEPT !.empty = TRUE], [t EXCEPT !.methods = {"on_trade_update"}],
              [t EXCEPT !.heavy = TRUE], [t EXCEPT !.prints = {"construct"}]}

\* Algorithms that write lines of their own while they are linted.
Writers(t) ==
    {[Doing(t, "construct", outcome) EXCEPT !.writes = {what}] :
        outcome \in {"returns", "throws", "dies", "hangs"}, what \in Lines}
    \cup {[Doing(t, "on_trade_update", "throws") EXCEPT !.writes = Lines]}

MCAlgorithms ==
    Variants(TemplateIn("python")) \cup Variants(TemplateIn("cpp"))
        \cup {[TemplateIn("python") EXCEPT !.reads = {"Side"}],
              [TemplateIn("python") EXCEPT !.binds = {}]}

-----------------------------------------------------------------------------
Bots(type, n) ==
    [type |-> type, number_of_bots |-> n, average_capital |-> 0, std_dev_capital |-> 0]

Ticker(name, bots) == [ticker |-> name, start_price |-> 0, bots |-> bots]

Global ==
    [starting_capital |-> 0, wait_secs |-> 0, sandbox_trial_seconds |-> 0,
     max_cumulative_order_volume |-> 0]

MCConfig ==
    [global |-> Global,
     tickers |-> <<Ticker("ETH", <<Bots("market_maker", 1), Bots("retail", 1)>>),
                   [ticker |-> "BTC", start_price |-> 0]>>]

\* A ticker that is configured twice, and configurations that are wrong.
MCConfigs ==
    {MCConfig,
     [MCConfig EXCEPT !.tickers = @ \o <<Ticker("ETH", <<Bots("retail", 2)>>),
                                         Ticker("LTC", <<Bots("retail", 1)>>)>>],
     [global |-> Global], [tickers |-> <<>>],
     [MCConfig EXCEPT !.global = [wait_secs |-> 0]],
     [MCConfig EXCEPT !.tickers = <<Ticker("XRP", <<>>)>>],
     [MCConfig EXCEPT !.tickers = <<Ticker("ETH", <<Bots("arbitrage", 1)>>)>>],
     [MCConfig EXCEPT !.tickers = <<Ticker("ETH", <<Bots("retail", -1)>>)>>],
     [MCConfig EXCEPT !.tickers = <<[ticker |-> "ETH"]>>]}

MCArguments ==
    {{"--dev"}, {}, {"--sandbox"}, {"--bots-only", "--sandbox"}, {"--dev", "--bots-only"},
     {"--dev", "--version"}, {"--debug"}}

\* Each algorithm in the file of its language, and one in the other's; those that
\* write, with arguments that end the exchange at once; wrong arguments and
\* configurations with the template.
MCInputs ==
    {[algo |-> a, place |-> IF a.language = "python" THEN 1 ELSE 2,
      argv |-> {"--dev"}, config |-> MCConfig] : a \in MCAlgorithms}
    \cup [algo : Writers(TemplateIn("python")) \cup Writers(TemplateIn("cpp")),
          place : {2}, argv : {{"--debug"}}, config : {MCConfig}]
    \cup [algo : {[Doing(TemplateIn("cpp"), "construct", "dies") EXCEPT !.writes = {"passed"}]},
          place : {2}, argv : {{"--dev"}}, config : {MCConfig}]
    \cup [algo : {TemplateIn("python")}, place : {2}, argv : {{"--dev"}}, config : {MCConfig}]
    \cup [algo : {TemplateIn("cpp")}, place : {2}, argv : MCArguments, config : {MCConfig}]
    \cup [algo : {TemplateIn("cpp")}, place : {2}, argv : {{"--dev"}}, config : MCConfigs]
=============================================================================
