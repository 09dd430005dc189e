-------------------------------- MODULE Startup --------------------------------
(***************************************************************************)
(* The exchange from main to its first tick: arguments, configuration,     *)
(* files, algorithms and bots, with the wrapper processes it starts.       *)
(*                                                                         *)
(*   argv     the options on the command line.                             *)
(*   config   config.yml: a YAML node is the function from the keys that   *)
(*            are defined in it to their values.                           *)
(*   main     how far the exchange is; "failed" after an exception that    *)
(*            nobody catches, "exited" after std::exit.                    *)
(*   mode     what process_arguments has returned.                         *)
(*   files    the algorithms there are, by the place of their path.        *)
(*   traders  the container: algorithms and bots.                          *)
(*   acting   the places in traders of the bots that a ticker has.         *)
(*   taken    how many configurations of tickers have been taken.          *)
(*   pending  the processes that Ctrl-C has yet to reach, once it has been *)
(*            pressed; the exchange is 0.                                  *)
(*   updates  the updates sent so far.                                     *)
(***************************************************************************)
EXTENDS Wrapper, FiniteSets, SequencesExt

CONSTANTS
    Template,       \* template.py and template.hpp, by language
    TickerNames,    \* the tickers that to_ticker knows
    NotPressed,
    MaxUpdates      \* bound on the updates the exchange sends

VARIABLES argv, config, main, mode, files, traders, acting, taken, pending, updates

inputVars   == <<argv, config>>
botVars     == <<acting, taken>>
startupVars == <<inputVars, main, mode, files, traders, botVars, pending, updates,
                 startTime, wrapperVars>>

Dead  == {"failed", "exited"}
Lives == main \notin Dead

\* The algorithms come first, in the order of their files.
AlgoTraders == {t \in DOMAIN traders : traders[t].type = "algorithm"}

-----------------------------------------------------------------------------
(***************************************************************************)
(* Arguments.                                                              *)
(***************************************************************************)
Options == {"--dev", "--bots-only", "--sandbox", "--version"}

ModeOf(options) ==
    CASE "--dev" \in options       -> "dev"
      [] "--bots-only" \in options -> "bots_only"
      [] "--sandbox" \in options   -> "sandbox"
      [] OTHER                     -> "normal"

\* process_arguments: what is not an option, and --version, end the program.
ProcessArguments ==
    /\ main = "arguments"
    /\ IF argv \subseteq Options \ {"--version"}
       THEN main' = "config" /\ mode' = ModeOf(argv)
       ELSE main' = "exited" /\ UNCHANGED mode
    /\ UNCHANGED <<inputVars, files, traders, botVars, pending, updates, startTime,
                   wrapperVars>>

-----------------------------------------------------------------------------
(***************************************************************************)
(* Configuration.                                                          *)
(***************************************************************************)
Defined(node, keys) == keys \subseteq DOMAIN node

\* get_bot_config_; number_of_bots is converted to a size_t.
BotConfigValid(node) ==
    /\ Defined(node, {"type", "number_of_bots", "average_capital", "std_dev_capital"})
    /\ node["type"] \in {"market_maker", "retail"}
    /\ node["number_of_bots"] \in Nat

\* get_ticker_config_: bots may be left out.
TickerConfigValid(node) ==
    /\ Defined(node, {"ticker", "start_price"})
    /\ node["ticker"] \in TickerNames
    /\ Defined(node, {"bots"}) => \A i \in DOMAIN node["bots"] :
                                      BotConfigValid(node["bots"][i])

\* get_global_config_: order_fee may be left out.
GlobalConfigValid(node) ==
    Defined(node, {"starting_capital", "wait_secs", "sandbox_trial_seconds",
                   "max_cumulative_order_volume"})

\* Config: all of the file is read before the first of it is used.
ConfigValid ==
    /\ Defined(config, {"global", "tickers"})
    /\ GlobalConfigValid(config["global"])
    /\ \A i \in DOMAIN config["tickers"] : TickerConfigValid(config["tickers"][i])

\* get_algo_initializer
ReadConfig ==
    /\ main = "config"
    /\ main' = IF ConfigValid THEN "files" ELSE "failed"
    /\ UNCHANGED <<inputVars, mode, files, traders, botVars, pending, updates, startTime,
                   wrapperVars>>

-----------------------------------------------------------------------------
(***************************************************************************)
(* Algorithms.                                                             *)
(***************************************************************************)
\* The files once the first n algorithms have been looked at: one that is not
\* there is the template.
FilesUpTo(n) ==
    [w \in Wrappers |-> IF w <= n /\ files[w] = NoAlgorithm
                        THEN Template[Language[w]] ELSE files[w]]

\* initialize_files: reading a template, making the directory or a file may fail.
InitializeFiles ==
    /\ main = "files"
    /\ IF mode = "dev"
       THEN \E n \in 0 .. NumWrappers :
                /\ files' = FilesUpTo(n)
                /\ \/ n = NumWrappers /\ main' = "trader"
                   \/ n < NumWrappers /\ main' = "failed"
       ELSE main' = "trader" /\ UNCHANGED files
    /\ UNCHANGED <<inputVars, mode, traders, botVars, pending, updates, startTime,
                   wrapperVars>>

\* The place of the next algorithm.
NextPlace == Cardinality(AlgoTraders) + 1

\* AlgoTrader, WrapperHandle: the algorithm is compiled, a process started and
\* sent its algorithm.
SpawnWrapper ==
    /\ main = "trader"
    /\ mode = "dev"
    /\ NextPlace \in Wrappers
    /\ IF "returns" \in GetAlgoString(files[NextPlace], Language[NextPlace])
       THEN /\ main' = "init"
            /\ pc' = [pc EXCEPT ![NextPlace] = "arguments"]
            /\ runs' = [runs EXCEPT ![NextPlace] = files[NextPlace]]
            /\ stdin' = [stdin EXCEPT ![NextPlace] = <<"algorithm">>]
       ELSE main' = "failed" /\ UNCHANGED <<pc, runs, stdin>>
    /\ UNCHANGED <<inputVars, mode, files, traders, botVars, pending, updates, startTime,
                   reported, guarded>>

\* Mutant of BlockOnInit: the start time is sent to each wrapper as it comes.
StartAtOnce ==
    /\ main = "init"
    /\ reported[NextPlace]
    /\ traders' = Append(traders, [type |-> "algorithm"])
    /\ stdin' = [stdin EXCEPT ![NextPlace] = Append(@, "start")]
    /\ main' = "trader"
    /\ startTime' = IF startTime = "unset" THEN "ahead" ELSE startTime
    /\ UNCHANGED <<inputVars, mode, files, botVars, pending, updates, pc, runs,
                   reported, guarded>>

\* block_on_init; then the trader is in the container.
BlockOnInit ==
    /\ main = "init"
    /\ reported[NextPlace]
    /\ traders' = Append(traders, [type |-> "algorithm"])
    /\ main' = "trader"
    /\ UNCHANGED <<inputVars, mode, files, botVars, pending, updates, startTime,
                   wrapperVars>>

\* The last algorithm is there: the start time is sent to all.
SendStartTimes ==
    /\ main = "trader"
    /\ mode = "dev"
    /\ NextPlace \notin Wrappers
    /\ main' = "sleep"
    /\ startTime' = "ahead"
    /\ stdin' = [w \in Wrappers |-> IF w \in AlgoTraders THEN Append(stdin[w], "start")
                                                         ELSE stdin[w]]
    /\ UNCHANGED <<inputVars, mode, files, traders, botVars, pending, updates,
                   pc, runs, reported, guarded>>

\* Normal mode asks for its traders, and get_remote_traders throws.
GetRemoteTraders ==
    /\ main = "trader"
    /\ mode = "normal"
    /\ main' = "failed"
    /\ UNCHANGED <<inputVars, mode, files, traders, botVars, pending, updates, startTime,
                   wrapperVars>>

\* The other modes have no algorithms of their own.
NoAlgorithms ==
    /\ main = "trader"
    /\ mode \in {"bots_only", "sandbox"}
    /\ main' = "tickers"
    /\ UNCHANGED <<inputVars, mode, files, traders, botVars, pending, updates, startTime,
                   wrapperVars>>

\* The start time comes.
TimePasses ==
    /\ startTime = "ahead"
    /\ startTime' = "past"
    /\ UNCHANGED <<inputVars, main, mode, files, traders, botVars, pending, updates,
                   wrapperVars>>

WakeMain ==
    /\ main = "sleep"
    /\ startTime = "past"
    /\ main' = "tickers"
    /\ UNCHANGED <<inputVars, mode, files, traders, botVars, pending, updates, startTime,
                   wrapperVars>>
-----------------------------------------------------------------------------
(***************************************************************************)
(* Tickers and their bots.                                                 *)
(***************************************************************************)
\* create_bots, for each of the containers of a ticker
BotsOf(node) ==
    IF ~Defined(node, {"bots"}) THEN <<>>
    ELSE FlattenSeq([i \in DOMAIN node["bots"] |->
             [j \in 1 .. node["bots"][i]["number_of_bots"] |->
                 [type |-> node["bots"][i]["type"], ticker |-> node["ticker"]]]])

\* create_tickers: emplace makes the data of the ticker, and with it the bots,
\* before it finds that the map has the ticker already.
TakeTicker ==
    LET node == config["tickers"][taken + 1]
        bots == BotsOf(node)
        seen == \E i \in 1 .. taken : config["tickers"][i]["ticker"] = node["ticker"]
    IN /\ main = "tickers"
       /\ taken < Len(config["tickers"])
       /\ traders' = traders \o bots
       /\ acting' = IF seen THEN acting
                    ELSE [acting EXCEPT ![node["ticker"]] =
                              Len(traders) + 1 .. Len(traders) + Len(bots)]
       /\ taken' = taken + 1
       /\ UNCHANGED <<inputVars, main, mode, files, pending, updates, startTime, wrapperVars>>

\* create_cycle returns, and main_event_loop begins.
EnterLoop ==
    /\ main = "tickers"
    /\ taken = Len(config["tickers"])
    /\ main' = "running"
    /\ UNCHANGED <<inputVars, mode, files, traders, botVars, pending, updates, startTime,
                   wrapperVars>>

\* on_tick: every algorithm is sent an update, or one of them is told of a trade.
SendUpdate ==
    /\ main = "running"
    /\ updates < MaxUpdates
    /\ updates' = updates + 1
    /\ \E to \in {AlgoTraders} \cup {{w} : w \in AlgoTraders}, what \in {"tick", "account"} :
           /\ what = "tick" => to = AlgoTraders
           /\ what = "account" => Cardinality(to) = 1
           /\ stdin' = [w \in Wrappers |->
                            IF w \in to THEN Append(stdin[w], what) ELSE stdin[w]]
    /\ UNCHANGED <<inputVars, main, mode, files, traders, botVars, pending, startTime,
                   pc, runs, reported, guarded>>

-----------------------------------------------------------------------------
(***************************************************************************)
(* Ctrl-C sends SIGINT to the exchange and to every wrapper there is; each *)
(* gets it when it gets it.                                                *)
(***************************************************************************)
CtrlC ==
    /\ pending = NotPressed
    /\ Lives
    /\ pending' = {0} \cup {w \in Wrappers : Alive(w)}
    /\ UNCHANGED <<inputVars, main, mode, files, traders, botVars, updates, startTime,
                   wrapperVars>>

\* std::signal(SIGINT, [](auto) { std::exit(0); })
InterruptExchange ==
    /\ pending # NotPressed /\ 0 \in pending
    /\ pending' = pending \ {0}
    /\ main' = IF Lives THEN "exited" ELSE main
    /\ UNCHANGED <<inputVars, mode, files, traders, botVars, updates, startTime, wrapperVars>>

InterruptWrapper(w) ==
    /\ pending # NotPressed /\ w \in pending
    /\ pending' = pending \ {w}
    /\ IF Alive(w) THEN Interrupt(w) ELSE UNCHANGED wrapperVars
    /\ UNCHANGED <<inputVars, main, mode, files, traders, botVars, updates, startTime>>

-----------------------------------------------------------------------------
MainStep ==
    \/ ProcessArguments \/ ReadConfig \/ InitializeFiles
    \/ SpawnWrapper \/ BlockOnInit \/ SendStartTimes \/ WakeMain
    \/ GetRemoteTraders \/ NoAlgorithms
    \/ TakeTicker \/ EnterLoop

StepOf(w) ==
    /\ WrapperStep(w, Lives)
    /\ UNCHANGED <<inputVars, main, mode, files, traders, botVars, pending, updates, startTime>>

StartupNext ==
    \/ MainStep
    \/ TimePasses
    \/ SendUpdate
    \/ CtrlC \/ InterruptExchange
    \/ \E w \in Wrappers : StepOf(w) \/ InterruptWrapper(w)

-----------------------------------------------------------------------------
(***************************************************************************)
(* Properties.                                                             *)
(***************************************************************************)
\* A configuration that is wrong anywhere ends the exchange before it has
\* touched a file or started a process.
ConfigFirst ==
    ~ConfigValid => /\ \A w \in Wrappers : pc[w] = "none"
                    /\ main \in Dead \cup {"arguments", "config"}

\* No algorithm has the process before the wrappers of all have reported and the
\* start time has come; nor does the exchange tick.
StartedTogether ==
    \/ main = "running" /\ mode = "dev"
    \/ \E w \in Wrappers : pc[w] \in Running
    => startTime = "past" /\ \A w \in Wrappers : reported[w]

\* Starting ends, one way or another: no wrapper fails to report.
StartupEnds == main = "config" ~> main \in Dead \cup {"running"}

\* Interrupted between its signal handlers and its request to be killed with the
\* exchange.
Orphan(w) == pc[w] = "spins" /\ ~guarded[w]

\* No other wrapper outlives the exchange, whatever its algorithm does.
EndsWithExchange == \A w \in Wrappers : ~Lives ~> ~Alive(w) \/ Orphan(w)
=============================================================================
