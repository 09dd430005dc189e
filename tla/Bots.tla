-------------------------------- MODULE Bots --------------------------------
(***************************************************************************)
(* The bots of the exchange and the books they quote in.  At the start of  *)
(* a tick the main thread lets every bot act: a market maker cancels what  *)
(* it has quoted and quotes both sides anew, a retail bot may send a       *)
(* market order.  Their messages are stamped as they are made, so that the *)
(* sort leaves them in that order; the orders of the algorithms come       *)
(* anywhere between them.                                                  *)
(*                                                                         *)
(*   phase        what the main thread does: "waiting" for the next tick,  *)
(*                "acting" in before_cycle_, or "matching".                *)
(*   acting       the bots that are still to act in this tick.             *)
(*   queue        what the bots have sent and match_orders_ has not        *)
(*                handled.                                                 *)
(*   open_orders  the ids of a market maker's latest quotes.               *)
(*   count        the counter of generate_order_id.                        *)
(*   tick, placed the ticks started and the algorithms' orders, for the    *)
(*                bounds.                                                  *)
(***************************************************************************)
EXTENDS MatchingEngine, SequencesExt

CONSTANTS
    Bots,           \* the bots of all containers, in the order they act
    MarketMakers,   \* the market makers among them; the others are retail bots
    TickerOf,       \* [Leveraged -> Tickers]
    Theos,          \* the prices a bot may reckon with, noise and lean included
    MaxTicks,       \* bound on the number of ticks
    MaxPlaced       \* bound on the number of the algorithms' orders

\* PRICE_LEVELS: Decimal truncates the constants to hundredths.
PriceLevels ==
    <<[delta |-> 16, factor |-> 50], [delta |-> 21, factor |-> 33],
      [delta |-> 26, factor |-> 12], [delta |-> 31, factor |-> 4]>>

QuotePrice(side, theo, level) ==
    IF side = "buy" THEN theo - level.delta ELSE theo + level.delta

\* A bot acts once in a tick.  A price of zero is one that the bots would
\* divide by.
ASSUME BotsAssumption ==
    /\ Bots \in Seq(Leveraged) /\ Bots # <<>> /\ IsInjective(Bots)
    /\ MarketMakers \subseteq Leveraged
    /\ TickerOf \in [Leveraged -> Tickers]
    /\ \A b \in Leveraged : InitialCapital[b] > 0
    /\ Theos \subseteq Int \ {0}
    /\ MaxTicks \in Nat /\ MaxPlaced \in Nat
\* Levels has those of the quotes, and that of the market orders.
ASSUME LevelsAssumption ==
    /\ \A b \in MarketMakers, side \in Sides, theo \in Theos, i \in DOMAIN PriceLevels :
         <<TickerOf[b], side, QuotePrice(side, theo, PriceLevels[i])>> \in Levels
    /\ \A b \in Leveraged, side \in Sides : <<TickerOf[b], side, 0>> \in Levels

VARIABLES phase, acting, queue, open_orders, count, tick, placed

botVars == <<phase, acting, queue, open_orders, count, tick, placed>>
allVars == <<vars, botVars>>

BotsInit ==
    /\ Init
    /\ phase = "waiting"
    /\ acting = <<>>
    /\ queue = <<>>
    /\ open_orders = [b \in MarketMakers |-> <<>>]
    /\ count = 0
    /\ tick = 0
    /\ placed = 0

-----------------------------------------------------------------------------
(***************************************************************************)
(* What a bot reckons with.                                                *)
(***************************************************************************)
\* get_capital_utilization, rounded down
Utilization(b) ==
    Divide(Narrow(portfolio[b].interest["buy"]) + Narrow(portfolio[b].interest["sell"]),
           InitialCapital[b])

\* compute_capital_tolerance
Tolerance(b) == Times(One - Utilization(b), InitialCapital[b])

\* Ids of the exchange's process; those of the algorithms are odd, because
\* ids of different processes do not meet.
BotId(n) == 2 * n
AlgoId(n) == 2 * n + 1

\* Mutant of QuoteQuantity: half of what is left of the capital goes to each side.
HalfTolerance(b, theo) == Divide(Divide(Tolerance(b), theo), 2 * One)

\* The quantity of all quotes of one side
QuoteQuantity(b, theo) == Divide(Divide(Tolerance(b), theo), 4 * One)

\* place_orders_
Quotes(b, side, theo, first) ==
    [i \in DOMAIN PriceLevels |->
        [kind |-> "limit", trader |-> b, ticker |-> TickerOf[b], side |-> side,
         price |-> QuotePrice(side, theo, PriceLevels[i]),
         qty |-> Times(QuoteQuantity(b, theo), PriceLevels[i].factor),
         ts |-> 0, ioc |-> FALSE, id |-> BotId(first + i)]]

Cancels(b) ==
    [i \in DOMAIN open_orders[b] |->
        [kind |-> "cancel", ticker |-> TickerOf[b], id |-> open_orders[b][i]]]

-----------------------------------------------------------------------------
(***************************************************************************)
(* The main thread.                                                        *)
(***************************************************************************)
StartTick ==
    /\ phase = "waiting"
    /\ status = "running"
    /\ tick < MaxTicks
    /\ tick' = tick + 1
    /\ phase' = "acting"
    /\ acting' = Bots
    /\ UNCHANGED <<vars, queue, open_orders, count, placed>>

\* Mutant of QuoteAnew: only the buys are remembered.
QuoteAnewForgetfully(b) ==
    \E theo \in Theos :
        LET buys  == Quotes(b, "buy", theo, count)
            sells == Quotes(b, "sell", theo, count + Len(buys))
        IN /\ queue' = queue \o Cancels(b) \o buys \o sells
           /\ open_orders' = [open_orders EXCEPT ![b] = [i \in DOMAIN buys |-> buys[i].id]]
           /\ count' = count + Len(buys \o sells)

\* MarketMakerBot::take_action
QuoteAnew(b) ==
    \E theo \in Theos :
        LET buys   == Quotes(b, "buy", theo, count)
            sells  == Quotes(b, "sell", theo, count + Len(buys))
            quotes == buys \o sells
        IN /\ queue' = queue \o Cancels(b) \o quotes
           /\ open_orders' = [open_orders EXCEPT ![b] =
                                [i \in DOMAIN quotes |-> quotes[i].id]]
           /\ count' = count + Len(quotes)

\* RetailBot::take_action, when its dice say so: it buys what it thinks is
\* worth more than the midprice, for a twentieth of its capital.
TradeAtMarket(b) ==
    LET mid == Midprice(TickerOf[b])
    IN /\ mid # 0
       /\ \E theo \in Theos :
            queue' = Append(queue,
                [kind |-> "market", trader |-> b, ticker |-> TickerOf[b],
                 side |-> IF mid < theo THEN "buy" ELSE "sell", price |-> 0,
                 qty |-> Times(Divide(Tolerance(b), theo), 5),
                 ts |-> 0, ioc |-> FALSE, id |-> 0])
       /\ UNCHANGED <<open_orders, count>>

\* BotContainer::generate_orders: the next bot acts.
Act ==
    /\ phase = "acting"
    /\ LET b == Head(acting)
       IN IF b \in MarketMakers THEN QuoteAnew(b)
          ELSE TradeAtMarket(b) \/ UNCHANGED <<queue, open_orders, count>>
    /\ acting' = Tail(acting)
    /\ phase' = IF acting' = <<>> THEN "matching" ELSE "acting"
    /\ UNCHANGED <<vars, tick, placed>>

\* Orders are handled in the order of their timestamps: that of an order is as
\* good as the number of orders before it.
Stamped(o) == [o EXCEPT !.ts = submitted]

\* match_orders_ turns to a bot's message ...
Handle ==
    /\ phase = "matching"
    /\ queue # <<>>
    /\ LET m == Head(queue)
       IN IF m.kind = "cancel" THEN Cancel(m.ticker, m.id)
          ELSE Accept(Stamped(m)) \/ Drop(Stamped(m))
    /\ queue' = Tail(queue)
    /\ UNCHANGED <<phase, acting, open_orders, count, tick, placed>>

\* ... or to an order of an algorithm.
HandleAlgo ==
    /\ phase = "matching"
    /\ placed < MaxPlaced
    /\ placed' = placed + 1
    /\ \E o \in Orders :
        /\ o.trader \notin Leveraged
        /\ LET order == [Stamped(o) EXCEPT !.id = AlgoId(placed)]
           IN Accept(order) \/ Drop(order)
    /\ UNCHANGED <<phase, acting, queue, open_orders, count, tick>>

\* One step of match_order
Step == MatchStep /\ UNCHANGED botVars

\* handle_matches_
EndTick ==
    /\ phase = "matching"
    /\ queue = <<>>
    /\ TakeUpdates
    /\ phase' = "waiting"
    /\ UNCHANGED <<acting, queue, open_orders, count, tick, placed>>

\* Nothing happens after the last tick of the model, or once an exception has
\* ended the exchange.
Over ==
    /\ status = "terminated" \/ (phase = "waiting" /\ tick = MaxTicks)
    /\ UNCHANGED allVars

BotsNext == StartTick \/ Act \/ Handle \/ HandleAlgo \/ Step \/ EndTick \/ Over

BotsSpec == BotsInit /\ [][BotsNext]_allVars

-----------------------------------------------------------------------------
(***************************************************************************)
(* Properties.                                                             *)
(***************************************************************************)
Resting(b) == {n \in DOMAIN book : book[n].trader = b}
Latest(b) == {n \in Resting(b) : book[n].id \in ToSet(open_orders[b])}

\* A market maker loses sight of no quote: one that it has not just made will
\* be cancelled in this tick, before any of its new quotes is looked at, so
\* that quotes of two ticks never rest together.
QuotesTracked ==
    \A b \in MarketMakers : \A n \in Resting(b) \ Latest(b) :
        /\ Latest(b) = {}
        /\ \E i \in DOMAIN queue :
            /\ queue[i].kind = "cancel" /\ queue[i].id = book[n].id
            /\ \A j \in 1 .. i : queue[j].kind = "cancel" \/ queue[j].trader # b

\* trader_portfolio.cpp:74 asserts that the open interest is between nothing
\* and the initial capital.  That of a market maker never goes beyond half of
\* it, whatever is filled, dropped or cancelled, and although it reckons with
\* quotes that it is about to cancel.
HalfUtilized ==
    status = "running" =>
        \A b \in MarketMakers :
            LET interest == portfolio[b].interest["buy"] + portfolio[b].interest["sell"]
            IN 0 <= interest /\ 2 * interest <= Widen(InitialCapital[b])

=============================================================================
