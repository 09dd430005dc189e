-------------------------- MODULE MCMatchingEngine --------------------------
(***************************************************************************)
(* Small instances of MatchingEngine: two algorithms that may not borrow   *)
(* and a bot that may.                                                     *)
(***************************************************************************)
EXTENDS MatchingEngine

CONSTANTS a1, a2, bot

MCTraders == {a1, a2, bot}
MCLeveraged == {bot}

\* 1.99 each: after an order of 1.00 at 1.01 and its fee one of 0.33 is too much
\* by a hundredth, and only because of the fee.
MCInitialCapital == [t \in MCTraders |-> 199]

Limit(t, k, s, p, q, time, ioc) ==
    [kind |-> "limit", trader |-> t, ticker |-> k, side |-> s, price |-> p,
     qty |-> q, ts |-> time, ioc |-> ioc, id |-> 0]

Market(t, k, s, q) ==
    [kind |-> "market", trader |-> t, ticker |-> k, side |-> s, price |-> 0,
     qty |-> q, ts |-> 0, ioc |-> FALSE, id |-> 0]

\* The book of ETH: the bot quotes both sides, a1 buys, sells and
\* quotes again, a2 takes.  Prices and quantities do not divide evenly, so
\* that the rounding of fees shows; timestamps disagree with the order of
\* arrival; one order has no quantity, one buys and one sells below zero.
\* One order of a1 is for another ticker.
MCOrders ==
    {Limit(bot, "ETH", "sell", 101, 100, 1, FALSE)}
    \cup {Limit(bot, "ETH", "buy", 101, 67, 0, FALSE)}
    \cup {Limit(a1, "ETH", "buy", p, 100, 1, FALSE) : p \in {101, 103}}
    \cup {Limit(a1, "ETH", "sell", 101, 67, 0, ioc) : ioc \in BOOLEAN}
    \cup {Limit(a1, "ETH", "sell", -200, 67, 0, FALSE)}
    \cup {Limit(a2, "ETH", "buy", 101, 100, 0, FALSE)}
    \cup {Market(a2, "ETH", s, 33) : s \in Sides}
    \cup {Limit(a2, "ETH", "buy", 101, 0, 0, FALSE)}
    \cup {Limit(bot, "ETH", "buy", -100, 33, 0, FALSE)}
    \cup {Limit(a1, "BTC", "buy", 100, 67, 0, FALSE)}

=============================================================================
