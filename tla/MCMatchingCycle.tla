-------------------------- MODULE MCMatchingCycle --------------------------
(***************************************************************************)
(* Small instances of MatchingCycle: an algorithm that is there from the   *)
(* start, one that the sandbox adds later, and a bot that quotes.          *)
(***************************************************************************)
EXTENDS MatchingCycle

CONSTANTS a1, a2, bot

MCTraders == {a1, a2, bot}
MCLeveraged == {bot}
MCPresent == {a1, bot}
MCInitialCapital == [t \in MCTraders |-> 250]

\* Two bits for the process id: a2's loses the one in which it differs from a1's.
MCPid == (a1 :> 1) @@ (a2 :> 5) @@ (bot :> 6)

\* All ids: the engine is given them in the order of the timestamps.
MCIds == 0 .. IdSpace - 1

Limit(t, s, p, q, time, ioc) ==
    [kind |-> "limit", trader |-> t, ticker |-> "ETH", side |-> s, price |-> p,
     qty |-> q, ts |-> time, ioc |-> ioc, id |-> 0]

Market(t, s, q, time) ==
    [kind |-> "market", trader |-> t, ticker |-> "ETH", side |-> s, price |-> 0,
     qty |-> q, ts |-> time, ioc |-> FALSE, id |-> 0]

\* The algorithms bid at two levels; the bot sells into both, or rests and is
\* taken from, in part, at a limit and at the market.
\* A second quote of the bot is over the volume limit.  a2 also bids below zero.
MCOrders ==
    UNION {{Limit(bot, "sell", 99, 100, time, FALSE),
            Limit(a1, "buy", 100, 60, time, FALSE),
            Market(a1, "buy", 60, time),
            Limit(a2, "buy", 99, 60, time, FALSE),
            Limit(a2, "buy", -1, 60, time, FALSE)} : time \in 1 .. 3}

=============================================================================
