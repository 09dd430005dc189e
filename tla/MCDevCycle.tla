------------------------------ MODULE MCDevCycle ------------------------------
(***************************************************************************)
(* A small instance of DevCycle: as in MCMatchingCycle an algorithm that   *)
(* is there from the start, one that the sandbox adds, and a bot.  Each    *)
(* has time for two orders.                                                *)
(***************************************************************************)
EXTENDS DevCycle

CONSTANTS a1, a2, bot

MCTraders == {a1, a2, bot}
MCLeveraged == {bot}
MCPresent == {a1, bot}
MCInitialCapital == [t \in MCTraders |-> 250]

\* Two bits for the process id: the third loses one.
MCPid == (a1 :> 1) @@ (a2 :> 2) @@ (bot :> 7)

MCIds == 0 .. IdSpace - 1

Limit(t, s, p, q, time, ioc) ==
    [kind |-> "limit", trader |-> t, ticker |-> "ETH", side |-> s, price |-> p,
     qty |-> q, ts |-> time, ioc |-> ioc, id |-> 0]

Market(t, s, q, time) ==
    [kind |-> "market", trader |-> t, ticker |-> "ETH", side |-> s, price |-> 0,
     qty |-> q, ts |-> time, ioc |-> FALSE, id |-> 0]

\* a1 bids above the bot's offer, or takes from it; a2 bids below it, so that
\* there is a midprice.  A second quote of the bot is over the volume limit.
MCOrders ==
    UNION {{Limit(bot, "sell", 100, 100, time, FALSE),
            Limit(a1, "buy", 101, 50, time, FALSE),
            Market(a1, "buy", 50, time),
            Limit(a2, "buy", 98, 60, time, FALSE)} : time \in 1 .. 2}

=============================================================================
