------------------------------- MODULE MCBots -------------------------------
(***************************************************************************)
(* A small instance of Bots: two market makers with different capital, a   *)
(* retail bot between them, and an algorithm.                              *)
(***************************************************************************)
EXTENDS Bots

CONSTANTS mm1, mm2, retail, a1

MCTraders == {mm1, mm2, retail, a1}
MCLeveraged == {mm1, mm2, retail}
MCMarketMakers == {mm1, mm2}
MCBots == <<mm1, retail, mm2>>
MCTickerOf == [b \in MCLeveraged |-> "ETH"]

\* 60.00 for mm2: its quotes come up against the limit of volume.
MCInitialCapital == [t \in MCTraders |-> IF t = mm2 THEN 6000 ELSE 4000]

\* At 1.40 a new buy meets the sells made at 1.00; at 0.20 there are bids below
\* zero; at -0.50, after much lean, all quantities are negative.
MCTheos == {100, 140, 20, -50}

Limit(t, s, p, q) ==
    [kind |-> "limit", trader |-> t, ticker |-> "ETH", side |-> s, price |-> p,
     qty |-> q, ts |-> 0, ioc |-> FALSE, id |-> 0]

\* The algorithm buys a market maker's first level and part of the next.  The
\* orders without quantity are there for their levels.
MCOrders ==
    {[Limit(a1, "buy", 0, 700) EXCEPT !.kind = "market"]}
    \cup {Limit(mm1, s, QuotePrice(s, theo, PriceLevels[i]), 0) :
            s \in Sides, theo \in MCTheos, i \in DOMAIN PriceLevels}

=============================================================================
