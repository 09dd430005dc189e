------------------------------- MODULE DevCycle -------------------------------
(***************************************************************************)
(* The cycle of dev and sandbox mode: a MatchingCycle that reports to the  *)
(* dashboard.  The orders of a tick are counted before they are matched,   *)
(* the matches before the traders are told, and after every tick, an empty *)
(* one too, the gauges are set.                                            *)
(*                                                                         *)
(*   gauge     what Prometheus has of a gauge, by name and labels: nothing *)
(*             until it is set for the first time.                         *)
(*   counter   the counters, by name and ticker.                           *)
(*   posted    whether post_cycle_ has run since the orders were taken.    *)
(***************************************************************************)
EXTENDS MatchingCycle

\* The sums of the dashboard are over traders and tickers.
ASSUME FiniteAssumption == IsFiniteSet(Traders) /\ IsFiniteSet(Tickers)

VARIABLES gauge, counter, posted

devVars == <<allVars, gauge, counter, posted>>

DevInit ==
    /\ CycleInit
    /\ gauge = [key \in {} |-> 0]
    /\ counter = [key \in {"orders", "cancellations", "matches"} \X Tickers |-> 0]
    /\ posted = TRUE

-----------------------------------------------------------------------------
(***************************************************************************)
(* The counters.                                                           *)
(***************************************************************************)
\* Counter::Increment ignores what is not positive.
Positive(qty) == IF qty > 0 THEN qty ELSE 0

\* report_orders
OrdersReported(taken, k) ==
    LET counted == {o \in taken : o.ticker = k /\ o.kind # "cancel"}
    IN SumFunction([o \in counted |-> Positive(o.qty)])

CancelsReported(taken, k) ==
    Cardinality({o \in taken : o.ticker = k /\ o.kind = "cancel"})

\* report_matches
MatchesReported(k) ==
    LET reported == {i \in DOMAIN matches : matches[i].ticker = k}
    IN SumFunction([i \in reported |-> matches[i].qty])

-----------------------------------------------------------------------------
(***************************************************************************)
(* The gauges.                                                             *)
(***************************************************************************)
\* Mutant of MidpriceGauges: like best_ba, the midprice is set when there is one.
MidpriceGaugesSome ==
    [key \in {<<"ticker_midprice", k>> : k \in {x \in Tickers : Midprice(x) # 0}} |->
        Midprice(key[2])]

\* report_ticker_stats: a best bid or ask is set only where there is one.
MidpriceGauges == [key \in {"ticker_midprice"} \X Tickers |-> Midprice(key[2])]

BestGauges ==
    [key \in {<<"best_ba", k, side>> : k \in Tickers, side \in Sides} |->
        {book[n].price : n \in TopOrder(key[2], key[3])}]

BestGaugesSet ==
    LET some == {key \in DOMAIN BestGauges : BestGauges[key] # {}}
    IN [key \in some |-> CHOOSE price \in BestGauges[key] : TRUE]

\* Mutant of HoldingsValue: what is owed is not valued.
LongValue(t) ==
    SumFunction([k \in Tickers |->
        HighPrecisionTimes(Positive(portfolio[t].holdings[k]), Midprice(k))])

\* portfolio_value
HoldingsValue(t) ==
    SumFunction([k \in Tickers |->
        HighPrecisionTimes(portfolio[t].holdings[k], Midprice(k))])

\* Gauge::Set of some gauges: of the others Prometheus keeps what it has.
Over(set, had) ==
    [key \in DOMAIN set \cup DOMAIN had |->
        IF key \in DOMAIN set THEN set[key] ELSE had[key]]

\* report_trader_stats
CapitalGauges == [key \in {"capital"} \X traders_ |-> CapitalOf[key[2]]]

\* Between two hundredths, a value is rounded up for the traders in up.
Halfway == {t \in traders_ : 2 * HoldingsValue(t) % (2 * Multiplier) = Multiplier}

PnlGauges(up) ==
    [key \in {"pnl"} \X traders_ |->
        Narrow(portfolio[key[2]].capital_delta)
            + Rounded(HoldingsValue(key[2]), key[2] \in up)]

HoldingsGauges ==
    [key \in {"holdings"} \X traders_ \X Tickers |->
        portfolio[key[2]].holdings[key[3]]]

-----------------------------------------------------------------------------
(***************************************************************************)
(* The tick.                                                               *)
(***************************************************************************)
\* match_orders_, to begin with
ReportOrders ==
    /\ posted
    /\ Collect
    /\ posted' = FALSE
    /\ counter' = [key \in DOMAIN counter |->
           counter[key] + CASE key[1] = "orders"        -> OrdersReported(orders', key[2])
                            [] key[1] = "cancellations" -> CancelsReported(orders', key[2])
                            [] key[1] = "matches"       -> 0]
    /\ UNCHANGED gauge

\* Mutant of ReportMatches: every trade is counted for its buyer and its seller.
ReportMatchesTwice ==
    /\ Report
    /\ counter' = [key \in DOMAIN counter |->
           IF key[1] = "matches" THEN counter[key] + 2 * MatchesReported(key[2])
                                 ELSE counter[key]]
    /\ UNCHANGED <<gauge, posted>>

\* handle_matches_
ReportMatches ==
    /\ Report
    /\ counter' = [key \in DOMAIN counter |->
           IF key[1] = "matches" THEN counter[key] + MatchesReported(key[2])
                                 ELSE counter[key]]
    /\ UNCHANGED <<gauge, posted>>

\* post_cycle_
PostCycle ==
    /\ BetweenTicks
    /\ posted' = TRUE
    /\ \E up \in SUBSET Halfway :
        gauge' = Over(MidpriceGauges, Over(BestGaugesSet,
                 Over(CapitalGauges, Over(PnlGauges(up), Over(HoldingsGauges, gauge)))))
    /\ UNCHANGED <<allVars, counter>>

\* What happens besides does not wait for the report, but for what before_cycle_
\* does: it comes with the next tick.
BeforeCycle ==
    \/ \E o \in Orders : o.trader \in Leveraged /\ Place(o)
    \/ \E t \in Traders : AddTrader(t)

Clients ==
    \/ \E o \in Orders : o.trader \notin Leveraged /\ Place(o)
    \/ \E t \in Traders, ticker \in Tickers, n \in 1 .. MaxOrders,
          ts \in 1 .. MaxOrders + MaxCancels :
           /\ t \in Leveraged => posted
           /\ PlaceCancel(t, ticker, n, ts)
    \/ \E t \in Traders : Disable(t)

DevNext ==
    \/ ReportOrders
    \/ ReportMatches
    \/ PostCycle
    \/ /\ (BeforeCycle /\ posted) \/ Clients \/ Handle \/ Step
       /\ UNCHANGED <<gauge, counter, posted>>

DevSpec == DevInit /\ [][DevNext]_devVars

-----------------------------------------------------------------------------
(***************************************************************************)
(* Properties.                                                             *)
(***************************************************************************)
\* The best bid and ask that the dashboard shows are stale once a side is empty;
\* but where it shows a midprice, that is the midprice of the two.
GaugesAgree ==
    \A k \in Tickers :
        LET mid == <<"ticker_midprice", k>>
        IN mid \in DOMAIN gauge /\ gauge[mid] # 0 =>
            /\ \A side \in Sides : <<"best_ba", k, side>> \in DOMAIN gauge
            /\ gauge[mid] = Divide(gauge[<<"best_ba", k, "buy">>]
                                     + gauge[<<"best_ba", k, "sell">>], 2 * One)

PnlKeys == {key \in DOMAIN gauge : key[1] = "pnl"}

\* By the gauges no tick leaves the traders together with a gain: what one has
\* won another has lost, fees and rounding included.  Each gauge shows no more
\* than half a hundredth too much.  That is so until something is sold at a price
\* below zero, where the fee turns around.
NobodyGainsOverall ==
    [](\A i \in DOMAIN matches : matches[i].price >= 0)
        => [](2 * SumFunctionOnSet(gauge, PnlKeys) <= Cardinality(PnlKeys))

\* Every trade takes its quantity from two orders that have been counted, however
\* the counts are interleaved with the ticks.
TradedWasOrdered ==
    \A k \in Tickers :
        2 * counter[<<"matches", k>>] <= counter[<<"orders", k>>]
=============================================================================
