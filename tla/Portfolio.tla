----------------------------- MODULE Portfolio -----------------------------
(***************************************************************************)
(* A trader's account, exchange/traders/portfolio/trader_portfolio.cpp:    *)
(* the capital it has won or lost, what it holds of every ticker, and the  *)
(* volume and notional value of its orders that rest in the books.  A      *)
(* portfolio is a record; the operators return the portfolio after a call. *)
(***************************************************************************)
EXTENDS Decimal

CONSTANT Tickers      \* the tickers a trader may hold

Sides == {"buy", "sell"}

\* open["buy"] is open_bids_ of the code, open["sell"] its open_asks_;
\* interest holds long_interest_ and short_interest_ the same way.
PortfolioType ==
    [capital_delta : Int,                \* Scale 4
     holdings      : [Tickers -> Int],
     open          : [Sides -> Int],
     interest      : [Sides -> Int]]     \* Scale 4

EmptyPortfolio ==
    [capital_delta |-> 0,
     holdings      |-> [k \in Tickers |-> 0],
     open          |-> [side \in Sides |-> 0],
     interest      |-> [side \in Sides |-> 0]]

\* get_capital, for a trader that started with initial_capital.
Capital(p, initial_capital) == initial_capital + Narrow(p.capital_delta)

\* get_open_bids() + get_open_asks()
OpenVolume(p) == p.open["buy"] + p.open["sell"]

\* notify_match: the trader bought or sold quantity of ticker at price, fees
\* included in the price.
NotifyMatch(p, ticker, side, quantity, price) ==
    LET bought == IF side = "buy" THEN quantity ELSE -quantity
        total  == Times(price, quantity)
        earned == IF side = "buy" THEN -total ELSE total
    IN [capital_delta |-> p.capital_delta + Widen(earned),
        holdings      |-> [p.holdings EXCEPT ![ticker] = @ + bought],
        open          |-> p.open,
        interest      |-> p.interest]

\* notify_position_change: the trader's orders resting on side change by
\* quantity at price.
NotifyPositionChange(p, side, quantity, price) ==
    [capital_delta |-> p.capital_delta,
     holdings      |-> p.holdings,
     open          |-> [p.open EXCEPT ![side] = @ + quantity],
     interest      |-> [p.interest EXCEPT
                           ![side] = @ + HighPrecisionTimes(price, quantity)]]

=============================================================================
