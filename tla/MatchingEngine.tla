--------------------------- MODULE MatchingEngine ---------------------------
(***************************************************************************)
(* The order books and the matching loop of the exchange.  Orders reach    *)
(* the engine one at a time, in whatever order the cycle hands them over;  *)
(* every iteration of the loop of match_order is a step of its own, so     *)
(* every state the loop goes through is a state of the model.              *)
(*                                                                         *)
(*   book       the bids_ and asks_ of every ticker's LimitOrderBook: the  *)
(*              resting orders by the number of their arrival.  A queue of *)
(*              the code is the orders of one ticker, side and price in    *)
(*              increasing arrival, and a list iterator is an arrival.     *)
(*   order_map  the OrderIdTracker of every ticker: from <<ticker, id>> to *)
(*              the arrival.                                               *)
(*   levels     the LevelQuantityTracker: quantity by level.               *)
(*   modified   the levels changed since get_and_reset_updates.            *)
(*   incoming   the aggressive order inside match_order, or NoOrder.       *)
(*   matches    the matches of the current tick.                           *)
(*   status     "terminated" once an exception has left match_orders_: no  *)
(*              caller catches it, and the exchange exits.                 *)
(***************************************************************************)
EXTENDS Portfolio, Sequences, FiniteSets, Functions

CONSTANTS
    Traders,            \* the traders of the exchange
    Leveraged,          \* those whose can_leverage() is true: the bots
    InitialCapital,     \* [Traders -> price]
    Orders,             \* the orders clients may submit, their id still 0
    OrderFee,           \* order_fee, a fraction of the price: 50 is 0.50
    MaxVolume,          \* max_cumulative_order_volume
    MaxOrders,          \* bound on the number of orders submitted
    RecycledIds         \* ids that may come again, or out of turn

OrderType ==
    [kind   : {"limit", "market"},
     trader : Traders,
     ticker : Tickers,
     side   : Sides,
     price  : Int,                \* 0 in a market order, which has none
     qty    : Int,
     ts     : Nat,                \* the sender's timestamp
     ioc    : BOOLEAN,
     id     : Nat]

NoOrder == [kind |-> "none"]

ASSUME OrdersAssumption    == Orders \subseteq OrderType
ASSUME LeveragedAssumption == Leveraged \subseteq Traders
ASSUME CapitalAssumption   == InitialCapital \in [Traders -> Nat]
ASSUME FeeAssumption       == OrderFee \in 0 .. One
ASSUME BoundsAssumption    == /\ MaxVolume \in Nat
                              /\ MaxOrders \in Nat
                              /\ RecycledIds \subseteq Nat

VARIABLES book, arrivals, order_map, levels, modified, portfolio,
          incoming, matches, submitted, status

bookVars == <<book, arrivals, order_map, levels, modified>>
vars == <<book, arrivals, order_map, levels, modified, portfolio,
          incoming, matches, submitted, status>>

\* A level of a book: levels exist for every price; those of the orders
\* clients may submit are the ones that can change.
Levels == Tickers \X Sides \X {o.price : o \in Orders}
LevelOf(o) == <<o.ticker, o.side, o.price>>
IdOf(o) == <<o.ticker, o.id>>

Opposite(side) == IF side = "buy" THEN "sell" ELSE "buy"

\* Partial functions: map[k] = v, and map.erase(k).
Put(f, k, v) == [x \in DOMAIN f \cup {k} |-> IF x = k THEN v ELSE f[x]]
Erase(f, k) == [x \in DOMAIN f \ {k} |-> f[x]]

-----------------------------------------------------------------------------
(***************************************************************************)
(* LimitOrderBook::get_top_order: the front of the queue at the best price *)
(* of the side.  The set is empty when the side is.                        *)
(***************************************************************************)
Queue(ticker, side) ==
    {n \in DOMAIN book : book[n].ticker = ticker /\ book[n].side = side}

\* Mutant of Before: add_order pushes to the front of the queue.
NewestFirst(m, n) ==
    \/ book[m].side = "buy"  /\ book[m].price > book[n].price
    \/ book[m].side = "sell" /\ book[m].price < book[n].price
    \/ book[m].price = book[n].price /\ m > n

Before(m, n) ==
    \/ book[m].side = "buy"  /\ book[m].price > book[n].price
    \/ book[m].side = "sell" /\ book[m].price < book[n].price
    \/ book[m].price = book[n].price /\ m < n

TopOrder(ticker, side) ==
    {n \in Queue(ticker, side) :
        \A m \in Queue(ticker, side) \ {n} : Before(n, m)}

\* get_midprice: zero when a side is empty
Midprice(ticker) ==
    IF Queue(ticker, "buy") = {} \/ Queue(ticker, "sell") = {} THEN 0
    ELSE LET best(side) == CHOOSE p \in {book[n].price : n \in TopOrder(ticker, side)} : TRUE
         IN Divide(best("buy") + best("sell"), 2 * One)

(***************************************************************************)
(* OrderPair: a buy order and a sell order that may match.                 *)
(***************************************************************************)
Buyer(passive)  == IF incoming.side = "buy" THEN incoming ELSE passive
Seller(passive) == IF incoming.side = "buy" THEN passive ELSE incoming

\* potential_match_price, when it has a value
Crosses(b, s) ==
    b.kind = "market" \/ s.kind = "market" \/ b.price >= s.price

\* Mutant of MatchPrice: a market order names the price.
OwnPrice(b, s) ==
    IF b.kind = "market" THEN b.price
    ELSE IF s.kind = "market" THEN s.price
    ELSE IF b.ts < s.ts THEN b.price ELSE s.price

MatchPrice(b, s) ==
    IF b.kind = "market" THEN s.price
    ELSE IF s.kind = "market" THEN b.price
    ELSE IF b.ts < s.ts THEN b.price ELSE s.price

MatchQuantity(b, s) == IF b.qty < s.qty THEN b.qty ELSE s.qty

\* Mutant of TotalOrderCost: the fee is forgotten.
CostWithoutFee(price, quantity) == Times(price, quantity)

\* total_order_cost_
TotalOrderCost(price, quantity) ==
    Times(price + Times(OrderFee, price), quantity)

BuyerShort(b, s) ==
    /\ b.trader \notin Leveraged
    /\ Capital(portfolio[b.trader], InitialCapital[b.trader])
         < TotalOrderCost(MatchPrice(b, s), MatchQuantity(b, s))

SellerShort(b, s) ==
    /\ s.trader \notin Leveraged
    /\ portfolio[s.trader].holdings[b.ticker] < MatchQuantity(b, s)

\* Mutant of AttemptMatch: a trader may trade with itself.
AttemptAnyMatch(b, s) ==
    IF ~Crosses(b, s)         THEN "done_matching"
    ELSE IF BuyerShort(b, s)  THEN "buyer_failure"
    ELSE IF SellerShort(b, s) THEN "seller_failure"
    ELSE "match"

\* attempt_match_
AttemptMatch(b, s) ==
    IF ~Crosses(b, s)           THEN "done_matching"
    ELSE IF BuyerShort(b, s)    THEN "buyer_failure"
    ELSE IF SellerShort(b, s)   THEN "seller_failure"
    ELSE IF b.trader = s.trader THEN "buyer_failure"
    ELSE "match"

\* The failure that match_orders_ blames on the passive order, which it
\* removes before the loop goes on.  Any other failure ends the loop.
PassiveFailure ==
    IF incoming.side = "buy" THEN "seller_failure" ELSE "buyer_failure"

-----------------------------------------------------------------------------
(***************************************************************************)
(* The portfolios after a call.                                            *)
(***************************************************************************)
\* OrderPair::handle_match: the buyer pays the fee on top of the price, the
\* seller pays it out of the price.
Settle(pf, b, s, price, quantity) ==
    LET paid     == NotifyMatch(pf[b.trader], b.ticker, "buy", quantity,
                                Times(price, One + OrderFee))
        received == NotifyMatch(pf[s.trader], b.ticker, "sell", quantity,
                                Times(price, One - OrderFee))
    IN [pf EXCEPT ![b.trader] = paid, ![s.trader] = received]

\* A LimitOrderBook call that changes the resting quantity of o by delta.
PositionChange(pf, o, delta) ==
    [pf EXCEPT ![o.trader] = NotifyPositionChange(@, o.side, delta, o.price)]

\* Mutant of RecordLevelChange: the level is set, not changed.
RecordLevel(o, delta) ==
    /\ levels' = [levels EXCEPT ![LevelOf(o)] = delta]
    /\ modified' = modified \cup {LevelOf(o)}

\* LevelUpdateGenerator::record_level_change, for a price that is not negative
RecordLevelChange(o, delta) ==
    /\ levels' = [levels EXCEPT ![LevelOf(o)] = @ + delta]
    /\ modified' = modified \cup {LevelOf(o)}

\* Mutants of RemoveOrder: the portfolio is not told; the tracker keeps the id.
RemoveSilently(n, pf) ==
    /\ RecordLevelChange(book[n], -book[n].qty)
    /\ order_map' = Erase(order_map, IdOf(book[n]))
    /\ book' = Erase(book, n)
    /\ portfolio' = pf
    /\ UNCHANGED arrivals

RemoveUntracked(n, pf) ==
    /\ RecordLevelChange(book[n], -book[n].qty)
    /\ book' = Erase(book, n)
    /\ portfolio' = PositionChange(pf, book[n], -book[n].qty)
    /\ UNCHANGED <<order_map, arrivals>>

\* CompositeOrderBook::remove_order of the order that arrived n-th, and what
\* it leaves of the portfolios pf.
RemoveOrder(n, pf) ==
    /\ RecordLevelChange(book[n], -book[n].qty)
    /\ order_map' = Erase(order_map, IdOf(book[n]))
    /\ book' = Erase(book, n)
    /\ portfolio' = PositionChange(pf, book[n], -book[n].qty)
    /\ UNCHANGED arrivals

\* CompositeOrderBook::change_quantity by -quantity
ReduceOrder(n, quantity, pf) ==
    IF book[n].qty = quantity
    THEN RemoveOrder(n, pf)
    ELSE /\ RecordLevelChange(book[n], -quantity)
         /\ book' = [book EXCEPT ![n].qty = @ - quantity]
         /\ portfolio' = PositionChange(pf, book[n], -quantity)
         /\ UNCHANGED <<order_map, arrivals>>

\* CompositeOrderBook::add_order.  The order is in the book before the level
\* tracker rejects a negative price and before the id tracker rejects an id
\* it already has; both throw.
AddOrder(o) ==
    /\ arrivals' = arrivals + 1
    /\ book' = Put(book, arrivals + 1, o)
    /\ portfolio' = PositionChange(portfolio, o, o.qty)
    /\ IF o.price < 0
       THEN /\ status' = "terminated"
            /\ UNCHANGED <<levels, modified, order_map>>
       ELSE /\ RecordLevelChange(o, o.qty)
            /\ IF IdOf(o) \in DOMAIN order_map
               THEN /\ status' = "terminated"
                    /\ UNCHANGED order_map
               ELSE /\ order_map' = Put(order_map, IdOf(o), arrivals + 1)
                    /\ UNCHANGED status

-----------------------------------------------------------------------------
Init ==
    /\ book = [n \in {} |-> NoOrder]
    /\ arrivals = 0
    /\ order_map = [i \in {} |-> 0]
    /\ levels = [l \in Levels |-> 0]
    /\ modified = {}
    /\ portfolio = [t \in Traders |-> EmptyPortfolio]
    /\ incoming = NoOrder
    /\ matches = <<>>
    /\ submitted = 0
    /\ status = "running"

Idle == status = "running" /\ incoming = NoOrder
Matching == status = "running" /\ incoming # NoOrder

\* generate_order_id
NewIds == {submitted + 1} \cup RecycledIds

\* The ids that a cancel may name: the ticker's tracker need not know them.
CancelIds == (0 .. submitted) \cup RecycledIds

\* Mutant of Admissible: the open asks are not counted.
AdmissibleBids(o) ==
    /\ o.qty > 0
    /\ o.qty + portfolio[o.trader].open["buy"] <= MaxVolume

\* The checks of match_orders_ before an order is matched.
Admissible(o) ==
    /\ o.qty > 0
    /\ o.qty + OpenVolume(portfolio[o.trader]) <= MaxVolume

\* match_orders_ passes an order to match_order.
Accept(o) ==
    /\ Idle
    /\ submitted < MaxOrders
    /\ Admissible(o)
    /\ incoming' = o
    /\ submitted' = submitted + 1
    /\ UNCHANGED <<bookVars, portfolio, matches, status>>

\* match_orders_ returns early: the order is forgotten.
Drop(o) ==
    /\ Idle
    /\ submitted < MaxOrders
    /\ ~Admissible(o)
    /\ submitted' = submitted + 1
    /\ UNCHANGED <<bookVars, portfolio, matches, incoming, status>>

\* match_orders_ of a cancel_order.  An id the ticker's tracker does not know
\* is ignored; whose order it is is not looked at.
Cancel(ticker, id) ==
    /\ Idle
    /\ IF <<ticker, id>> \in DOMAIN order_map
       THEN RemoveOrder(order_map[<<ticker, id>>], portfolio)
       ELSE UNCHANGED <<bookVars, portfolio>>
    /\ UNCHANGED <<incoming, matches, submitted, status>>

\* One iteration of the loop: the incoming order matches the passive one.
Match ==
    /\ Matching
    /\ incoming.qty # 0
    /\ \E n \in TopOrder(incoming.ticker, Opposite(incoming.side)) :
        LET b == Buyer(book[n])
            s == Seller(book[n])
            price == MatchPrice(b, s)
            quantity == MatchQuantity(b, s)
        IN /\ AttemptMatch(b, s) = "match"
           /\ matches' = Append(matches,
                [buyer |-> b.trader, seller |-> s.trader, ticker |-> b.ticker,
                 side |-> incoming.side, qty |-> quantity, price |-> price])
           /\ ReduceOrder(n, quantity, Settle(portfolio, b, s, price, quantity))
           /\ incoming' = [incoming EXCEPT !.qty = @ - quantity]
    /\ UNCHANGED <<submitted, status>>

\* Mutant of RemovePassive: the order stays in the book.
SkipPassive ==
    /\ Matching
    /\ incoming.qty # 0
    /\ \E n \in TopOrder(incoming.ticker, Opposite(incoming.side)) :
        AttemptMatch(Buyer(book[n]), Seller(book[n])) = PassiveFailure
    /\ UNCHANGED vars

\* One iteration of the loop: the passive order's trader cannot honour it.
RemovePassive ==
    /\ Matching
    /\ incoming.qty # 0
    /\ \E n \in TopOrder(incoming.ticker, Opposite(incoming.side)) :
        /\ AttemptMatch(Buyer(book[n]), Seller(book[n])) = PassiveFailure
        /\ RemoveOrder(n, portfolio)
    /\ UNCHANGED <<incoming, matches, submitted, status>>

\* The loop ends: the order is filled, nothing is left to match it with, or
\* the match failed for another reason than the passive order's trader.
LoopDone ==
    \/ incoming.qty = 0
    \/ \A n \in TopOrder(incoming.ticker, Opposite(incoming.side)) :
        AttemptMatch(Buyer(book[n]), Seller(book[n]))
            \notin {"match", PassiveFailure}

Rests == incoming.kind = "limit" /\ ~incoming.ioc /\ incoming.qty > 0

\* match_order adds what is left of a limit order to the book ...
Rest ==
    /\ Matching
    /\ LoopDone
    /\ Rests
    /\ AddOrder(incoming)
    /\ incoming' = NoOrder
    /\ UNCHANGED <<matches, submitted>>

\* ... and forgets a filled order, an ioc order and a market order.
Discard ==
    /\ Matching
    /\ LoopDone
    /\ ~Rests
    /\ incoming' = NoOrder
    /\ UNCHANGED <<bookVars, portfolio, matches, submitted, status>>

\* The cycle takes the matches and get_and_reset_updates of every book.
TakeUpdates ==
    /\ Idle
    /\ matches' = <<>>
    /\ modified' = {}
    /\ UNCHANGED <<book, arrivals, order_map, levels, portfolio, incoming,
                   submitted, status>>

Terminated ==
    /\ status = "terminated"
    /\ UNCHANGED vars

Submit == \E o \in Orders, i \in NewIds :
    Accept([o EXCEPT !.id = i]) \/ Drop([o EXCEPT !.id = i])

MatchStep == Match \/ RemovePassive \/ Rest \/ Discard

Next ==
    \/ Submit
    \/ \E ticker \in Tickers, id \in CancelIds : Cancel(ticker, id)
    \/ MatchStep
    \/ TakeUpdates
    \/ Terminated

Spec == Init /\ [][Next]_vars

\* The thread that matches does nothing else until match_order returns.
FairSpec == Spec /\ WF_vars(MatchStep)

-----------------------------------------------------------------------------
(***************************************************************************)
(* Properties.                                                             *)
(***************************************************************************)
\* The quantity and the notional value of every resting order, and the orders
\* that make up a level or a trader's open orders on a side.
Quantities == [n \in DOMAIN book |-> book[n].qty]
Notionals == [n \in DOMAIN book |-> HighPrecisionTimes(book[n].price, book[n].qty)]

AtLevel == [l \in Levels |-> {n \in DOMAIN book : LevelOf(book[n]) = l}]
RestingOf ==
    [t \in Traders |-> [side \in Sides |->
        {n \in DOMAIN book : book[n].trader = t /\ book[n].side = side}]]

MatchType ==
    [buyer : Traders, seller : Traders, ticker : Tickers, side : Sides,
     qty : Int, price : Int]

\* Every variable keeps its type.
TypeOK ==
    /\ arrivals \in Nat
    /\ book = [n \in DOMAIN book |-> book[n]]
    /\ DOMAIN book \subseteq 1 .. arrivals
    /\ \A n \in DOMAIN book : book[n] \in OrderType
    /\ order_map = [i \in DOMAIN order_map |-> order_map[i]]
    /\ DOMAIN order_map \subseteq Tickers \X Nat
    /\ \A i \in DOMAIN order_map : order_map[i] \in 1 .. arrivals
    /\ levels \in [Levels -> Int]
    /\ modified \subseteq Levels
    /\ portfolio \in [Traders -> PortfolioType]
    /\ incoming \in OrderType \cup {NoOrder}
    /\ matches \in Seq(MatchType)
    /\ submitted \in Nat
    /\ status \in {"running", "terminated"}

\* order_id_tracker.hpp:14: every order in the map has its order in the
\* queues, and the other way round, so that a cancel can neither miss a
\* resting order nor touch a freed one; and no order rests with nothing left
\* to trade.
TrackerMatchesBook ==
    status = "running" =>
        /\ \A i \in DOMAIN order_map :
            /\ order_map[i] \in DOMAIN book
            /\ IdOf(book[order_map[i]]) = i
        /\ \A n \in DOMAIN book :
            /\ IdOf(book[n]) \in DOMAIN order_map
            /\ order_map[IdOf(book[n])] = n
            /\ book[n].kind = "limit" /\ ~book[n].ioc /\ book[n].qty > 0

\* The level tracker, which adds up deltas, agrees with the orders that rest
\* at every level, in the middle of a match as well.
LevelsMatchBook ==
    status = "running" =>
        \A l \in Levels : levels[l] = SumFunctionOnSet(Quantities, AtLevel[l])

\* The open volume and interest of a portfolio, which add up deltas too, are
\* those of the trader's orders in the books of all tickers.
InterestMatchesBook ==
    \A t \in Traders, side \in Sides :
        /\ portfolio[t].open[side] = SumFunctionOnSet(Quantities, RestingOf[t][side])
        /\ portfolio[t].interest[side] = SumFunctionOnSet(Notionals, RestingOf[t][side])

\* The volume a trader has open in the books, together with the order being
\* matched for it, never exceeds max_cumulative_order_volume: the check is
\* made once, before the order trades, and what is left rests later.
OpenVolumeBounded ==
    \A t \in Traders :
        OpenVolume(portfolio[t])
            + (IF incoming # NoOrder /\ incoming.trader = t
               THEN incoming.qty ELSE 0) <= MaxVolume

\* A trade never prices an order outside its limit, whichever of the two
\* timestamps chooses the price.
TradesWithinLimits ==
    [][matches' # matches /\ matches' # <<>> =>
        LET m == matches'[Len(matches')]
            side == incoming.side
            within(o) == IF o.side = "buy" THEN m.price <= o.price
                                           ELSE m.price >= o.price
        IN /\ incoming.kind = "limit" => within(incoming)
           /\ \A n \in Queue(m.ticker, Opposite(side)) :
                n \notin DOMAIN book' \/ book'[n] # book[n] => within(book[n])
      ]_vars

\* Price-time priority: an order is not filled while an order at a better
\* price, or one that came earlier to the same price, waits on its side.
PriceTimePriority ==
    [][matches' # matches /\ matches' # <<>> =>
        \A n, m \in Queue(incoming.ticker, Opposite(incoming.side)) :
            /\ n \notin DOMAIN book' \/ book'[n] # book[n]
            /\ m # n
            => \/ book[n].side = "buy"  /\ book[n].price > book[m].price
               \/ book[n].side = "sell" /\ book[n].price < book[m].price
               \/ book[n].price = book[m].price /\ n < m
      ]_vars

\* The abstract ledger, seen through get_capital and get_holdings.
CapitalOf == [t \in Traders |-> Capital(portfolio[t], InitialCapital[t])]
HoldingsOf == [t \in Traders |-> portfolio[t].holdings]

Accounts == INSTANCE Ledger WITH capital <- CapitalOf, holdings <- HoldingsOf

\* The engine implements the ledger: every step is a trade that the buyer can
\* afford and the seller can deliver, fee and rounding included, or moves no money.
ImplementsLedger == Accounts!Spec

\* Traders without leverage never hold less than nothing.
HoldingsCovered == Accounts!HoldingsCovered

\* The incoming order offers to pay for being rid of what it sells.
SellsBelowZero(t) ==
    /\ incoming # NoOrder /\ incoming.trader = t
    /\ incoming.kind = "limit" /\ incoming.side = "sell" /\ incoming.price < 0

\* A trader without leverage comes to owe money, or to owe more, in one way
\* only: by a sell of its own that it has priced below zero.  What it pays then,
\* attempt_match_ does not look at.
DebtsAreOwnSales ==
    [][\A t \in Traders \ Leveraged :
        CapitalOf'[t] < CapitalOf[t] /\ CapitalOf'[t] < 0 => SellsBelowZero(t)]_vars

\* invalid_orders.cpp:47: "Thrown out", said of a buy whose trader cannot pay
\* for it.  The code keeps it; the violation run shows how.
UnfundedThrownOut ==
    [][\A n \in DOMAIN book' \ DOMAIN book :
        LET o == book'[n]
        IN o.side = "buy" /\ o.trader \notin Leveraged
           => TotalOrderCost(o.price, o.qty) <= CapitalOf[o.trader]]_vars

\* A call of match_order returns: every iteration consumes quantity or a
\* resting order.
MatchingTerminates == incoming # NoOrder ~> incoming = NoOrder

=============================================================================
