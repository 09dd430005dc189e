------------------------ MODULE MatchingEngineProofs ------------------------
(***************************************************************************)
(* Theorems about MatchingEngine, for any traders, tickers, orders, fees,  *)
(* limits and number of orders.                                            *)
(***************************************************************************)
EXTENDS MatchingEngine, FoldProofs, TLAPS

-----------------------------------------------------------------------------
(***************************************************************************)
(* What the calls on a portfolio change.                                   *)
(***************************************************************************)
\* A change of a resting order moves no money: the open volume of its trader
\* changes by that quantity, and nothing of the others' portfolios.
LEMMA PositionChangeEffect ==
  ASSUME NEW pf \in [Traders -> PortfolioType],
         NEW o \in OrderType, NEW d \in Int
  PROVE  LET new == PositionChange(pf, o, d)
         IN /\ new \in [Traders -> PortfolioType]
            /\ \A t \in Traders :
                /\ new[t].capital_delta = pf[t].capital_delta
                /\ new[t].holdings = pf[t].holdings
                /\ OpenVolume(new[t])
                     = OpenVolume(pf[t]) + (IF o.trader = t THEN d ELSE 0)
<1>1. o.trader \in Traders /\ o.price \in Int /\ o.side \in {"buy", "sell"}
  BY DEF OrderType, Sides
<1>2. HighPrecisionTimes(o.price, d) \in Int
  BY <1>1 DEF HighPrecisionTimes
<1>3. PICK h \in Int : h = HighPrecisionTimes(o.price, d)
  BY <1>2
<1> DEFINE q == NotifyPositionChange(pf[o.trader], o.side, d, o.price)
<1>4. /\ q \in PortfolioType
      /\ q.capital_delta = pf[o.trader].capital_delta
      /\ q.holdings = pf[o.trader].holdings
      /\ OpenVolume(q) = OpenVolume(pf[o.trader]) + d
  BY <1>1, <1>3 DEF NotifyPositionChange, PortfolioType, OpenVolume, Sides
<1>5. PositionChange(pf, o, d) = [pf EXCEPT ![o.trader] = q]
  BY DEF PositionChange
<1> HIDE DEF q
<1>7. \A t \in Traders : OpenVolume(pf[t]) \in Int
  BY DEF PortfolioType, OpenVolume, Sides
<1> QED
  BY <1>1, <1>5, <1>4, <1>7

\* Whatever is traded, a portfolio stays one, with the same open volume.
LEMMA NotifyMatchType ==
  ASSUME NEW p \in PortfolioType, NEW k \in Tickers, NEW side \in Sides,
         NEW q \in Int, NEW price \in Int
  PROVE  /\ NotifyMatch(p, k, side, q, price) \in PortfolioType
         /\ OpenVolume(NotifyMatch(p, k, side, q, price)) = OpenVolume(p)
<1>1. price * q \in Int
  OBVIOUS
<1>2. Times(price, q) \in Int
  BY <1>1 DEF Times, Quotient, Multiplier
<1>3. PICK c \in Int : c = Times(price, q)
  BY <1>2
<1>4. PICK w \in Int : w = Widen(IF side = "buy" THEN -c ELSE c)
  BY DEF Widen, Multiplier
<1> QED
  BY <1>3, <1>4 DEF NotifyMatch, PortfolioType, OpenVolume

-----------------------------------------------------------------------------
(***************************************************************************)
(* Type correctness.  The types of the books and of the incoming order are *)
(* strengthened with: the level of every order is one the model tracks.    *)
(***************************************************************************)
BookType ==
    /\ arrivals \in Nat
    /\ book = [n \in DOMAIN book |-> book[n]]
    /\ DOMAIN book \subseteq 1 .. arrivals
    /\ \A n \in DOMAIN book : book[n] \in OrderType /\ LevelOf(book[n]) \in Levels
    /\ order_map = [i \in DOMAIN order_map |-> order_map[i]]
    /\ DOMAIN order_map \subseteq Tickers \X Nat
    /\ \A i \in DOMAIN order_map : order_map[i] \in 1 .. arrivals
    /\ levels \in [Levels -> Int]
    /\ modified \subseteq Levels

IncomingType ==
    incoming # NoOrder => incoming \in OrderType /\ LevelOf(incoming) \in Levels

TypeInv ==
    /\ BookType
    /\ IncomingType
    /\ portfolio \in [Traders -> PortfolioType]
    /\ matches \in Seq(MatchType)
    /\ submitted \in Nat
    /\ status \in {"running", "terminated"}

\* A level change keeps the types of the level tracker.
LEMMA RecordLevelChangeType ==
  ASSUME levels \in [Levels -> Int], modified \subseteq Levels,
         NEW o \in OrderType, LevelOf(o) \in Levels, NEW d \in Int,
         RecordLevelChange(o, d)
  PROVE  levels' \in [Levels -> Int] /\ modified' \subseteq Levels
BY DEF RecordLevelChange

\* Removing a resting order keeps the types of the books.
LEMMA RemoveOrderType ==
  ASSUME BookType, NEW n \in DOMAIN book,
         NEW pf \in [Traders -> PortfolioType], RemoveOrder(n, pf)
  PROVE  BookType' /\ portfolio' \in [Traders -> PortfolioType]
<1>1. book[n] \in OrderType /\ LevelOf(book[n]) \in Levels /\ -book[n].qty \in Int
  BY DEF BookType, OrderType
<1>2. levels' \in [Levels -> Int] /\ modified' \subseteq Levels
  BY <1>1, RecordLevelChangeType DEF RemoveOrder, BookType
<1>3. portfolio' \in [Traders -> PortfolioType]
  BY <1>1, PositionChangeEffect DEF RemoveOrder
<1>4. /\ DOMAIN book' \subseteq DOMAIN book
      /\ \A m \in DOMAIN book' : book'[m] = book[m]
      /\ book' = [m \in DOMAIN book' |-> book'[m]]
  BY DEF RemoveOrder, Erase
<1>5. /\ DOMAIN order_map' \subseteq DOMAIN order_map
      /\ \A i \in DOMAIN order_map' : order_map'[i] = order_map[i]
      /\ order_map' = [i \in DOMAIN order_map' |-> order_map'[i]]
  BY DEF RemoveOrder, Erase
<1> QED
  BY <1>2, <1>3, <1>4, <1>5 DEF BookType, RemoveOrder, LevelOf

\* Reducing a resting order, to nothing or not, keeps the types of the books.
LEMMA ReduceOrderType ==
  ASSUME BookType, NEW n \in DOMAIN book, NEW q \in Int,
         NEW pf \in [Traders -> PortfolioType], ReduceOrder(n, q, pf)
  PROVE  BookType' /\ portfolio' \in [Traders -> PortfolioType]
<1>1. CASE book[n].qty = q
  BY <1>1, RemoveOrderType DEF ReduceOrder
<1>2. CASE book[n].qty # q
  <2>1. book[n] \in OrderType /\ LevelOf(book[n]) \in Levels /\ -q \in Int
    BY DEF BookType
  <2>2. levels' \in [Levels -> Int] /\ modified' \subseteq Levels
    BY <1>2, <2>1, RecordLevelChangeType DEF ReduceOrder, BookType
  <2>3. portfolio' \in [Traders -> PortfolioType]
    BY <1>2, <2>1, PositionChangeEffect DEF ReduceOrder
  <2>4. book' = [book EXCEPT ![n] = [book[n] EXCEPT !.qty = @ - q]]
    BY <1>2 DEF ReduceOrder
  <2>5. [book[n] EXCEPT !.qty = @ - q] \in OrderType
    BY <2>1 DEF OrderType
  <2>6. LevelOf([book[n] EXCEPT !.qty = @ - q]) = LevelOf(book[n])
    BY <2>1 DEF LevelOf, OrderType
  <2>7. /\ DOMAIN book' = DOMAIN book
        /\ \A m \in DOMAIN book' :
             book'[m] \in OrderType /\ LevelOf(book'[m]) \in Levels
        /\ book' = [m \in DOMAIN book' |-> book'[m]]
    BY <2>4, <2>5, <2>6 DEF BookType
  <2>8. \A m \in DOMAIN book' : LevelOf(book[m])' = LevelOf(book'[m])
    BY DEF LevelOf
  <2> QED
    BY <1>2, <2>2, <2>3, <2>7, <2>8 DEF BookType, ReduceOrder, Levels
<1> QED
  BY <1>1, <1>2

\* Adding an order keeps the types of the books, also when it throws.
LEMMA AddOrderType ==
  ASSUME BookType, NEW o \in OrderType, LevelOf(o) \in Levels,
         portfolio \in [Traders -> PortfolioType],
         status \in {"running", "terminated"}, AddOrder(o)
  PROVE  /\ BookType'
         /\ portfolio' \in [Traders -> PortfolioType]
         /\ status' \in {"running", "terminated"}
<1>1. o.qty \in Int /\ IdOf(o) \in Tickers \X Nat
  BY DEF OrderType, IdOf
<1>2. portfolio' \in [Traders -> PortfolioType]
  BY <1>1, PositionChangeEffect DEF AddOrder
<1>3. levels' \in [Levels -> Int] /\ modified' \subseteq Levels
  BY <1>1, RecordLevelChangeType DEF AddOrder, BookType
<1>4. /\ DOMAIN book' = DOMAIN book \cup {arrivals + 1}
      /\ \A m \in DOMAIN book' :
            \/ book'[m] = o
            \/ m \in DOMAIN book /\ book'[m] = book[m]
      /\ book' = [m \in DOMAIN book' |-> book'[m]]
  <2>1. book' = [m \in DOMAIN book \cup {arrivals + 1} |->
                    IF m = arrivals + 1 THEN o ELSE book[m]]
    BY DEF AddOrder, Put
  <2> QED
    BY <2>1
<1>5. /\ DOMAIN order_map' \subseteq DOMAIN order_map \cup {IdOf(o)}
      /\ \A i \in DOMAIN order_map' :
            \/ order_map'[i] = arrivals + 1
            \/ i \in DOMAIN order_map /\ order_map'[i] = order_map[i]
      /\ order_map' = [i \in DOMAIN order_map' |-> order_map'[i]]
  BY DEF AddOrder, Put, BookType
<1>6. arrivals' = arrivals + 1 /\ status' \in {"running", "terminated"}
  BY DEF AddOrder
<1>7. DOMAIN book' \subseteq 1 .. arrivals'
  BY <1>4, <1>6 DEF BookType
<1>8. \A i \in DOMAIN order_map' : order_map'[i] \in 1 .. arrivals'
  BY <1>5, <1>6 DEF BookType
<1>9. \A m \in DOMAIN book' : book'[m] \in OrderType /\ LevelOf(book'[m]) \in Levels
  BY <1>4 DEF BookType
<1>10. DOMAIN order_map' \subseteq Tickers \X Nat
  BY <1>1, <1>5 DEF BookType
<1> QED
  BY <1>2, <1>3, <1>4, <1>5, <1>6, <1>7, <1>8, <1>9, <1>10
     DEF BookType, LevelOf, Levels

\* A submitted order has the type of an order and a level the model tracks.
LEMMA SubmittedType ==
  ASSUME NEW o \in Orders, NEW i \in Nat
  PROVE  /\ [o EXCEPT !.id = i] \in OrderType
         /\ LevelOf([o EXCEPT !.id = i]) \in Levels
<1>1. o \in OrderType
  BY OrdersAssumption
<1>2. [o EXCEPT !.id = i] \in OrderType
  BY <1>1 DEF OrderType
<1>3. LevelOf([o EXCEPT !.id = i]) = LevelOf(o)
  BY <1>1 DEF LevelOf, OrderType
<1>4. LevelOf(o) \in Levels
  BY <1>1 DEF LevelOf, Levels, OrderType
<1> QED
  BY <1>2, <1>3, <1>4

\* Settling a trade keeps the type of the portfolios and every trader's open
\* volume.
LEMMA SettleType ==
  ASSUME NEW pf \in [Traders -> PortfolioType],
         NEW b \in OrderType, NEW s \in OrderType,
         NEW price \in Int, NEW quantity \in Int
  PROVE  LET new == Settle(pf, b, s, price, quantity)
         IN /\ new \in [Traders -> PortfolioType]
            /\ \A t \in Traders : OpenVolume(new[t]) = OpenVolume(pf[t])
<1>1. /\ b.trader \in Traders /\ b.ticker \in Tickers
      /\ s.trader \in Traders
      /\ "buy" \in Sides /\ "sell" \in Sides
  BY DEF OrderType, Sides
<1>2. OrderFee \in Int /\ One + OrderFee \in Int /\ One - OrderFee \in Int
  BY FeeAssumption DEF One, Multiplier
<1>3. price * (One + OrderFee) \in Int /\ price * (One - OrderFee) \in Int
  BY <1>2
<1>4. /\ Times(price, One + OrderFee) \in Int
      /\ Times(price, One - OrderFee) \in Int
  BY <1>3 DEF Times, Quotient, Multiplier
<1>8. pf[b.trader] \in PortfolioType /\ pf[s.trader] \in PortfolioType
  BY <1>1
<1> DEFINE costs == Times(price, One + OrderFee)
           yields == Times(price, One - OrderFee)
           paid == NotifyMatch(pf[b.trader], b.ticker, "buy", quantity, costs)
           received == NotifyMatch(pf[s.trader], b.ticker, "sell", quantity, yields)
<1>9. costs \in Int /\ yields \in Int
  BY <1>4
<1> HIDE DEF costs, yields
<1>5. paid \in PortfolioType /\ OpenVolume(paid) = OpenVolume(pf[b.trader])
  BY <1>1, <1>8, <1>9, NotifyMatchType
<1>6. received \in PortfolioType /\ OpenVolume(received) = OpenVolume(pf[s.trader])
  BY <1>1, <1>8, <1>9, NotifyMatchType
<1>7. Settle(pf, b, s, price, quantity)
        = [pf EXCEPT ![b.trader] = paid, ![s.trader] = received]
  BY DEF Settle, costs, yields
<1> HIDE DEF paid, received
<1> QED
  BY <1>1, <1>5, <1>6, <1>7

\* The passive order of a match, and the two orders of the pair.
LEMMA PairType ==
  ASSUME BookType, IncomingType, incoming # NoOrder,
         NEW n \in TopOrder(incoming.ticker, Opposite(incoming.side))
  PROVE  /\ n \in DOMAIN book
         /\ Buyer(book[n]) \in OrderType /\ Seller(book[n]) \in OrderType
         /\ MatchPrice(Buyer(book[n]), Seller(book[n])) \in Int
         /\ MatchQuantity(Buyer(book[n]), Seller(book[n])) \in Int
<1>1. n \in DOMAIN book
  BY DEF TopOrder, Queue
<1>2. Buyer(book[n]) \in OrderType /\ Seller(book[n]) \in OrderType
  BY <1>1 DEF BookType, IncomingType, Buyer, Seller
<1> QED
  BY <1>1, <1>2 DEF OrderType, MatchPrice, MatchQuantity

\* The exchange starts with empty books.
LEMMA InitTypeInv == Init => TypeInv
<1> SUFFICES ASSUME Init PROVE TypeInv
  OBVIOUS
<1>1. EmptyPortfolio \in PortfolioType
  BY DEF EmptyPortfolio, PortfolioType
<1>2. BookType
  BY DEF Init, BookType
<1> QED
  BY <1>1, <1>2 DEF Init, TypeInv, IncomingType

\* What any module that drives the engine may have it do: nothing of what
\* follows depends on where an order comes from or on who names an id.
TakeIn == \E o \in OrderType : LevelOf(o) \in Levels /\ (Accept(o) \/ Drop(o))

EngineStep ==
    \/ TakeIn
    \/ \E ticker \in Tickers, id \in Nat : Cancel(ticker, id)
    \/ MatchStep
    \/ TakeUpdates
    \/ UNCHANGED vars

\* The engine's own next-state relation allows no other step.
LEMMA NextIsEngineStep == TypeInv /\ [Next]_vars => EngineStep
<1> SUFFICES ASSUME TypeInv, [Next]_vars PROVE EngineStep
  OBVIOUS
<1>1. CASE Submit
  <2>1. PICK o \in Orders, i \in NewIds :
          Accept([o EXCEPT !.id = i]) \/ Drop([o EXCEPT !.id = i])
    BY <1>1 DEF Submit
  <2>2. i \in Nat
    BY <2>1, BoundsAssumption DEF NewIds, TypeInv
  <2> DEFINE new == [o EXCEPT !.id = i]
  <2>3. new \in OrderType /\ LevelOf(new) \in Levels
    BY <2>2, SubmittedType
  <2>4. Accept(new) \/ Drop(new)
    BY <2>1
  <2> HIDE DEF new
  <2> QED
    BY <2>3, <2>4 DEF EngineStep, TakeIn
<1>2. CASE \E ticker \in Tickers, id \in CancelIds : Cancel(ticker, id)
  <2> CancelIds \subseteq Nat
    BY BoundsAssumption DEF CancelIds, TypeInv
  <2> QED
    BY <1>2 DEF EngineStep
<1> QED
  BY <1>1, <1>2 DEF Next, Terminated, EngineStep

\* An order that is taken in becomes the incoming order.
LEMMA TakeInTypeInv == TypeInv /\ TakeIn => TypeInv'
<1> SUFFICES ASSUME TypeInv, TakeIn PROVE TypeInv'
  OBVIOUS
<1>3. PICK new \in OrderType : LevelOf(new) \in Levels /\ (Accept(new) \/ Drop(new))
  BY DEF TakeIn
<1>4. Accept(new) \/ Drop(new)
  BY <1>3
<1>5. BookType'
  BY <1>4 DEF Accept, Drop, TypeInv, BookType, bookVars, LevelOf
<1>6. IncomingType'
  BY <1>3, <1>4 DEF Accept, Drop, TypeInv, IncomingType, LevelOf
<1>7. submitted' \in Nat
  BY <1>4 DEF Accept, Drop, TypeInv
<1> QED
  BY <1>4, <1>5, <1>6, <1>7 DEF Accept, Drop, TypeInv

\* A cancel removes a resting order or does nothing.  That the tracker's
\* entry leads to a resting order is TrackerMatchesBook.
LEMMA CancelTypeInv ==
  ASSUME TypeInv, NEW ticker \in Tickers, NEW id \in Nat, Cancel(ticker, id),
         \A i \in DOMAIN order_map : order_map[i] \in DOMAIN book
  PROVE  TypeInv'
<1>1. CASE <<ticker, id>> \in DOMAIN order_map
  <2>1. order_map[<<ticker, id>>] \in DOMAIN book
    BY <1>1
  <2>2. RemoveOrder(order_map[<<ticker, id>>], portfolio)
    BY <1>1 DEF Cancel
  <2>3. BookType' /\ portfolio' \in [Traders -> PortfolioType]
    BY <2>1, <2>2, RemoveOrderType DEF TypeInv
  <2> QED
    BY <2>3 DEF Cancel, TypeInv, IncomingType, LevelOf
<1>2. CASE <<ticker, id>> \notin DOMAIN order_map
  BY <1>2 DEF Cancel, TypeInv, IncomingType, BookType, bookVars, LevelOf
<1> QED
  BY <1>1, <1>2

-----------------------------------------------------------------------------
(***************************************************************************)
(* The tracker and the book.  TypeInv is not inductive: a cancel follows   *)
(* the tracker into the book, and finds an order there only because        *)
(* TrackerMatchesBook holds.  That no order rests with nothing left to     *)
(* trade needs, in turn, that the incoming order is never overfilled.      *)
(***************************************************************************)
NotOverfilled == incoming # NoOrder => incoming.qty >= 0

Inv == TypeInv /\ TrackerMatchesBook /\ NotOverfilled

\* Removing an order removes its entry, and no other order loses its own.
LEMMA RemoveOrderTracker ==
  ASSUME BookType, TrackerMatchesBook, status = "running", status' = "running",
         NEW n \in DOMAIN book, NEW pf, RemoveOrder(n, pf)
  PROVE  TrackerMatchesBook'
<1>1. /\ book' = [m \in DOMAIN book \ {n} |-> book[m]]
      /\ order_map' = [i \in DOMAIN order_map \ {IdOf(book[n])} |-> order_map[i]]
  BY DEF RemoveOrder, Erase
<1>2. \A m \in DOMAIN book' : m \in DOMAIN book /\ m # n /\ book'[m] = book[m]
  BY <1>1
<1>3. \A i \in DOMAIN order_map' :
        i \in DOMAIN order_map /\ i # IdOf(book[n]) /\ order_map'[i] = order_map[i]
  BY <1>1
<1>4. \A i \in DOMAIN order_map' :
        order_map'[i] \in DOMAIN book' /\ IdOf(book'[order_map'[i]]) = i
  BY <1>1, <1>3 DEF TrackerMatchesBook
<1>5. \A m \in DOMAIN book' :
        /\ IdOf(book'[m]) \in DOMAIN order_map'
        /\ order_map'[IdOf(book'[m])] = m
        /\ book'[m].kind = "limit" /\ ~book'[m].ioc /\ book'[m].qty > 0
  BY <1>1, <1>2 DEF TrackerMatchesBook
<1> QED
  BY <1>4, <1>5 DEF TrackerMatchesBook, IdOf

\* Reducing an order by no more than it has left keeps its entry until
\* nothing is left.
LEMMA ReduceOrderTracker ==
  ASSUME BookType, TrackerMatchesBook, status = "running", status' = "running",
         NEW n \in DOMAIN book, NEW q \in Int, q <= book[n].qty,
         NEW pf, ReduceOrder(n, q, pf)
  PROVE  TrackerMatchesBook'
<1>1. CASE book[n].qty = q
  BY <1>1, RemoveOrderTracker DEF ReduceOrder
<1>2. CASE book[n].qty # q
  <2> DEFINE rest == [book[n] EXCEPT !.qty = @ - q]
  <2>1. book[n] \in OrderType
    BY DEF BookType
  <2>2. book' = [book EXCEPT ![n] = rest] /\ order_map' = order_map
    BY <1>2 DEF ReduceOrder
  <2>3. IdOf(rest) = IdOf(book[n]) /\ rest.kind = book[n].kind
        /\ rest.ioc = book[n].ioc /\ rest.qty > 0
    BY <1>2, <2>1 DEF IdOf, OrderType
  <2> HIDE DEF rest
  <2>4. \A m \in DOMAIN book' :
          IdOf(book'[m]) = IdOf(book[m]) /\ book'[m].kind = book[m].kind
          /\ book'[m].ioc = book[m].ioc /\ book'[m].qty > 0
    BY <2>2, <2>3 DEF TrackerMatchesBook
  <2>5. DOMAIN book' = DOMAIN book
    BY <2>2
  <2>6. \A i \in DOMAIN order_map' :
          order_map'[i] \in DOMAIN book' /\ IdOf(book'[order_map'[i]]) = i
    BY <2>2, <2>4, <2>5 DEF TrackerMatchesBook
  <2>7. \A m \in DOMAIN book' :
          /\ IdOf(book'[m]) \in DOMAIN order_map'
          /\ order_map'[IdOf(book'[m])] = m
          /\ book'[m].kind = "limit" /\ ~book'[m].ioc /\ book'[m].qty > 0
    BY <2>2, <2>4, <2>5 DEF TrackerMatchesBook
  <2> QED
    BY <2>6, <2>7 DEF TrackerMatchesBook, IdOf
<1> QED
  BY <1>1, <1>2

\* Adding an order either gives it an entry of its own or terminates the
\* exchange.
LEMMA AddOrderTracker ==
  ASSUME BookType, TrackerMatchesBook, status = "running",
         NEW o \in OrderType, o.kind = "limit", ~o.ioc, o.qty > 0, AddOrder(o)
  PROVE  TrackerMatchesBook'
<1> SUFFICES ASSUME status' = "running" PROVE TrackerMatchesBook'
  BY DEF TrackerMatchesBook
<1> DEFINE new == arrivals + 1
<1>1. /\ new \notin DOMAIN book
      /\ IdOf(o) \notin DOMAIN order_map
      /\ book' = [m \in DOMAIN book \cup {new} |-> IF m = new THEN o ELSE book[m]]
      /\ order_map' = [i \in DOMAIN order_map \cup {IdOf(o)} |->
                          IF i = IdOf(o) THEN new ELSE order_map[i]]
  BY DEF AddOrder, Put, BookType
<1>2. \A i \in DOMAIN order_map' :
        order_map'[i] \in DOMAIN book' /\ IdOf(book'[order_map'[i]]) = i
  BY <1>1 DEF TrackerMatchesBook
<1>3. \A m \in DOMAIN book' :
        /\ IdOf(book'[m]) \in DOMAIN order_map'
        /\ order_map'[IdOf(book'[m])] = m
        /\ book'[m].kind = "limit" /\ ~book'[m].ioc /\ book'[m].qty > 0
  BY <1>1 DEF TrackerMatchesBook
<1> QED
  BY <1>2, <1>3 DEF TrackerMatchesBook, IdOf

\* A match takes no more from either order than it has.
LEMMA MatchInv == Inv /\ Match => Inv'
<1> SUFFICES ASSUME Inv, Match PROVE Inv'
  OBVIOUS
<1>1. /\ BookType /\ IncomingType /\ TrackerMatchesBook
      /\ incoming # NoOrder /\ incoming.qty > 0
      /\ status = "running" /\ status' = "running"
  BY DEF Inv, TypeInv, IncomingType, NotOverfilled, Match, Matching, OrderType
<1>2. PICK n \in TopOrder(incoming.ticker, Opposite(incoming.side)) :
        LET b == Buyer(book[n])
            s == Seller(book[n])
            price == MatchPrice(b, s)
            quantity == MatchQuantity(b, s)
        IN /\ matches' = Append(matches,
                [buyer |-> b.trader, seller |-> s.trader, ticker |-> b.ticker,
                 side |-> incoming.side, qty |-> quantity, price |-> price])
           /\ ReduceOrder(n, quantity, Settle(portfolio, b, s, price, quantity))
           /\ incoming' = [incoming EXCEPT !.qty = @ - quantity]
  BY DEF Match
<1> DEFINE b == Buyer(book[n])
           s == Seller(book[n])
           price == MatchPrice(b, s)
           quantity == MatchQuantity(b, s)
           settled == Settle(portfolio, b, s, price, quantity)
<1>3. /\ n \in DOMAIN book /\ b \in OrderType /\ s \in OrderType
      /\ price \in Int /\ quantity \in Int
  BY <1>1, PairType
<1>4. /\ quantity <= incoming.qty /\ quantity <= book[n].qty
      /\ book[n] \in OrderType /\ incoming \in OrderType
      /\ LevelOf(incoming) \in Levels
  BY <1>1, <1>3 DEF MatchQuantity, Buyer, Seller, OrderType, BookType, IncomingType
<1>5. settled \in [Traders -> PortfolioType]
  BY <1>3, SettleType DEF Inv, TypeInv
<1>6. /\ matches' = Append(matches,
             [buyer |-> b.trader, seller |-> s.trader, ticker |-> b.ticker,
              side |-> incoming.side, qty |-> quantity, price |-> price])
      /\ ReduceOrder(n, quantity, settled)
      /\ incoming' = [incoming EXCEPT !.qty = @ - quantity]
  BY <1>2
<1> HIDE DEF b, s, price, quantity, settled
<1>7. BookType' /\ portfolio' \in [Traders -> PortfolioType]
  BY <1>1, <1>3, <1>5, <1>6, ReduceOrderType
<1>8. TrackerMatchesBook'
  BY <1>1, <1>3, <1>4, <1>6, ReduceOrderTracker
<1>9. /\ incoming' \in OrderType /\ incoming'.qty >= 0
      /\ LevelOf(incoming') = LevelOf(incoming)
  <2>1. incoming' = [incoming EXCEPT !.qty = @ - quantity]
    BY <1>6
  <2>2. incoming \in OrderType /\ quantity \in Int /\ quantity <= incoming.qty
    BY <1>3, <1>4
  <2> QED
    BY <2>1, <2>2 DEF OrderType, LevelOf
<1>10. IncomingType' /\ NotOverfilled'
  BY <1>4, <1>9 DEF IncomingType, NotOverfilled, LevelOf
<1>11. matches' \in Seq(MatchType)
  <2>1. [buyer |-> b.trader, seller |-> s.trader, ticker |-> b.ticker,
         side |-> incoming.side, qty |-> quantity, price |-> price] \in MatchType
    BY <1>3, <1>4 DEF MatchType, OrderType
  <2> QED
    BY <1>6, <2>1 DEF Inv, TypeInv
<1> QED
  BY <1>7, <1>8, <1>10, <1>11 DEF Inv, TypeInv, Match

\* The loop removes the passive order whose trader cannot honour it.
LEMMA RemovePassiveInv == Inv /\ RemovePassive => Inv'
<1> SUFFICES ASSUME Inv, RemovePassive PROVE Inv'
  OBVIOUS
<1>1. /\ BookType /\ IncomingType /\ TrackerMatchesBook /\ incoming # NoOrder
      /\ status = "running" /\ status' = "running"
      /\ portfolio \in [Traders -> PortfolioType]
  BY DEF Inv, TypeInv, RemovePassive, Matching
<1>2. PICK n \in DOMAIN book : RemoveOrder(n, portfolio)
  BY <1>1, PairType DEF RemovePassive
<1>3. BookType' /\ portfolio' \in [Traders -> PortfolioType]
  BY <1>1, <1>2, RemoveOrderType
<1>4. TrackerMatchesBook'
  BY <1>1, <1>2, RemoveOrderTracker
<1> QED
  BY <1>3, <1>4
     DEF Inv, TypeInv, IncomingType, NotOverfilled, RemovePassive, LevelOf

\* What is left of a limit order rests; everything else is forgotten.
LEMMA RestInv == Inv /\ (Rest \/ Discard) => Inv'
<1> SUFFICES ASSUME Inv, Rest \/ Discard PROVE Inv'
  OBVIOUS
<1>1. CASE Rest
  <2>1. /\ BookType /\ TrackerMatchesBook
        /\ status = "running" /\ status \in {"running", "terminated"}
        /\ portfolio \in [Traders -> PortfolioType]
        /\ incoming \in OrderType /\ LevelOf(incoming) \in Levels
        /\ incoming.kind = "limit" /\ ~incoming.ioc /\ incoming.qty > 0
        /\ AddOrder(incoming)
    BY <1>1 DEF Inv, TypeInv, IncomingType, Rest, Matching, Rests
  <2>2. /\ BookType' /\ portfolio' \in [Traders -> PortfolioType]
        /\ status' \in {"running", "terminated"}
    BY <2>1, AddOrderType
  <2>3. TrackerMatchesBook'
    BY <2>1, AddOrderTracker
  <2> QED
    BY <1>1, <2>2, <2>3 DEF Inv, TypeInv, IncomingType, NotOverfilled, Rest
<1>2. CASE Discard
  <2>1. UNCHANGED <<book, arrivals, order_map, levels, modified, status>>
    BY <1>2 DEF Discard, bookVars
  <2>2. BookType' /\ TrackerMatchesBook'
    BY <2>1 DEF Inv, TypeInv, BookType, TrackerMatchesBook, LevelOf, IdOf
  <2> QED
    BY <1>2, <2>2 DEF Inv, TypeInv, IncomingType, NotOverfilled, Discard
<1> QED
  BY <1>1, <1>2

\* An order that is taken in has something to trade.
LEMMA TakeInInv == Inv /\ TakeIn => Inv'
<1> SUFFICES ASSUME Inv, TakeIn PROVE Inv'
  OBVIOUS
<1>1. TypeInv'
  BY TakeInTypeInv DEF Inv
<1>2. UNCHANGED <<book, order_map, status>>
  BY DEF TakeIn, Accept, Drop, bookVars
<1>3. TrackerMatchesBook'
  BY <1>2 DEF Inv, TrackerMatchesBook, IdOf
<1>4. PICK o : Accept(o) \/ Drop(o)
  BY DEF TakeIn
<1>5. NotOverfilled'
  BY <1>1, <1>4
     DEF Inv, NotOverfilled, Accept, Drop, Admissible, TypeInv, IncomingType, OrderType
<1> QED
  BY <1>1, <1>3, <1>5 DEF Inv

\* A cancel removes an order with its entry, or nothing.
LEMMA CancelInv ==
  ASSUME Inv, NEW ticker \in Tickers, NEW id \in Nat, Cancel(ticker, id)
  PROVE  Inv'
<1>1. status = "running" /\ status' = "running" /\ incoming' = incoming
  BY DEF Cancel, Idle
<1>2. \A i \in DOMAIN order_map : order_map[i] \in DOMAIN book
  BY <1>1 DEF Inv, TrackerMatchesBook
<1>3. TypeInv'
  BY <1>2, CancelTypeInv DEF Inv
<1>4. TrackerMatchesBook'
  <2>1. CASE <<ticker, id>> \in DOMAIN order_map
    <3>1. PICK n \in DOMAIN book : RemoveOrder(n, portfolio)
      BY <1>2, <2>1 DEF Cancel
    <3> QED
      BY <1>1, <3>1, RemoveOrderTracker DEF Inv, TypeInv
  <2>2. CASE <<ticker, id>> \notin DOMAIN order_map
    BY <1>1, <2>2 DEF Cancel, Inv, TrackerMatchesBook, IdOf, bookVars
  <2> QED
    BY <2>1, <2>2
<1> QED
  BY <1>1, <1>3, <1>4 DEF Inv, NotOverfilled

\* Every step keeps Inv.
LEMMA StepInv == Inv /\ EngineStep => Inv'
<1> SUFFICES ASSUME Inv, EngineStep PROVE Inv'
  OBVIOUS
<1>1. CASE TakeIn
  BY <1>1, TakeInInv
<1>2. CASE \E ticker \in Tickers, id \in Nat : Cancel(ticker, id)
  BY <1>2, CancelInv
<1>3. CASE MatchStep
  BY <1>3, MatchInv, RemovePassiveInv, RestInv DEF MatchStep
<1>4. CASE TakeUpdates
  <2>1. UNCHANGED <<book, arrivals, order_map, levels, portfolio, incoming,
                    submitted, status>>
        /\ modified' = {} /\ matches' = <<>>
    BY <1>4 DEF TakeUpdates
  <2> QED
    BY <2>1 DEF Inv, TypeInv, BookType, IncomingType, TrackerMatchesBook,
                NotOverfilled, LevelOf, IdOf
<1>5. CASE UNCHANGED vars
  BY <1>5 DEF vars, Inv, TypeInv, BookType, IncomingType, TrackerMatchesBook,
              NotOverfilled, LevelOf, IdOf
<1> QED
  BY <1>1, <1>2, <1>3, <1>4, <1>5 DEF EngineStep

\* The steps of the specification in particular.
LEMMA NextInv == Inv /\ [Next]_vars => Inv'
BY NextIsEngineStep, StepInv DEF Inv

\* Inv holds at the start ...
LEMMA InitInv == Init => Inv
<1>1. Init => TrackerMatchesBook /\ NotOverfilled
  BY DEF Init, TrackerMatchesBook, NotOverfilled
<1> QED
  BY <1>1, InitTypeInv DEF Inv

\* ... and ever after.
LEMMA InvInvariant == Spec => []Inv
BY InitInv, NextInv, PTL DEF Spec

\* Every variable of the engine keeps its type.
THEOREM TypeCorrect == Spec => []TypeOK
<1>1. Inv => TypeOK
  BY DEF Inv, TypeInv, BookType, IncomingType, TypeOK
<1> QED
  BY <1>1, InvInvariant, PTL

\* The order id tracker and the book never disagree: a cancel finds the order
\* it names if it rests, and never follows an iterator of an order that left.
THEOREM TrackerCorrect == Spec => []TrackerMatchesBook
<1>1. Inv => TrackerMatchesBook
  BY DEF Inv
<1> QED
  BY <1>1, InvInvariant, PTL

-----------------------------------------------------------------------------
(***************************************************************************)
(* The volume limit.  OpenVolumeBounded is inductive together with Inv:    *)
(* the incoming order is counted from the check until it rests, a match    *)
(* and a removal only lower the volume, and resting moves it from one term *)
(* of the sum to the other.                                                *)
(***************************************************************************)
\* The volume of the order being matched for t.
Pending(t) ==
    IF incoming # NoOrder /\ incoming.trader = t THEN incoming.qty ELSE 0

\* Removing an order lowers its trader's open volume by its quantity.
LEMMA RemoveOrderVolume ==
  ASSUME BookType, NEW n \in DOMAIN book,
         NEW pf \in [Traders -> PortfolioType], RemoveOrder(n, pf)
  PROVE  \A t \in Traders :
            OpenVolume(portfolio'[t]) = OpenVolume(pf[t])
                + (IF book[n].trader = t THEN -book[n].qty ELSE 0)
<1>1. book[n] \in OrderType /\ -book[n].qty \in Int
  BY DEF BookType, OrderType
<1>2. portfolio' = PositionChange(pf, book[n], -book[n].qty)
  BY DEF RemoveOrder
<1> QED
  BY <1>1, <1>2, PositionChangeEffect

\* Reducing an order lowers its trader's open volume by as much.
LEMMA ReduceOrderVolume ==
  ASSUME BookType, NEW n \in DOMAIN book, NEW q \in Int,
         NEW pf \in [Traders -> PortfolioType], ReduceOrder(n, q, pf)
  PROVE  \A t \in Traders :
            OpenVolume(portfolio'[t]) = OpenVolume(pf[t])
                + (IF book[n].trader = t THEN -q ELSE 0)
<1>1. book[n] \in OrderType /\ -q \in Int
  BY DEF BookType
<1>2. CASE book[n].qty = q
  BY <1>2, RemoveOrderVolume DEF ReduceOrder
<1>3. CASE book[n].qty # q
  <2>1. portfolio' = PositionChange(pf, book[n], -q)
    BY <1>3 DEF ReduceOrder
  <2> QED
    BY <1>1, <2>1, PositionChangeEffect
<1> QED
  BY <1>2, <1>3

\* The open volume of a portfolio is a number.
LEMMA OpenVolumeInt ==
  ASSUME NEW p \in PortfolioType
  PROVE  OpenVolume(p) \in Int
BY DEF OpenVolume, PortfolioType, Sides

\* Every step keeps the volume limit.
LEMMA StepVolume == Inv /\ OpenVolumeBounded /\ EngineStep => OpenVolumeBounded'
<1> SUFFICES ASSUME Inv, OpenVolumeBounded, EngineStep, NEW t \in Traders
             PROVE  OpenVolume(portfolio'[t]) + Pending(t)' <= MaxVolume
  BY DEF OpenVolumeBounded, Pending, OpenVolume
<1> DEFINE volume == OpenVolume(portfolio[t])
<1>1. /\ volume + Pending(t) <= MaxVolume
      /\ volume \in Int /\ Pending(t) \in Nat /\ MaxVolume \in Nat
      /\ portfolio \in [Traders -> PortfolioType] /\ BookType /\ IncomingType
  <2>1. portfolio \in [Traders -> PortfolioType] /\ BookType /\ IncomingType
    BY DEF Inv, TypeInv
  <2>2. Pending(t) \in Nat
    BY <2>1 DEF Pending, IncomingType, Inv, NotOverfilled, OrderType
  <2> QED
    BY <2>1, <2>2, OpenVolumeInt, BoundsAssumption DEF OpenVolumeBounded, Pending
<1> HIDE DEF volume
<1>2. ASSUME UNCHANGED <<portfolio, incoming>>
      PROVE  OpenVolume(portfolio'[t]) + Pending(t)' <= MaxVolume
  BY <1>1, <1>2 DEF Pending, volume, OpenVolume
<1>3. CASE TakeIn
  <2>3. PICK new \in OrderType : Accept(new) \/ Drop(new)
    BY <1>3 DEF TakeIn
  <2>4. CASE Accept(new)
    <3>1. /\ new.qty \in Int /\ portfolio' = portfolio /\ incoming' = new
          /\ new.qty + OpenVolume(portfolio[new.trader]) <= MaxVolume
      BY <2>3, <2>4 DEF Accept, Admissible, OrderType
    <3>2. CASE new.trader = t
      BY <1>1, <3>1, <3>2 DEF Pending, volume
    <3>3. CASE new.trader # t
      BY <1>1, <3>1, <3>3 DEF Pending, volume
    <3> QED
      BY <3>2, <3>3
  <2>5. CASE Drop(new)
    BY <1>2, <2>5 DEF Drop
  <2> QED
    BY <2>3, <2>4, <2>5
<1>4. CASE \E ticker \in Tickers, id \in Nat : Cancel(ticker, id)
  <2>1. PICK ticker \in Tickers, id \in Nat : Cancel(ticker, id)
    BY <1>4
  <2>2. status = "running" /\ incoming' = incoming
    BY <2>1 DEF Cancel, Idle
  <2>3. CASE <<ticker, id>> \in DOMAIN order_map
    <3>1. PICK n \in DOMAIN book : RemoveOrder(n, portfolio)
      BY <2>1, <2>2, <2>3 DEF Cancel, Inv, TrackerMatchesBook
    <3>2. book[n].qty \in Int /\ book[n].qty > 0
      BY <2>2 DEF Inv, TypeInv, BookType, OrderType, TrackerMatchesBook
    <3>3. OpenVolume(portfolio'[t])
            = volume + (IF book[n].trader = t THEN -book[n].qty ELSE 0)
      BY <1>1, <3>1, RemoveOrderVolume DEF volume
    <3>4. Pending(t)' = Pending(t)
      BY <2>2 DEF Pending
    <3> QED
      BY <1>1, <3>2, <3>3, <3>4
  <2>4. CASE <<ticker, id>> \notin DOMAIN order_map
    BY <1>2, <2>1, <2>4 DEF Cancel
  <2> QED
    BY <2>3, <2>4
<1>5. CASE Match
  <2>1. /\ incoming # NoOrder /\ incoming \in OrderType
        /\ incoming.qty > 0 /\ status = "running"
    BY <1>1, <1>5 DEF Match, Matching, IncomingType, Inv, NotOverfilled, OrderType
  <2>2. PICK n \in TopOrder(incoming.ticker, Opposite(incoming.side)) :
          LET b == Buyer(book[n])
              s == Seller(book[n])
              price == MatchPrice(b, s)
              quantity == MatchQuantity(b, s)
          IN /\ ReduceOrder(n, quantity, Settle(portfolio, b, s, price, quantity))
             /\ incoming' = [incoming EXCEPT !.qty = @ - quantity]
    BY <1>5 DEF Match
  <2> DEFINE b == Buyer(book[n])
             s == Seller(book[n])
             price == MatchPrice(b, s)
             quantity == MatchQuantity(b, s)
             settled == Settle(portfolio, b, s, price, quantity)
  <2>3. /\ n \in DOMAIN book /\ b \in OrderType /\ s \in OrderType
        /\ price \in Int /\ quantity \in Int
    BY <1>1, <2>1, PairType
  <2>4. quantity > 0
    BY <2>1, <2>3
       DEF MatchQuantity, Buyer, Seller, Inv, TrackerMatchesBook, OrderType
  <2>5. /\ settled \in [Traders -> PortfolioType]
        /\ OpenVolume(settled[t]) = volume
    BY <1>1, <2>3, SettleType DEF volume
  <2>6. /\ ReduceOrder(n, quantity, settled)
        /\ incoming' = [incoming EXCEPT !.qty = @ - quantity]
    BY <2>2
  <2> HIDE DEF b, s, price, quantity, settled
  <2>7. OpenVolume(portfolio'[t])
          = volume + (IF book[n].trader = t THEN -quantity ELSE 0)
    BY <1>1, <2>3, <2>5, <2>6, ReduceOrderVolume
  <2>8. incoming'.trader = incoming.trader /\ incoming'.qty = incoming.qty - quantity
    BY <2>1, <2>6 DEF OrderType
  <2>9. Pending(t)' <= Pending(t) /\ Pending(t)' \in Int
    BY <2>1, <2>3, <2>4, <2>8 DEF Pending, OrderType
  <2> QED
    BY <1>1, <2>3, <2>4, <2>7, <2>9
<1>6. CASE RemovePassive
  <2>1. /\ incoming # NoOrder /\ status = "running" /\ incoming' = incoming
    BY <1>6 DEF RemovePassive, Matching
  <2>2. PICK n \in DOMAIN book : RemoveOrder(n, portfolio)
    BY <1>1, <1>6, <2>1, PairType DEF RemovePassive
  <2>3. book[n].qty \in Int /\ book[n].qty > 0
    BY <2>1 DEF Inv, TypeInv, BookType, OrderType, TrackerMatchesBook
  <2>4. OpenVolume(portfolio'[t])
          = volume + (IF book[n].trader = t THEN -book[n].qty ELSE 0)
    BY <1>1, <2>2, RemoveOrderVolume DEF volume
  <2>5. Pending(t)' = Pending(t)
    BY <2>1 DEF Pending
  <2> QED
    BY <1>1, <2>3, <2>4, <2>5
<1>7. CASE Rest
  <2>1. /\ incoming # NoOrder /\ incoming \in OrderType /\ incoming' = NoOrder
        /\ portfolio' = PositionChange(portfolio, incoming, incoming.qty)
    BY <1>1, <1>7 DEF Rest, Matching, IncomingType, AddOrder
  <2>2. incoming.qty \in Int
    BY <2>1 DEF OrderType
  <2>3. OpenVolume(portfolio'[t])
          = volume + (IF incoming.trader = t THEN incoming.qty ELSE 0)
    BY <1>1, <2>1, <2>2, PositionChangeEffect DEF volume
  <2>4. Pending(t)' = 0
    BY <2>1 DEF Pending
  <2> QED
    BY <1>1, <2>1, <2>2, <2>3, <2>4 DEF Pending
<1>8. CASE Discard
  <2>1. portfolio' = portfolio /\ incoming' = NoOrder
    BY <1>8 DEF Discard
  <2>2. Pending(t)' = 0
    BY <2>1 DEF Pending
  <2> QED
    BY <1>1, <2>1, <2>2 DEF volume
<1>9. CASE TakeUpdates \/ UNCHANGED vars
  BY <1>2, <1>9 DEF TakeUpdates, vars
<1> QED
  BY <1>3, <1>4, <1>5, <1>6, <1>7, <1>8, <1>9 DEF EngineStep, MatchStep

\* Nothing is open in empty books.
LEMMA InitVolume == Init => OpenVolumeBounded
<1> SUFFICES ASSUME Init, NEW t \in Traders
             PROVE  OpenVolume(portfolio[t]) + Pending(t) <= MaxVolume
  BY DEF OpenVolumeBounded, Pending
<1>1. OpenVolume(portfolio[t]) = 0
  BY DEF Init, OpenVolume, EmptyPortfolio, Sides
<1>2. Pending(t) = 0
  BY DEF Init, Pending
<1> QED
  BY <1>1, <1>2, BoundsAssumption

\* No trader ever has more than max_cumulative_order_volume in the books and
\* on its way into them, although the limit is checked only once, before the
\* order trades.
THEOREM VolumeLimit == Spec => []OpenVolumeBounded
<1>1. Inv /\ OpenVolumeBounded /\ [Next]_vars => OpenVolumeBounded'
  BY NextIsEngineStep, StepVolume DEF Inv
<1> QED
  BY <1>1, InitVolume, InvInvariant, PTL DEF Spec

-----------------------------------------------------------------------------
(***************************************************************************)
(* The sums.  Levels, open volume and open interest are kept by adding and *)
(* subtracting; the orders in the book give the same numbers.              *)
(***************************************************************************)
\* x is the order o but for its quantity, which is q.
SameButQuantity(x, o, q) ==
    /\ x.trader = o.trader /\ x.side = o.side
    /\ x.ticker = o.ticker /\ x.price = o.price
    /\ x.qty = q

\* The book changes in the order at n only, from quantity before to quantity
\* after; zero where there is no order.
ChangesAt(n, o, before, after) ==
    /\ DOMAIN book' \ {n} = DOMAIN book \ {n}
    /\ \A m \in DOMAIN book \ {n} : book'[m] = book[m]
    /\ IF n \in DOMAIN book THEN SameButQuantity(book[n], o, before) ELSE before = 0
    /\ IF n \in DOMAIN book' THEN SameButQuantity(book'[n], o, after) ELSE after = 0

\* The sums that o counts in change by a quantity d, and no others.
SumsMove(o, d) ==
    /\ \A l \in Levels :
         SumFunctionOnSet(Quantities', AtLevel'[l])
           = SumFunctionOnSet(Quantities, AtLevel[l])
               + (IF LevelOf(o) = l THEN d ELSE 0)
    /\ \A t \in Traders, side \in Sides :
         /\ SumFunctionOnSet(Quantities', RestingOf'[t][side])
              = SumFunctionOnSet(Quantities, RestingOf[t][side])
                  + (IF o.trader = t /\ o.side = side THEN d ELSE 0)
         /\ SumFunctionOnSet(Notionals', RestingOf'[t][side])
              = SumFunctionOnSet(Notionals, RestingOf[t][side])
                  + (IF o.trader = t /\ o.side = side
                     THEN HighPrecisionTimes(o.price, d) ELSE 0)

\* The book is finite, and so is every part of it.
LEMMA BookFinite ==
  ASSUME NEW last \in Nat, NEW D \in SUBSET (1 .. last)
  PROVE  \A S \in SUBSET D : IsFiniteSet(S)
<1>1. IsFiniteSet(1 .. last)
  BY FS_Interval
<1> QED
  BY <1>1, FS_Subset

\* When one order's quantity changes, the sums change by as much where the order
\* counts, and nowhere else.
LEMMA SumsChange ==
  ASSUME BookType, BookType', NEW n, NEW o \in OrderType,
         NEW before \in Int, NEW after \in Int, ChangesAt(n, o, before, after)
  PROVE  SumsMove(o, after - before)
<1>1. /\ \A S \in SUBSET DOMAIN book : IsFiniteSet(S)
      /\ \A S \in SUBSET DOMAIN book' : IsFiniteSet(S)
  BY BookFinite DEF BookType
<1>2. /\ \A m \in DOMAIN book : book[m].qty \in Int /\ book[m].price \in Int
      /\ \A m \in DOMAIN book' : book'[m].qty \in Int /\ book'[m].price \in Int
  BY DEF BookType, OrderType
<1>3. /\ \A m \in DOMAIN book : Quantities[m] \in Int /\ Quantities[m] = book[m].qty
      /\ \A m \in DOMAIN book' : Quantities'[m] \in Int /\ Quantities'[m] = book'[m].qty
  BY <1>2 DEF Quantities
<1>4. /\ \A m \in DOMAIN book : /\ Notionals[m] \in Int
                               /\ Notionals[m] = book[m].price * book[m].qty
      /\ \A m \in DOMAIN book' : /\ Notionals'[m] \in Int
                                /\ Notionals'[m] = book'[m].price * book'[m].qty
  BY <1>2 DEF Notionals, HighPrecisionTimes
<1>5. /\ DOMAIN book' \ {n} = DOMAIN book \ {n}
      /\ \A m \in DOMAIN book \ {n} : book'[m] = book[m]
      /\ IF n \in DOMAIN book THEN SameButQuantity(book[n], o, before) ELSE before = 0
      /\ IF n \in DOMAIN book' THEN SameButQuantity(book'[n], o, after) ELSE after = 0
  BY DEF ChangesAt
<1>6. ASSUME NEW l \in Levels
      PROVE  SumFunctionOnSet(Quantities', AtLevel'[l])
                = SumFunctionOnSet(Quantities, AtLevel[l])
                    + (IF LevelOf(o) = l THEN after - before ELSE 0)
  <2>1. AtLevel'[l] = {m \in DOMAIN book' : LevelOf(book'[m]) = l}
    BY DEF AtLevel, LevelOf, Levels
  <2>2. AtLevel[l] \in SUBSET DOMAIN book /\ AtLevel'[l] \in SUBSET DOMAIN book'
    BY <2>1 DEF AtLevel
  <2>3. AtLevel'[l] \ {n} = AtLevel[l] \ {n}
    BY <1>5, <2>1 DEF AtLevel
  <2>4. /\ n \in AtLevel[l] <=> n \in DOMAIN book /\ LevelOf(o) = l
        /\ n \in AtLevel'[l] <=> n \in DOMAIN book' /\ LevelOf(o) = l
    BY <1>5, <2>1 DEF AtLevel, LevelOf, SameButQuantity
  <2>5. \A m \in AtLevel[l] \ {n} : Quantities[m] = Quantities'[m]
    BY <1>3, <1>5, <2>2, <2>3
  <2>6. /\ SumFunctionOnSet(Quantities, AtLevel[l]) \in Int
        /\ SumFunctionOnSet(Quantities', AtLevel'[l])
             = SumFunctionOnSet(Quantities, AtLevel[l])
                 + (IF n \in AtLevel'[l] THEN Quantities'[n] ELSE 0)
                 - (IF n \in AtLevel[l] THEN Quantities[n] ELSE 0)
    <3>1. PICK S, T, f, g : /\ S = AtLevel[l] /\ T = AtLevel'[l]
                            /\ f = Quantities /\ g = Quantities'
      OBVIOUS
    <3>2. DifferAt(n, f, S, g, T)
      BY <1>1, <1>3, <2>2, <2>3, <2>5, <3>1 DEF DifferAt
    <3> QED
      BY <3>1, <3>2, SumChange DEF Part
  <2> QED
    BY <1>3, <1>5, <2>4, <2>6 DEF SameButQuantity
<1>7. ASSUME NEW t \in Traders, NEW side \in Sides
      PROVE  /\ SumFunctionOnSet(Quantities', RestingOf'[t][side])
                   = SumFunctionOnSet(Quantities, RestingOf[t][side])
                       + (IF o.trader = t /\ o.side = side THEN after - before ELSE 0)
             /\ SumFunctionOnSet(Notionals', RestingOf'[t][side])
                   = SumFunctionOnSet(Notionals, RestingOf[t][side])
                       + (IF o.trader = t /\ o.side = side
                          THEN HighPrecisionTimes(o.price, after - before) ELSE 0)
  <2> DEFINE mine == o.trader = t /\ o.side = side
  <2>2. RestingOf[t][side] \in SUBSET DOMAIN book /\ RestingOf'[t][side] \in SUBSET DOMAIN book'
    BY DEF RestingOf
  <2>3. RestingOf'[t][side] \ {n} = RestingOf[t][side] \ {n}
    BY <1>5 DEF RestingOf
  <2>4. /\ n \in RestingOf[t][side] <=> n \in DOMAIN book /\ mine
        /\ n \in RestingOf'[t][side] <=> n \in DOMAIN book' /\ mine
    BY <1>5 DEF RestingOf, SameButQuantity
  <2>5. \A m \in RestingOf[t][side] \ {n} :
          Quantities[m] = Quantities'[m] /\ Notionals[m] = Notionals'[m]
    BY <1>3, <1>4, <1>5, <2>2, <2>3
  <2>6. /\ SumFunctionOnSet(Quantities, RestingOf[t][side]) \in Int
        /\ SumFunctionOnSet(Quantities', RestingOf'[t][side])
             = SumFunctionOnSet(Quantities, RestingOf[t][side])
                 + (IF n \in RestingOf'[t][side] THEN Quantities'[n] ELSE 0)
                 - (IF n \in RestingOf[t][side] THEN Quantities[n] ELSE 0)
    <3>1. PICK S, T, f, g : /\ S = RestingOf[t][side] /\ T = RestingOf'[t][side]
                            /\ f = Quantities /\ g = Quantities'
      OBVIOUS
    <3>2. DifferAt(n, f, S, g, T)
      BY <1>1, <1>3, <2>2, <2>3, <2>5, <3>1 DEF DifferAt
    <3> QED
      BY <3>1, <3>2, SumChange DEF Part
  <2>7. /\ SumFunctionOnSet(Notionals, RestingOf[t][side]) \in Int
        /\ SumFunctionOnSet(Notionals', RestingOf'[t][side])
             = SumFunctionOnSet(Notionals, RestingOf[t][side])
                 + (IF n \in RestingOf'[t][side] THEN Notionals'[n] ELSE 0)
                 - (IF n \in RestingOf[t][side] THEN Notionals[n] ELSE 0)
    <3>1. PICK S, T, f, g : /\ S = RestingOf[t][side] /\ T = RestingOf'[t][side]
                            /\ f = Notionals /\ g = Notionals'
      OBVIOUS
    <3>2. DifferAt(n, f, S, g, T)
      BY <1>1, <1>4, <2>2, <2>3, <2>5, <3>1 DEF DifferAt
    <3> QED
      BY <3>1, <3>2, SumChange DEF Part
  <2>8. SumFunctionOnSet(Quantities', RestingOf'[t][side])
             = SumFunctionOnSet(Quantities, RestingOf[t][side])
                 + (IF mine THEN after - before ELSE 0)
    BY <1>3, <1>5, <2>4, <2>6 DEF SameButQuantity
  <2>9. /\ o.price \in Int
        /\ o.price * (after - before) = o.price * after - o.price * before
        /\ o.price * 0 = 0
    BY DEF OrderType
  <2>10. /\ n \in DOMAIN book => Notionals[n] = o.price * before
         /\ n \notin DOMAIN book => before = 0
         /\ n \in DOMAIN book' => Notionals'[n] = o.price * after
         /\ n \notin DOMAIN book' => after = 0
    BY <1>4, <1>5 DEF SameButQuantity
  <2>11. PICK was \in Int, is \in Int : was = o.price * before /\ is = o.price * after
    BY <2>9
  <2>12. SumFunctionOnSet(Notionals', RestingOf'[t][side])
             = SumFunctionOnSet(Notionals, RestingOf[t][side])
                 + (IF mine THEN is - was ELSE 0)
    BY <2>4, <2>7, <2>9, <2>10, <2>11
  <2> QED
    BY <2>8, <2>9, <2>11, <2>12 DEF HighPrecisionTimes
<1> QED
  BY <1>6, <1>7 DEF SumsMove

\* Removing an order changes the book there.
LEMMA RemoveOrderChanges ==
  ASSUME BookType, NEW n \in DOMAIN book, NEW pf, RemoveOrder(n, pf)
  PROVE  ChangesAt(n, book[n], book[n].qty, 0)
<1>1. book' = [m \in DOMAIN book \ {n} |-> book[m]]
  BY DEF RemoveOrder, Erase
<1> QED
  BY <1>1 DEF ChangesAt, SameButQuantity

\* So does reducing one.
LEMMA ReduceOrderChanges ==
  ASSUME BookType, NEW n \in DOMAIN book, NEW q \in Int, NEW pf, ReduceOrder(n, q, pf)
  PROVE  ChangesAt(n, book[n], book[n].qty, book[n].qty - q)
<1>1. book[n] \in OrderType
  BY DEF BookType
<1>2. CASE book[n].qty = q
  <2>1. book[n].qty - q = 0
    BY <1>2
  <2>2. RemoveOrder(n, pf)
    BY <1>2 DEF ReduceOrder
  <2> QED
    BY <2>1, <2>2, RemoveOrderChanges
<1>3. CASE book[n].qty # q
  <2> DEFINE rest == [book[n] EXCEPT !.qty = @ - q]
  <2>1. book' = [book EXCEPT ![n] = rest]
    BY <1>3 DEF ReduceOrder
  <2>2. SameButQuantity(rest, book[n], book[n].qty - q)
    BY <1>1 DEF SameButQuantity, OrderType
  <2> HIDE DEF rest
  <2>3. /\ DOMAIN book' = DOMAIN book /\ book'[n] = rest
        /\ \A m \in DOMAIN book \ {n} : book'[m] = book[m]
    BY <2>1
  <2> QED
    BY <2>2, <2>3 DEF ChangesAt, SameButQuantity
<1> QED
  BY <1>2, <1>3

\* And adding one, where there was none.
LEMMA AddOrderChanges ==
  ASSUME BookType, NEW o \in OrderType, AddOrder(o)
  PROVE  ChangesAt(arrivals + 1, o, 0, o.qty)
<1>1. arrivals + 1 \notin DOMAIN book
  BY DEF BookType
<1>2. book' = [m \in DOMAIN book \cup {arrivals + 1} |->
                 IF m = arrivals + 1 THEN o ELSE book[m]]
  BY DEF AddOrder, Put
<1>3. /\ DOMAIN book' = DOMAIN book \cup {arrivals + 1}
      /\ book'[arrivals + 1] = o
      /\ \A m \in DOMAIN book \ {arrivals + 1} : book'[m] = book[m]
  BY <1>2
<1> QED
  BY <1>1, <1>3 DEF ChangesAt, SameButQuantity

\* A change of a resting order changes one side of its trader's open volume and
\* interest.
LEMMA PositionChangeSides ==
  ASSUME NEW pf \in [Traders -> PortfolioType],
         NEW o \in OrderType, NEW d \in Int
  PROVE  \A t \in Traders, side \in Sides :
            LET new == PositionChange(pf, o, d)[t]
                mine == o.trader = t /\ o.side = side
            IN /\ new.open[side] = pf[t].open[side] + (IF mine THEN d ELSE 0)
               /\ new.interest[side] = pf[t].interest[side]
                    + (IF mine THEN HighPrecisionTimes(o.price, d) ELSE 0)
<1>1. o.trader \in Traders /\ o.price \in Int /\ o.side \in Sides
  BY DEF OrderType
<1>2. PICK h \in Int : h = HighPrecisionTimes(o.price, d)
  BY <1>1 DEF HighPrecisionTimes
<1> DEFINE q == NotifyPositionChange(pf[o.trader], o.side, d, o.price)
<1>3. \A side \in Sides :
        /\ q.open[side] = pf[o.trader].open[side] + (IF o.side = side THEN d ELSE 0)
        /\ q.interest[side]
             = pf[o.trader].interest[side] + (IF o.side = side THEN h ELSE 0)
  BY <1>1, <1>2 DEF NotifyPositionChange, PortfolioType
<1>4. PositionChange(pf, o, d) = [pf EXCEPT ![o.trader] = q]
  BY DEF PositionChange
<1> HIDE DEF q
<1>5. \A t \in Traders, side \in Sides :
        pf[t].open[side] \in Int /\ pf[t].interest[side] \in Int
  BY DEF PortfolioType
<1> QED
  BY <1>1, <1>2, <1>3, <1>4, <1>5

\* Settling a trade leaves them alone.
LEMMA SettleSides ==
  ASSUME NEW pf \in [Traders -> PortfolioType],
         NEW b \in OrderType, NEW s \in OrderType, NEW price, NEW quantity
  PROVE  \A t \in Traders :
            LET new == Settle(pf, b, s, price, quantity)[t]
            IN new.open = pf[t].open /\ new.interest = pf[t].interest
<1>1. b.trader \in Traders /\ s.trader \in Traders
  BY DEF OrderType
<1> DEFINE paid == NotifyMatch(pf[b.trader], b.ticker, "buy", quantity,
                               Times(price, One + OrderFee))
           received == NotifyMatch(pf[s.trader], b.ticker, "sell", quantity,
                                   Times(price, One - OrderFee))
<1>2. /\ paid.open = pf[b.trader].open /\ paid.interest = pf[b.trader].interest
      /\ received.open = pf[s.trader].open
      /\ received.interest = pf[s.trader].interest
  BY DEF NotifyMatch
<1>3. Settle(pf, b, s, price, quantity)
        = [pf EXCEPT ![b.trader] = paid, ![s.trader] = received]
  BY DEF Settle
<1> HIDE DEF paid, received
<1> QED
  BY <1>1, <1>2, <1>3

\* pf has the open volume and interest of the portfolios.
SameOpen(pf) ==
    \A t \in Traders :
        pf[t].open = portfolio[t].open /\ pf[t].interest = portfolio[t].interest

LevelSums ==
    \A l \in Levels : levels[l] = SumFunctionOnSet(Quantities, AtLevel[l])

\* Where the book changes and the portfolios are told, they still agree.
LEMMA InterestStep ==
  ASSUME BookType, BookType', InterestMatchesBook,
         NEW n, NEW o \in OrderType, NEW before \in Int, NEW after \in Int,
         ChangesAt(n, o, before, after),
         NEW pf \in [Traders -> PortfolioType], SameOpen(pf),
         portfolio' = PositionChange(pf, o, after - before)
  PROVE  InterestMatchesBook'
<1> SUFFICES ASSUME NEW t \in Traders, NEW side \in Sides
             PROVE  /\ portfolio'[t].open[side]
                         = SumFunctionOnSet(Quantities', RestingOf'[t][side])
                    /\ portfolio'[t].interest[side]
                         = SumFunctionOnSet(Notionals', RestingOf'[t][side])
  BY DEF InterestMatchesBook
<1>1. after - before \in Int
  OBVIOUS
<1>2. LET mine == o.trader = t /\ o.side = side
      IN /\ portfolio'[t].open[side]
               = pf[t].open[side] + (IF mine THEN after - before ELSE 0)
         /\ portfolio'[t].interest[side] = pf[t].interest[side]
               + (IF mine THEN HighPrecisionTimes(o.price, after - before) ELSE 0)
  BY <1>1, PositionChangeSides
<1>3. /\ pf[t].open[side] = SumFunctionOnSet(Quantities, RestingOf[t][side])
      /\ pf[t].interest[side] = SumFunctionOnSet(Notionals, RestingOf[t][side])
  BY DEF SameOpen, InterestMatchesBook
<1>0. SumsMove(o, after - before)
  BY SumsChange
<1>4. /\ SumFunctionOnSet(Quantities', RestingOf'[t][side])
           = SumFunctionOnSet(Quantities, RestingOf[t][side])
               + (IF o.trader = t /\ o.side = side THEN after - before ELSE 0)
      /\ SumFunctionOnSet(Notionals', RestingOf'[t][side])
           = SumFunctionOnSet(Notionals, RestingOf[t][side])
               + (IF o.trader = t /\ o.side = side
                  THEN HighPrecisionTimes(o.price, after - before) ELSE 0)
  BY <1>0 DEF SumsMove
<1> QED
  BY <1>2, <1>3, <1>4

\* And so does the level tracker.
LEMMA LevelStep ==
  ASSUME BookType, BookType', LevelSums,
         NEW n, NEW o \in OrderType, LevelOf(o) \in Levels,
         NEW before \in Int, NEW after \in Int,
         ChangesAt(n, o, before, after), RecordLevelChange(o, after - before)
  PROVE  LevelSums'
<1> SUFFICES ASSUME NEW l \in Levels
             PROVE  levels'[l] = SumFunctionOnSet(Quantities', AtLevel'[l])
  BY DEF LevelSums, Levels
<1>1. /\ levels \in [Levels -> Int]
      /\ levels' = [levels EXCEPT ![LevelOf(o)] = @ + (after - before)]
  BY DEF BookType, RecordLevelChange
<1>2. levels'[l] = levels[l] + (IF LevelOf(o) = l THEN after - before ELSE 0)
  BY <1>1
<1>3. levels[l] = SumFunctionOnSet(Quantities, AtLevel[l])
  BY DEF LevelSums
<1>0. SumsMove(o, after - before)
  BY SumsChange
<1>4. SumFunctionOnSet(Quantities', AtLevel'[l])
        = SumFunctionOnSet(Quantities, AtLevel[l])
            + (IF LevelOf(o) = l THEN after - before ELSE 0)
  BY <1>0 DEF SumsMove
<1> QED
  BY <1>2, <1>3, <1>4

\* The three changes of the book keep both.
LEMMA RemoveOrderSums ==
  ASSUME BookType, BookType', InterestMatchesBook, NEW n \in DOMAIN book,
         NEW pf \in [Traders -> PortfolioType], SameOpen(pf), RemoveOrder(n, pf)
  PROVE  InterestMatchesBook' /\ (LevelSums => LevelSums')
<1>1. /\ book[n] \in OrderType /\ LevelOf(book[n]) \in Levels
      /\ book[n].qty \in Int /\ 0 \in Int /\ -book[n].qty = 0 - book[n].qty
  BY DEF BookType, OrderType
<1>2. ChangesAt(n, book[n], book[n].qty, 0)
  BY RemoveOrderChanges
<1>3. /\ RecordLevelChange(book[n], 0 - book[n].qty)
      /\ portfolio' = PositionChange(pf, book[n], 0 - book[n].qty)
  BY <1>1 DEF RemoveOrder
<1>4. PICK o, q : o = book[n] /\ q = book[n].qty
  OBVIOUS
<1>5. InterestMatchesBook'
  BY <1>1, <1>2, <1>3, <1>4, InterestStep
<1>6. LevelSums => LevelSums'
  BY <1>1, <1>2, <1>3, <1>4, LevelStep
<1> QED
  BY <1>5, <1>6

LEMMA ReduceOrderSums ==
  ASSUME BookType, BookType', InterestMatchesBook,
         NEW n \in DOMAIN book, NEW quantity \in Int,
         NEW pf \in [Traders -> PortfolioType], SameOpen(pf),
         ReduceOrder(n, quantity, pf)
  PROVE  InterestMatchesBook' /\ (LevelSums => LevelSums')
<1>1. CASE book[n].qty = quantity
  BY <1>1, RemoveOrderSums DEF ReduceOrder
<1>2. CASE book[n].qty # quantity
  <2>0. /\ book[n] \in OrderType /\ LevelOf(book[n]) \in Levels
        /\ book[n].qty \in Int /\ book[n].qty - quantity \in Int
    BY DEF BookType, OrderType
  <2>1. PICK o \in OrderType, before \in Int, after \in Int :
          /\ o = book[n] /\ before = book[n].qty /\ after = book[n].qty - quantity
          /\ LevelOf(o) \in Levels
    BY <2>0
  <2>2. ChangesAt(n, o, before, after)
    BY <2>1, ReduceOrderChanges
  <2>3. after - before = -quantity
    BY <2>1
  <2>4. /\ RecordLevelChange(o, after - before)
        /\ portfolio' = PositionChange(pf, o, after - before)
    BY <1>2, <2>1, <2>3 DEF ReduceOrder
  <2>5. InterestMatchesBook'
    BY <2>1, <2>2, <2>4, InterestStep
  <2>6. LevelSums => LevelSums'
    BY <2>1, <2>2, <2>4, LevelStep
  <2> QED
    BY <2>5, <2>6
<1> QED
  BY <1>1, <1>2

LEMMA AddOrderSums ==
  ASSUME BookType, BookType', InterestMatchesBook,
         portfolio \in [Traders -> PortfolioType],
         NEW o \in OrderType, LevelOf(o) \in Levels, AddOrder(o)
  PROVE  InterestMatchesBook' /\ (LevelSums /\ status' = "running" => LevelSums')
<1>1. PICK after \in Int : after = o.qty
  BY DEF OrderType
<1>2. 0 \in Int /\ after - 0 = after
  OBVIOUS
<1>3. ChangesAt(arrivals + 1, o, 0, after)
  BY <1>1, AddOrderChanges
<1>4. SameOpen(portfolio) /\ portfolio' = PositionChange(portfolio, o, after - 0)
  BY <1>1, <1>2 DEF AddOrder, SameOpen
<1>5. InterestMatchesBook'
  BY <1>2, <1>3, <1>4, InterestStep
<1>6. status' = "running" => RecordLevelChange(o, after - 0)
  BY <1>1, <1>2 DEF AddOrder
<1>7. LevelSums /\ status' = "running" => LevelSums'
  BY <1>2, <1>3, <1>6, LevelStep
<1> QED
  BY <1>5, <1>7

\* Every step keeps the sums.
LEMMA StepSums ==
  Inv /\ InterestMatchesBook /\ LevelsMatchBook /\ EngineStep
    => InterestMatchesBook' /\ LevelsMatchBook'
<1> SUFFICES ASSUME Inv, InterestMatchesBook, LevelsMatchBook, EngineStep
             PROVE  InterestMatchesBook' /\ LevelsMatchBook'
  OBVIOUS
<1>1. /\ BookType /\ IncomingType /\ portfolio \in [Traders -> PortfolioType]
      /\ BookType' /\ SameOpen(portfolio)
  BY StepInv DEF Inv, TypeInv, SameOpen
<1>2. /\ LevelsMatchBook <=> (status = "running" => LevelSums)
      /\ LevelsMatchBook' <=> (status' = "running" => LevelSums')
  BY DEF LevelsMatchBook, LevelSums
<1>3. ASSUME UNCHANGED <<book, levels, portfolio, status>>
      PROVE  InterestMatchesBook' /\ LevelsMatchBook'
  <2>1. /\ Quantities' = Quantities /\ Notionals' = Notionals
        /\ RestingOf' = RestingOf /\ AtLevel' = AtLevel
    BY <1>3 DEF Quantities, Notionals, RestingOf, AtLevel, LevelOf, Levels
  <2> QED
    BY <1>3, <2>1 DEF InterestMatchesBook, LevelsMatchBook, Levels
<1>4. CASE TakeIn
  BY <1>3, <1>4 DEF TakeIn, Accept, Drop, bookVars
<1>5. CASE \E ticker \in Tickers, id \in Nat : Cancel(ticker, id)
  <2>1. PICK ticker \in Tickers, id \in Nat : Cancel(ticker, id)
    BY <1>5
  <2>2. status = "running"
    BY <2>1 DEF Cancel, Idle
  <2>3. CASE <<ticker, id>> \in DOMAIN order_map
    <3>1. PICK n \in DOMAIN book : RemoveOrder(n, portfolio)
      BY <2>1, <2>2, <2>3 DEF Cancel, Inv, TrackerMatchesBook
    <3> QED
      BY <1>1, <1>2, <2>2, <3>1, RemoveOrderSums
  <2>4. CASE <<ticker, id>> \notin DOMAIN order_map
    BY <1>3, <2>1, <2>4 DEF Cancel, bookVars
  <2> QED
    BY <2>3, <2>4
<1>6. CASE Match
  <2>1. incoming # NoOrder /\ status = "running"
    BY <1>6 DEF Match, Matching
  <2>2. PICK n \in TopOrder(incoming.ticker, Opposite(incoming.side)) :
          LET b == Buyer(book[n])
              s == Seller(book[n])
              price == MatchPrice(b, s)
              quantity == MatchQuantity(b, s)
          IN ReduceOrder(n, quantity, Settle(portfolio, b, s, price, quantity))
    BY <1>6 DEF Match
  <2> DEFINE b == Buyer(book[n])
             s == Seller(book[n])
             price == MatchPrice(b, s)
             quantity == MatchQuantity(b, s)
             settled == Settle(portfolio, b, s, price, quantity)
  <2>3. /\ n \in DOMAIN book /\ b \in OrderType /\ s \in OrderType
        /\ price \in Int /\ quantity \in Int
    BY <1>1, <2>1, PairType
  <2>4. settled \in [Traders -> PortfolioType]
    BY <1>1, <2>3, SettleType
  <2>5. SameOpen(settled)
    BY <1>1, <2>3, SettleSides DEF SameOpen
  <2>6. ReduceOrder(n, quantity, settled)
    BY <2>2
  <2> HIDE DEF b, s, price, quantity, settled
  <2> QED
    BY <1>1, <1>2, <2>1, <2>3, <2>4, <2>5, <2>6, ReduceOrderSums
<1>7. CASE RemovePassive
  <2>1. incoming # NoOrder /\ status = "running"
    BY <1>7 DEF RemovePassive, Matching
  <2>2. PICK n \in DOMAIN book : RemoveOrder(n, portfolio)
    BY <1>1, <1>7, <2>1, PairType DEF RemovePassive
  <2> QED
    BY <1>1, <1>2, <2>1, <2>2, RemoveOrderSums
<1>8. CASE Rest
  <2>1. /\ status = "running" /\ AddOrder(incoming)
        /\ incoming \in OrderType /\ LevelOf(incoming) \in Levels
    BY <1>1, <1>8 DEF Rest, Matching, IncomingType
  <2> QED
    BY <1>1, <1>2, <2>1, AddOrderSums
<1>9. CASE Discard \/ TakeUpdates \/ UNCHANGED vars
  BY <1>3, <1>9 DEF Discard, TakeUpdates, vars, bookVars
<1> QED
  BY <1>4, <1>5, <1>6, <1>7, <1>8, <1>9 DEF EngineStep, MatchStep

\* In the empty book every sum is zero.
LEMMA InitSums == Init => InterestMatchesBook /\ LevelsMatchBook
<1> SUFFICES ASSUME Init PROVE InterestMatchesBook /\ LevelsMatchBook
  OBVIOUS
<1>1. IsFiniteSet({}) /\ \A f : \A x \in {} : f[x] \in Int
  BY FS_EmptySet
<1>2. \A f : SumFunctionOnSet(f, {}) = 0
  BY <1>1, SumStep
<1>3. /\ \A l \in Levels : AtLevel[l] = {} /\ levels[l] = 0
      /\ \A t \in Traders, side \in Sides :
           /\ RestingOf[t][side] = {}
           /\ portfolio[t].open[side] = 0 /\ portfolio[t].interest[side] = 0
  BY DEF Init, AtLevel, RestingOf, EmptyPortfolio
<1> QED
  BY <1>2, <1>3 DEF InterestMatchesBook, LevelsMatchBook

\* The sums are invariants together.
LEMMA SumsInvariant == Spec => [](InterestMatchesBook /\ LevelsMatchBook)
<1>1. Inv /\ InterestMatchesBook /\ LevelsMatchBook /\ [Next]_vars
        => InterestMatchesBook' /\ LevelsMatchBook'
  BY NextIsEngineStep, StepSums DEF Inv
<1> QED
  BY <1>1, InitSums, InvInvariant, PTL DEF Spec

\* The level tracker, which only adds up changes, always holds the quantity that
\* rests at every level, in the middle of a match as well.
THEOREM LevelsAreSums == Spec => []LevelsMatchBook
BY SumsInvariant, PTL

\* A portfolio's open volume and interest, which only add up changes, are always
\* those of the trader's orders in the books of all tickers.
THEOREM InterestIsSum == Spec => []InterestMatchesBook
BY SumsInvariant, PTL

-----------------------------------------------------------------------------
(***************************************************************************)
(* What a trade takes, and at what price.                                  *)
(***************************************************************************)
\* Only a match adds to the matches of the tick.
LEMMA OnlyMatchTrades ==
  ASSUME EngineStep, ~Match
  PROVE  matches' = matches \/ matches' = <<>>
BY DEF EngineStep, TakeIn, Accept, Drop, Cancel, MatchStep, RemovePassive, Rest, Discard,
       TakeUpdates, vars

\* A match takes from the front of the queue at the best price and from no other
\* order, and records a price at which the two cross.
LEMMA MatchTakesTop ==
  ASSUME Inv, Match
  PROVE  \E n \in TopOrder(incoming.ticker, Opposite(incoming.side)) :
            /\ n \in DOMAIN book
            /\ book[n] \in OrderType /\ book[n].kind = "limit"
            /\ book[n].side = Opposite(incoming.side)
            /\ Crosses(Buyer(book[n]), Seller(book[n]))
            /\ matches'[Len(matches')].price
                 = MatchPrice(Buyer(book[n]), Seller(book[n]))
            /\ \A m \in DOMAIN book \ {n} : m \in DOMAIN book' /\ book'[m] = book[m]
<1>1. PICK n \in TopOrder(incoming.ticker, Opposite(incoming.side)) :
        LET b == Buyer(book[n])
            s == Seller(book[n])
            price == MatchPrice(b, s)
            quantity == MatchQuantity(b, s)
        IN /\ AttemptMatch(b, s) = "match"
           /\ matches' = Append(matches,
                [buyer |-> b.trader, seller |-> s.trader, ticker |-> b.ticker,
                 side |-> incoming.side, qty |-> quantity, price |-> price])
           /\ ReduceOrder(n, quantity, Settle(portfolio, b, s, price, quantity))
  BY DEF Match
<1>2. /\ matches \in Seq(MatchType) /\ BookType /\ TrackerMatchesBook
      /\ status = "running"
  BY DEF Inv, TypeInv, Match, Matching
<1>3. n \in DOMAIN book /\ book[n].side = Opposite(incoming.side)
  BY DEF TopOrder, Queue
<1>4. book[n] \in OrderType /\ book[n].kind = "limit"
  BY <1>2, <1>3 DEF BookType, TrackerMatchesBook
<1>5. Crosses(Buyer(book[n]), Seller(book[n]))
  BY <1>1 DEF AttemptMatch
<1>6. matches'[Len(matches')].price = MatchPrice(Buyer(book[n]), Seller(book[n]))
  BY <1>1, <1>2
<1>7. \A m \in DOMAIN book \ {n} : m \in DOMAIN book' /\ book'[m] = book[m]
  BY <1>1, <1>3 DEF ReduceOrder, RemoveOrder, Erase
<1> QED
  BY <1>3, <1>4, <1>5, <1>6, <1>7

\* One of two limits that cross is a price within both; against a market order
\* the price is the other one's limit.
LEMMA PriceWithinLimits ==
  ASSUME Inv, Match,
         NEW o \in OrderType, o.kind = "limit", o.side = Opposite(incoming.side),
         Crosses(Buyer(o), Seller(o))
  PROVE  LET price == MatchPrice(Buyer(o), Seller(o))
             within(x) == IF x.side = "buy" THEN price <= x.price ELSE price >= x.price
         IN within(o) /\ (incoming.kind = "limit" => within(incoming))
<1>1. incoming \in OrderType
  BY DEF Inv, TypeInv, IncomingType, Match, Matching
<1>2. CASE incoming.side = "buy"
  BY <1>1, <1>2 DEF Buyer, Seller, Opposite, Crosses, MatchPrice, OrderType
<1>3. CASE incoming.side = "sell"
  BY <1>1, <1>3 DEF Buyer, Seller, Opposite, Crosses, MatchPrice, OrderType
<1> QED
  BY <1>1, <1>2, <1>3 DEF OrderType, Sides

\* What TradesWithinLimits and PriceTimePriority say of a step.
TradeWithinLimits ==
    matches' # matches /\ matches' # <<>> =>
        LET m == matches'[Len(matches')]
            within(o) == IF o.side = "buy" THEN m.price <= o.price
                                           ELSE m.price >= o.price
        IN /\ incoming.kind = "limit" => within(incoming)
           /\ \A n \in Queue(m.ticker, Opposite(incoming.side)) :
                n \notin DOMAIN book' \/ book'[n] # book[n] => within(book[n])

TopFilledFirst ==
    matches' # matches /\ matches' # <<>> =>
        \A n, m \in Queue(incoming.ticker, Opposite(incoming.side)) :
            /\ n \notin DOMAIN book' \/ book'[n] # book[n]
            /\ m # n
            => \/ book[n].side = "buy"  /\ book[n].price > book[m].price
               \/ book[n].side = "sell" /\ book[n].price < book[m].price
               \/ book[n].price = book[m].price /\ n < m

LEMMA StepTrades == Inv /\ EngineStep => TradeWithinLimits /\ TopFilledFirst
<1> SUFFICES ASSUME Inv, EngineStep, matches' # matches, matches' # <<>>
             PROVE  TradeWithinLimits /\ TopFilledFirst
  BY DEF TradeWithinLimits, TopFilledFirst
<1>1. Match
  BY OnlyMatchTrades
<1>2. PICK n \in TopOrder(incoming.ticker, Opposite(incoming.side)) :
          /\ book[n] \in OrderType /\ book[n].kind = "limit"
          /\ book[n].side = Opposite(incoming.side)
          /\ Crosses(Buyer(book[n]), Seller(book[n]))
          /\ matches'[Len(matches')].price
               = MatchPrice(Buyer(book[n]), Seller(book[n]))
          /\ \A m \in DOMAIN book \ {n} : m \in DOMAIN book' /\ book'[m] = book[m]
  BY <1>1, MatchTakesTop
<1>3. LET price == MatchPrice(Buyer(book[n]), Seller(book[n]))
          within(x) == IF x.side = "buy" THEN price <= x.price ELSE price >= x.price
      IN within(book[n]) /\ (incoming.kind = "limit" => within(incoming))
  BY <1>1, <1>2, PriceWithinLimits
<1>4. TradeWithinLimits
  BY <1>2, <1>3 DEF TradeWithinLimits, Queue
<1>5. \A m \in Queue(incoming.ticker, Opposite(incoming.side)) \ {n} : Before(n, m)
  BY DEF TopOrder
<1>6. TopFilledFirst
  BY <1>2, <1>5 DEF TopFilledFirst, Queue, Before
<1> QED
  BY <1>4, <1>6

\* No trade is priced beyond the limit of either order.
THEOREM TradesPricedWithinLimits == Spec => TradesWithinLimits
<1>1. Inv /\ [Next]_vars => TradeWithinLimits
  BY NextIsEngineStep, StepTrades DEF Inv
<1> QED
  BY <1>1, InvInvariant, PTL DEF Spec, TradesWithinLimits, TradeWithinLimits

\* No order is filled while one with priority over it waits.
THEOREM PriorityKept == Spec => PriceTimePriority
<1>1. Inv /\ [Next]_vars => TopFilledFirst
  BY NextIsEngineStep, StepTrades DEF Inv
<1> QED
  BY <1>1, InvInvariant, PTL DEF Spec, PriceTimePriority, TopFilledFirst

-----------------------------------------------------------------------------
(***************************************************************************)
(* Arithmetic of Decimal.                                                  *)
(***************************************************************************)
\* Capital is kept at Scale 4 in whole multiples of Scale 2, so that reading
\* it back loses nothing.
LEMMA NarrowWiden ==
  ASSUME NEW d \in Int, d % Multiplier = 0, NEW a \in Int
  PROVE  /\ d + Widen(a) \in Int
         /\ (d + Widen(a)) % Multiplier = 0
         /\ Narrow(d + Widen(a)) = Narrow(d) + a
         /\ Narrow(d) \in Int
BY DEF Narrow, Widen, Quotient, Multiplier

\* The product of two decimals that are not negative is not negative.
LEMMA TimesNat ==
  ASSUME NEW a \in Nat, NEW b \in Nat
  PROVE  Times(a, b) \in Nat
<1>1. a * b \in Nat
  OBVIOUS
<1> QED
  BY <1>1 DEF Times, Quotient, Multiplier

\* What is checked is what is charged, at a price that is not below zero.
LEMMA ChargeIsCostNat ==
  ASSUME NEW price \in Nat, NEW quantity \in Nat
  PROVE  Times(Times(price, One + OrderFee), quantity)
            = TotalOrderCost(price, quantity)
<1>1. OrderFee \in Nat
  BY FeeAssumption DEF One, Multiplier
<1>2. price * (100 + OrderFee) = 100 * price + OrderFee * price
  BY <1>1
<1>3. OrderFee * price \in Nat
  BY <1>1
<1>4. PICK x \in Nat : x = OrderFee * price
  BY <1>3
<1>5. (100 * price + x) \div 100 = price + (x \div 100)
  BY <1>4
<1>6. Times(OrderFee, price) = x \div 100
  BY <1>4 DEF Times, Quotient, Multiplier
<1>7. Times(price, One + OrderFee) = (100 * price + x) \div 100
  BY <1>2, <1>4 DEF Times, Quotient, Multiplier, One
<1> QED
  BY <1>5, <1>6, <1>7 DEF TotalOrderCost

\* The product of decimals that are not negative grows with its factors.
LEMMA TimesMonotone ==
  ASSUME NEW a \in Nat, NEW b \in Nat, NEW c \in Nat, a <= b
  PROVE  Times(a, c) <= Times(b, c) /\ Times(c, a) <= Times(c, b)
<1>1. PICK d \in Nat : b = a + d
  BY b - a \in Nat
<1>2. b * c = a * c + d * c /\ c * b = c * a + c * d
  BY <1>1
<1>3. /\ a * c \in Nat /\ d * c \in Nat /\ c * a \in Nat /\ c * d \in Nat
  BY <1>1
<1>4. \A x, y \in Nat : x \div 100 <= (x + y) \div 100
  OBVIOUS
<1>5. /\ Times(a, c) = (a * c) \div 100 /\ Times(b, c) = (b * c) \div 100
      /\ Times(c, a) = (c * a) \div 100 /\ Times(c, b) = (c * b) \div 100
  BY <1>2, <1>3 DEF Times, Quotient, Multiplier
<1>6. (a * c) \div 100 <= (a * c + d * c) \div 100
  BY <1>3, <1>4
<1>7. (c * a) \div 100 <= (c * a + c * d) \div 100
  BY <1>3, <1>4
<1> QED
  BY <1>2, <1>5, <1>6, <1>7

\* The seller receives something between nothing and what the buyer pays, at a
\* price that is not below zero.
LEMMA FeeSplitNat ==
  ASSUME NEW price \in Nat, NEW quantity \in Nat
  PROVE  LET paid == Times(Times(price, One + OrderFee), quantity)
             received == Times(Times(price, One - OrderFee), quantity)
         IN paid \in Nat /\ received \in Nat /\ received <= paid
<1>1. One + OrderFee \in Nat /\ One - OrderFee \in Nat
      /\ One - OrderFee <= One + OrderFee
  BY FeeAssumption DEF One, Multiplier
<1> DEFINE gross == Times(price, One + OrderFee)
           net == Times(price, One - OrderFee)
<1>2. gross \in Nat /\ net \in Nat
  BY <1>1, TimesNat
<1>3. net <= gross
  BY <1>1, TimesMonotone
<1> HIDE DEF gross, net
<1>4. /\ Times(gross, quantity) \in Nat /\ Times(net, quantity) \in Nat
      /\ Times(net, quantity) <= Times(gross, quantity)
  BY <1>2, <1>3, TimesNat, TimesMonotone
<1> QED
  BY <1>4 DEF gross, net

\* The product of two decimals is a decimal.
LEMMA TimesInt == \A a, b \in Int : Times(a, b) \in Int
<1>1. \A x \in Int : Quotient(x, 100) \in Int
  BY DEF Quotient
<1>2. \A a, b \in Int : a * b \in Int
  OBVIOUS
<1> QED
  BY <1>1, <1>2 DEF Times, Multiplier

\* Rounding toward zero treats both signs alike.
LEMMA TimesOdd ==
  ASSUME NEW a \in Int, NEW b \in Int
  PROVE  /\ Times(0 - a, b) = 0 - Times(a, b)
         /\ Times(b, 0 - a) = 0 - Times(b, a)
<1>1. PICK x \in Int : x = a * b
  OBVIOUS
<1>2. (0 - a) * b = 0 - x /\ b * (0 - a) = 0 - x /\ b * a = x
  BY <1>1
<1>3. \A y \in Int : Quotient(0 - y, 100) = 0 - Quotient(y, 100)
  BY DEF Quotient
<1> QED
  BY <1>1, <1>2, <1>3 DEF Times, Multiplier

\* What the engine checks that the buyer can pay is what it then charges,
\* although one rounds the fee and the other the price with the fee on it.
LEMMA ChargeIsCost ==
  ASSUME NEW price \in Int, NEW quantity \in Nat
  PROVE  Times(Times(price, One + OrderFee), quantity)
            = TotalOrderCost(price, quantity)
<1>1. OrderFee \in Int /\ One + OrderFee \in Int
  BY FeeAssumption DEF One, Multiplier
<1>2. CASE price >= 0
  BY <1>2, ChargeIsCostNat
<1>3. CASE price < 0
  <2>1. PICK p \in Nat : price = 0 - p
    BY <1>3, 0 - price \in Nat
  <2> DEFINE up == Times(p, One + OrderFee)
             fee == Times(OrderFee, p)
  <2>2. up \in Int /\ fee \in Int
    <3>1. p \in Int
      OBVIOUS
    <3> QED
      BY <1>1, <3>1, TimesInt, Zenon
  <2>3. Times(0 - p, One + OrderFee) = 0 - up
    BY <1>1, TimesOdd
  <2>4. Times(OrderFee, 0 - p) = 0 - fee
    BY <1>1, TimesOdd
  <2>5. Times(up, quantity) = Times(p + fee, quantity)
    BY ChargeIsCostNat DEF TotalOrderCost
  <2> HIDE DEF up, fee
  <2>6. Times(0 - up, quantity) = 0 - Times(up, quantity)
    BY <2>2, TimesOdd
  <2>7. Times(0 - (p + fee), quantity) = 0 - Times(p + fee, quantity)
    BY <2>2, TimesOdd
  <2>8. (0 - p) + (0 - fee) = 0 - (p + fee)
    BY <2>2
  <2> QED
    BY <2>1, <2>3, <2>4, <2>5, <2>6, <2>7, <2>8 DEF TotalOrderCost
<1> QED
  BY <1>2, <1>3

\* Below zero the fee turns around: the seller pays no more than the buyer is
\* paid.
LEMMA FeeSplit ==
  ASSUME NEW price \in Int, NEW quantity \in Nat
  PROVE  LET paid == Times(Times(price, One + OrderFee), quantity)
             received == Times(Times(price, One - OrderFee), quantity)
         IN /\ paid \in Int /\ received \in Int
            /\ price >= 0 => 0 <= received /\ received <= paid
            /\ price < 0 => paid <= received /\ received <= 0
<1>1. One + OrderFee \in Int /\ One - OrderFee \in Int
  BY FeeAssumption DEF One, Multiplier
<1>2. CASE price >= 0
  BY <1>2, FeeSplitNat
<1>3. CASE price < 0
  <2>1. PICK p \in Nat : price = 0 - p
    BY <1>3, 0 - price \in Nat
  <2> DEFINE gross == Times(p, One + OrderFee)
             net == Times(p, One - OrderFee)
  <2>2. gross \in Int /\ net \in Int
    <3>1. p \in Int
      OBVIOUS
    <3> QED
      BY <1>1, <3>1, TimesInt, Zenon
  <2>3. Times(0 - p, One + OrderFee) = 0 - gross
    BY <1>1, TimesOdd
  <2>4. Times(0 - p, One - OrderFee) = 0 - net
    BY <1>1, TimesOdd
  <2>5. /\ Times(gross, quantity) \in Nat /\ Times(net, quantity) \in Nat
        /\ Times(net, quantity) <= Times(gross, quantity)
    BY FeeSplitNat
  <2> HIDE DEF gross, net
  <2>6. Times(0 - gross, quantity) = 0 - Times(gross, quantity)
    BY <2>2, TimesOdd
  <2>7. Times(0 - net, quantity) = 0 - Times(net, quantity)
    BY <2>2, TimesOdd
  <2> DEFINE x == Times(gross, quantity)
             y == Times(net, quantity)
  <2>8. /\ Times(Times(price, One + OrderFee), quantity) = 0 - x
        /\ Times(Times(price, One - OrderFee), quantity) = 0 - y
    BY <2>1, <2>3, <2>4, <2>6, <2>7
  <2>9. x \in Nat /\ y \in Nat /\ y <= x
    BY <2>5
  <2> HIDE DEF x, y
  <2> QED
    BY <1>3, <2>8, <2>9
<1> QED
  BY <1>2, <1>3

-----------------------------------------------------------------------------
(***************************************************************************)
(* Only a match moves money.                                               *)
(***************************************************************************)
SameMoney(pf, new) ==
    \A t \in Traders : /\ new[t].capital_delta = pf[t].capital_delta
                       /\ new[t].holdings = pf[t].holdings

\* A call on a book moves no money.
LEMMA BookMoney ==
  ASSUME BookType, NEW pf \in [Traders -> PortfolioType]
  PROVE  /\ \A n \in DOMAIN book : RemoveOrder(n, pf) => SameMoney(pf, portfolio')
         /\ \A n \in DOMAIN book, q \in Int :
                ReduceOrder(n, q, pf) => SameMoney(pf, portfolio')
<1>1. ASSUME NEW n \in DOMAIN book, RemoveOrder(n, pf)
      PROVE  SameMoney(pf, portfolio')
  <2>1. book[n] \in OrderType /\ -book[n].qty \in Int
    BY DEF BookType, OrderType
  <2>2. portfolio' = PositionChange(pf, book[n], -book[n].qty)
    BY <1>1 DEF RemoveOrder
  <2> QED
    BY <2>1, <2>2, PositionChangeEffect DEF SameMoney
<1>2. ASSUME NEW n \in DOMAIN book, NEW q \in Int, ReduceOrder(n, q, pf)
      PROVE  SameMoney(pf, portfolio')
  <2>1. CASE book[n].qty = q
    BY <1>1, <1>2, <2>1 DEF ReduceOrder
  <2>2. CASE book[n].qty # q
    <3>1. book[n] \in OrderType /\ -q \in Int
      BY DEF BookType
    <3>2. portfolio' = PositionChange(pf, book[n], -q)
      BY <1>2, <2>2 DEF ReduceOrder
    <3> QED
      BY <3>1, <3>2, PositionChangeEffect DEF SameMoney
  <2> QED
    BY <2>1, <2>2
<1> QED
  BY <1>1, <1>2

\* What settling a trade between two traders changes.
LEMMA SettleMoney ==
  ASSUME NEW pf \in [Traders -> PortfolioType],
         NEW b \in OrderType, NEW s \in OrderType, b.trader # s.trader,
         NEW price \in Int, NEW q \in Nat
  PROVE  LET new == Settle(pf, b, s, price, q)
             paid == Times(Times(price, One + OrderFee), q)
             received == Times(Times(price, One - OrderFee), q)
         IN /\ new[b.trader].capital_delta
                  = pf[b.trader].capital_delta + Widen(-paid)
            /\ new[s.trader].capital_delta
                  = pf[s.trader].capital_delta + Widen(received)
            /\ new[b.trader].holdings
                  = [pf[b.trader].holdings EXCEPT ![b.ticker] = @ + q]
            /\ new[s.trader].holdings
                  = [pf[s.trader].holdings EXCEPT ![b.ticker] = @ - q]
            /\ \A t \in Traders \ {b.trader, s.trader} : new[t] = pf[t]
<1>1. /\ b.trader \in Traders /\ b.ticker \in Tickers /\ s.trader \in Traders
      /\ pf[b.trader] \in PortfolioType /\ pf[s.trader] \in PortfolioType
  BY DEF OrderType
<1>2. One + OrderFee \in Int /\ One - OrderFee \in Int
  BY FeeAssumption DEF One, Multiplier
<1> DEFINE gross == Times(price, One + OrderFee)
           net == Times(price, One - OrderFee)
           debited == NotifyMatch(pf[b.trader], b.ticker, "buy", q, gross)
           credited == NotifyMatch(pf[s.trader], b.ticker, "sell", q, net)
<1>3. gross \in Int /\ net \in Int
  BY <1>2, TimesInt
<1>4. Settle(pf, b, s, price, q)
        = [pf EXCEPT ![b.trader] = debited, ![s.trader] = credited]
  BY DEF Settle
<1> HIDE DEF gross, net
<1>5. /\ debited.capital_delta = pf[b.trader].capital_delta + Widen(-Times(gross, q))
      /\ debited.holdings = [pf[b.trader].holdings EXCEPT ![b.ticker] = @ + q]
  BY DEF NotifyMatch
<1>6. /\ credited.capital_delta = pf[s.trader].capital_delta + Widen(Times(net, q))
      /\ credited.holdings = [pf[s.trader].holdings EXCEPT ![b.ticker] = @ - q]
  <2>1. pf[s.trader].holdings \in [Tickers -> Int]
    BY <1>1 DEF PortfolioType
  <2>2. credited.capital_delta = pf[s.trader].capital_delta + Widen(Times(net, q))
    BY DEF NotifyMatch
  <2>3. credited.holdings = [pf[s.trader].holdings EXCEPT ![b.ticker] = @ + (-q)]
    BY DEF NotifyMatch
  <2> QED
    BY <1>1, <2>1, <2>2, <2>3
<1> HIDE DEF debited, credited
<1> QED
  BY <1>1, <1>4, <1>5, <1>6 DEF gross, net

-----------------------------------------------------------------------------
(***************************************************************************)
(* Every match is a trade of the ledger.  LedgerInv says why it is priced  *)
(* below zero only when the incoming order sells below zero: the book      *)
(* rejects such an order, though only by terminating; and why narrowing    *)
(* capital loses nothing.                                                  *)
(***************************************************************************)
LedgerInv ==
    /\ \A t \in Traders : portfolio[t].capital_delta % Multiplier = 0
    /\ status = "running" => \A n \in DOMAIN book : book[n].price >= 0

\* A match is made at the price of one of the two orders, which is below zero
\* only if the incoming order sells below zero, for some quantity, between two
\* traders, when the buyer can pay and the seller can deliver, and settles that.
LEMMA MatchSettles ==
  ASSUME Inv, LedgerInv, Match
  PROVE  \E b, s \in OrderType, price \in Int, q \in Nat :
            /\ q > 0
            /\ price < 0 => SellsBelowZero(s.trader)
            /\ \E i \in DOMAIN matches' : matches'[i].price = price
            /\ b.trader # s.trader
            /\ ~BuyerShort(b, s) /\ ~SellerShort(b, s)
            /\ price = MatchPrice(b, s) /\ q = MatchQuantity(b, s)
            /\ SameMoney(Settle(portfolio, b, s, price, q), portfolio')
<1>1. /\ BookType /\ IncomingType /\ portfolio \in [Traders -> PortfolioType]
      /\ incoming # NoOrder /\ incoming \in OrderType
      /\ incoming.qty > 0 /\ status = "running"
  BY DEF Inv, TypeInv, IncomingType, NotOverfilled, Match, Matching, OrderType
<1>2. PICK n \in TopOrder(incoming.ticker, Opposite(incoming.side)) :
        LET b == Buyer(book[n])
            s == Seller(book[n])
            price == MatchPrice(b, s)
            quantity == MatchQuantity(b, s)
        IN /\ AttemptMatch(b, s) = "match"
           /\ matches' = Append(matches,
                [buyer |-> b.trader, seller |-> s.trader, ticker |-> b.ticker,
                 side |-> incoming.side, qty |-> quantity, price |-> price])
           /\ ReduceOrder(n, quantity, Settle(portfolio, b, s, price, quantity))
  BY DEF Match
<1> DEFINE b == Buyer(book[n])
           s == Seller(book[n])
           price == MatchPrice(b, s)
           quantity == MatchQuantity(b, s)
           settled == Settle(portfolio, b, s, price, quantity)
<1>3. /\ n \in DOMAIN book /\ b \in OrderType /\ s \in OrderType
      /\ price \in Int /\ quantity \in Int
  BY <1>1, PairType
<1>4. AttemptMatch(b, s) = "match" /\ ReduceOrder(n, quantity, settled)
  BY <1>2
<1>5. /\ Crosses(b, s) /\ ~BuyerShort(b, s) /\ ~SellerShort(b, s)
      /\ b.trader # s.trader
  BY <1>4 DEF AttemptMatch
<1>6. /\ book[n] \in OrderType /\ book[n].kind = "limit"
      /\ book[n].qty > 0 /\ book[n].price >= 0
  BY <1>1, <1>3 DEF Inv, TrackerMatchesBook, BookType, LedgerInv
<1>7. quantity > 0
  BY <1>1, <1>3, <1>6 DEF MatchQuantity, Buyer, Seller, OrderType
<1>8. price < 0 => SellsBelowZero(s.trader)
  <2>1. CASE incoming.side = "buy"
    BY <1>1, <1>3, <1>5, <1>6, <2>1
       DEF MatchPrice, Crosses, Buyer, Seller, OrderType
  <2>2. CASE incoming.side = "sell"
    <3>1. s = incoming /\ b = book[n]
      BY <2>2 DEF Buyer, Seller
    <3>2. \/ price = book[n].price
          \/ incoming.kind = "limit" /\ price = incoming.price
      <4>1. incoming.kind = "limit" \/ incoming.kind = "market"
        BY <1>1 DEF OrderType
      <4>2. b.kind = "limit"
        BY <1>6, <3>1
      <4> QED
        BY <3>1, <4>1, <4>2 DEF MatchPrice
    <3> QED
      BY <1>1, <1>3, <1>6, <2>2, <3>1, <3>2 DEF SellsBelowZero, OrderType
  <2> QED
    BY <1>1, <2>1, <2>2 DEF OrderType, Sides
<1>9. settled \in [Traders -> PortfolioType]
  BY <1>1, <1>3, SettleType
<1>10. SameMoney(settled, portfolio')
  BY <1>1, <1>3, <1>4, <1>9, BookMoney
<1>11. quantity \in Nat
  BY <1>3, <1>7
<1>12. \E i \in DOMAIN matches' : matches'[i].price = price
  <2>1. PICK match : /\ matches' = Append(matches, match) /\ match.price = price
    BY <1>2
  <2>2. \E T : matches \in Seq(T)
    BY DEF Inv, TypeInv
  <2>3. Len(matches) + 1 \in DOMAIN matches' /\ matches'[Len(matches) + 1] = match
    BY <2>1, <2>2
  <2> QED
    BY <2>1, <2>3
<1> QED
  BY <1>3, <1>5, <1>7, <1>8, <1>10, <1>11, <1>12

\* A match moves capital and holdings as a trade of the ledger does.
LEMMA MatchTrades ==
  ASSUME Inv, LedgerInv, Match
  PROVE  /\ \A t \in Traders : portfolio'[t].capital_delta % Multiplier = 0
         /\ \E b, s \in Traders, k \in Tickers, q \in Nat, paid, received \in Int :
              /\ b # s /\ q > 0
              /\ \/ 0 <= received /\ received <= paid
                 \/ /\ paid <= received /\ received <= 0 /\ SellsBelowZero(s)
                    /\ \E i \in DOMAIN matches' : matches'[i].price < 0
              /\ b \notin Leveraged => paid <= CapitalOf[b]
              /\ s \notin Leveraged => q <= HoldingsOf[s][k]
              /\ CapitalOf' = [CapitalOf EXCEPT ![b] = @ - paid,
                                                ![s] = @ + received]
              /\ HoldingsOf' = [HoldingsOf EXCEPT
                    ![b] = [HoldingsOf[b] EXCEPT ![k] = @ + q],
                    ![s] = [HoldingsOf[s] EXCEPT ![k] = @ - q]]
<1>1. PICK b \in OrderType, s \in OrderType, price \in Int, q \in Nat :
            /\ q > 0
            /\ price < 0 => SellsBelowZero(s.trader)
            /\ \E i \in DOMAIN matches' : matches'[i].price = price
            /\ b.trader # s.trader
            /\ ~BuyerShort(b, s) /\ ~SellerShort(b, s)
            /\ price = MatchPrice(b, s) /\ q = MatchQuantity(b, s)
            /\ SameMoney(Settle(portfolio, b, s, price, q), portfolio')
  BY MatchSettles
<1> DEFINE new == Settle(portfolio, b, s, price, q)
           paid == Times(Times(price, One + OrderFee), q)
           received == Times(Times(price, One - OrderFee), q)
           k == b.ticker
<1>2. /\ portfolio \in [Traders -> PortfolioType]
      /\ b.trader \in Traders /\ s.trader \in Traders /\ k \in Tickers
      /\ InitialCapital \in [Traders -> Nat]
      /\ \A t \in Traders : /\ portfolio[t].capital_delta \in Int
                            /\ portfolio[t].capital_delta % Multiplier = 0
                            /\ portfolio[t].holdings \in [Tickers -> Int]
  BY CapitalAssumption DEF Inv, TypeInv, OrderType, PortfolioType, LedgerInv
<1>3. /\ paid \in Int /\ received \in Int
      /\ \/ 0 <= received /\ received <= paid
         \/ /\ paid <= received /\ received <= 0 /\ SellsBelowZero(s.trader)
            /\ \E i \in DOMAIN matches' : matches'[i].price < 0
  <2>1. /\ paid \in Int /\ received \in Int
        /\ price >= 0 => 0 <= received /\ received <= paid
        /\ price < 0 => paid <= received /\ received <= 0
    BY <1>1, FeeSplit
  <2>2. price < 0 => /\ SellsBelowZero(s.trader)
                     /\ \E i \in DOMAIN matches' : matches'[i].price < 0
    BY <1>1
  <2>3. price >= 0 \/ price < 0
    OBVIOUS
  <2> QED
    BY <2>1, <2>2, <2>3
<1>4. paid = TotalOrderCost(price, q)
  BY ChargeIsCost
<1>5. /\ new[b.trader].capital_delta
            = portfolio[b.trader].capital_delta + Widen(-paid)
      /\ new[s.trader].capital_delta
            = portfolio[s.trader].capital_delta + Widen(received)
      /\ new[b.trader].holdings = [portfolio[b.trader].holdings EXCEPT ![k] = @ + q]
      /\ new[s.trader].holdings = [portfolio[s.trader].holdings EXCEPT ![k] = @ - q]
      /\ \A t \in Traders \ {b.trader, s.trader} : new[t] = portfolio[t]
  <2>1. b.trader # s.trader /\ portfolio \in [Traders -> PortfolioType]
    BY <1>1, <1>2
  <2> QED
    BY <2>1, SettleMoney
<1>6. \A t \in Traders : /\ portfolio'[t].capital_delta = new[t].capital_delta
                        /\ portfolio'[t].holdings = new[t].holdings
  BY <1>1 DEF SameMoney
<1> HIDE DEF new, paid, received, k
<1>7. /\ portfolio'[b.trader].capital_delta % Multiplier = 0
      /\ Narrow(portfolio'[b.trader].capital_delta)
            = Narrow(portfolio[b.trader].capital_delta) + (-paid)
      /\ Narrow(portfolio[b.trader].capital_delta) \in Int
  <2>1. portfolio'[b.trader].capital_delta
            = portfolio[b.trader].capital_delta + Widen(-paid)
    BY <1>2, <1>5, <1>6
  <2>2. -paid \in Int
    BY <1>3
  <2> QED
    BY <1>2, <2>1, <2>2, NarrowWiden
<1>8. /\ portfolio'[s.trader].capital_delta % Multiplier = 0
      /\ Narrow(portfolio'[s.trader].capital_delta)
            = Narrow(portfolio[s.trader].capital_delta) + received
      /\ Narrow(portfolio[s.trader].capital_delta) \in Int
  <2>1. portfolio'[s.trader].capital_delta
            = portfolio[s.trader].capital_delta + Widen(received)
    BY <1>2, <1>5, <1>6
  <2>2. received \in Int
    BY <1>3
  <2> QED
    BY <1>2, <2>1, <2>2, NarrowWiden
<1>9. \A t \in Traders \ {b.trader, s.trader} :
        /\ portfolio'[t].capital_delta = portfolio[t].capital_delta
        /\ portfolio'[t].holdings = portfolio[t].holdings
  BY <1>5, <1>6
<1>10. \A t \in Traders : portfolio'[t].capital_delta % Multiplier = 0
  BY <1>2, <1>7, <1>8, <1>9
<1>11. CapitalOf' = [CapitalOf EXCEPT ![b.trader] = @ - paid,
                                      ![s.trader] = @ + received]
  <2>1. CapitalOf' = [t \in Traders |-> InitialCapital[t]
                                          + Narrow(portfolio'[t].capital_delta)]
    BY DEF CapitalOf, Capital
  <2>2. CapitalOf = [t \in Traders |-> InitialCapital[t]
                                         + Narrow(portfolio[t].capital_delta)]
    BY DEF CapitalOf, Capital
  <2>3. \A t \in Traders : CapitalOf'[t] =
            IF t = s.trader THEN CapitalOf[t] + received
            ELSE IF t = b.trader THEN CapitalOf[t] - paid ELSE CapitalOf[t]
    BY <1>1, <1>2, <1>3, <1>7, <1>8, <1>9, <2>1, <2>2
  <2> QED
    BY <1>1, <1>2, <2>1, <2>2, <2>3
<1>12. HoldingsOf' = [HoldingsOf EXCEPT
            ![b.trader] = [HoldingsOf[b.trader] EXCEPT ![k] = @ + q],
            ![s.trader] = [HoldingsOf[s.trader] EXCEPT ![k] = @ - q]]
  <2>1. /\ HoldingsOf' = [t \in Traders |-> portfolio'[t].holdings]
        /\ HoldingsOf = [t \in Traders |-> portfolio[t].holdings]
    BY DEF HoldingsOf
  <2>2. /\ portfolio'[b.trader].holdings
               = [portfolio[b.trader].holdings EXCEPT ![k] = @ + q]
        /\ portfolio'[s.trader].holdings
               = [portfolio[s.trader].holdings EXCEPT ![k] = @ - q]
    BY <1>2, <1>5, <1>6
  <2> QED
    BY <1>1, <1>2, <1>9, <2>1, <2>2
<1>13. b.trader \notin Leveraged => paid <= CapitalOf[b.trader]
  <2>1. CapitalOf[b.trader] \in Int
    BY <1>2, <1>7 DEF CapitalOf, Capital
  <2> QED
    BY <1>1, <1>2, <1>3, <1>4, <2>1 DEF BuyerShort, CapitalOf
<1>14. s.trader \notin Leveraged => q <= HoldingsOf[s.trader][k]
  BY <1>1, <1>2 DEF SellerShort, HoldingsOf, k
<1> QED
  BY <1>1, <1>2, <1>3, <1>10, <1>11, <1>12, <1>13, <1>14

\* No step but a match moves money.
LEMMA OtherStepsMoney ==
  ASSUME Inv, EngineStep, ~Match
  PROVE  SameMoney(portfolio, portfolio')
<1>1. /\ BookType /\ IncomingType /\ portfolio \in [Traders -> PortfolioType]
      /\ status = "running" => \A i \in DOMAIN order_map : order_map[i] \in DOMAIN book
  BY DEF Inv, TypeInv, TrackerMatchesBook
<1>2. ASSUME portfolio' = portfolio PROVE SameMoney(portfolio, portfolio')
  BY <1>2 DEF SameMoney
<1>3. CASE \E ticker \in Tickers, id \in Nat : Cancel(ticker, id)
  BY <1>1, <1>2, <1>3, BookMoney DEF Cancel, Idle
<1>4. CASE RemovePassive
  <2>1. PICK n \in DOMAIN book : RemoveOrder(n, portfolio)
    BY <1>1, <1>4, PairType DEF RemovePassive, Matching
  <2> QED
    BY <1>1, <2>1, BookMoney
<1>5. CASE Rest
  <2>1. /\ incoming \in OrderType /\ incoming.qty \in Int
        /\ portfolio' = PositionChange(portfolio, incoming, incoming.qty)
    BY <1>1, <1>5 DEF Rest, Matching, IncomingType, AddOrder, OrderType
  <2> QED
    BY <1>1, <2>1, PositionChangeEffect DEF SameMoney
<1>6. CASE TakeIn \/ Discard \/ TakeUpdates \/ UNCHANGED vars
  BY <1>2, <1>6 DEF TakeIn, Accept, Drop, Discard, TakeUpdates, vars
<1> QED
  BY <1>3, <1>4, <1>5, <1>6 DEF EngineStep, MatchStep

\* A call on a book that is not add_order leaves no price in it that was not
\* there.
LEMMA BookPrices ==
  ASSUME BookType, \A n \in DOMAIN book : book[n].price >= 0, NEW pf
  PROVE  /\ \A n \in DOMAIN book : RemoveOrder(n, pf) =>
                \A m \in DOMAIN book' : book'[m].price >= 0
         /\ \A n \in DOMAIN book, q \in Int : ReduceOrder(n, q, pf) =>
                \A m \in DOMAIN book' : book'[m].price >= 0
<1>1. ASSUME NEW n \in DOMAIN book, RemoveOrder(n, pf)
      PROVE  \A m \in DOMAIN book' : book'[m].price >= 0
  BY <1>1 DEF RemoveOrder, Erase
<1>2. ASSUME NEW n \in DOMAIN book, NEW q \in Int, ReduceOrder(n, q, pf)
      PROVE  \A m \in DOMAIN book' : book'[m].price >= 0
  <2>1. CASE book[n].qty = q
    BY <1>1, <1>2, <2>1 DEF ReduceOrder
  <2>2. CASE book[n].qty # q
    <3>1. book' = [book EXCEPT ![n] = [book[n] EXCEPT !.qty = @ - q]]
      BY <1>2, <2>2 DEF ReduceOrder
    <3>2. [book[n] EXCEPT !.qty = @ - q].price = book[n].price
      BY DEF BookType, OrderType
    <3> QED
      BY <3>1, <3>2
  <2> QED
    BY <2>1, <2>2
<1> QED
  BY <1>1, <1>2

\* Every step keeps LedgerInv.
LEMMA StepLedgerInv == Inv /\ LedgerInv /\ EngineStep => LedgerInv'
<1> SUFFICES ASSUME Inv, LedgerInv, EngineStep PROVE LedgerInv'
  OBVIOUS
<1>1. /\ BookType /\ IncomingType /\ portfolio \in [Traders -> PortfolioType]
      /\ status = "running" => \A i \in DOMAIN order_map : order_map[i] \in DOMAIN book
  BY DEF Inv, TypeInv, TrackerMatchesBook
<1>2. \A t \in Traders : portfolio'[t].capital_delta % Multiplier = 0
  <2>1. CASE Match
    BY <2>1, MatchTrades
  <2>2. CASE ~Match
    BY <2>2, OtherStepsMoney DEF SameMoney, LedgerInv
  <2> QED
    BY <2>1, <2>2
<1>3. status' = "running" => \A n \in DOMAIN book' : book'[n].price >= 0
  <2> SUFFICES ASSUME status' = "running"
               PROVE  \A n \in DOMAIN book' : book'[n].price >= 0
    OBVIOUS
  <2>0. status = "running"
    BY DEF EngineStep, TakeIn, Accept, Drop, Idle, Cancel, MatchStep, Match, Rest,
           RemovePassive, Discard, Matching, TakeUpdates, vars
  <2>1. \A n \in DOMAIN book : book[n].price >= 0
    BY <2>0 DEF LedgerInv
  <2>2. ASSUME book' = book
        PROVE  \A n \in DOMAIN book' : book'[n].price >= 0
    BY <2>1, <2>2
  <2>3. CASE \E ticker \in Tickers, id \in Nat : Cancel(ticker, id)
    BY <1>1, <2>0, <2>1, <2>2, <2>3, BookPrices DEF Cancel, bookVars
  <2>4. CASE RemovePassive
    <3>1. PICK n \in DOMAIN book : RemoveOrder(n, portfolio)
      BY <1>1, <2>4, PairType DEF RemovePassive, Matching
    <3> QED
      BY <1>1, <2>1, <3>1, BookPrices
  <2>5. CASE Match
    <3>1. PICK n \in TopOrder(incoming.ticker, Opposite(incoming.side)) :
            ReduceOrder(n, MatchQuantity(Buyer(book[n]), Seller(book[n])),
                        Settle(portfolio, Buyer(book[n]), Seller(book[n]),
                               MatchPrice(Buyer(book[n]), Seller(book[n])),
                               MatchQuantity(Buyer(book[n]), Seller(book[n]))))
      BY <2>5 DEF Match
    <3>2. n \in DOMAIN book /\ MatchQuantity(Buyer(book[n]), Seller(book[n])) \in Int
      BY <1>1, <2>5, PairType DEF Match, Matching
    <3> QED
      BY <1>1, <2>1, <3>1, <3>2, BookPrices
  <2>6. CASE Rest
    <3>1. incoming \in OrderType /\ AddOrder(incoming)
      BY <1>1, <2>6 DEF Rest, Matching, IncomingType
    <3>2. incoming.price >= 0
      BY <3>1 DEF AddOrder, OrderType
    <3>3. \A n \in DOMAIN book' :
            book'[n] = incoming \/ (n \in DOMAIN book /\ book'[n] = book[n])
      BY <3>1 DEF AddOrder, Put
    <3> QED
      BY <2>1, <3>2, <3>3
  <2>7. CASE TakeIn \/ Discard \/ TakeUpdates \/ UNCHANGED vars
    BY <2>2, <2>7 DEF TakeIn, Accept, Drop, Discard, TakeUpdates, vars, bookVars
  <2> QED
    BY <2>3, <2>4, <2>5, <2>6, <2>7 DEF EngineStep, MatchStep
<1> QED
  BY <1>2, <1>3 DEF LedgerInv

\* LedgerInv is an invariant.
LEMMA LedgerInvInvariant == Spec => [](Inv /\ LedgerInv)
<1>1. Init => LedgerInv
  BY DEF Init, LedgerInv, EmptyPortfolio, Multiplier
<1>2. Inv /\ LedgerInv /\ [Next]_vars => LedgerInv'
  BY NextIsEngineStep, StepLedgerInv DEF Inv
<1> QED
  BY <1>1, <1>2, InvInvariant, PTL DEF Spec

-----------------------------------------------------------------------------
\* The engine starts as the ledger does ...
LEMMA InitLedger == Init => Accounts!Init
<1> SUFFICES ASSUME Init PROVE Accounts!Init
  OBVIOUS
<1>1. \A t \in Traders : Capital(portfolio[t], InitialCapital[t]) = InitialCapital[t]
  BY CapitalAssumption
     DEF Init, Capital, EmptyPortfolio, Narrow, Quotient, Multiplier
<1>2. InitialCapital = [t \in Traders |-> InitialCapital[t]]
  BY CapitalAssumption
<1>3. \A t \in Traders : portfolio[t].holdings = [k \in Tickers |-> 0]
  BY DEF Init, EmptyPortfolio
<1> QED
  BY <1>1, <1>2, <1>3 DEF Accounts!Init, CapitalOf, HoldingsOf

\* Capital and holdings are numbers.
LEMMA LedgerType ==
  Inv => /\ CapitalOf \in [Traders -> Int]
         /\ HoldingsOf \in [Traders -> [Tickers -> Int]]
<1> SUFFICES ASSUME Inv
             PROVE  /\ CapitalOf \in [Traders -> Int]
                    /\ HoldingsOf \in [Traders -> [Tickers -> Int]]
  OBVIOUS
<1>1. \A t \in Traders : /\ portfolio[t].capital_delta \in Int
                        /\ portfolio[t].holdings \in [Tickers -> Int]
                        /\ InitialCapital[t] \in Nat
  BY CapitalAssumption DEF Inv, TypeInv, PortfolioType
<1> QED
  BY <1>1 DEF CapitalOf, HoldingsOf, Capital, Narrow, Quotient, Multiplier

\* ... and every step is a trade of the ledger or leaves it alone.
LEMMA StepLedger ==
  Inv /\ LedgerInv /\ EngineStep => [Accounts!Next]_(Accounts!ledger)
<1> SUFFICES ASSUME Inv, LedgerInv, EngineStep
             PROVE  [Accounts!Next]_(Accounts!ledger)
  OBVIOUS
<1>1. CASE Match
  <2>1. PICK b \in Traders, s \in Traders, k \in Tickers,
             q \in Nat, paid \in Int, received \in Int :
              /\ b # s /\ q > 0
              /\ \/ 0 <= received /\ received <= paid
                 \/ paid <= received /\ received <= 0 /\ SellsBelowZero(s)
              /\ b \notin Leveraged => paid <= CapitalOf[b]
              /\ s \notin Leveraged => q <= HoldingsOf[s][k]
              /\ CapitalOf' = [CapitalOf EXCEPT ![b] = @ - paid,
                                                ![s] = @ + received]
              /\ HoldingsOf' = [HoldingsOf EXCEPT
                    ![b] = [HoldingsOf[b] EXCEPT ![k] = @ + q],
                    ![s] = [HoldingsOf[s] EXCEPT ![k] = @ - q]]
    BY <1>1, MatchTrades
  <2>2. /\ CapitalOf \in [Traders -> Int]
        /\ HoldingsOf \in [Traders -> [Tickers -> Int]]
    BY LedgerType
  <2>3. /\ HoldingsOf'[b][k] - HoldingsOf[b][k] = q
        /\ CapitalOf[b] - CapitalOf'[b] = paid
        /\ CapitalOf'[s] - CapitalOf[s] = received
    BY <2>1, <2>2
  <2> DEFINE quantity == HoldingsOf'[b][k] - HoldingsOf[b][k]
             debit == CapitalOf[b] - CapitalOf'[b]
             credit == CapitalOf'[s] - CapitalOf[s]
  <2>4. quantity = q /\ debit = paid /\ credit = received
    BY <2>3
  <2> HIDE DEF quantity, debit, credit
  <2>5. /\ b # s /\ quantity > 0
        /\ \/ 0 <= credit /\ credit <= debit
           \/ debit <= credit /\ credit <= 0
        /\ b \notin Leveraged => debit <= CapitalOf[b]
        /\ s \notin Leveraged => quantity <= HoldingsOf[s][k]
        /\ CapitalOf' = [CapitalOf EXCEPT ![b] = @ - debit, ![s] = @ + credit]
        /\ HoldingsOf' = [HoldingsOf EXCEPT
              ![b] = [HoldingsOf[b] EXCEPT ![k] = @ + quantity],
              ![s] = [HoldingsOf[s] EXCEPT ![k] = @ - quantity]]
    BY <2>1, <2>4
  <2>6. Accounts!Deliver(b, s, k)
    BY <2>5, Zenon
       DEF Accounts!Deliver, Accounts!Paid, Accounts!Received, quantity, debit, credit
  <2>7. Accounts!Paid(b) = debit /\ Accounts!Received(s) = credit
    BY DEF Accounts!Paid, Accounts!Received, debit, credit
  <2>8. Accounts!Trade(b, s, k) \/ Accounts!TradeBelowZero(b, s, k)
    BY <2>5, <2>6, <2>7 DEF Accounts!Trade, Accounts!TradeBelowZero
  <2> QED
    BY <2>8 DEF Accounts!Next
<1>2. CASE ~Match
  <2>1. SameMoney(portfolio, portfolio')
    BY <1>2, OtherStepsMoney
  <2>2. UNCHANGED Accounts!ledger
    BY <2>1 DEF Accounts!ledger, SameMoney, Capital, CapitalOf, HoldingsOf
  <2> QED
    BY <2>2
<1> QED
  BY <1>1, <1>2

\* The engine implements the ledger: whatever the order of orders, cancels and
\* matches and whatever their prices, money and assets move only by trades
\* between two traders, of which the buyer can pay and the seller can deliver
\* (engine.cpp:74-105, order_pair.hpp:121-133).
THEOREM EngineImplementsLedger == Spec => ImplementsLedger
<1>1. Inv /\ LedgerInv /\ [Next]_vars => [Accounts!Next]_(Accounts!ledger)
  BY NextIsEngineStep, StepLedger DEF Inv
<1> QED
  BY <1>1, LedgerInvInvariant, InitLedger, PTL DEF Spec, ImplementsLedger, Accounts!Spec

-----------------------------------------------------------------------------
(***************************************************************************)
(* What a trader without leverage may come to owe.                         *)
(***************************************************************************)
DebtIsOwnSale ==
    \A t \in Traders \ Leveraged :
        CapitalOf'[t] < CapitalOf[t] /\ CapitalOf'[t] < 0 => SellsBelowZero(t)

\* A match costs the buyer no more than it has, and the seller nothing unless
\* it sells below zero.
LEMMA StepSolvent ==
  Inv /\ LedgerInv /\ EngineStep =>
      DebtIsOwnSale /\ (HoldingsCovered => HoldingsCovered')
<1> SUFFICES ASSUME Inv, LedgerInv, EngineStep
             PROVE  DebtIsOwnSale /\ (HoldingsCovered => HoldingsCovered')
  OBVIOUS
<1>1. /\ CapitalOf \in [Traders -> Int]
      /\ HoldingsOf \in [Traders -> [Tickers -> Int]]
  BY LedgerType
<1>2. CASE Match
  <2>1. PICK b \in Traders, s \in Traders, k \in Tickers,
             q \in Nat, paid \in Int, received \in Int :
              /\ b # s /\ q > 0
              /\ \/ 0 <= received /\ received <= paid
                 \/ paid <= received /\ received <= 0 /\ SellsBelowZero(s)
              /\ b \notin Leveraged => paid <= CapitalOf[b]
              /\ s \notin Leveraged => q <= HoldingsOf[s][k]
              /\ CapitalOf' = [CapitalOf EXCEPT ![b] = @ - paid,
                                                ![s] = @ + received]
              /\ HoldingsOf' = [HoldingsOf EXCEPT
                    ![b] = [HoldingsOf[b] EXCEPT ![k] = @ + q],
                    ![s] = [HoldingsOf[s] EXCEPT ![k] = @ - q]]
    BY <1>2, MatchTrades
  <2>2. ASSUME NEW t \in Traders \ Leveraged,
               CapitalOf'[t] < CapitalOf[t], CapitalOf'[t] < 0
        PROVE  SellsBelowZero(t)
    <3>1. /\ CapitalOf'[t] = IF t = s THEN CapitalOf[t] + received
                             ELSE IF t = b THEN CapitalOf[t] - paid ELSE CapitalOf[t]
          /\ CapitalOf[t] \in Int
      BY <1>1, <2>1
    <3>2. PICK c \in Int : c = CapitalOf[t]
      BY <3>1
    <3>3. CASE t = b
      BY <2>1, <2>2, <3>1, <3>2, <3>3
    <3>4. CASE t = s
      BY <2>1, <2>2, <3>1, <3>2, <3>4
    <3>5. CASE t # b /\ t # s
      BY <2>2, <3>1, <3>2, <3>5
    <3> QED
      BY <3>3, <3>4, <3>5
  <2>3. ASSUME HoldingsCovered, NEW t \in Traders \ Leveraged, NEW j \in Tickers
        PROVE  HoldingsOf'[t][j] >= 0
    <3>1. HoldingsOf[t] \in [Tickers -> Int] /\ HoldingsOf[t][j] >= 0
      BY <1>1, <2>3 DEF HoldingsCovered, Accounts!HoldingsCovered
    <3>2. CASE t = b
      BY <1>1, <2>1, <3>1, <3>2
    <3>3. CASE t = s
      BY <1>1, <2>1, <2>3, <3>1, <3>3
    <3>4. CASE t # b /\ t # s
      BY <1>1, <2>1, <3>1, <3>4
    <3> QED
      BY <3>2, <3>3, <3>4
  <2> QED
    BY <2>2, <2>3 DEF DebtIsOwnSale, HoldingsCovered, Accounts!HoldingsCovered
<1>3. CASE ~Match
  <2>1. SameMoney(portfolio, portfolio')
    BY <1>3, OtherStepsMoney
  <2>2. CapitalOf' = CapitalOf /\ HoldingsOf' = HoldingsOf
    BY <2>1 DEF SameMoney, Capital, CapitalOf, HoldingsOf
  <2> QED
    BY <1>1, <2>2 DEF DebtIsOwnSale, HoldingsCovered, Accounts!HoldingsCovered
<1> QED
  BY <1>2, <1>3

LEMMA InitCovered == Init => HoldingsCovered
<1>1. Init => Accounts!Init
  BY InitLedger
<1>2. Accounts!Init => HoldingsCovered
  BY DEF Accounts!Init, HoldingsCovered, Accounts!HoldingsCovered
<1> QED
  BY <1>1, <1>2

\* A trader without leverage never sells short, in every state of the matching
\* loop, and comes to owe money by nothing but a sell of its own that it has
\* priced below zero (engine.cpp:94-100).
THEOREM TradersSolvent == Spec => []HoldingsCovered /\ DebtsAreOwnSales
<1>1. Inv /\ LedgerInv /\ [Next]_vars =>
          DebtIsOwnSale /\ (HoldingsCovered => HoldingsCovered')
  BY NextIsEngineStep, StepSolvent DEF Inv
<1> QED
  BY <1>1, InitCovered, LedgerInvInvariant, PTL
  DEF Spec, DebtsAreOwnSales, DebtIsOwnSale

=============================================================================
