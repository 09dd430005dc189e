------------------------- MODULE MatchingCycleProofs -------------------------
(***************************************************************************)
(* The cycle implements the engine: every order that match_orders_ handles *)
(* is one that a client may submit, with an id of generate_order_id, so    *)
(* that each step of the cycle is a step of the engine or leaves it alone. *)
(* What is proved of the engine then holds of the cycle.  The last part    *)
(* follows ids and timestamps from the client's counter and clock through  *)
(* pipe, vector and engine to the trackers of the books.                   *)
(***************************************************************************)
EXTENDS MatchingCycle, MatchingEngineProofs, SequenceTheorems

\* What a client may write.
OrderMessages == {[o EXCEPT !.id = i] : o \in Orders, i \in RecycledIds}
CancelMessages ==
    [kind : {"cancel"}, trader : Traders, ticker : Tickers,
     id : RecycledIds, ts : Int]
ClientMessages == OrderMessages \cup CancelMessages

\* The strengthening: nothing else is ever in a pipe or in a tick's vector.
CycleInv ==
    /\ pipe \in [Traders -> Seq(ClientMessages)]
    /\ orders \subseteq ClientMessages
    /\ count \in [Processes -> Nat]

\* generate_order_id stays within the width of an id.
LEMMA OrderIdRange ==
  ASSUME NEW p \in Processes, NEW n \in Nat
  PROVE  OrderId(p, n) \in RecycledIds
<1>1. p * PidUnit \in Int
  BY PidAssumption, WidthAssumption DEF Processes
<1>2. PICK base \in Int : base = p * PidUnit
  BY <1>1
<1>3. (base + n) % IdSpace \in 0 .. IdSpace - 1
  BY WidthAssumption
<1> QED
  BY <1>2, <1>3, IdsAssumption DEF OrderId

\* A message that a client writes goes to the end of its pipe.
LEMMA WriteInv ==
  ASSUME CycleInv, NEW t \in Traders, NEW m \in ClientMessages, Write(t, m)
  PROVE  pipe' \in [Traders -> Seq(ClientMessages)]
BY DEF Write, CycleInv

\* Taking a prefix of every pipe leaves messages in the pipes and the vector.
LEMMA CollectInv ==
  ASSUME CycleInv, Collect
  PROVE  CycleInv'
<1>1. PICK taken \in [Traders -> 0 .. MaxOrders + MaxCancels] :
        /\ \A t \in Traders : taken[t] <= Len(pipe[t])
        /\ orders' = UNION {ToSet(SubSeq(pipe[t], 1, taken[t])) : t \in Traders}
        /\ pipe' = [t \in Traders |->
                        SubSeq(pipe[t], taken[t] + 1, Len(pipe[t]))]
  BY DEF Collect
<1>2. \A t \in Traders : pipe[t] \in Seq(ClientMessages) /\ taken[t] \in Nat
  BY <1>1, BoundsAssumption, CancelsAssumption DEF CycleInv
<1>3. \A t \in Traders : SubSeq(pipe[t], taken[t] + 1, Len(pipe[t])) \in Seq(ClientMessages)
  BY <1>1, <1>2
<1>4. \A t \in Traders : SubSeq(pipe[t], 1, taken[t]) \in Seq(ClientMessages)
  BY <1>1, <1>2
<1>5. \A t \in Traders : ToSet(SubSeq(pipe[t], 1, taken[t])) \subseteq ClientMessages
  BY <1>4 DEF ToSet
<1>6. pipe' \in [Traders -> Seq(ClientMessages)]
  BY <1>1, <1>3
<1>7. orders' \subseteq ClientMessages
  BY <1>1, <1>5
<1>8. count' = count
  BY DEF Collect
<1> QED
  BY <1>6, <1>7, <1>8 DEF CycleInv

\* Every step of the cycle keeps CycleInv.
LEMMA CycleNextInv == CycleInv /\ [CycleNext]_allVars => CycleInv'
<1> SUFFICES ASSUME CycleInv, [CycleNext]_allVars PROVE CycleInv'
  OBVIOUS
<1>1. ASSUME NEW o \in Orders, Place(o) PROVE CycleInv'
  <2> DEFINE p == Pid[o.trader]
  <2>1. o.trader \in Traders /\ p \in Processes
    BY OrdersAssumption DEF OrderType, Processes
  <2>2. count' = [count EXCEPT ![p] = @ + 1] /\ orders' = orders
    BY <1>1 DEF Place
  <2>3. count[p] + 1 \in Nat /\ count' \in [Processes -> Nat]
    BY <2>1, <2>2 DEF CycleInv
  <2>4. OrderId(p, count[p] + 1) \in RecycledIds
    BY <2>1, <2>3, OrderIdRange
  <2>5. 0 \in RecycledIds
    BY WidthAssumption, IdsAssumption
  <2> DEFINE i == IF o.kind = "limit"
                  THEN OrderId(p, count[p] + 1) ELSE 0
  <2>6. i \in RecycledIds /\ Write(o.trader, [o EXCEPT !.id = i])
    BY <1>1, <2>4, <2>5 DEF Place
  <2> HIDE DEF i
  <2>7. [o EXCEPT !.id = i] \in ClientMessages
    BY <2>6 DEF ClientMessages, OrderMessages
  <2>8. pipe' \in [Traders -> Seq(ClientMessages)]
    BY <2>1, <2>6, <2>7, WriteInv
  <2> QED
    BY <2>2, <2>3, <2>8 DEF CycleInv
<1>2. ASSUME NEW t \in Traders, NEW ticker \in Tickers, NEW n \in 1 .. MaxOrders,
             NEW ts \in 1 .. MaxOrders + MaxCancels, PlaceCancel(t, ticker, n, ts)
      PROVE  CycleInv'
  <2>1. OrderId(Pid[t], n) \in RecycledIds
    BY BoundsAssumption, OrderIdRange DEF Processes
  <2>2. PICK i \in RecycledIds : i = OrderId(Pid[t], n)
    BY <2>1
  <2> DEFINE m == [kind |-> "cancel", trader |-> t, ticker |-> ticker,
                   id |-> i, ts |-> ts]
  <2>3. m \in ClientMessages
    BY <2>2, BoundsAssumption, CancelsAssumption DEF ClientMessages, CancelMessages
  <2>4. Write(t, m) /\ count' = count /\ orders' = orders
    BY <1>2, <2>2 DEF PlaceCancel
  <2>5. pipe' \in [Traders -> Seq(ClientMessages)]
    BY <2>3, <2>4, WriteInv
  <2> QED
    BY <2>4, <2>5 DEF CycleInv
<1>3. ASSUME NEW t \in Traders, AddTrader(t) PROVE CycleInv'
  BY <1>3 DEF AddTrader, CycleInv
<1>4. ASSUME NEW t \in Traders, Disable(t) PROVE CycleInv'
  BY <1>4 DEF Disable, CycleInv
<1>5. CASE Collect
  BY <1>5, CollectInv
<1>6. CASE Handle
  BY <1>6 DEF Handle, clientVars, CycleInv
<1>7. CASE Step
  BY <1>7 DEF Step, cycleVars, CycleInv
<1>8. CASE Report
  BY <1>8 DEF Report, clientVars, CycleInv
<1>9. CASE EmptyTick \/ UNCHANGED allVars
  BY <1>9 DEF EmptyTick, allVars, cycleVars, CycleInv
<1> QED
  BY <1>1, <1>2, <1>3, <1>4, <1>5, <1>6, <1>7, <1>8, <1>9 DEF CycleNext

\* match_orders_ gives the engine an order that a client may submit, or a
\* cancel.
LEMMA HandleStep ==
  ASSUME CycleInv, Handle
  PROVE  Submit \/ \E ticker \in Tickers, id \in CancelIds : Cancel(ticker, id)
<1>1. PICK m \in orders :
        \/ m.kind = "cancel" /\ Cancel(m.ticker, m.id)
        \/ m.kind # "cancel" /\ (Accept(m) \/ Drop(m))
  BY DEF Handle, First
<1>2. CASE m \in OrderMessages
  <2>1. PICK o \in Orders, i \in RecycledIds : m = [o EXCEPT !.id = i]
    BY <1>2 DEF OrderMessages
  <2>2. m.kind \in {"limit", "market"}
    BY <2>1, OrdersAssumption DEF OrderType
  <2>3. Accept(m) \/ Drop(m)
    BY <1>1, <2>2
  <2>4. i \in NewIds
    BY DEF NewIds
  <2>5. Submit
    BY <2>1, <2>3, <2>4 DEF Submit
  <2> QED
    BY <2>5
<1>3. CASE m \in CancelMessages
  <2>1. m.kind = "cancel" /\ m.ticker \in Tickers /\ m.id \in CancelIds
    BY <1>3 DEF CancelMessages, CancelIds
  <2> QED
    BY <1>1, <2>1
<1> QED
  BY <1>1, <1>2, <1>3 DEF CycleInv, ClientMessages

\* Every step of the cycle is a step of the engine or leaves it alone.
LEMMA CycleStep == CycleInv /\ [CycleNext]_allVars => [Next]_vars
<1> SUFFICES ASSUME CycleInv, [CycleNext]_allVars PROVE [Next]_vars
  OBVIOUS
<1>1. CASE Handle
  BY <1>1, HandleStep DEF Next
<1>2. CASE Step
  BY <1>2 DEF Step, Next
<1>3. CASE Report
  BY <1>3 DEF Report, Next
<1>4. CASE Collect \/ EmptyTick \/ UNCHANGED allVars
  BY <1>4 DEF Collect, EmptyTick, allVars
<1>5. ASSUME NEW o \in Orders, Place(o) PROVE vars' = vars
  BY <1>5 DEF Place
<1>6. ASSUME NEW t \in Traders, NEW ticker \in Tickers, NEW n \in 1 .. MaxOrders,
             NEW ts \in 1 .. MaxOrders + MaxCancels, PlaceCancel(t, ticker, n, ts)
      PROVE  vars' = vars
  BY <1>6 DEF PlaceCancel
<1>7. ASSUME NEW t \in Traders, AddTrader(t) \/ Disable(t) PROVE vars' = vars
  BY <1>7 DEF AddTrader, Disable
<1> QED
  BY <1>1, <1>2, <1>3, <1>4, <1>5, <1>6, <1>7 DEF CycleNext

\* The cycle implements the engine (cycle_interface.hpp:12, base_cycle.cpp:55).
THEOREM CycleImplementsEngine == CycleSpec => ImplementsEngine
<1>1. CycleInit => Init /\ CycleInv
  BY DEF CycleInit, CycleInv
<1> QED
  BY <1>1, CycleNextInv, CycleStep, PTL DEF CycleSpec, Spec, ImplementsEngine

\* max_cumulative_order_volume holds whatever clients write and however the
\* pipes delay it (base_cycle.cpp:67).
THEOREM CycleVolumeLimit == CycleSpec => []OpenVolumeBounded
BY CycleImplementsEngine, VolumeLimit, PTL DEF ImplementsEngine

\* Whatever its clients write, none without leverage ever sells short, and none
\* comes to owe money but by a sell of its own priced below zero
\* (engine.cpp:94-100).
THEOREM CycleSolvent == CycleSpec => []HoldingsCovered /\ DebtsAreOwnSales
BY CycleImplementsEngine, TradersSolvent, PTL DEF ImplementsEngine

-----------------------------------------------------------------------------
(***************************************************************************)
(* The ids of orders and the timestamps of messages.                       *)
(***************************************************************************)
\* What a remainder is.
LEMMA DivMod ==
  ASSUME NEW x \in Int, NEW S \in Nat \ {0}
  PROVE  \E a \in Int, r \in 0 .. S - 1 : x = a * S + r /\ r = x % S
<1>1. x \div S \in Int /\ x % S \in 0 .. S - 1
  OBVIOUS
<1>2. x = (x \div S) * S + (x % S)
  OBVIOUS
<1> QED
  BY <1>1, <1>2

\* A multiple that is smaller than what it is a multiple of is nothing.
LEMMA SmallMultiple ==
  ASSUME NEW d \in Int, NEW U \in Nat \ {0}, NEW n \in Int, n = d * U, -U < n, n < U
  PROVE  d = 0 /\ n = 0
<1>1. ASSUME d >= 1 PROVE FALSE
  <2>1. PICK e \in Nat : d = e + 1
    BY <1>1, d - 1 \in Nat
  <2>2. (e + 1) * U = e * U + U /\ e * U \in Nat
    OBVIOUS
  <2> QED
    BY <2>1, <2>2
<1>2. ASSUME d <= -1 PROVE FALSE
  <2>1. PICK e \in Nat : d = -(e + 1)
    BY <1>2, -1 - d \in Nat
  <2>2. (-(e + 1)) * U = -(e * U + U) /\ e * U \in Nat
    OBVIOUS
  <2> QED
    BY <2>1, <2>2
<1>3. d = 0
  BY <1>1, <1>2
<1> QED
  BY <1>3

\* Numbers have one remainder if and only if they are multiples apart.
LEMMA SameRemainder ==
  ASSUME NEW x \in Int, NEW y \in Int, NEW S \in Nat \ {0}
  PROVE  x % S = y % S <=> \E c \in Int : x - y = c * S
<1>1. PICK i \in Int, r \in 0 .. S - 1 : x = i * S + r /\ r = x % S
  BY DivMod, Zenon
<1>2. PICK j \in Int, t \in 0 .. S - 1 : y = j * S + t /\ t = y % S
  BY DivMod, Zenon
<1>3. /\ i * S \in Int /\ j * S \in Int
      /\ i - j \in Int /\ (i - j) * S = i * S - j * S
  OBVIOUS
<1>4. x - y = (i - j) * S + (r - t)
  BY <1>1, <1>2, <1>3
<1>5. ASSUME r = t PROVE \E c \in Int : x - y = c * S
  BY <1>3, <1>4, <1>5
<1>6. ASSUME NEW c \in Int, x - y = c * S PROVE r = t
  <2>1. PICK k \in Int : k = i - j
    BY <1>3
  <2>2. /\ (c - k) * S = c * S - k * S /\ c - k \in Int
        /\ c * S \in Int /\ k * S \in Int
    OBVIOUS
  <2>3. r - t = (c - k) * S
    BY <1>4, <1>6, <2>1, <2>2
  <2>4. -S < r - t /\ r - t < S /\ r - t \in Int
    OBVIOUS
  <2>5. r - t = 0
    BY <2>2, <2>3, <2>4, SmallMultiple
  <2> QED
    BY <2>5
<1> QED
  BY <1>1, <1>2, <1>5, <1>6

\* Numbers that a process with numbers left has given are told apart by their
\* ids, and where two such processes have given one id they are alike.
LEMMA OrderIdsDiffer ==
  ASSUME NEW p \in Processes, NEW q \in Processes,
         NEW m \in Nat, NEW n \in Nat,
         0 < m, m < PidUnit, 0 < n, n < PidUnit, OrderId(p, m) = OrderId(q, n)
  PROVE  m = n /\ Alike(p, q)
<1>1. PICK U \in Nat \ {0}, S \in Nat \ {0} : U = PidUnit /\ S = IdSpace /\ S % U = 0
  BY WidthAssumption
<1>2. PICK k \in Int : S = k * U
  <2>0. S \in Int
    OBVIOUS
  <2>1. PICK k \in Int, r \in 0 .. U - 1 : S = k * U + r /\ r = S % U
    BY <2>0, DivMod, Zenon
  <2>2. k * U \in Int
    OBVIOUS
  <2> QED
    BY <1>1, <2>1, <2>2
<1>3. p \in Int /\ q \in Int
  BY PidAssumption DEF Processes
<1>4. PICK x \in Int, y \in Int : x = p * U /\ y = q * U
  BY <1>3
<1>5. (x + m) % S = (y + n) % S /\ x + m \in Int /\ y + n \in Int
  BY <1>1, <1>4 DEF OrderId
<1>6. PICK c \in Int : (x + m) - (y + n) = c * S
  BY <1>5, SameRemainder
<1>7. PICK d \in Int : n - m = d * U
  <2>1. c * S = (c * k) * U /\ c * k \in Int
    BY <1>2
  <2>2. PICK e \in Int : e = c * k
    BY <2>1
  <2>3. PICK f \in Int : f = p - q
    BY <1>3
  <2>4. f * U = x - y
    BY <1>3, <1>4, <2>3
  <2>5. (f - e) * U = f * U - e * U /\ f * U \in Int /\ e * U \in Int /\ f - e \in Int
    OBVIOUS
  <2>6. c * S = e * U
    BY <2>1, <2>2
  <2>7. n - m = (f - e) * U
    BY <1>4, <1>6, <2>4, <2>5, <2>6
  <2> QED
    BY <2>5, <2>7
<1>8. n - m = 0
  <2>1. -U < n - m /\ n - m < U /\ n - m \in Int
    BY <1>1
  <2> QED
    BY <1>7, <2>1, SmallMultiple
<1>9. m = n /\ x - y = c * S
  BY <1>4, <1>6, <1>8
<1>10. x % S = y % S
  <2>1. \E j \in Int : x - y = j * S
    BY <1>9
  <2> QED
    BY <2>1, SameRemainder, Zenon
<1> QED
  BY <1>1, <1>4, <1>9, <1>10 DEF Alike

\* What has been written and not been handled.
InFlight == orders \cup UNION {ToSet(pipe[t]) : t \in Traders}

\* An id that the trader's process has given.
GivenBy(t, i) == \E n \in 1 .. count[Pid[t]] : i = OrderId(Pid[t], n)

\* Two orders to which one process that has numbers left would have given one id.
Clash(m, n) ==
    Pid[m.trader] = Pid[n.trader] /\ ~Full(Pid[m.trader]) /\ m.id = n.id

\* A pipe is in the order of its trader's clock, and the vector before it.
StampInv ==
    /\ clock \in [Traders -> Int]
    /\ \A m \in orders :
        /\ m.ts <= clock[m.trader]
        /\ \A i \in 1 .. Len(pipe[m.trader]) : m.ts < pipe[m.trader][i].ts
    /\ \A t \in Traders : \A i \in 1 .. Len(pipe[t]) :
        /\ pipe[t][i].trader = t
        /\ pipe[t][i].ts <= clock[t]
        /\ \A j \in 1 .. i - 1 : pipe[t][j].ts < pipe[t][i].ts

\* A limit order's id is on its way, in the engine or in the book, and among the
\* orders of its process in one of these places only.
FlightInv ==
    /\ \A m \in InFlight : m.kind # "market" => GivenBy(m.trader, m.id)
    /\ \A m, n \in InFlight :
        m.kind = "limit" /\ n.kind = "limit" /\ Clash(m, n) => m = n
    /\ \A m \in InFlight : m.kind = "limit" =>
        /\ \A n \in DOMAIN book : ~Clash(m, book[n])
        /\ incoming.kind = "limit" => ~Clash(m, incoming)

EngineIdInv ==
    /\ \A n \in DOMAIN book :
        book[n].trader \in Traders /\ GivenBy(book[n].trader, book[n].id)
    /\ incoming.kind = "limit" =>
        /\ incoming.trader \in Traders /\ GivenBy(incoming.trader, incoming.id)
        /\ \A n \in DOMAIN book : ~Clash(incoming, book[n])
    /\ EndsForCause
    /\ status = "terminated" => arrivals \in DOMAIN book

IdInv == FlightInv /\ EngineIdInv

\* A cancel on its way is later than the order of its trader that it is for.
CancelLater ==
    \A c, o \in InFlight :
        c.kind = "cancel" /\ o.kind = "limit" /\ c.trader = o.trader /\ Clash(c, o)
            => o.ts < c.ts

\* What clients write is a message of theirs, whatever its kind.
LEMMA MessageFacts ==
  ASSUME NEW m \in ClientMessages
  PROVE  /\ m.trader \in Traders
         /\ m.ts \in Int
         /\ m.kind \in {"limit", "market", "cancel"}
<1>1. CASE m \in OrderMessages
  <2>1. PICK o \in Orders, i \in RecycledIds : m = [o EXCEPT !.id = i]
    BY <1>1 DEF OrderMessages
  <2>2. o \in OrderType
    BY OrdersAssumption
  <2>3. m.trader = o.trader /\ m.ts = o.ts /\ m.kind = o.kind
    BY <2>1, <2>2 DEF OrderType
  <2> QED
    BY <2>2, <2>3 DEF OrderType
<1>2. CASE m \in CancelMessages
  BY <1>2 DEF CancelMessages
<1> QED
  BY <1>1, <1>2 DEF ClientMessages

\* What is in flight is a message.
LEMMA InFlightMessages ==
  ASSUME CycleInv
  PROVE  /\ InFlight \subseteq ClientMessages
         /\ \A t \in Traders : \A i \in 1 .. Len(pipe[t]) : pipe[t][i] \in InFlight
         /\ \A m \in InFlight \ orders : \E t \in Traders :
                \E i \in 1 .. Len(pipe[t]) : m = pipe[t][i]
<1>1. \A t \in Traders : pipe[t] \in Seq(ClientMessages)
  BY DEF CycleInv
<1>2. \A t \in Traders : ToSet(pipe[t]) = {pipe[t][i] : i \in 1 .. Len(pipe[t])}
  BY <1>1 DEF ToSet
<1>3. \A t \in Traders : \A i \in 1 .. Len(pipe[t]) : pipe[t][i] \in ClientMessages
  BY <1>1
<1>4. orders \subseteq ClientMessages
  BY DEF CycleInv
<1>5. ASSUME NEW m \in InFlight PROVE m \in ClientMessages
  <2>1. CASE m \in orders
    BY <1>4, <2>1
  <2>2. CASE m \notin orders
    <3>1. PICK t \in Traders : m \in ToSet(pipe[t])
      BY <2>2 DEF InFlight
    <3>2. PICK i \in 1 .. Len(pipe[t]) : m = pipe[t][i]
      BY <1>2, <3>1
    <3> QED
      BY <1>3, <3>2
  <2> QED
    BY <2>1, <2>2
<1>6. \A t \in Traders : \A i \in 1 .. Len(pipe[t]) : pipe[t][i] \in InFlight
  <2> SUFFICES ASSUME NEW t \in Traders, NEW i \in 1 .. Len(pipe[t])
               PROVE  pipe[t][i] \in InFlight
    OBVIOUS
  <2>1. pipe[t][i] \in ToSet(pipe[t])
    BY <1>2
  <2> QED
    BY <2>1 DEF InFlight
<1>7. ASSUME NEW m \in InFlight \ orders
      PROVE  \E t \in Traders : \E i \in 1 .. Len(pipe[t]) : m = pipe[t][i]
  <2>1. PICK t \in Traders : m \in ToSet(pipe[t])
    BY DEF InFlight
  <2>2. PICK i \in 1 .. Len(pipe[t]) : m = pipe[t][i]
    BY <1>2, <2>1
  <2> QED
    BY <2>2
<1> QED
  BY <1>5, <1>6, <1>7

\* Writing adds the message, at the end of its pipe.
LEMMA WriteEffect ==
  ASSUME CycleInv, NEW t \in Traders, NEW m \in ClientMessages, Write(t, m),
         orders' = orders
  PROVE  /\ Len(pipe'[t]) = Len(pipe[t]) + 1
         /\ \A i \in 1 .. Len(pipe[t]) : pipe'[t][i] = pipe[t][i]
         /\ pipe'[t][Len(pipe[t]) + 1] = m
         /\ \A u \in Traders \ {t} : pipe'[u] = pipe[u]
         /\ InFlight' \subseteq InFlight \cup {m}
<1>1. pipe[t] \in Seq(ClientMessages)
  BY DEF CycleInv
<1>2. /\ pipe'[t] = Append(pipe[t], m)
      /\ \A u \in Traders \ {t} : pipe'[u] = pipe[u]
  BY DEF Write, CycleInv
<1>3. /\ Len(pipe'[t]) = Len(pipe[t]) + 1
      /\ \A i \in 1 .. Len(pipe[t]) : pipe'[t][i] = pipe[t][i]
      /\ pipe'[t][Len(pipe[t]) + 1] = m
  BY <1>1, <1>2
<1>4. pipe'[t] \in Seq(ClientMessages)
  BY <1>1, <1>2
<1>5. ToSet(pipe'[t]) = {pipe'[t][i] : i \in 1 .. Len(pipe'[t])}
  BY <1>4 DEF ToSet
<1>6. ToSet(pipe[t]) = {pipe[t][i] : i \in 1 .. Len(pipe[t])}
  BY <1>1 DEF ToSet
<1>7. ToSet(pipe'[t]) \subseteq ToSet(pipe[t]) \cup {m}
  <2>1. PICK n \in Nat : n = Len(pipe[t])
    BY <1>1
  <2> SUFFICES ASSUME NEW i \in 1 .. n + 1
               PROVE  pipe'[t][i] \in ToSet(pipe[t]) \cup {m}
    BY <1>3, <1>5, <2>1
  <2>2. i \in 1 .. n \/ i = n + 1
    BY <2>1
  <2> QED
    BY <1>3, <1>6, <2>1, <2>2
<1>8. \A u \in Traders \ {t} : ToSet(pipe'[u]) = ToSet(pipe[u])
  BY <1>2
<1>9. InFlight' \subseteq InFlight \cup {m}
  <2> SUFFICES ASSUME NEW x \in InFlight', x \notin orders
               PROVE  x \in InFlight \cup {m}
    BY DEF InFlight
  <2>1. PICK u \in Traders : x \in ToSet(pipe'[u])
    BY DEF InFlight
  <2>2. x \in ToSet(pipe[u]) \cup {m}
    BY <1>7, <1>8, <2>1
  <2> QED
    BY <2>2 DEF InFlight
<1> QED
  BY <1>2, <1>3, <1>9

\* A prefix of a sequence and the rest of it, element by element.
LEMMA SplitAt ==
  ASSUME NEW S, NEW s \in Seq(S), NEW k \in 0 .. Len(s)
  PROVE  /\ ToSet(SubSeq(s, 1, k)) = {s[i] : i \in 1 .. k}
         /\ SubSeq(s, k + 1, Len(s)) \in Seq(S)
         /\ Len(SubSeq(s, k + 1, Len(s))) = Len(s) - k
         /\ \A i \in 1 .. Len(s) - k : SubSeq(s, k + 1, Len(s))[i] = s[k + i]
<1>1. PICK n \in Nat : n = Len(s)
  OBVIOUS
<1>2. /\ SubSeq(s, 1, k) \in Seq(S)
      /\ Len(SubSeq(s, 1, k)) = k
      /\ \A i \in 1 .. k : SubSeq(s, 1, k)[i] = s[i]
  BY <1>1
<1>3. ToSet(SubSeq(s, 1, k)) = {s[i] : i \in 1 .. k}
  <2> DEFINE u == SubSeq(s, 1, k)
  <2>1. ToSet(u) = {u[i] : i \in DOMAIN u}
    BY DEF ToSet
  <2>2. DOMAIN u = 1 .. k /\ \A i \in 1 .. k : u[i] = s[i]
    BY <1>2
  <2> HIDE DEF u
  <2> QED
    BY <2>1, <2>2 DEF u
<1>4. /\ SubSeq(s, k + 1, n) \in Seq(S)
      /\ Len(SubSeq(s, k + 1, n)) = n - k
      /\ \A i \in 1 .. n - k : SubSeq(s, k + 1, n)[i] = s[k + i]
  BY <1>1
<1> QED
  BY <1>1, <1>3, <1>4

\* Collecting adds nothing to what is in flight, and keeps the order.
LEMMA CollectEffect ==
  ASSUME CycleInv, StampInv, Collect
  PROVE  InFlight' \subseteq InFlight /\ StampInv'
<1>1. PICK taken \in [Traders -> 0 .. MaxOrders + MaxCancels] :
        /\ \A t \in Traders : taken[t] <= Len(pipe[t])
        /\ orders' = UNION {ToSet(SubSeq(pipe[t], 1, taken[t])) : t \in Traders}
        /\ pipe' = [t \in Traders |->
                        SubSeq(pipe[t], taken[t] + 1, Len(pipe[t]))]
  BY DEF Collect
<1>2. clock' = clock /\ orders = {}
  BY DEF Collect, BetweenTicks
<1>3. \A t \in Traders : pipe[t] \in Seq(ClientMessages) /\ Len(pipe[t]) \in Nat
  BY DEF CycleInv
<1>4. \A t \in Traders : taken[t] \in 0 .. Len(pipe[t])
  BY <1>1, <1>3, BoundsAssumption, CancelsAssumption
<1>5. \A t \in Traders :
        /\ ToSet(SubSeq(pipe[t], 1, taken[t])) = {pipe[t][i] : i \in 1 .. taken[t]}
        /\ pipe'[t] \in Seq(ClientMessages)
        /\ Len(pipe'[t]) = Len(pipe[t]) - taken[t]
        /\ \A i \in 1 .. Len(pipe[t]) - taken[t] : pipe'[t][i] = pipe[t][taken[t] + i]
  BY <1>1, <1>3, <1>4, SplitAt, ZenonT(40)
<1>6. \A m \in orders' : \E t \in Traders : \E i \in 1 .. taken[t] : m = pipe[t][i]
  <2> SUFFICES ASSUME NEW m \in orders'
               PROVE  \E t \in Traders : \E i \in 1 .. taken[t] : m = pipe[t][i]
    OBVIOUS
  <2>1. PICK t \in Traders : m \in ToSet(SubSeq(pipe[t], 1, taken[t]))
    BY <1>1
  <2>2. m \in {pipe[t][i] : i \in 1 .. taken[t]}
    BY <1>5, <2>1
  <2>3. PICK i \in 1 .. taken[t] : m = pipe[t][i]
    BY <2>2
  <2> QED
    BY <2>3
<1>7. \A t \in Traders : \A i \in 1 .. Len(pipe'[t]) :
        /\ taken[t] + i \in 1 .. Len(pipe[t])
        /\ pipe'[t][i] = pipe[t][taken[t] + i]
  <2> SUFFICES ASSUME NEW t \in Traders, NEW i \in 1 .. Len(pipe'[t])
               PROVE  /\ taken[t] + i \in 1 .. Len(pipe[t])
                      /\ pipe'[t][i] = pipe[t][taken[t] + i]
    OBVIOUS
  <2>1. PICK n \in Nat, k \in Nat : n = Len(pipe[t]) /\ k = taken[t] /\ k <= n
    BY <1>3, <1>4
  <2>2. i \in 1 .. n - k
    BY <1>5, <2>1
  <2>3. k + i \in 1 .. n
    BY <2>1, <2>2
  <2> QED
    BY <1>5, <2>1, <2>2, <2>3
<1>8. InFlight' \subseteq InFlight
  <2> SUFFICES ASSUME NEW x \in InFlight' PROVE x \in InFlight
    OBVIOUS
  <2>1. CASE x \in orders'
    <3>1. PICK t \in Traders : \E i \in 1 .. taken[t] : x = pipe[t][i]
      BY <1>6, <2>1
    <3>1a. PICK i \in 1 .. taken[t] : x = pipe[t][i]
      BY <3>1
    <3>2. i \in 1 .. Len(pipe[t])
      BY <1>3, <1>4
    <3> QED
      BY <3>1a, <3>2, InFlightMessages
  <2>2. CASE x \notin orders'
    <3>1. PICK t \in Traders : x \in ToSet(pipe'[t])
      BY <2>2 DEF InFlight
    <3>2. ToSet(pipe'[t]) = {pipe'[t][i] : i \in 1 .. Len(pipe'[t])}
      BY <1>5 DEF ToSet
    <3>3. PICK i \in 1 .. Len(pipe'[t]) : x = pipe'[t][i]
      BY <3>1, <3>2
    <3> QED
      BY <1>7, <3>3, InFlightMessages
  <2> QED
    BY <2>1, <2>2
<1>9. ASSUME NEW m \in orders'
      PROVE  /\ m.ts <= clock'[m.trader]
             /\ \A i \in 1 .. Len(pipe'[m.trader]) : m.ts < pipe'[m.trader][i].ts
  <2>1. PICK t \in Traders : \E i \in 1 .. taken[t] : m = pipe[t][i]
    BY <1>6
  <2>1a. PICK i \in 1 .. taken[t] : m = pipe[t][i]
    BY <2>1
  <2>2. i \in 1 .. Len(pipe[t])
    BY <1>3, <1>4
  <2>3. m.trader = t /\ m.ts <= clock[t]
    BY <2>1a, <2>2 DEF StampInv
  <2>4. ASSUME NEW j \in 1 .. Len(pipe'[t]) PROVE m.ts < pipe'[t][j].ts
    <3>1. taken[t] + j \in 1 .. Len(pipe[t]) /\ pipe'[t][j] = pipe[t][taken[t] + j]
      BY <1>7
    <3>2. i \in 1 .. (taken[t] + j) - 1
      BY <1>3, <1>4, <1>5, <2>2, <3>1
    <3> QED
      BY <2>1a, <3>1, <3>2 DEF StampInv
  <2> QED
    BY <1>2, <2>3, <2>4
<1>10. ASSUME NEW t \in Traders, NEW i \in 1 .. Len(pipe'[t])
       PROVE  /\ pipe'[t][i].trader = t
              /\ pipe'[t][i].ts <= clock'[t]
              /\ \A j \in 1 .. i - 1 : pipe'[t][j].ts < pipe'[t][i].ts
  <2>1. taken[t] + i \in 1 .. Len(pipe[t]) /\ pipe'[t][i] = pipe[t][taken[t] + i]
    BY <1>7
  <2>2. ASSUME NEW j \in 1 .. i - 1 PROVE pipe'[t][j].ts < pipe'[t][i].ts
    <3>1. j \in 1 .. Len(pipe'[t])
      BY <1>5
    <3>2. pipe'[t][j] = pipe[t][taken[t] + j]
      BY <1>7, <3>1
    <3>3. taken[t] + j \in 1 .. (taken[t] + i) - 1
      BY <1>4, <1>3, <2>1
    <3> QED
      BY <2>1, <3>2, <3>3 DEF StampInv
  <2> QED
    BY <1>2, <2>1, <2>2 DEF StampInv
<1> QED
  BY <1>2, <1>8, <1>9, <1>10 DEF StampInv

\* A message that is stamped by its trader's clock and written keeps the order.
LEMMA WriteStamp ==
  ASSUME CycleInv, StampInv, NEW t \in Traders, NEW m \in ClientMessages,
         m.trader = t, Write(t, m), Stamp(t, m.ts), orders' = orders
  PROVE  /\ StampInv'
         /\ \A x \in InFlight : x.trader = t => x.ts < m.ts
<1>1. /\ m.ts \in Int /\ clock[t] \in Int /\ m.ts > clock[t]
      /\ clock' = [clock EXCEPT ![t] = m.ts]
  BY MessageFacts DEF Stamp, StampInv
<1>2. /\ clock'[t] = m.ts
      /\ \A u \in Traders \ {t} : clock'[u] = clock[u]
      /\ clock' \in [Traders -> Int]
  BY <1>1 DEF StampInv
<1>3. ASSUME NEW x \in InFlight PROVE x.trader \in Traders /\ x.ts \in Int
  BY InFlightMessages, MessageFacts
<1>4. ASSUME NEW x \in InFlight, x.trader = t PROVE x.ts < m.ts
  <2>1. x.ts <= clock[t]
    <3>1. CASE x \in orders
      BY <1>4, <3>1 DEF StampInv
    <3>2. CASE x \notin orders
      <4>1. PICK u \in Traders : \E i \in 1 .. Len(pipe[u]) : x = pipe[u][i]
        BY <3>2, InFlightMessages
      <4> QED
        BY <1>4, <4>1 DEF StampInv
    <3> QED
      BY <3>1, <3>2
  <2> QED
    BY <1>1, <1>3, <2>1
<1>5. PICK n \in Nat : n = Len(pipe[t])
  BY DEF CycleInv
<1>6. /\ Len(pipe'[t]) = n + 1
      /\ \A i \in 1 .. n : pipe'[t][i] = pipe[t][i]
      /\ pipe'[t][n + 1] = m
      /\ \A u \in Traders \ {t} : pipe'[u] = pipe[u]
  BY <1>5, WriteEffect
<1>7. \A i \in 1 .. n : /\ pipe[t][i] \in InFlight
                        /\ pipe[t][i].trader = t
                        /\ pipe[t][i].ts < m.ts
  <2> SUFFICES ASSUME NEW i \in 1 .. n
               PROVE  /\ pipe[t][i] \in InFlight
                      /\ pipe[t][i].trader = t
                      /\ pipe[t][i].ts < m.ts
    OBVIOUS
  <2>1. pipe[t][i] \in InFlight /\ pipe[t][i].trader = t
    BY <1>5, InFlightMessages DEF StampInv
  <2> QED
    BY <1>4, <2>1
<1>8. ASSUME NEW x \in orders'
      PROVE  /\ x.ts <= clock'[x.trader]
             /\ \A i \in 1 .. Len(pipe'[x.trader]) : x.ts < pipe'[x.trader][i].ts
  <2>1. x \in orders /\ x \in InFlight
    BY <1>8 DEF InFlight
  <2>2. CASE x.trader = t
    <3>1. x.ts < m.ts /\ x.ts \in Int
      BY <1>3, <1>4, <2>1, <2>2
    <3>2. ASSUME NEW i \in 1 .. n + 1 PROVE x.ts < pipe'[t][i].ts
      <4>1. CASE i = n + 1
        BY <1>6, <3>1, <4>1
      <4>2. CASE i \in 1 .. n
        BY <1>5, <1>6, <2>1, <2>2, <4>2 DEF StampInv
      <4> QED
        BY <4>1, <4>2
    <3> QED
      BY <1>1, <1>2, <1>6, <2>2, <3>1, <3>2
  <2>3. CASE x.trader # t
    BY <1>2, <1>3, <1>6, <2>1, <2>3 DEF StampInv
  <2> QED
    BY <2>2, <2>3
<1>9. ASSUME NEW u \in Traders, NEW i \in 1 .. Len(pipe'[u])
      PROVE  /\ pipe'[u][i].trader = u
             /\ pipe'[u][i].ts <= clock'[u]
             /\ \A j \in 1 .. i - 1 : pipe'[u][j].ts < pipe'[u][i].ts
  <2>1. CASE u # t
    <3>1. pipe'[u] = pipe[u] /\ clock'[u] = clock[u] /\ i \in 1 .. Len(pipe[u])
      BY <1>2, <1>6, <1>9, <2>1
    <3>2. /\ pipe[u][i].trader = u
          /\ pipe[u][i].ts <= clock[u]
          /\ \A j \in 1 .. i - 1 : pipe[u][j].ts < pipe[u][i].ts
      BY <3>1 DEF StampInv
    <3> QED
      BY <3>1, <3>2
  <2>2. CASE u = t /\ i = n + 1
    <3>1. \A j \in 1 .. n : pipe'[t][j].ts < m.ts
      BY <1>6, <1>7
    <3>2. \A j \in 1 .. i - 1 : j \in 1 .. n
      BY <2>2
    <3>3. pipe'[t][n + 1].trader = t /\ pipe'[t][n + 1].ts = m.ts
      BY <1>6
    <3> QED
      BY <1>1, <1>2, <2>2, <3>1, <3>2, <3>3
  <2>3. CASE u = t /\ i \in 1 .. n
    <3>1. \A j \in 1 .. i : pipe'[t][j] = pipe[t][j]
      BY <1>6, <2>3
    <3>2. pipe[t][i].ts \in Int /\ pipe[t][i].ts < m.ts /\ pipe[t][i].trader = t
      BY <1>3, <1>7, <2>3
    <3>3. \A j \in 1 .. i - 1 : pipe[t][j].ts < pipe[t][i].ts
      BY <1>5, <2>3 DEF StampInv
    <3>4. pipe'[t][i] = pipe[t][i] /\ i - 1 \in Int /\ i - 1 <= i
      BY <3>1, <2>3
    <3>5. pipe'[t][i].trader = t /\ pipe'[t][i].ts <= clock'[t]
      BY <1>1, <1>2, <3>2, <3>4
    <3>6. \A j \in 1 .. i - 1 : pipe'[t][j] = pipe[t][j]
      BY <2>3, <3>1
    <3>7. \A j \in 1 .. i - 1 : pipe'[t][j].ts < pipe'[t][i].ts
      BY <3>3, <3>4, <3>6
    <3> QED
      BY <2>3, <3>5, <3>7
  <2> QED
    BY <1>6, <2>1, <2>2, <2>3
<1> QED
  BY <1>2, <1>4, <1>8, <1>9 DEF StampInv

\* A process gives more numbers only: what was given is, and what did not clash
\* does not.
LEMMA CountGrows ==
  ASSUME CycleInv, \A p \in Processes : count'[p] \in Nat /\ count[p] <= count'[p]
  PROVE  /\ \A t \in Traders : \A i : GivenBy(t, i) => GivenBy(t, i)'
         /\ \A p \in Processes : Full(p) => Full(p)'
<1>1. \A t \in Traders : Pid[t] \in Processes
  BY DEF Processes
<1>2. \A p \in Processes : count[p] \in Nat
  BY DEF CycleInv
<1>3. \A p \in Processes : \A k \in 1 .. count[p] : k \in 1 .. count'[p]
  BY <1>2
<1>4. \A p \in Processes : Full(p) => Full(p)'
  BY <1>2, WidthAssumption DEF Full
<1> QED
  BY <1>1, <1>3, <1>4 DEF GivenBy

\* What the exchange has ended for stays its cause.
LEMMA CauseStays ==
  ASSUME CycleInv, \A p \in Processes : count'[p] \in Nat /\ count[p] <= count'[p],
         EngineIdInv, UNCHANGED <<book, arrivals, status, incoming>>,
         status = "terminated" => arrivals \in DOMAIN book
  PROVE  EndsForCause'
<1> SUFFICES ASSUME status = "terminated",
                    NEW n \in DOMAIN book \ {arrivals},
                    IdOf(book[n]) = IdOf(book[arrivals]),
                    MayShareId(book[n], book[arrivals])
             PROVE  MayShareId(book[n], book[arrivals])'
  BY DEF EngineIdInv, EndsForCause
<1>1. /\ book[n].trader \in Traders /\ Pid[book[n].trader] \in Processes
      /\ book[arrivals].trader \in Traders /\ Pid[book[arrivals].trader] \in Processes
  BY DEF EngineIdInv, Processes
<1> QED
  BY <1>1, CountGrows DEF MayShareId, Alike

\* Ids stay apart when messages are taken, orders leave the book and the
\* engine's order gets smaller or goes.
LEMMA ShrinkIds ==
  ASSUME IdInv, InFlight' \subseteq InFlight, UNCHANGED <<count, status>>,
         DOMAIN book' \subseteq DOMAIN book,
         \A n \in DOMAIN book' :
            book'[n].trader = book[n].trader /\ book'[n].id = book[n].id,
         incoming'.kind = "limit" =>
            /\ incoming.kind = "limit"
            /\ incoming'.id = incoming.id /\ incoming'.trader = incoming.trader,
         status = "running" \/ UNCHANGED <<book, arrivals>>
  PROVE  IdInv'
<1>1. \A p : Full(p)' = Full(p)
  BY DEF Full
<1>2. \A t, i : GivenBy(t, i)' = GivenBy(t, i)
  BY DEF GivenBy
<1>3. EndsForCause' /\ (status' = "terminated" => arrivals' \in DOMAIN book')
  <2>1. CASE status = "running"
    BY <2>1 DEF EndsForCause
  <2>2. CASE UNCHANGED <<book, arrivals>>
    BY <1>1, <2>2 DEF IdInv, EngineIdInv, EndsForCause, MayShareId, Alike
  <2> QED
    BY <2>1, <2>2
<1>4. EngineIdInv'
  BY <1>1, <1>2, <1>3 DEF IdInv, EngineIdInv, Clash
<1>5. FlightInv'
  BY <1>1, <1>2 DEF IdInv, FlightInv, Clash
<1> QED
  BY <1>4, <1>5 DEF IdInv

\* The next id of a process that has numbers left is one that it has not given.
LEMMA FreshId ==
  ASSUME NEW p \in Processes, NEW n \in Nat, n + 1 < PidUnit,
         NEW k \in 1 .. n, OrderId(p, k) = OrderId(p, n + 1)
  PROVE  FALSE
<1>1. PidUnit \in Nat
  BY WidthAssumption
<1>2. k \in Nat /\ 0 < k /\ k < PidUnit /\ n + 1 \in Nat /\ 0 < n + 1
  BY <1>1
<1>3. k = n + 1
  BY <1>2, OrderIdsDiffer
<1> QED
  BY <1>3

\* An order that is written has an id that its process has not given.
LEMMA PlaceIds ==
  ASSUME Inv, CycleInv, StampInv, IdInv, NEW o \in Orders, Place(o)
  PROVE  IdInv' /\ StampInv' /\ (CancelLater => CancelLater')
<1> DEFINE t == o.trader
           p == Pid[t]
<1>1. t \in Traders /\ p \in Processes
  BY OrdersAssumption DEF OrderType, Processes
<1>2. PICK n \in Nat : n = count[p]
  BY <1>1 DEF CycleInv
<1>3. /\ count'[p] = n + 1
      /\ \A q \in Processes \ {p} : count'[q] = count[q]
      /\ \A q \in Processes : count[q] \in Nat
  BY <1>1, <1>2 DEF Place, CycleInv
<1>4. /\ orders' = orders /\ incoming' = incoming /\ status' = status
      /\ book' = book /\ arrivals' = arrivals
  BY DEF Place, vars
<1>5. PICK i \in RecycledIds :
        i = IF o.kind = "limit" THEN OrderId(p, n + 1) ELSE 0
  BY <1>1, <1>2, OrderIdRange, WidthAssumption, IdsAssumption
<1> DEFINE m == [o EXCEPT !.id = i]
<1>6. /\ m \in ClientMessages /\ m.trader = t /\ m.ts = o.ts
      /\ m.kind = o.kind /\ m.id = i
      /\ m.kind \in {"limit", "market"}
  <2>1. o \in OrderType
    BY OrdersAssumption
  <2>2. m \in OrderMessages
    BY DEF OrderMessages
  <2> QED
    BY <2>1, <2>2 DEF OrderType, ClientMessages
<1>7. Write(t, m) /\ Stamp(t, m.ts)
  BY <1>2, <1>5, <1>6 DEF Place
<1>8. m.kind = "limit" => i = OrderId(p, n + 1)
  BY <1>5, <1>6
<1> HIDE DEF m
<1>9. StampInv'
  BY <1>1, <1>4, <1>6, <1>7, WriteStamp
<1>10. InFlight' \subseteq InFlight \cup {m}
  BY <1>1, <1>4, <1>6, <1>7, WriteEffect
<1>11. \A q \in Processes : count'[q] \in Nat /\ count[q] <= count'[q]
  BY <1>2, <1>3
<1>12. /\ \A u \in Traders : \A j : GivenBy(u, j) => GivenBy(u, j)'
       /\ \A q \in Processes : Full(q) => Full(q)'
  BY <1>11, CountGrows
<1>13. ASSUME m.kind = "limit"
       PROVE  /\ GivenBy(t, i)'
              /\ ~Full(p)' => \A u \in Traders : Pid[u] = p => ~GivenBy(u, i)
  <2>1. n + 1 \in 1 .. count'[p] /\ i = OrderId(p, n + 1)
    BY <1>3, <1>8, <1>13
  <2>2. GivenBy(t, i)'
    BY <2>1 DEF GivenBy
  <2>3. ASSUME ~Full(p)', NEW u \in Traders, Pid[u] = p, GivenBy(u, i)
        PROVE  FALSE
    <3>1. PICK k \in 1 .. n : i = OrderId(p, k)
      BY <1>2, <2>3 DEF GivenBy
    <3>2. n + 1 < PidUnit
      BY <1>3, <2>3, WidthAssumption DEF Full
    <3> QED
      BY <1>1, <2>1, <3>1, <3>2, FreshId
  <2> QED
    BY <2>2, <2>3
<1>14. \A x \in InFlight : x.trader \in Traders /\ Pid[x.trader] \in Processes
  BY InFlightMessages, MessageFacts DEF Processes
<1>15. \A x \in InFlight : x.kind # "market" => GivenBy(x.trader, x.id)
  BY DEF IdInv, FlightInv
<1>16. ASSUME NEW x, x.trader \in Traders, GivenBy(x.trader, x.id), m.kind = "limit"
       PROVE  ~Clash(m, x)' /\ ~Clash(x, m)'
  BY <1>6, <1>13, <1>16 DEF Clash
<1>17. ASSUME NEW x, NEW y, x.trader \in Traders, ~Clash(x, y) PROVE ~Clash(x, y)'
  <2>1. Pid[x.trader] \in Processes
    BY <1>17 DEF Processes
  <2> QED
    BY <1>12, <1>17, <2>1 DEF Clash
<1>18. EngineIdInv'
  <2>1. status = "terminated" => arrivals \in DOMAIN book
    BY DEF IdInv, EngineIdInv
  <2>2. EndsForCause'
    BY <1>4, <1>11, <2>1, CauseStays DEF IdInv
  <2>3. ASSUME NEW j \in DOMAIN book
        PROVE  book[j].trader \in Traders /\ GivenBy(book[j].trader, book[j].id)'
    <3>1. PICK x : x = book[j]
      OBVIOUS
    <3>2. x.trader \in Traders /\ GivenBy(x.trader, x.id)'
      BY <1>12, <3>1 DEF IdInv, EngineIdInv
    <3> QED
      BY <1>4, <3>1, <3>2 DEF GivenBy
  <2>4. ASSUME incoming.kind = "limit"
        PROVE  /\ incoming.trader \in Traders
               /\ GivenBy(incoming.trader, incoming.id)'
               /\ \A j \in DOMAIN book : ~Clash(incoming, book[j])'
    <3>1. PICK x : x = incoming
      OBVIOUS
    <3>2. x.trader \in Traders /\ GivenBy(x.trader, x.id)'
      BY <1>12, <2>4, <3>1 DEF IdInv, EngineIdInv
    <3>3. ASSUME NEW j \in DOMAIN book PROVE ~Clash(incoming, book[j])'
      <4>1. PICK y : y = book[j]
        OBVIOUS
      <4>2. ~Clash(x, y)
        BY <2>4, <3>1, <4>1 DEF IdInv, EngineIdInv
      <4>3. ~Clash(x, y)'
        BY <1>17, <3>2, <4>2
      <4> QED
        BY <1>4, <3>1, <4>1, <4>3 DEF Clash, Full
    <3> QED
      BY <1>4, <3>1, <3>2, <3>3 DEF GivenBy
  <2> QED
    BY <1>4, <2>1, <2>2, <2>3, <2>4 DEF EngineIdInv
<1>19. ASSUME NEW x \in InFlight'
       PROVE  /\ x.kind # "market" => GivenBy(x.trader, x.id)'
              /\ x.kind = "limit" =>
                    /\ \A j \in DOMAIN book : ~Clash(x, book[j])'
                    /\ incoming.kind = "limit" => ~Clash(x, incoming)'
  <2>1. x.kind # "market" => GivenBy(x.trader, x.id)'
    BY <1>6, <1>10, <1>12, <1>13, <1>14, <1>15
  <2>2. ASSUME x.kind = "limit", NEW j \in DOMAIN book PROVE ~Clash(x, book[j])'
    <3>1. PICK y : y = book[j]
      OBVIOUS
    <3>2. y.trader \in Traders /\ GivenBy(y.trader, y.id)
      BY <3>1 DEF IdInv, EngineIdInv
    <3>3. CASE x = m
      <4>1. ~Clash(m, y)'
        BY <1>16, <2>2, <3>2, <3>3
      <4> QED
        BY <1>4, <3>1, <3>3, <4>1 DEF Clash, Full
    <3>4. CASE x \in InFlight
      <4>1. ~Clash(x, y)
        BY <2>2, <3>1, <3>4 DEF IdInv, FlightInv
      <4>2. ~Clash(x, y)'
        BY <1>14, <1>17, <3>4, <4>1
      <4> QED
        BY <1>4, <3>1, <4>2 DEF Clash, Full
    <3> QED
      BY <1>10, <3>3, <3>4
  <2>3. ASSUME x.kind = "limit", incoming.kind = "limit" PROVE ~Clash(x, incoming)'
    <3>1. PICK y : y = incoming
      OBVIOUS
    <3>2. y.trader \in Traders /\ GivenBy(y.trader, y.id)
      BY <2>3, <3>1 DEF IdInv, EngineIdInv
    <3>3. CASE x = m
      <4>1. ~Clash(m, y)'
        BY <1>16, <2>3, <3>2, <3>3
      <4> QED
        BY <1>4, <3>1, <3>3, <4>1 DEF Clash, Full
    <3>4. CASE x \in InFlight
      <4>1. ~Clash(x, y)
        BY <2>3, <3>1, <3>4 DEF IdInv, FlightInv
      <4>2. ~Clash(x, y)'
        BY <1>14, <1>17, <3>4, <4>1
      <4> QED
        BY <1>4, <3>1, <4>2 DEF Clash, Full
    <3> QED
      BY <1>10, <3>3, <3>4
  <2> QED
    BY <2>1, <2>2, <2>3
<1>20. ASSUME NEW x \in InFlight', NEW y \in InFlight',
              x.kind = "limit", y.kind = "limit", Clash(x, y)'
       PROVE  x = y
  <2>1. CASE x = m /\ y # m
    BY <1>10, <1>14, <1>15, <1>16, <1>20, <2>1
  <2>2. CASE y = m /\ x # m
    BY <1>10, <1>14, <1>15, <1>16, <1>20, <2>2
  <2>3. CASE x # m /\ y # m
    BY <1>10, <1>14, <1>17, <1>20, <2>3 DEF IdInv, FlightInv
  <2> QED
    BY <2>1, <2>2, <2>3
<1>21. FlightInv'
  BY <1>4, <1>19, <1>20 DEF FlightInv
<1>22. ASSUME CancelLater PROVE CancelLater'
  <2> SUFFICES ASSUME NEW c \in InFlight', NEW x \in InFlight',
                      c.kind = "cancel", x.kind = "limit", c.trader = x.trader,
                      Clash(c, x)'
               PROVE  x.ts < c.ts
    BY DEF CancelLater, Clash, Full
  <2>1. c \in InFlight
    BY <1>6, <1>10
  <2>2. CASE x = m
    BY <1>14, <1>15, <1>16, <2>1, <2>2
  <2>3. CASE x \in InFlight
    BY <1>14, <1>17, <1>22, <2>1, <2>3 DEF CancelLater
  <2> QED
    BY <1>10, <2>2, <2>3
<1> QED
  BY <1>9, <1>18, <1>21, <1>22 DEF IdInv

\* A cancel is later than what its trader has written before it.
LEMMA PlaceCancelIds ==
  ASSUME CycleInv, StampInv, IdInv, NEW t \in Traders,
         NEW ticker \in Tickers, NEW n \in 1 .. MaxOrders,
         NEW ts \in 1 .. MaxOrders + MaxCancels, PlaceCancel(t, ticker, n, ts)
  PROVE  IdInv' /\ StampInv' /\ (CancelLater => CancelLater')
<1>1. OrderId(Pid[t], n) \in RecycledIds
  BY BoundsAssumption, OrderIdRange DEF Processes
<1>2. PICK i \in RecycledIds : i = OrderId(Pid[t], n)
  BY <1>1
<1> DEFINE m == [kind |-> "cancel", trader |-> t, ticker |-> ticker,
                 id |-> i, ts |-> ts]
<1>3. m \in ClientMessages
  BY <1>2, BoundsAssumption, CancelsAssumption DEF ClientMessages, CancelMessages
<1>4. m.kind = "cancel" /\ m.trader = t /\ m.id = i /\ m.ts = ts
  OBVIOUS
<1>5. /\ Write(t, m) /\ Stamp(t, m.ts) /\ n \in 1 .. count[Pid[t]]
      /\ orders' = orders /\ incoming' = incoming /\ status' = status
      /\ book' = book /\ arrivals' = arrivals /\ count' = count
  BY <1>2 DEF PlaceCancel, vars
<1> HIDE DEF m
<1>6. StampInv' /\ \A x \in InFlight : x.trader = t => x.ts < m.ts
  BY <1>3, <1>4, <1>5, WriteStamp
<1>7. InFlight' \subseteq InFlight \cup {m}
  BY <1>3, <1>5, WriteEffect
<1>8. /\ \A p : Full(p)' = Full(p)
      /\ \A u, j : GivenBy(u, j)' = GivenBy(u, j)
  BY <1>5 DEF GivenBy, Full
<1>9. GivenBy(t, i)
  BY <1>2, <1>5 DEF GivenBy
<1>10. EngineIdInv'
  BY <1>5, <1>8 DEF IdInv, EngineIdInv, EndsForCause, MayShareId, Alike, Clash
<1>11. FlightInv'
  BY <1>4, <1>5, <1>7, <1>8, <1>9 DEF IdInv, FlightInv, Clash
<1>12. CancelLater => CancelLater'
  BY <1>4, <1>6, <1>7, <1>8 DEF CancelLater, Clash
<1> QED
  BY <1>6, <1>10, <1>11, <1>12 DEF IdInv

\* Nothing that is in a pipe or in the vector is there twice.
LEMMA HandledIsGone ==
  ASSUME CycleInv, StampInv, NEW m \in orders, orders' = orders \ {m},
         UNCHANGED <<pipe, clock, count>>
  PROVE  /\ InFlight' \subseteq InFlight \ {m}
         /\ StampInv'
         /\ CancelLater => CancelLater'
<1>1. m \in ClientMessages /\ m.trader \in Traders /\ m.ts \in Int
  BY MessageFacts DEF CycleInv
<1>2. ASSUME NEW t \in Traders, m \in ToSet(pipe[t]) PROVE FALSE
  <2>1. pipe[t] \in Seq(ClientMessages)
    BY DEF CycleInv
  <2>2. PICK i \in 1 .. Len(pipe[t]) : m = pipe[t][i]
    BY <1>2, <2>1 DEF ToSet
  <2>3. m.trader = t
    BY <2>2 DEF StampInv
  <2>4. m.ts < pipe[t][i].ts
    BY <2>2, <2>3 DEF StampInv
  <2> QED
    BY <1>1, <2>2, <2>4
<1>3. InFlight' \subseteq InFlight \ {m}
  BY <1>2 DEF InFlight
<1>4. StampInv'
  BY DEF StampInv
<1>5. CancelLater => CancelLater'
  BY <1>3 DEF CancelLater, Clash, Full
<1> QED
  BY <1>3, <1>4, <1>5

\* A call on a book that is not add_order leaves whose order an id is.
LEMMA BookIds ==
  ASSUME BookType, NEW pf
  PROVE  /\ \A n \in DOMAIN book : RemoveOrder(n, pf) =>
                /\ DOMAIN book' \subseteq DOMAIN book
                /\ \A m \in DOMAIN book' : book'[m] = book[m]
         /\ \A n \in DOMAIN book, q \in Int : ReduceOrder(n, q, pf) =>
                /\ DOMAIN book' \subseteq DOMAIN book
                /\ \A m \in DOMAIN book' :
                      book'[m].trader = book[m].trader /\ book'[m].id = book[m].id
<1>1. ASSUME NEW n \in DOMAIN book, RemoveOrder(n, pf)
      PROVE  /\ DOMAIN book' \subseteq DOMAIN book
             /\ \A m \in DOMAIN book' : book'[m] = book[m]
  BY <1>1 DEF RemoveOrder, Erase
<1>2. ASSUME NEW n \in DOMAIN book, NEW q \in Int, ReduceOrder(n, q, pf)
      PROVE  /\ DOMAIN book' \subseteq DOMAIN book
             /\ \A m \in DOMAIN book' :
                   book'[m].trader = book[m].trader /\ book'[m].id = book[m].id
  <2>1. CASE book[n].qty = q
    BY <1>1, <1>2, <2>1 DEF ReduceOrder
  <2>2. CASE book[n].qty # q
    <3>1. book' = [book EXCEPT ![n] = [book[n] EXCEPT !.qty = @ - q]]
      BY <1>2, <2>2 DEF ReduceOrder
    <3>2. PICK o : o = [book[n] EXCEPT !.qty = @ - q]
      OBVIOUS
    <3>3. o.trader = book[n].trader /\ o.id = book[n].id
      BY <3>2 DEF BookType, OrderType
    <3>4. book' = [book EXCEPT ![n] = o]
      BY <3>1, <3>2
    <3> QED
      BY <3>3, <3>4
  <2> QED
    BY <2>1, <2>2
<1> QED
  BY <1>1, <1>2

\* The id of an order that the engine takes is in no other place any more.
LEMMA HandleIds ==
  ASSUME Inv, CycleInv, StampInv, IdInv, Handle
  PROVE  IdInv' /\ StampInv' /\ (CancelLater => CancelLater')
<1>1. PICK m \in orders :
        /\ \/ m.kind = "cancel" /\ Cancel(m.ticker, m.id)
           \/ m.kind # "cancel" /\ (Accept(m) \/ Drop(m))
        /\ orders' = orders \ {m}
  BY DEF Handle, First
<1>2. UNCHANGED <<pipe, clock, count>> /\ status = "running"
  BY DEF Handle, clientVars, Idle
<1>3. /\ InFlight' \subseteq InFlight \ {m}
      /\ StampInv'
      /\ CancelLater => CancelLater'
  BY <1>1, <1>2, HandledIsGone
<1>4. CASE Cancel(m.ticker, m.id)
  <2>1. incoming' = incoming /\ status' = status
    BY <1>4 DEF Cancel
  <2>2. BookType /\ \A x \in DOMAIN order_map : order_map[x] \in DOMAIN book
    BY <1>2 DEF Inv, TypeInv, TrackerMatchesBook
  <2>3. /\ DOMAIN book' \subseteq DOMAIN book
        /\ \A n \in DOMAIN book' : book'[n] = book[n]
    <3>1. CASE UNCHANGED book
      BY <3>1
    <3>2. ASSUME NEW n \in DOMAIN book, RemoveOrder(n, portfolio)
          PROVE  /\ DOMAIN book' \subseteq DOMAIN book
                 /\ \A j \in DOMAIN book' : book'[j] = book[j]
      BY <2>2, <3>2, BookIds
    <3> QED
      BY <1>4, <2>2, <3>1, <3>2 DEF Cancel, bookVars
  <2> QED
    BY <1>2, <1>3, <2>1, <2>3, ShrinkIds
<1>5. CASE Drop(m)
  <2>1. incoming' = incoming /\ status' = status /\ book' = book
    BY <1>5 DEF Drop, bookVars
  <2> QED
    BY <1>2, <1>3, <2>1, ShrinkIds
<1>6. CASE Accept(m)
  <2>1. incoming' = m /\ status' = status /\ book' = book
    BY <1>6 DEF Accept, bookVars
  <2>2. /\ \A p : Full(p)' = Full(p)
        /\ \A u, j : GivenBy(u, j)' = GivenBy(u, j)
    BY <1>2 DEF GivenBy, Full
  <2>3. m \in InFlight /\ m.trader \in Traders
    BY MessageFacts DEF CycleInv, InFlight
  <2>4. EngineIdInv'
    BY <1>2, <2>1, <2>2, <2>3
       DEF IdInv, FlightInv, EngineIdInv, EndsForCause, Clash
  <2>5. FlightInv'
    BY <1>3, <2>1, <2>2, <2>3 DEF IdInv, FlightInv, Clash
  <2> QED
    BY <1>3, <2>4, <2>5 DEF IdInv
<1> QED
  BY <1>1, <1>3, <1>4, <1>5, <1>6

\* An order that rests takes its id from the engine to the book; if it makes the
\* tracker throw, there is a cause.
LEMMA RestIds ==
  ASSUME Inv, CycleInv, IdInv, Rest, UNCHANGED <<count, orders, pipe>>,
         InFlight' = InFlight
  PROVE  IdInv'
<1>1. /\ status = "running" /\ incoming \in OrderType /\ incoming.kind = "limit"
      /\ AddOrder(incoming) /\ incoming'.kind # "limit"
      /\ BookType /\ TrackerMatchesBook
  BY DEF Rest, Matching, Rests, Inv, TypeInv, IncomingType, NoOrder
<1>2. PICK a \in Nat : a = arrivals + 1 /\ a \notin DOMAIN book
  BY <1>1 DEF BookType
<1>3. /\ arrivals' = a /\ DOMAIN book' = DOMAIN book \cup {a}
      /\ book'[a] = incoming
      /\ \A n \in DOMAIN book : n # a /\ book'[n] = book[n]
  BY <1>1, <1>2 DEF AddOrder, Put
<1>4. /\ \A p : Full(p)' = Full(p)
      /\ \A u, j : GivenBy(u, j)' = GivenBy(u, j)
      /\ \A x, y : Clash(x, y)' = Clash(x, y)
  BY DEF GivenBy, Full, Clash
<1>5. /\ incoming.trader \in Traders /\ GivenBy(incoming.trader, incoming.id)
      /\ \A n \in DOMAIN book : ~Clash(incoming, book[n])
      /\ \A n \in DOMAIN book :
            book[n].trader \in Traders /\ GivenBy(book[n].trader, book[n].id)
  BY <1>1 DEF IdInv, EngineIdInv
<1>6. ASSUME status' = "terminated", incoming.price >= 0
      PROVE  \E n \in DOMAIN book : /\ IdOf(book[n]) = IdOf(incoming)
                                    /\ MayShareId(book[n], incoming)
  <2>1. IdOf(incoming) \in DOMAIN order_map
    BY <1>1, <1>6 DEF AddOrder, OrderType
  <2>2. PICK n \in DOMAIN book : IdOf(book[n]) = IdOf(incoming)
    BY <1>1, <2>1 DEF TrackerMatchesBook
  <2>3. book[n].id = incoming.id
    BY <2>2 DEF IdOf
  <2>4. PICK p \in Processes, q \in Processes :
            p = Pid[book[n].trader] /\ q = Pid[incoming.trader]
    BY <1>5 DEF Processes
  <2>5. PICK j \in 1 .. count[p] : book[n].id = OrderId(p, j)
    BY <1>5, <2>4 DEF GivenBy
  <2>6. PICK k \in 1 .. count[q] : incoming.id = OrderId(q, k)
    BY <1>5, <2>4 DEF GivenBy
  <2>7. ASSUME ~Full(p), ~Full(q) PROVE p # q /\ Alike(p, q)
    <3>1. p # q
      BY <1>5, <2>3, <2>4, <2>7 DEF Clash
    <3>2. count[p] \in Nat /\ count[q] \in Nat /\ PidUnit \in Nat
      BY WidthAssumption DEF CycleInv
    <3>3. j \in Nat /\ 0 < j /\ j < PidUnit /\ k \in Nat /\ 0 < k /\ k < PidUnit
      BY <2>5, <2>6, <2>7, <3>2 DEF Full
    <3>4. Alike(p, q)
      BY <2>3, <2>5, <2>6, <3>3, OrderIdsDiffer
    <3> QED
      BY <3>1, <3>4
  <2> QED
    BY <2>2, <2>4, <2>7 DEF MayShareId
<1>7. EndsForCause'
  <2> SUFFICES ASSUME status' = "terminated", ~(book'[a].price < 0)
               PROVE  \E n \in DOMAIN book' \ {a} :
                        /\ IdOf(book[n])' = IdOf(book[arrivals])'
                        /\ MayShareId(book[n], book[arrivals])'
    BY <1>3 DEF EndsForCause
  <2>1. incoming.price >= 0
    BY <1>1, <1>3 DEF OrderType
  <2>2. PICK n \in DOMAIN book : /\ IdOf(book[n]) = IdOf(incoming)
                                 /\ MayShareId(book[n], incoming)
    BY <1>6, <2>1
  <2>3. n # a /\ book'[n] = book[n] /\ book'[arrivals'] = incoming
    BY <1>3, <2>2
  <2>4. IdOf(book[n])' = IdOf(book[arrivals])'
    BY <2>2, <2>3 DEF IdOf
  <2>5. MayShareId(book[n], book[arrivals])'
    BY <2>2, <2>3 DEF MayShareId, Alike, Full
  <2> QED
    BY <1>3, <2>2, <2>3, <2>4, <2>5
<1>8. EngineIdInv'
  BY <1>1, <1>3, <1>4, <1>5, <1>7 DEF EngineIdInv
<1>9. FlightInv'
  BY <1>1, <1>3, <1>4 DEF IdInv, FlightInv
<1> QED
  BY <1>8, <1>9 DEF IdInv

LEMMA StepIds ==
  ASSUME Inv, CycleInv, IdInv, Step
  PROVE  IdInv'
<1>1. UNCHANGED <<orders, pipe, count>> /\ InFlight' = InFlight
  BY DEF Step, cycleVars, InFlight
<1>2. /\ incoming \in OrderType /\ MatchStep /\ BookType /\ IncomingType
      /\ status = "running" /\ incoming # NoOrder
      /\ \A x \in DOMAIN order_map : order_map[x] \in DOMAIN book
  BY DEF Step, MatchStep, Match, RemovePassive, Rest, Discard, Matching, Inv,
         TypeInv, IncomingType, TrackerMatchesBook
<1>3. CASE Match
  <2>1. PICK n \in TopOrder(incoming.ticker, Opposite(incoming.side)) :
            /\ ReduceOrder(n, MatchQuantity(Buyer(book[n]), Seller(book[n])),
                        Settle(portfolio, Buyer(book[n]), Seller(book[n]),
                               MatchPrice(Buyer(book[n]), Seller(book[n])),
                               MatchQuantity(Buyer(book[n]), Seller(book[n]))))
            /\ incoming' = [incoming EXCEPT
                    !.qty = @ - MatchQuantity(Buyer(book[n]), Seller(book[n]))]
            /\ status' = status
    BY <1>3 DEF Match
  <2>2. n \in DOMAIN book /\ MatchQuantity(Buyer(book[n]), Seller(book[n])) \in Int
    BY <1>2, PairType
  <2>3. /\ DOMAIN book' \subseteq DOMAIN book
        /\ \A m \in DOMAIN book' :
              book'[m].trader = book[m].trader /\ book'[m].id = book[m].id
    BY <1>2, <2>1, <2>2, BookIds
  <2>4. /\ incoming'.kind = incoming.kind
        /\ incoming'.id = incoming.id /\ incoming'.trader = incoming.trader
    BY <1>2, <2>1 DEF OrderType
  <2> QED
    BY <1>1, <1>2, <2>1, <2>3, <2>4, ShrinkIds
<1>4. CASE RemovePassive
  <2>1. PICK n \in DOMAIN book : RemoveOrder(n, portfolio)
    BY <1>2, <1>4, PairType DEF RemovePassive, Matching
  <2>2. /\ DOMAIN book' \subseteq DOMAIN book
        /\ \A m \in DOMAIN book' : book'[m] = book[m]
    BY <1>2, <2>1, BookIds
  <2>3. incoming' = incoming /\ status' = status
    BY <1>4 DEF RemovePassive
  <2> QED
    BY <1>1, <1>2, <2>2, <2>3, ShrinkIds
<1>5. CASE Rest
  BY <1>1, <1>5, RestIds
<1>6. CASE Discard
  <2>1. incoming'.kind # "limit" /\ status' = status /\ book' = book
    BY <1>6 DEF Discard, bookVars, NoOrder
  <2> QED
    BY <1>1, <1>2, <2>1, ShrinkIds
<1> QED
  BY <1>2, <1>3, <1>4, <1>5, <1>6 DEF MatchStep

\* Every step of the cycle keeps ids apart and timestamps in order.
LEMMA CycleNextIds ==
  Inv /\ CycleInv /\ StampInv /\ IdInv /\ [CycleNext]_allVars
      => IdInv' /\ StampInv' /\ (CancelLater => CancelLater')
<1> SUFFICES ASSUME Inv, CycleInv, StampInv, IdInv, [CycleNext]_allVars
             PROVE  IdInv' /\ StampInv' /\ (CancelLater => CancelLater')
  OBVIOUS
<1>1. ASSUME UNCHANGED <<orders, clock>>, InFlight' \subseteq InFlight, StampInv',
             UNCHANGED <<count, status, book, arrivals, incoming>>
      PROVE  IdInv' /\ StampInv' /\ (CancelLater => CancelLater')
  BY <1>1, ShrinkIds DEF CancelLater, Clash, Full
<1>2. ASSUME NEW o \in Orders, Place(o)
      PROVE  IdInv' /\ StampInv' /\ (CancelLater => CancelLater')
  BY <1>2, PlaceIds
<1>3. ASSUME NEW t \in Traders, NEW ticker \in Tickers, NEW n \in 1 .. MaxOrders,
             NEW ts \in 1 .. MaxOrders + MaxCancels, PlaceCancel(t, ticker, n, ts)
      PROVE  IdInv' /\ StampInv' /\ (CancelLater => CancelLater')
  BY <1>3, PlaceCancelIds
<1>4. ASSUME NEW t \in Traders, Disable(t)
      PROVE  IdInv' /\ StampInv' /\ (CancelLater => CancelLater')
  <2>1. pipe' = [pipe EXCEPT ![t] = <<>>] /\ UNCHANGED <<orders, clock>>
    BY <1>4 DEF Disable
  <2>2. pipe'[t] = <<>> /\ \A u \in Traders \ {t} : pipe'[u] = pipe[u]
    BY <2>1 DEF CycleInv
  <2>3. ToSet(pipe'[t]) = {} /\ Len(pipe'[t]) = 0
    BY <2>2 DEF ToSet
  <2>4. InFlight' \subseteq InFlight
    BY <2>1, <2>2, <2>3 DEF InFlight
  <2>5. \A u \in Traders, i \in Int : i \in 1 .. Len(pipe'[u]) => u # t /\ pipe'[u] = pipe[u]
    BY <2>2, <2>3
  <2>6. StampInv'
    <3>1. ASSUME NEW m \in orders' PROVE m.trader \in Traders
      BY <2>1, MessageFacts DEF CycleInv
    <3> QED
      BY <2>1, <2>5, <3>1 DEF StampInv
  <2>7. UNCHANGED <<count, status, book, arrivals, incoming>>
    BY <1>4 DEF Disable, vars
  <2> QED
    BY <1>1, <2>1, <2>4, <2>6, <2>7
<1>5. CASE Collect
  <2>1. InFlight' \subseteq InFlight /\ StampInv'
    BY <1>5, CollectEffect
  <2>2. UNCHANGED <<count, status, book, arrivals, incoming>>
    BY <1>5 DEF Collect, vars
  <2> QED
    BY <2>1, <2>2, ShrinkIds DEF CancelLater, Clash, Full
<1>6. CASE Handle
  BY <1>6, HandleIds
<1>7. CASE Step
  <2>1. UNCHANGED <<orders, pipe, clock, count>>
    BY <1>7 DEF Step, cycleVars
  <2>2. InFlight' = InFlight /\ StampInv'
    BY <2>1 DEF InFlight, StampInv
  <2>3. IdInv'
    BY <1>7, StepIds
  <2> QED
    BY <2>1, <2>2, <2>3 DEF CancelLater, Clash, Full
<1>8. ASSUME UNCHANGED <<orders, pipe, clock, count, status, book, arrivals, incoming>>
      PROVE  IdInv' /\ StampInv' /\ (CancelLater => CancelLater')
  <2>1. InFlight' = InFlight /\ StampInv'
    BY <1>8 DEF InFlight, StampInv
  <2> QED
    BY <1>1, <1>8, <2>1
<1>9. CASE Report \/ EmptyTick \/ UNCHANGED allVars \/ \E t \in Traders : AddTrader(t)
  BY <1>8, <1>9 DEF Report, TakeUpdates, EmptyTick, allVars, vars, cycleVars,
                    clientVars, AddTrader
<1> QED
  BY <1>2, <1>3, <1>4, <1>5, <1>6, <1>7, <1>9 DEF CycleNext

\* At the start nothing is in flight, and no book has an order.
LEMMA CycleInitIds ==
  CycleInit => CycleInv /\ StampInv /\ IdInv /\ CancelLater
<1> SUFFICES ASSUME CycleInit PROVE CycleInv /\ StampInv /\ IdInv /\ CancelLater
  OBVIOUS
<1>1. CycleInv
  BY DEF CycleInit, CycleInv
<1>2. \A t \in Traders : Len(pipe[t]) = 0 /\ ToSet(pipe[t]) = {}
  BY DEF CycleInit, ToSet
<1>3. InFlight = {}
  BY <1>2 DEF CycleInit, InFlight
<1>4. StampInv
  BY <1>2 DEF CycleInit, StampInv
<1>5. DOMAIN book = {} /\ incoming.kind = "none" /\ status = "running"
  BY DEF CycleInit, Init, NoOrder
<1> QED
  BY <1>1, <1>3, <1>4, <1>5 DEF IdInv, FlightInv, EngineIdInv, EndsForCause, CancelLater

\* What ids and timestamps have to do with, in every state.
LEMMA CycleIds ==
  CycleSpec => [](Inv /\ CycleInv /\ StampInv /\ IdInv /\ CancelLater)
<1>1. CycleSpec => []Inv
  BY CycleImplementsEngine, InvInvariant, PTL DEF ImplementsEngine
<1> QED
  BY <1>1, CycleInitIds, CycleNextInv, CycleNextIds, PTL DEF CycleSpec

\* Whatever clients write, cancel and write again, and however it is delayed, the
\* exchange ends for nothing but a price below zero, or an id that two processes
\* share because the shift lost what tells them apart, or a counter that ran out
\* (order_id_tracker.cpp:22, util.cpp:56).
THEOREM ExchangeGoesOn == CycleSpec => []EndsForCause
<1>1. IdInv => EndsForCause
  BY DEF IdInv, EngineIdInv
<1> QED
  BY <1>1, CycleIds, PTL

\* A cancel is handled when its order, if it is still on its way, has been
\* (cycle_interface.cpp:13, exchange_communicator.cpp:116).
LEMMA CancelFollows ==
  ASSUME CycleInv, StampInv, CancelLater, [CycleNext]_allVars,
         NEW m \in orders \ orders', m.kind = "cancel",
         NEW o \in orders' \cup ToSet(pipe[m.trader]), o.kind = "limit",
         o.trader = m.trader, ~Full(Pid[m.trader]), o.id = m.id
  PROVE  FALSE
<1>1. Handle
  <2>1. ~Collect
    BY DEF Collect, BetweenTicks
  <2>2. \A a \in Orders : ~Place(a)
    BY DEF Place
  <2>3. \A t \in Traders, ticker \in Tickers, n \in 1 .. MaxOrders,
           ts \in 1 .. MaxOrders + MaxCancels : ~PlaceCancel(t, ticker, n, ts)
    BY DEF PlaceCancel
  <2>4. \A t \in Traders : ~AddTrader(t) /\ ~Disable(t)
    BY DEF AddTrader, Disable
  <2>5. ~Step /\ ~Report /\ ~EmptyTick /\ ~UNCHANGED allVars
    BY DEF Step, Report, EmptyTick, allVars, cycleVars
  <2> QED
    BY <2>1, <2>2, <2>3, <2>4, <2>5 DEF CycleNext
<1>2. m \in First /\ orders' \subseteq orders
  BY <1>1 DEF Handle
<1>3. /\ m \in ClientMessages /\ m.trader \in Traders /\ m.ts \in Int
      /\ m \in InFlight
  BY MessageFacts DEF CycleInv, InFlight
<1>4. o \in InFlight
  BY <1>2, <1>3 DEF InFlight
<1>5. o.ts \in Int /\ o.ts < m.ts
  BY <1>3, <1>4, InFlightMessages, MessageFacts DEF CancelLater, Clash
<1>6. CASE o \in orders'
  BY <1>2, <1>3, <1>5, <1>6 DEF First
<1>7. CASE o \in ToSet(pipe[m.trader])
  <2>1. pipe[m.trader] \in Seq(ClientMessages)
    BY <1>3 DEF CycleInv
  <2>2. PICK i \in 1 .. Len(pipe[m.trader]) : o = pipe[m.trader][i]
    BY <1>7, <2>1 DEF ToSet
  <2>3. m.ts < o.ts
    BY <2>2 DEF StampInv
  <2> QED
    BY <1>3, <1>5, <2>3
<1> QED
  BY <1>6, <1>7

\* No cancel overtakes the order of its trader that it is for, for any delays of
\* the pipes and any order of the sort, and for any number of traders that share a
\* process, as the bots do (base_cycle.cpp:62).
THEOREM CancelsComeLater == CycleSpec => CancelsFollowOrders
<1>1. CycleInv /\ StampInv /\ CancelLater /\ [CycleNext]_allVars
      => [\A m \in orders \ orders' :
            m.kind = "cancel" =>
                \A o \in orders' \cup ToSet(pipe[m.trader]) :
                    o.kind = "limit" /\ o.trader = m.trader /\ ~Full(Pid[m.trader])
                        => o.id # m.id]_allVars
  BY CancelFollows
<1> QED
  BY <1>1, CycleIds, PTL DEF CycleSpec, CancelsFollowOrders

=============================================================================
