--------------------------- MODULE MatchingCycle ---------------------------
(***************************************************************************)
(* The exchange and its clients.  Client processes write orders and        *)
(* cancels to their pipes whenever they like; the main thread, tick after  *)
(* tick, takes what has arrived, sorts it by timestamp, matches it one     *)
(* order at a time and tells the clients.                                  *)
(*                                                                         *)
(*   traders_   the traders of the TraderContainer.                        *)
(*   enabled    those whose wrapper_handle_ is there: the others neither   *)
(*              send nor receive, and their orders rest on.                *)
(*   pipe       what a client has written and no tick has taken, oldest    *)
(*              first.                                                     *)
(*   orders     the vector of collect_orders, without what match_orders_   *)
(*              has handled.  Its order is that of the timestamps, and     *)
(*              std::sort puts equal timestamps in any order.              *)
(*   told       the messages written to each client, oldest first.         *)
(*   count      the counter of generate_order_id in each process; the bots *)
(*              share the exchange's.                                      *)
(*   clock      the timestamp of each client's last message.               *)
(*   cancels    the number of cancels written.                             *)
(***************************************************************************)
EXTENDS MatchingEngine, SequencesExt

CONSTANTS
    Present,        \* the traders that are there when matching starts; the
                    \* sandbox server creates the others
    Pid,            \* [Traders -> Nat], the id of each trader's process
    PidUnit,        \* 2^46: generate_order_id shifts the process id
    IdSpace,        \* 2^64: order_id_t wraps around
    MaxCancels      \* bound on the number of cancels

ASSUME PresentAssumption == Present \subseteq Traders
ASSUME PidAssumption     == Pid \in [Traders -> Nat]
ASSUME WidthAssumption   == /\ PidUnit \in Nat \ {0} /\ IdSpace \in Nat \ {0}
                            /\ IdSpace % PidUnit = 0
ASSUME IdsAssumption     == 0 .. IdSpace - 1 \subseteq RecycledIds
ASSUME CancelsAssumption == MaxCancels \in Nat

Processes == {Pid[t] : t \in Traders}

VARIABLES traders_, enabled, pipe, orders, told, count, clock, cancels

clientVars == <<pipe, count, clock, cancels>>
cycleVars == <<traders_, enabled, pipe, orders, told, count, clock, cancels>>
allVars == <<vars, cycleVars>>

CancelType == [kind : {"cancel"}, trader : Traders, ticker : Tickers,
               id : Nat, ts : Nat]

\* What match_orders_ made of a tick and nobody has been told yet.
Untold == matches # <<>> \/ modified # {}

\* No tick is in progress.
BetweenTicks == Idle /\ orders = {} /\ ~Untold

\* The traders that read what they are sent: a bot's send_message does nothing.
Listening == (traders_ \cap enabled) \ Leveraged

CycleInit ==
    /\ Init
    /\ traders_ = Present
    /\ enabled = Traders
    /\ pipe = [t \in Traders |-> <<>>]
    /\ orders = {}
    /\ told = [t \in Traders |-> <<>>]
    /\ count = [p \in Processes |-> 0]
    /\ clock = [t \in Traders |-> 0]
    /\ cancels = 0

-----------------------------------------------------------------------------
(***************************************************************************)
(* The clients.                                                            *)
(***************************************************************************)
\* Mutant of OrderId: the counter is not increased.
OrderIdOfProcess(p, n) == (p * PidUnit) % IdSpace

\* generate_order_id, the n-th of a process
OrderId(p, n) == (p * PidUnit + n) % IdSpace

\* get_time reads one clock for all processes: what a client sends next is
\* later than what it sent before, and not earlier than what others have sent.
\* Only the order of timestamps is looked at, so they need no gaps.
Stamp(t, ts) ==
    /\ ts > clock[t]
    /\ \A u \in Traders : ts >= clock[u]
    /\ \E u \in Traders : ts <= clock[u] + 1
    /\ clock' = [clock EXCEPT ![t] = ts]

Write(t, message) == pipe' = [pipe EXCEPT ![t] = Append(@, message)]

Sent == FoldFunction(LAMBDA n, sum : n + sum, 0, count)

\* place_limit_order and place_market_order; only limit orders have an id.
\* Bots place theirs in before_cycle_, at the start of a tick.
Place(o) ==
    /\ o.trader \in enabled
    /\ o.trader \in Leveraged => BetweenTicks
    /\ Sent < MaxOrders
    /\ Stamp(o.trader, o.ts)
    /\ LET p == Pid[o.trader]
       IN /\ count' = [count EXCEPT ![p] = @ + 1]
          /\ Write(o.trader, [o EXCEPT !.id = IF o.kind = "limit"
                                              THEN OrderId(p, count[p] + 1)
                                              ELSE 0])
    /\ UNCHANGED <<vars, traders_, enabled, orders, told, cancels>>

\* cancel_order: a client knows the ids of the orders it has placed.
PlaceCancel(t, ticker, n, ts) ==
    /\ t \in enabled
    /\ t \in Leveraged => BetweenTicks
    /\ n \in 1 .. count[Pid[t]]
    /\ cancels < MaxCancels
    /\ Stamp(t, ts)
    /\ cancels' = cancels + 1
    /\ Write(t, [kind |-> "cancel", trader |-> t, ticker |-> ticker,
                 id |-> OrderId(Pid[t], n), ts |-> ts])
    /\ UNCHANGED <<vars, traders_, enabled, orders, told, count>>

-----------------------------------------------------------------------------
(***************************************************************************)
(* The main thread.                                                        *)
(***************************************************************************)
\* before_cycle_ of the sandbox adds a trader that the server has created.
AddTrader(t) ==
    /\ BetweenTicks
    /\ t \in Traders \ traders_
    /\ traders_' = traders_ \cup {t}
    /\ UNCHANGED <<vars, enabled, pipe, orders, told, count, clock, cancels>>

\* collect_orders: the first taken[t] messages of every client have arrived;
\* what the bots have placed is always there.
Collect ==
    /\ BetweenTicks
    /\ \E taken \in [Traders -> 0 .. MaxOrders + MaxCancels] :
        /\ \A t \in Traders :
            /\ taken[t] <= Len(pipe[t])
            /\ t \notin traders_ \cap enabled => taken[t] = 0
            /\ t \in Leveraged => taken[t] = Len(pipe[t])
        /\ orders' = UNION {ToSet(SubSeq(pipe[t], 1, taken[t])) : t \in Traders}
        /\ pipe' = [t \in Traders |->
                        SubSeq(pipe[t], taken[t] + 1, Len(pipe[t]))]
    /\ orders' # {}
    /\ UNCHANGED <<vars, traders_, enabled, told, count, clock, cancels>>

\* Mutant of First: the orders are handled in the order of collection.
FirstCollected == orders

\* sort_by_timestamp: the orders that may come next
First == {m \in orders : \A other \in orders : m.ts <= other.ts}

\* Mutant of Handle: an order that is dropped stays in the vector.
HandleKeepsDropped ==
    /\ Idle
    /\ \E m \in First :
        IF m.kind = "cancel" THEN Cancel(m.ticker, m.id) /\ orders' = orders \ {m}
        ELSE IF Admissible(m) THEN Accept(m) /\ orders' = orders \ {m}
        ELSE UNCHANGED <<vars, orders>>
    /\ UNCHANGED <<traders_, enabled, told, clientVars>>

\* match_orders_ turns to the next order or cancel.
Handle ==
    /\ Idle
    /\ \E m \in First :
        /\ IF m.kind = "cancel" THEN Cancel(m.ticker, m.id)
                                ELSE Accept(m) \/ Drop(m)
        /\ orders' = orders \ {m}
    /\ UNCHANGED <<traders_, enabled, told, clientVars>>

\* One step of match_order
Step == MatchStep /\ UNCHANGED cycleVars

\* send_market_updates_: the total quantity of every level that changed, and
\* the trades.
TickUpdate ==
    [kind |-> "tick", levels |-> [l \in modified |-> levels[l]],
     trades |-> matches]

\* send_account_updates: the side is that of the aggressive order, for both
\* traders, and the capital that after all matches of the tick.
AccountUpdate(match, t) ==
    [kind |-> "account", ticker |-> match.ticker, side |-> match.side,
     qty |-> match.qty, price |-> match.price, capital |-> CapitalOf[t]]

\* Mutant of AccountUpdates: only the seller is told.
SellerUpdates(t) ==
    FoldLeft(LAMBDA sofar, match :
                IF match.seller = t THEN Append(sofar, AccountUpdate(match, t))
                                    ELSE sofar,
             <<>>, matches)

\* The account updates of a trader: of a match with itself there is none.
AccountUpdates(t) ==
    FoldLeft(LAMBDA sofar, match :
                IF t \in {match.buyer, match.seller}
                THEN Append(sofar, AccountUpdate(match, t)) ELSE sofar,
             <<>>, matches)

\* Mutant of Messages: a tick without trades is not told.
MessagesOfTrades(t) ==
    IF matches = <<>> THEN <<>> ELSE <<TickUpdate>> \o AccountUpdates(t)

\* handle_matches_: what a trader is sent, the market before its account
Messages(t) == <<TickUpdate>> \o AccountUpdates(t)

\* Mutant of Report: the modified levels are not reset.
ReportWithoutReset ==
    /\ Idle
    /\ Untold
    /\ orders = {}
    /\ matches' = <<>>
    /\ told' = [t \in Traders |->
                    IF t \in Listening
                    THEN told[t] \o Messages(t) ELSE told[t]]
    /\ UNCHANGED <<book, arrivals, order_map, levels, modified, portfolio,
                   incoming, submitted, status>>
    /\ UNCHANGED <<traders_, enabled, orders, clientVars>>

\* A tick with nothing to tell sends nothing.
Report ==
    /\ TakeUpdates
    /\ Untold
    /\ orders = {}
    /\ told' = [t \in Traders |->
                    IF t \in Listening
                    THEN told[t] \o Messages(t) ELSE told[t]]
    /\ UNCHANGED <<traders_, enabled, orders, clientVars>>

\* A tick for which nothing has arrived.
EmptyTick == BetweenTicks /\ UNCHANGED allVars

\* disable(), when the timer of a trader that the sandbox server created
\* expires: what is in its pipes is lost; its orders rest and match on.
Disable(t) ==
    /\ t \in enabled \ Present
    /\ enabled' = enabled \ {t}
    /\ pipe' = [pipe EXCEPT ![t] = <<>>]
    /\ UNCHANGED <<vars, traders_, orders, told, count, clock, cancels>>

CycleNext ==
    \/ \E o \in Orders : Place(o)
    \/ \E t \in Traders, ticker \in Tickers, n \in 1 .. MaxOrders,
          ts \in 1 .. MaxOrders + MaxCancels : PlaceCancel(t, ticker, n, ts)
    \/ \E t \in Traders : AddTrader(t) \/ Disable(t)
    \/ Collect
    \/ Handle
    \/ Step
    \/ Report
    \/ EmptyTick

CycleSpec == CycleInit /\ [][CycleNext]_allVars

\* The main thread never stops, and the reader thread stores what a client
\* has written, so that a tick sooner or later takes it, and every tick adds the new traders.
FairCycleSpec ==
    /\ CycleSpec
    /\ WF_allVars(Handle \/ Step \/ Report)
    /\ \A t \in Traders :
        /\ SF_allVars(AddTrader(t))
        /\ SF_allVars(Collect /\ pipe'[t] # pipe[t])

-----------------------------------------------------------------------------
(***************************************************************************)
(* Properties.                                                             *)
(***************************************************************************)
\* The cycle implements the engine: whatever the clients do and whenever their
\* messages arrive, the engine only ever takes steps of its own specification,
\* so that all that is shown of it holds here.
ImplementsEngine == Spec

\* Processes whose ids have the same bits left after the shift, and a process
\* whose counter has reached the bits of its id.
Alike(p, q) == (p * PidUnit) % IdSpace = (q * PidUnit) % IdSpace
Full(p) == count[p] >= PidUnit

\* Orders that generate_order_id may have given one id.
MayShareId(o, other) ==
    LET p == Pid[o.trader]
        q == Pid[other.trader]
    IN (p # q /\ Alike(p, q)) \/ Full(p) \/ Full(q)

\* The exchange ends for two causes only: an order that came to rest is priced
\* below zero, or it has the id of one that rests, and that is an order of
\* another process whose id lost the bits in which they differ, if not of one
\* that has run out of numbers.  Whatever is quoted, cancelled, removed and
\* quoted again, a tracker never meets an id of one process twice.
EndsForCause ==
    status = "terminated" =>
        \/ book[arrivals].price < 0
        \/ \E n \in DOMAIN book \ {arrivals} :
                /\ IdOf(book[n]) = IdOf(book[arrivals])
                /\ MayShareId(book[n], book[arrivals])

\* The updates that name a level, and the quantity a client that applies all of
\* them has for it: that of the last.
Naming(messages, l) ==
    {i \in DOMAIN messages :
        messages[i].kind = "tick" /\ l \in DOMAIN messages[i].levels}

Copy(messages, l) ==
    IF Naming(messages, l) = {} THEN 0
    ELSE messages[Max(Naming(messages, l))].levels[l]

HasCopy(t) == \A l \in Levels : Copy(told[t], l) = levels[l]

\* A client that was there from the start knows the book after every tick.
CopiesMatchLevels ==
    BetweenTicks => \A t \in Present \cap Listening : HasCopy(t)

\* The capital that a client was told last.
AccountsAmong(messages) == {i \in DOMAIN messages : messages[i].kind = "account"}

LastCapital(messages, initial) ==
    IF AccountsAmong(messages) = {} THEN initial
    ELSE messages[Max(AccountsAmong(messages))].capital

\* What a client was told last of its capital is its capital, between ticks.
CapitalTold ==
    BetweenTicks =>
        \A t \in Listening : CapitalOf[t] = LastCapital(told[t], InitialCapital[t])

\* The account update is about the match.
IsAbout(update, match) ==
    /\ update.ticker = match.ticker /\ update.side = match.side
    /\ update.qty = match.qty /\ update.price = match.price

\* The i-th message follows, with nothing but account updates in between, the
\* update of the book that has the trade of t that it tells of.
FollowsMarket(messages, i, t) ==
    \E j \in 1 .. i - 1 :
        /\ messages[j].kind = "tick"
        /\ \A k \in j + 1 .. i : messages[k].kind = "account"
        /\ \E match \in ToSet(messages[j].trades) :
            t \in {match.buyer, match.seller} /\ IsAbout(messages[i], match)

\* A client hears of its own trade after the update of the book that the trade
\* is part of, and before the next tick.
AccountAfterMarket ==
    \A t \in Traders : \A i \in AccountsAmong(told[t]) : FollowsMarket(told[t], i, t)

\* A cancel never overtakes the order it is for, over the pipe and through the
\* sort; otherwise it would be ignored and the order would rest.  Only a process
\* that has run out of numbers names another order by it.
CancelsFollowOrders ==
    [][\A m \in orders \ orders' :
        m.kind = "cancel" =>
            \A o \in orders' \cup ToSet(pipe[m.trader]) :
                o.kind = "limit" /\ o.trader = m.trader /\ ~Full(Pid[m.trader])
                    => o.id # m.id]_allVars

\* Every order and cancel that a client writes is handled by a tick, unless
\* its sandbox time is up, and every tick ends, unless the exchange does.
OrdersHandled ==
    \A t \in Traders :
        pipe[t] # <<>> ~>
            (BetweenTicks /\ pipe[t] = <<>>) \/ status = "terminated"

\* template.py:114: "Side of order that was fulfilled".  Both traders are told
\* the side of the aggressive order.
FulfilledSide ==
    \A t \in Traders : \A i \in DOMAIN told[t] :
        told[t][i].kind = "account" =>
            \A j \in 1 .. i - 1 :
                /\ told[t][j].kind = "tick"
                /\ \A k \in j + 1 .. i : told[t][k].kind = "account"
                => \E match \in ToSet(told[t][j].trades) :
                    t = (IF told[t][i].side = "buy" THEN match.buyer ELSE match.seller)

\* faq/page.tsx:19: the updates are "sufficient for you to maintain a complete
\* copy of the local orderbook".  A trader that the sandbox adds is not told
\* what was in the book before it came.
CompleteCopy == BetweenTicks => \A t \in Listening : HasCopy(t)

=============================================================================
