------------------------------- MODULE Sandbox -------------------------------
(***************************************************************************)
(* The life of an algorithm in the sandbox.  A request thread of the       *)
(* server starts a wrapper process, waits until it has reported, and hands *)
(* the trader to the main thread; a timer takes the trader's handle away   *)
(* when the trial is over.  The main thread uses the handle meanwhile, and *)
(* the io thread stores what the wrapper writes.                           *)
(*                                                                         *)
(*   request, at     the algorithm that the request thread is adding, and  *)
(*                   what it does next.                                    *)
(*   traders_to_add  the traders that wait for the main thread, behind     *)
(*   trader_lock     its holder.                                           *)
(*   main, visit     what the main thread does, to which trader.           *)
(*   pending         the local vector of before_cycle_.                    *)
(*   traders_        the TraderContainer.                                  *)
(*   handle          the optional wrapper_handle_: while it is "released"  *)
(*                   its destructor runs.                                  *)
(*   reader          the read operation of the PipeReader: "ready" when it *)
(*                   has completed and its handler waits to run.           *)
(*   shared          the messages that the reader has stored.              *)
(*   taken           the orders that the main thread has read.             *)
(*   timers_         the trial's timer, and how far its handler has come.  *)
(*   process, stdin, stdout  the wrapper process and its pipes.            *)
(*   timestamps_     its rate limiter.                                     *)
(*   calls, placed   the number of orders its algorithm has asked for, and *)
(*                   when those were that have been let through.           *)
(*   now             the clock.                                            *)
(*   exchange        "dead" after undefined behaviour or an exception.     *)
(***************************************************************************)
EXTENDS RateLimiter, SequencesExt

CONSTANTS
    Traders,        \* the algorithms that are submitted
    Free, None,     \* nobody holds the lock; no request
    MaxCalls,       \* [Traders -> Nat], bound on the orders asked for
    MaxUnread,      \* bound on what a wrapper leaves unread
    MaxTime         \* bound on the clock

ASSUME NoneAssumption  == None \notin Traders
ASSUME FreeAssumption  == Free # "main"
ASSUME CallsAssumption == MaxCalls \in [Traders -> Nat]
ASSUME BoundAssumption == MaxUnread \in Nat /\ MaxTime \in Nat

VARIABLES request, at, traders_to_add, trader_lock, main, visit, pending,
          traders_, handle, reader, shared, taken, timers_, process, stdin,
          stdout, timestamps_, calls, placed, now, exchange

serverVars  == <<request, at>>
mainVars    == <<main, visit, pending, traders_, taken>>
queueVars   == <<traders_to_add, trader_lock>>
wrapperVars == <<process, stdin, stdout, timestamps_, calls, placed>>
sandboxVars == <<serverVars, mainVars, queueVars, handle, reader, shared,
                 timers_, wrapperVars, now, exchange>>

\* init_message; an order is the number of its call.
InitMessage == 0

Alive == {"starting", "waiting", "running"}

SandboxInit ==
    /\ request = None
    /\ at = "idle"
    /\ traders_to_add = <<>>
    /\ trader_lock = Free
    /\ main = "pending"
    /\ visit = 1
    /\ pending = <<>>
    /\ traders_ = <<>>
    /\ handle = [t \in Traders |-> "none"]
    /\ reader = [t \in Traders |-> "none"]
    /\ shared = [t \in Traders |-> <<>>]
    /\ taken = [t \in Traders |-> <<>>]
    /\ timers_ = [t \in Traders |-> "none"]
    /\ process = [t \in Traders |-> "none"]
    /\ stdin = [t \in Traders |-> <<>>]
    /\ stdout = [t \in Traders |-> <<>>]
    /\ timestamps_ = [t \in Traders |-> <<>>]
    /\ calls = [t \in Traders |-> 0]
    /\ placed = [t \in Traders |-> <<>>]
    /\ now = 0
    /\ exchange = "up"

\* What the exchange writes to a process that has exited goes nowhere.
Send(S, message) ==
    stdin' = [t \in Traders |-> IF t \in S /\ process[t] \in Alive
                                THEN Append(stdin[t], message)
                                ELSE stdin[t]]

-----------------------------------------------------------------------------
(***************************************************************************)
(* The request thread: add_pending_trader_.                                *)
(***************************************************************************)
\* The trader's constructor spawns the wrapper and sends it the algorithm.  If
\* that fails the request is answered with an error and leaves no trace.
CreateTrader(t) ==
    /\ request = None
    /\ handle[t] = "none"
    /\ request' = t
    /\ at' = "init"
    /\ handle' = [handle EXCEPT ![t] = "alive"]
    /\ reader' = [reader EXCEPT ![t] = "waiting"]
    /\ process' = [process EXCEPT ![t] = "starting"]
    /\ stdin' = [stdin EXCEPT ![t] = <<"algorithm">>]
    /\ UNCHANGED <<mainVars, queueVars, shared, timers_, stdout, timestamps_,
                   calls, placed, now, exchange>>

\* Mutant of BlockOnInit: the constructor does not wait.
DoNotBlock ==
    /\ at = "init"
    /\ at' = "push"
    /\ UNCHANGED <<request, mainVars, queueVars, handle, reader, shared,
                   timers_, wrapperVars, now, exchange>>

\* block_on_init takes messages until one is the init message.
BlockOnInit ==
    /\ at = "init"
    /\ shared[request] # <<>>
    /\ shared' = [shared EXCEPT ![request] = Tail(@)]
    /\ at' = IF Head(shared[request]) = InitMessage THEN "push" ELSE "init"
    /\ UNCHANGED <<request, mainVars, queueVars, handle, reader, timers_,
                   wrapperVars, now, exchange>>

\* Mutant of PushTrader: without the lock.
PushUnlocked ==
    /\ at = "push"
    /\ traders_to_add' = Append(traders_to_add, request)
    /\ at' = "timer"
    /\ UNCHANGED <<request, mainVars, trader_lock, handle, reader, shared,
                   timers_, wrapperVars, now, exchange>>

PushTrader ==
    /\ at = "push"
    /\ trader_lock = Free
    /\ traders_to_add' = Append(traders_to_add, request)
    /\ at' = "timer"
    /\ UNCHANGED <<request, mainVars, trader_lock, handle, reader, shared,
                   timers_, wrapperVars, now, exchange>>

StartRemoveTimer ==
    /\ at = "timer"
    /\ timers_' = [timers_ EXCEPT ![request] = "armed"]
    /\ at' = "start"
    /\ UNCHANGED <<request, mainVars, queueVars, handle, reader, shared,
                   wrapperVars, now, exchange>>

\* Mutant of SendStart: everybody is told, as in the dev mode.
SendStartToAll ==
    /\ at = "start"
    /\ Send({t \in Traders : handle[t] = "alive"}, "start")
    /\ request' = None
    /\ at' = "idle"
    /\ UNCHANGED <<mainVars, queueVars, handle, reader, shared, timers_,
                   process, stdout, timestamps_, calls, placed, now, exchange>>

\* The trader is told to start, last, and the request is answered.
SendStart ==
    /\ at = "start"
    /\ Send({request} \cap {t \in Traders : handle[t] = "alive"}, "start")
    /\ request' = None
    /\ at' = "idle"
    /\ UNCHANGED <<mainVars, queueVars, handle, reader, shared, timers_,
                   process, stdout, timestamps_, calls, placed, now, exchange>>

ServerStep == BlockOnInit \/ PushTrader \/ StartRemoveTimer \/ SendStart

-----------------------------------------------------------------------------
(***************************************************************************)
(* The main thread, tick after tick.                                       *)
(***************************************************************************)
\* get_and_clear_pending_traders
MoveTraders ==
    /\ main = "pending"
    /\ trader_lock = Free
    /\ trader_lock' = "main"
    /\ pending' = traders_to_add
    /\ traders_to_add' = <<>>
    /\ main' = "clear"
    /\ UNCHANGED <<serverVars, visit, traders_, taken, handle, reader, shared,
                   timers_, wrapperVars, now, exchange>>

ClearTraders ==
    /\ main = "clear"
    /\ traders_to_add' = <<>>
    /\ trader_lock' = Free
    /\ main' = "add"
    /\ UNCHANGED <<serverVars, visit, pending, traders_, taken, handle, reader,
                   shared, timers_, wrapperVars, now, exchange>>

AddTraders ==
    /\ main = "add"
    /\ traders_' = traders_ \o pending
    /\ pending' = <<>>
    /\ main' = "read"
    /\ visit' = 1
    /\ UNCHANGED <<serverVars, taken, queueVars, handle, reader, shared,
                   timers_, wrapperVars, now, exchange>>

\* read_orders and send_message ask whether the handle is there ...
Visit(here, use, next) ==
    /\ main = here
    /\ IF visit > Len(traders_)
       THEN main' = next /\ visit' = 1
       ELSE IF handle[traders_[visit]] = "alive"
            THEN main' = use /\ UNCHANGED visit
            ELSE UNCHANGED main /\ visit' = visit + 1
    /\ UNCHANGED <<serverVars, pending, traders_, taken, queueVars, handle,
                   reader, shared, timers_, wrapperVars, now, exchange>>

ReadOrders == Visit("read", "taking", "report")

SendUpdates == Visit("send", "sending", "pending")

\* ... and then use it.  get_shared swaps what has been stored for nothing; an
\* init message among it ends the exchange.  If the handle has been destroyed
\* meanwhile there is nothing to take, or the exchange crashes.
TakeOrders ==
    LET t == traders_[visit]
    IN /\ main = "taking"
       /\ main' = "read"
       /\ visit' = visit + 1
       /\ IF handle[t] = "destroyed"
          THEN /\ exchange' \in {"up", "dead"}
               /\ UNCHANGED <<taken, shared>>
          ELSE /\ exchange' = IF Contains(shared[t], InitMessage)
                              THEN "dead" ELSE "up"
               /\ taken' = [taken EXCEPT ![t] = @ \o shared[t]]
               /\ shared' = [shared EXCEPT ![t] = <<>>]
       /\ UNCHANGED <<serverVars, pending, traders_, queueVars, handle, reader,
                      timers_, wrapperVars, now>>

\* A tick that changes nothing has nothing to report.
Report ==
    /\ main = "report"
    /\ \/ main' = "pending"
       \/ /\ \A t \in Traders : Len(stdin[t]) < MaxUnread
          /\ main' = "send"
    /\ UNCHANGED <<serverVars, visit, pending, traders_, taken, queueVars,
                   handle, reader, shared, timers_, wrapperVars, now, exchange>>

SendUpdate ==
    LET t == traders_[visit]
    IN /\ main = "sending"
       /\ main' = "send"
       /\ visit' = visit + 1
       /\ IF handle[t] = "destroyed"
          THEN exchange' \in {"up", "dead"} /\ UNCHANGED stdin
          ELSE Send({t}, "update") /\ UNCHANGED exchange
       /\ UNCHANGED <<serverVars, pending, traders_, taken, queueVars, handle,
                      reader, shared, timers_, process, stdout, timestamps_,
                      calls, placed, now>>

MainStep ==
    \/ MoveTraders \/ ClearTraders \/ AddTraders
    \/ ReadOrders \/ TakeOrders
    \/ Report \/ SendUpdates \/ SendUpdate

-----------------------------------------------------------------------------
(***************************************************************************)
(* The timer thread runs one handler at a time: disable() destroys the     *)
(* handle, and the log of the trial is uploaded.                           *)
(***************************************************************************)
\* The trial is over.  reset() takes the handle out of the optional first; its
\* destructor sends SIGTERM to the process ...
Expire(t) ==
    /\ timers_[t] = "armed"
    /\ \A u \in Traders : timers_[u] \notin {"stopping", "uploading"}
    /\ timers_' = [timers_ EXCEPT ![t] = "stopping"]
    /\ handle' = [handle EXCEPT ![t] = "released"]
    /\ UNCHANGED <<serverVars, mainVars, queueVars, reader, shared, wrapperVars,
                   now, exchange>>

\* ... waits for it, and destroys writer and reader.  Cancelling the read does
\* not reach a handler whose read has completed.  If there is a log file, it
\* is read and sent to the storage.
DestroyHandle(t) ==
    /\ timers_[t] = "stopping"
    /\ process[t] \notin Alive
    /\ \E next \in {"uploading", "done"} : timers_' = [timers_ EXCEPT ![t] = next]
    /\ handle' = [handle EXCEPT ![t] = "destroyed"]
    /\ reader' = [reader EXCEPT ![t] = IF @ = "waiting" THEN "ended" ELSE @]
    /\ UNCHANGED <<serverVars, mainVars, queueVars, shared, wrapperVars, now,
                   exchange>>

\* The storage answers, if it does: put_request has no timeout.
UploadLog(t) ==
    /\ timers_[t] = "uploading"
    /\ timers_' = [timers_ EXCEPT ![t] = "done"]
    /\ UNCHANGED <<serverVars, mainVars, queueVars, handle, reader, shared,
                   wrapperVars, now, exchange>>

-----------------------------------------------------------------------------
(***************************************************************************)
(* The io thread: PipeReader.                                              *)
(***************************************************************************)
ReadCompletes(t) ==
    /\ reader[t] = "waiting"
    /\ stdout[t] # <<>>
    /\ reader' = [reader EXCEPT ![t] = "ready"]
    /\ UNCHANGED <<serverVars, mainVars, queueVars, handle, shared, timers_,
                   wrapperVars, now, exchange>>

\* Mutant of StoreMessage: the newest message first.
StoreInFront(t) ==
    /\ reader[t] = "ready"
    /\ shared' = [shared EXCEPT ![t] = <<Head(stdout[t])>> \o @]
    /\ stdout' = [stdout EXCEPT ![t] = Tail(@)]
    /\ reader' = [reader EXCEPT ![t] = "waiting"]
    /\ UNCHANGED <<serverVars, mainVars, queueVars, handle, timers_, process,
                   stdin, timestamps_, calls, placed, now, exchange>>

\* The handler stores the message and starts the next read.  If the reader has
\* been destroyed the message is lost, or the exchange crashes.
StoreMessage(t) ==
    /\ reader[t] = "ready"
    /\ stdout' = [stdout EXCEPT ![t] = Tail(@)]
    /\ IF handle[t] = "destroyed"
       THEN /\ exchange' \in {"up", "dead"}
            /\ reader' = [reader EXCEPT ![t] = "ended"]
            /\ UNCHANGED shared
       ELSE /\ shared' = [shared EXCEPT ![t] = Append(@, Head(stdout[t]))]
            /\ reader' = [reader EXCEPT ![t] = "waiting"]
            /\ UNCHANGED exchange
    /\ UNCHANGED <<serverVars, mainVars, queueVars, handle, timers_, process,
                   stdin, timestamps_, calls, placed, now>>

\* The process has closed its end: the handler gets an error and stops.
ReadEnds(t) ==
    /\ reader[t] = "waiting"
    /\ stdout[t] = <<>>
    /\ process[t] \notin Alive
    /\ reader' = [reader EXCEPT ![t] = "ended"]
    /\ UNCHANGED <<serverVars, mainVars, queueVars, handle, shared, timers_,
                   wrapperVars, now, exchange>>

IoStep(t) == ReadCompletes(t) \/ StoreMessage(t) \/ ReadEnds(t)

-----------------------------------------------------------------------------
(***************************************************************************)
(* The wrapper process.                                                    *)
(***************************************************************************)
\* main: it takes the algorithm and reports; an empty one is reported too.
ReportStartup(t) ==
    /\ process[t] = "starting"
    /\ stdin[t] # <<>>
    /\ stdin' = [stdin EXCEPT ![t] = Tail(@)]
    /\ stdout' = [stdout EXCEPT ![t] = Append(@, InitMessage)]
    /\ \E p \in {"waiting", "exited"} : process' = [process EXCEPT ![t] = p]
    /\ UNCHANGED <<serverVars, mainVars, queueVars, handle, reader, shared,
                   timers_, timestamps_, calls, placed, now, exchange>>

\* Mutant of GiveUp: it exits without a word.
GiveUpSilently(t) ==
    /\ process[t] = "starting"
    /\ process' = [process EXCEPT ![t] = "exited"]
    /\ UNCHANGED <<serverVars, mainVars, queueVars, handle, reader, shared,
                   timers_, stdin, stdout, timestamps_, calls, placed, now,
                   exchange>>

\* The resource limits cannot be set.
GiveUp(t) ==
    /\ process[t] = "starting"
    /\ stdout' = [stdout EXCEPT ![t] = Append(@, InitMessage)]
    /\ process' = [process EXCEPT ![t] = "exited"]
    /\ UNCHANGED <<serverVars, mainVars, queueVars, handle, reader, shared,
                   timers_, stdin, timestamps_, calls, placed, now, exchange>>

\* wait_for_start_time discards what comes before the start message; the
\* message of a later request names a time that has passed.
WaitForStart(t) ==
    /\ process[t] = "waiting"
    /\ stdin[t] # <<>>
    /\ stdin' = [stdin EXCEPT ![t] = Tail(@)]
    /\ process' = [process EXCEPT ![t] = IF Head(stdin[t]) = "start"
                                         THEN "running" ELSE @]
    /\ UNCHANGED <<serverVars, mainVars, queueVars, handle, reader, shared,
                   timers_, stdout, timestamps_, calls, placed, now, exchange>>

\* main_event_loop knows no other message than updates: it throws.
ReadUpdate(t) ==
    /\ process[t] = "running"
    /\ stdin[t] # <<>>
    /\ stdin' = [stdin EXCEPT ![t] = Tail(@)]
    /\ process' = [process EXCEPT ![t] = IF Head(stdin[t]) = "update"
                                         THEN @ ELSE "exited"]
    /\ UNCHANGED <<serverVars, mainVars, queueVars, handle, reader, shared,
                   timers_, stdout, timestamps_, calls, placed, now, exchange>>

\* place_limit_order and place_market_order
PlaceOrder(t) ==
    LET recent == Unexpired(timestamps_[t], now)
    IN /\ process[t] = "running"
       /\ calls[t] < MaxCalls[t]
       /\ calls' = [calls EXCEPT ![t] = @ + 1]
       /\ IF ShouldRateLimit(recent)
          THEN /\ timestamps_' = [timestamps_ EXCEPT ![t] = recent]
               /\ UNCHANGED <<stdout, placed>>
          ELSE /\ timestamps_' = [timestamps_ EXCEPT ![t] = Append(recent, now)]
               /\ placed' = [placed EXCEPT ![t] = Append(@, now)]
               /\ stdout' = [stdout EXCEPT ![t] = Append(@, Len(placed[t]) + 1)]
       /\ UNCHANGED <<serverVars, mainVars, queueVars, handle, reader, shared,
                      timers_, process, stdin, now, exchange>>

\* The algorithm throws, or the process is killed from outside; when it has not
\* reported yet nobody ever will.
Die(t) ==
    /\ process[t] \in Alive
    /\ process' = [process EXCEPT ![t] = IF @ = "starting"
                                         THEN "killed" ELSE "exited"]
    /\ UNCHANGED <<serverVars, mainVars, queueVars, handle, reader, shared,
                   timers_, stdin, stdout, timestamps_, calls, placed, now,
                   exchange>>

\* Mutant of Terminate: SIGTERM is handled as SIGINT is.
WaitForTheExchange(t) ==
    /\ timers_[t] = "stopping"
    /\ process[t] \in Alive
    /\ UNCHANGED sandboxVars

\* catch_sigterm
Terminate(t) ==
    /\ timers_[t] = "stopping"
    /\ process[t] \in Alive
    /\ process' = [process EXCEPT ![t] = "exited"]
    /\ UNCHANGED <<serverVars, mainVars, queueVars, handle, reader, shared,
                   timers_, stdin, stdout, timestamps_, calls, placed, now,
                   exchange>>

Advance ==
    /\ now < MaxTime
    /\ now' = now + 1
    /\ UNCHANGED <<serverVars, mainVars, queueVars, handle, reader, shared,
                   timers_, wrapperVars, exchange>>

-----------------------------------------------------------------------------
ExchangeStep ==
    /\ exchange = "up"
    /\ \/ ServerStep
       \/ MainStep
       \/ \E t \in Traders :
            \/ CreateTrader(t) \/ IoStep(t)
            \/ Expire(t) \/ DestroyHandle(t) \/ UploadLog(t)

WrapperStep(t) ==
    \/ ReportStartup(t) \/ GiveUp(t) \/ WaitForStart(t) \/ ReadUpdate(t)
    \/ PlaceOrder(t) \/ Die(t) \/ Terminate(t)

\* The exchange is gone, and with it its wrappers.
Over == exchange = "dead" /\ UNCHANGED sandboxVars

SandboxNext ==
    \/ ExchangeStep
    \/ \E t \in Traders : WrapperStep(t)
    \/ Advance
    \/ Over

SandboxSpec == SandboxInit /\ [][SandboxNext]_sandboxVars

Up(A) == exchange = "up" /\ A

\* Every thread goes on, and a thread that waits for the lock gets it; a timer
\* that has expired is handled when the thread is free; a process starts up, and
\* SIGTERM ends it.  That the storage answers is not assumed.
FairSandboxSpec ==
    /\ SandboxSpec
    /\ WF_sandboxVars(Up(ServerStep))
    /\ SF_sandboxVars(Up(PushTrader))
    /\ WF_sandboxVars(Up(MainStep))
    /\ WF_sandboxVars(Up(\E t \in Traders : Expire(t)))
    /\ \A t \in Traders :
        /\ WF_sandboxVars(Up(IoStep(t)))
        /\ WF_sandboxVars(Up(DestroyHandle(t)))
        /\ WF_sandboxVars(ReportStartup(t))
        /\ WF_sandboxVars(Terminate(t))

-----------------------------------------------------------------------------
(***************************************************************************)
(* Properties.                                                             *)
(***************************************************************************)
\* A trader that the request thread has pushed is in one of the three vectors,
\* once: it is not lost between the threads and not added twice.
AddedOnce ==
    LET known == traders_to_add \o pending \o traders_
        pushed == {t \in Traders :
                    timers_[t] # "none" \/ (request = t /\ at = "timer")}
    IN IsInjective(known) /\ ToSet(known) = pushed

\* collect_orders throws on an init message: the main thread never meets one.
InitTaken ==
    \A i \in DOMAIN traders_ :
        LET t == traders_[i]
        IN ~Contains(shared[t] \o stdout[t], InitMessage)

\* A start message ends a wrapper that has started: none is on its way to one.
StartedOnce ==
    \A t \in Traders : process[t] = "running" => ~Contains(stdin[t], "start")

\* Every order a wrapper has written is read once and in order, behind the init
\* message until that has been taken, as long as its handle is there.
OrdersKept ==
    \A t \in Traders : handle[t] \in {"alive", "released"} =>
        LET coming  == (taken[t] \o shared[t]) \o stdout[t]
            written == [n \in 1 .. Len(placed[t]) |-> n]
        IN coming \in {written, <<InitMessage>> \o written}

\* No window holds more than MAX_CALLS orders of a client.
WindowBound ==
    \A t \in Traders : \A i, j \in DOMAIN placed[t] :
        j >= i + MAX_CALLS => placed[t][j] - placed[t][i] > TIME_WINDOW

\* A request is answered, unless its wrapper is killed before it can report:
\* for that one, and for all requests after it, the thread waits for ever.
Answered ==
    \A t \in Traders :
        request = t ~> request # t \/ process[t] = "killed" \/ exchange = "dead"

\* When its trial is over a trader loses its process and its pipes, unless the
\* upload of another trader's log never ends.
Removed ==
    (\A u \in Traders : []<>(timers_[u] # "uploading")) =>
        \A t \in Traders :
            timers_[t] = "armed" ~>
                \/ handle[t] = "destroyed" /\ process[t] \notin Alive
                \/ exchange = "dead"

\* A read goes on until the pipe is closed or cancelled, so that destroying the
\* reader is all it takes: no handler is left that will use it.
ReaderOutlivesHandlers ==
    \A t \in Traders : handle[t] = "destroyed" => reader[t] # "ready"
=============================================================================
