---------------------------- MODULE SandboxProofs ----------------------------
(***************************************************************************)
(* Proofs about Sandbox: no trader is lost or added twice between the      *)
(* threads, the main thread meets no init message, no wrapper is started   *)
(* twice, and no window holds more orders than the limiter allows.         *)
(***************************************************************************)
EXTENDS Sandbox, SequenceTheorems, WellFoundedInduction, TLAPS

-----------------------------------------------------------------------------
(***************************************************************************)
(* The limiter's loop.                                                     *)
(***************************************************************************)
\* A set of naturals with a member has a least one.
LEMMA LeastNatural ==
  ASSUME NEW S \in SUBSET Nat, S # {}
  PROVE  \E i \in S : \A j \in S : i <= j
<1>1. PICK i \in S : \A j \in S : <<j, i>> \notin OpToRel(<, Nat)
  BY NatLessThanWellFounded, WFMin, Zenon
<1>2. \A j \in S : ~(j < i)
  BY <1>1 DEF OpToRel
<1> QED
  BY <1>2

\* What the loop leaves is the end of what there was, and all that it pops is
\* older than the window.
LEMMA UnexpiredIsTail ==
  ASSUME NEW times \in Seq(Nat), NEW time \in Nat
  PROVE  LET recent == Unexpired(times, time)
             popped == Len(times) - Len(recent)
         IN /\ recent \in Seq(Nat)
            /\ popped \in Nat
            /\ \A i \in 1 .. Len(recent) : recent[i] = times[popped + i]
            /\ \A i \in 1 .. popped : time - times[i] > TIME_WINDOW
<1> DEFINE n == Len(times)
           kept == {i \in 1 .. n : time - times[i] <= TIME_WINDOW}
           recent == Unexpired(times, time)
<1>1. n \in Nat /\ \A i \in 1 .. n : times[i] \in Nat
  BY LenProperties
<1>2. CASE kept = {}
  <2>1. recent = <<>>
    BY <1>2 DEF Unexpired
  <2>2. \A i \in 1 .. n : time - times[i] > TIME_WINDOW
    BY <1>1, <1>2, WindowAssumption
  <2> QED
    BY <1>1, <2>1, <2>2
<1>3. CASE kept # {}
  <2> DEFINE first == CHOOSE i \in kept : \A j \in kept : i <= j
  <2>1. first \in kept /\ \A j \in kept : first <= j
    <3>1. kept \in SUBSET Nat
      BY <1>1
    <3>2. \E i \in kept : \A j \in kept : i <= j
      BY <3>1, <1>3, LeastNatural
    <3> QED
      BY <3>2
  <2>2. recent = SubSeq(times, first, n)
    BY <1>3 DEF Unexpired
  <2>3. first \in 1 .. n
    BY <2>1
  <2>4. \A i \in first .. n : times[i] \in Nat
    BY <1>1, <2>3
  <2> HIDE DEF first
  <2>5. /\ recent \in Seq(Nat)
        /\ Len(recent) = n - first + 1
        /\ \A i \in 1 .. n - first + 1 : recent[i] = times[first + i - 1]
    <3>1. first \in Int /\ n \in Int /\ first <= n
      BY <1>1, <2>3
    <3> QED
      BY <3>1, <2>2, <2>4, SubSeqProperties
  <2>6. \A i \in 1 .. first - 1 : time - times[i] > TIME_WINDOW
    BY <1>1, <2>1, <2>3, WindowAssumption, SMTT(30)
  <2> QED
    BY <1>1, <2>3, <2>5, <2>6
<1> QED
  BY <1>2, <1>3

-----------------------------------------------------------------------------
(***************************************************************************)
(* Types.                                                                  *)
(***************************************************************************)
TypeInv ==
    /\ request \in Traders \cup {None}
    /\ at \in {"idle", "init", "push", "timer", "start"}
    /\ traders_to_add \in Seq(Traders)
    /\ trader_lock \in {Free, "main"}
    /\ main \in {"pending", "clear", "add", "read", "taking", "report", "send",
                 "sending"}
    /\ visit \in Nat \ {0}
    /\ pending \in Seq(Traders)
    /\ traders_ \in Seq(Traders)
    /\ handle \in [Traders -> {"none", "alive", "released", "destroyed"}]
    /\ reader \in [Traders -> {"none", "waiting", "ready", "ended"}]
    /\ shared \in [Traders -> Seq(Nat)]
    /\ taken \in [Traders -> Seq(Nat)]
    /\ timers_ \in [Traders -> {"none", "armed", "stopping", "uploading", "done"}]
    /\ process \in [Traders -> {"none", "starting", "waiting", "running",
                               "killed", "exited"}]
    /\ stdin \in [Traders -> Seq({"algorithm", "start", "update"})]
    /\ stdout \in [Traders -> Seq(Nat)]
    /\ timestamps_ \in [Traders -> Seq(Nat)]
    /\ calls \in [Traders -> Nat]
    /\ placed \in [Traders -> Seq(Nat)]
    /\ now \in Nat
    /\ exchange \in {"up", "dead"}

\* Where the threads are: the request thread has a trader when it is busy, the
\* main thread uses one of its traders, and a completed read has a message.
PlaceInv ==
    /\ request = None <=> at = "idle"
    /\ main \in {"taking", "sending"} => visit \in 1 .. Len(traders_)
    /\ \A t \in Traders : reader[t] = "ready" => stdout[t] # <<>>

\* A trader gets a handle when its request comes, and loses it to its timer,
\* which is armed when the trader has been pushed.
HandleInv ==
    \A t \in Traders :
        /\ handle[t] = "none" => request # t
        /\ handle[t] = "none" => timers_[t] = "none"
        /\ request = t /\ at \in {"init", "push", "timer"} => timers_[t] = "none"
        /\ timers_[t] \in {"none", "armed"} => handle[t] \in {"none", "alive"}

Pushed == {t \in Traders : timers_[t] # "none" \/ (request = t /\ at = "timer")}

\* The main thread moves the traders while it holds the lock.
VectorInv ==
    /\ trader_lock = "main" <=> main = "clear"
    /\ main = "clear" => traders_to_add = <<>>
    /\ main \notin {"clear", "add"} => pending = <<>>
    /\ IsInjective(traders_to_add) /\ IsInjective(pending) /\ IsInjective(traders_)
    /\ ToSet(traders_to_add) \cap ToSet(pending) = {}
    /\ ToSet(traders_to_add) \cap ToSet(traders_) = {}
    /\ ToSet(pending) \cap ToSet(traders_) = {}
    /\ ToSet(traders_to_add) \cup ToSet(pending) \cup ToSet(traders_) = Pushed

\* None of the messages from the first-th on is an init message.
NoInitFrom(messages, first) ==
    \A i \in first .. Len(messages) : messages[i] # InitMessage

\* While the request thread waits, the init message has not been written or is
\* the first of all that the wrapper has written.
InitComes(t) ==
    \/ /\ process[t] \in {"starting", "killed"}
       /\ shared[t] = <<>> /\ stdout[t] = <<>>
    \/ /\ process[t] # "starting"
       /\ shared[t] # <<>> /\ shared[t][1] = InitMessage
       /\ NoInitFrom(shared[t], 2) /\ NoInitFrom(stdout[t], 1)
    \/ /\ process[t] # "starting"
       /\ shared[t] = <<>>
       /\ stdout[t] # <<>> /\ stdout[t][1] = InitMessage
       /\ NoInitFrom(stdout[t], 2)

\* When it has been taken there is no other.
InitTold(t) ==
    /\ process[t] # "starting"
    /\ NoInitFrom(shared[t], 1) /\ NoInitFrom(stdout[t], 1)

Waits(t) == request = t /\ at = "init"

InitInv ==
    \A t \in Traders :
        /\ handle[t] = "none" =>
             process[t] = "none" /\ shared[t] = <<>> /\ stdout[t] = <<>>
        /\ Waits(t) => InitComes(t)
        /\ ~Waits(t) => InitTold(t)

\* No two messages tell a wrapper to start.
OneStart(messages) ==
    \A i, j \in 1 .. Len(messages) :
        messages[i] = "start" /\ messages[j] = "start" => i = j

\* Until its request is done a trader is not told to start, and then once.
StartInv ==
    \A t \in Traders :
        /\ handle[t] = "none" \/ request = t =>
             process[t] # "running" /\ ~Contains(stdin[t], "start")
        /\ process[t] = "running" => ~Contains(stdin[t], "start")
        /\ OneStart(stdin[t])

\* The limiter knows the last orders, and those it has forgotten are too old
\* to matter.
TimeInv ==
    \A t \in Traders :
        LET known == timestamps_[t]
            all == placed[t]
            forgotten == Len(all) - Len(known)
        IN /\ forgotten \in Nat
           /\ \A i \in 1 .. Len(known) : known[i] = all[forgotten + i]
           /\ \A i \in 1 .. forgotten : now - all[i] > TIME_WINDOW
           /\ \A i, j \in 1 .. Len(all) : 
                /\ all[i] <= now
                /\ j >= i + MAX_CALLS => all[j] - all[i] > TIME_WINDOW

SandboxInv ==
    /\ TypeInv /\ PlaceInv /\ HandleInv /\ VectorInv
    /\ InitInv /\ StartInv /\ TimeInv

-----------------------------------------------------------------------------
(***************************************************************************)
(* Lemmas about the sequences.                                             *)
(***************************************************************************)
\* What is stored stays in order.
LEMMA AppendMessage ==
  ASSUME NEW S, NEW s \in Seq(S), NEW e \in S
  PROVE  /\ Append(s, e) \in Seq(S) /\ Append(s, e) # <<>>
         /\ Len(Append(s, e)) = Len(s) + 1
         /\ \A i \in 1 .. Len(s) : Append(s, e)[i] = s[i]
         /\ Append(s, e)[Len(s) + 1] = e
         /\ DOMAIN Append(s, e) = 1 .. Len(s) + 1
         /\ Contains(Append(s, e), e)
         /\ \A f : Contains(Append(s, e), f) <=> Contains(s, f) \/ f = e
<1>1. /\ Append(s, e) \in Seq(S) /\ Append(s, e) # <<>>
      /\ Len(Append(s, e)) = Len(s) + 1
      /\ \A i \in 1 .. Len(s) : Append(s, e)[i] = s[i]
      /\ Append(s, e)[Len(s) + 1] = e
  BY AppendProperties
<1>2. Len(s) \in Nat /\ DOMAIN Append(s, e) = 1 .. Len(s) + 1
  BY <1>1, LenProperties
<1>3. \A f : Contains(Append(s, e), f) <=> Contains(s, f) \/ f = e
  BY <1>1, <1>2 DEF Contains
<1> QED
  BY <1>1, <1>2, <1>3

LEMMA TakeMessage ==
  ASSUME NEW S, NEW s \in Seq(S), s # <<>>
  PROVE  /\ Head(s) \in S /\ Head(s) = s[1]
         /\ Len(s) \in Nat \ {0}
         /\ Tail(s) \in Seq(S)
         /\ Len(Tail(s)) = Len(s) - 1
         /\ \A i \in 1 .. Len(s) - 1 : Tail(s)[i] = s[i + 1]
         /\ DOMAIN Tail(s) = 1 .. Len(s) - 1
         /\ \A f : Contains(Tail(s), f) => Contains(s, f)
<1>1. /\ Head(s) \in S /\ Tail(s) \in Seq(S)
      /\ Len(Tail(s)) = Len(s) - 1
      /\ \A i \in 1 .. Len(s) - 1 : Tail(s)[i] = s[i + 1]
  BY HeadTailProperties
<1>2. Len(s) \in Nat \ {0} /\ DOMAIN Tail(s) = 1 .. Len(s) - 1
  BY <1>1, EmptySeq, LenProperties
<1>3. Head(s) = s[1]
  OBVIOUS
<1>4. \A f : Contains(Tail(s), f) => Contains(s, f)
  BY <1>1, <1>2 DEF Contains
<1> QED
  BY <1>1, <1>2, <1>3, <1>4

\* One vector behind the other.
LEMMA JoinTraders ==
  ASSUME NEW S, NEW s \in Seq(S), NEW u \in Seq(S)
  PROVE  /\ s \o u \in Seq(S)
         /\ ToSet(s \o u) = ToSet(s) \cup ToSet(u)
         /\ IsInjective(s) /\ IsInjective(u) /\ ToSet(s) \cap ToSet(u) = {}
              => IsInjective(s \o u)
<1>1. /\ Len(s) \in Nat /\ Len(u) \in Nat
      /\ DOMAIN s = 1 .. Len(s) /\ DOMAIN u = 1 .. Len(u)
  BY LenProperties
<1>2. /\ s \o u \in Seq(S)
      /\ Len(s \o u) = Len(s) + Len(u)
      /\ \A i \in 1 .. Len(s) + Len(u) :
           (s \o u)[i] = IF i <= Len(s) THEN s[i] ELSE u[i - Len(s)]
  BY ConcatProperties
<1>3. DOMAIN (s \o u) = 1 .. Len(s) + Len(u)
  BY <1>2, LenProperties
<1>4. \A i \in 1 .. Len(s) : (s \o u)[i] = s[i]
  BY <1>1, <1>2
<1>5. \A i \in 1 .. Len(u) : (s \o u)[Len(s) + i] = u[i]
  BY <1>1, <1>2
<1>6. ToSet(s \o u) = ToSet(s) \cup ToSet(u)
  <2>1. ASSUME NEW i \in 1 .. Len(s) + Len(u)
        PROVE  (s \o u)[i] \in ToSet(s) \cup ToSet(u)
    <3>1. CASE i <= Len(s)
      BY <3>1, <1>1, <1>2 DEF ToSet
    <3>2. CASE ~(i <= Len(s))
      <4>1. i - Len(s) \in 1 .. Len(u)
        BY <3>2, <1>1
      <4> QED
        BY <3>2, <4>1, <1>1, <1>2 DEF ToSet
    <3> QED
      BY <3>1, <3>2
  <2>2. ToSet(s) \cup ToSet(u) \subseteq ToSet(s \o u)
    <3>1. ASSUME NEW i \in 1 .. Len(s) PROVE s[i] \in ToSet(s \o u)
      BY <1>1, <1>3, <1>4 DEF ToSet
    <3>2. ASSUME NEW i \in 1 .. Len(u) PROVE u[i] \in ToSet(s \o u)
      <4>1. Len(s) + i \in 1 .. Len(s) + Len(u)
        BY <1>1
      <4> QED
        BY <4>1, <1>3, <1>5 DEF ToSet
    <3> QED
      BY <3>1, <3>2, <1>1 DEF ToSet
  <2> QED
    BY <2>1, <2>2, <1>3 DEF ToSet
<1>7. ASSUME IsInjective(s), IsInjective(u), ToSet(s) \cap ToSet(u) = {}
      PROVE  IsInjective(s \o u)
  <2> SUFFICES ASSUME NEW i \in 1 .. Len(s) + Len(u),
                      NEW j \in 1 .. Len(s) + Len(u),
                      (s \o u)[i] = (s \o u)[j], i < j
               PROVE  FALSE
    BY <1>1, <1>3 DEF IsInjective
  <2>1. CASE j <= Len(s)
    BY <2>1, <1>1, <1>2, <1>7 DEF IsInjective
  <2>2. CASE i > Len(s)
    <3>1. /\ i - Len(s) \in DOMAIN u /\ j - Len(s) \in DOMAIN u
          /\ u[i - Len(s)] = u[j - Len(s)]
      BY <2>2, <1>1, <1>2
    <3> QED
      BY <3>1, <2>2, <1>1, <1>7 DEF IsInjective
  <2>3. CASE i <= Len(s) /\ j > Len(s)
    <3>1. /\ i \in DOMAIN s /\ j - Len(s) \in DOMAIN u
          /\ s[i] = u[j - Len(s)]
      BY <2>3, <1>1, <1>2
    <3> QED
      BY <3>1, <1>7 DEF ToSet
  <2> QED
    BY <2>1, <2>2, <2>3, <1>1
<1> QED
  BY <1>2, <1>6, <1>7

-----------------------------------------------------------------------------
(***************************************************************************)
(* Every step keeps the invariant.                                         *)
(***************************************************************************)
\* A step is one of the actions.
LEMMA StepIsAction ==
  ASSUME [SandboxNext]_sandboxVars, NEW P,
         BlockOnInit \/ PushTrader \/ StartRemoveTimer \/ SendStart => P,
         MoveTraders \/ ClearTraders \/ AddTraders \/ ReadOrders \/ TakeOrders
           \/ Report \/ SendUpdates \/ SendUpdate => P,
         \A t \in Traders :
            CreateTrader(t) \/ Expire(t) \/ DestroyHandle(t) \/ UploadLog(t) => P,
         \A t \in Traders :
            ReadCompletes(t) \/ StoreMessage(t) \/ ReadEnds(t) => P,
         \A t \in Traders :
            ReportStartup(t) \/ GiveUp(t) \/ WaitForStart(t) \/ ReadUpdate(t)
              \/ PlaceOrder(t) \/ Die(t) \/ Terminate(t) => P,
         Advance \/ UNCHANGED sandboxVars => P
  PROVE  P
BY Zenon DEF SandboxNext, ExchangeStep, ServerStep, MainStep, IoStep, WrapperStep, Over

\* What is sent to a process leaves the pipes well-formed.
LEMMA SendType ==
  ASSUME TypeInv, NEW S, NEW m \in {"algorithm", "start", "update"}, Send(S, m)
  PROVE  /\ stdin' \in [Traders -> Seq({"algorithm", "start", "update"})]
         /\ \A t \in Traders :
              \/ stdin'[t] = stdin[t]
              \/ t \in S /\ stdin'[t] = Append(stdin[t], m)
<1>1. \A t \in Traders : stdin[t] \in Seq({"algorithm", "start", "update"})
  BY DEF TypeInv
<1>2. \A t \in Traders :
        Append(stdin[t], m) \in Seq({"algorithm", "start", "update"})
  BY <1>1, AppendMessage
<1> QED
  BY <1>1, <1>2 DEF Send

\* The types: the pipes' contents and the vectors.
LEMMA TypeKept ==
  ASSUME TypeInv, PlaceInv, [SandboxNext]_sandboxVars
  PROVE  TypeInv'
<1> USE DEF sandboxVars, serverVars, mainVars, queueVars, wrapperVars
<1>a. /\ \A t \in Traders : shared[t] \in Seq(Nat) /\ stdout[t] \in Seq(Nat)
      /\ \A t \in Traders : taken[t] \in Seq(Nat) /\ placed[t] \in Seq(Nat)
      /\ \A t \in Traders : stdin[t] \in Seq({"algorithm", "start", "update"})
  BY DEF TypeInv
<1>1. ASSUME BlockOnInit \/ PushTrader \/ StartRemoveTimer \/ SendStart
      PROVE  TypeInv'
  <2>1. CASE BlockOnInit
    <3>1. request \in Traders
      BY <2>1, NoneAssumption DEF BlockOnInit, TypeInv, PlaceInv
    <3>2. Tail(shared[request]) \in Seq(Nat)
      BY <2>1, <3>1, <1>a, TakeMessage DEF BlockOnInit
    <3> QED
      BY <2>1, <3>1, <3>2 DEF BlockOnInit, TypeInv
  <2>2. CASE PushTrader
    <3>1. request \in Traders
      BY <2>2 DEF PushTrader, TypeInv, PlaceInv
    <3>2. Append(traders_to_add, request) \in Seq(Traders)
      BY <3>1, AppendMessage DEF TypeInv
    <3> QED
      BY <2>2, <3>2 DEF PushTrader, TypeInv
  <2>3. CASE StartRemoveTimer
    BY <2>3 DEF StartRemoveTimer, TypeInv
  <2>4. CASE SendStart
    <3>1. stdin' \in [Traders -> Seq({"algorithm", "start", "update"})]
      BY <2>4, SendType DEF SendStart
    <3> QED
      BY <2>4, <3>1 DEF SendStart, TypeInv
  <2> QED
    BY <1>1, <2>1, <2>2, <2>3, <2>4
<1>2. ASSUME MoveTraders \/ ClearTraders \/ AddTraders \/ ReadOrders \/ TakeOrders
               \/ Report \/ SendUpdates \/ SendUpdate
      PROVE  TypeInv'
  <2>1. CASE MoveTraders
    BY <2>1 DEF MoveTraders, TypeInv
  <2>2. CASE ClearTraders
    BY <2>2 DEF ClearTraders, TypeInv
  <2>3. CASE AddTraders
    <3>1. traders_ \o pending \in Seq(Traders)
      BY JoinTraders DEF TypeInv
    <3> QED
      BY <2>3, <3>1, SMTT(30) DEF AddTraders, TypeInv
  <2>4. CASE ReadOrders \/ SendUpdates
    <3>1. /\ main' \in {"read", "taking", "report", "send", "sending", "pending"}
          /\ visit' \in Nat \ {0}
      <4>1. visit \in Nat \ {0}
        BY DEF TypeInv
      <4>2. visit' \in {1, visit, visit + 1}
        BY <2>4, Zenon DEF ReadOrders, SendUpdates, Visit
      <4>3. main' \in {"read", "taking", "report", "send", "sending", "pending"}
        BY <2>4 DEF ReadOrders, SendUpdates, Visit
      <4> QED
        BY <4>1, <4>2, <4>3
    <3>2. UNCHANGED <<serverVars, pending, traders_, taken, queueVars, handle,
                      reader, shared, timers_, wrapperVars, now, exchange>>
      BY <2>4 DEF ReadOrders, SendUpdates, Visit
    <3> QED
      BY <3>1, <3>2 DEF TypeInv
  <2>5. CASE TakeOrders
    <3> DEFINE t == traders_[visit]
    <3>1. t \in Traders
      BY <2>5 DEF TakeOrders, TypeInv, PlaceInv
    <3>2. taken[t] \o shared[t] \in Seq(Nat)
      BY <3>1, <1>a, ConcatProperties
    <3>3. /\ exchange' \in {"up", "dead"}
          /\ \/ UNCHANGED <<taken, shared>>
             \/ /\ taken' = [taken EXCEPT ![t] = taken[t] \o shared[t]]
                /\ shared' = [shared EXCEPT ![t] = <<>>]
          /\ main' = "read" /\ visit' = visit + 1
          /\ UNCHANGED <<serverVars, pending, traders_, queueVars, handle,
                         reader, timers_, wrapperVars, now>>
      BY <2>5 DEF TakeOrders
    <3> HIDE DEF t
    <3>4. /\ taken' \in [Traders -> Seq(Nat)]
          /\ shared' \in [Traders -> Seq(Nat)]
      <4>1. CASE UNCHANGED <<taken, shared>>
        BY <4>1 DEF TypeInv
      <4>2. CASE /\ taken' = [taken EXCEPT ![t] = taken[t] \o shared[t]]
                 /\ shared' = [shared EXCEPT ![t] = <<>>]
        <5>1. <<>> \in Seq(Nat)
          OBVIOUS
        <5> QED
          BY <5>1, <4>2, <3>2 DEF TypeInv
      <4> QED
        BY <3>3, <4>1, <4>2
    <3>5. main' \in {"read"} /\ visit' \in Nat \ {0}
      BY <3>3 DEF TypeInv
    <3> QED
      BY <3>3, <3>4, <3>5 DEF TypeInv
  <2>6. CASE Report
    BY <2>6 DEF Report, TypeInv
  <2>7. CASE SendUpdate
    <3>1. stdin' \in [Traders -> Seq({"algorithm", "start", "update"})]
      <4>1. UNCHANGED stdin \/ Send({traders_[visit]}, "update")
        BY <2>7 DEF SendUpdate
      <4>2. CASE UNCHANGED stdin
        BY <4>2 DEF TypeInv
      <4>3. CASE Send({traders_[visit]}, "update")
        BY <4>3, SendType
      <4> QED
        BY <4>1, <4>2, <4>3
    <3>2. /\ exchange' \in {"up", "dead"}
          /\ main' = "send" /\ visit' = visit + 1
          /\ UNCHANGED <<serverVars, pending, traders_, taken, queueVars, handle,
                         reader, shared, timers_, process, stdout, timestamps_,
                         calls, placed, now>>
      BY <2>7 DEF SendUpdate, TypeInv
    <3> QED
      BY <3>1, <3>2, SMTT(30) DEF TypeInv
  <2> QED
    BY <1>2, <2>1, <2>2, <2>3, <2>4, <2>5, <2>6, <2>7
<1>3. ASSUME NEW t \in Traders, CreateTrader(t) \/ Expire(t) \/ DestroyHandle(t)
                               \/ UploadLog(t)
      PROVE  TypeInv'
  <2>1. CASE CreateTrader(t)
    BY <2>1 DEF CreateTrader, TypeInv
  <2>2. CASE Expire(t)
    BY <2>2 DEF Expire, TypeInv
  <2>3. CASE DestroyHandle(t)
    BY <2>3, ZenonT(40) DEF DestroyHandle, TypeInv
  <2>4. CASE UploadLog(t)
    BY <2>4 DEF UploadLog, TypeInv
  <2> QED
    BY <1>3, <2>1, <2>2, <2>3, <2>4
<1>4. ASSUME NEW t \in Traders, ReadCompletes(t) \/ StoreMessage(t) \/ ReadEnds(t)
      PROVE  TypeInv'
  <2>1. CASE ReadCompletes(t) \/ ReadEnds(t)
    <3>1. /\ reader' = [reader EXCEPT ![t] = "ready"]
             \/ reader' = [reader EXCEPT ![t] = "ended"]
          /\ UNCHANGED <<serverVars, mainVars, queueVars, handle, shared,
                         timers_, wrapperVars, now, exchange>>
      BY <2>1 DEF ReadCompletes, ReadEnds
    <3> QED
      BY <3>1, ZenonT(40) DEF TypeInv
  <2>2. CASE StoreMessage(t)
    <3>1. /\ Head(stdout[t]) \in Nat
          /\ Tail(stdout[t]) \in Seq(Nat)
      BY <2>2, <1>a, TakeMessage DEF StoreMessage, PlaceInv
    <3>2. Append(shared[t], Head(stdout[t])) \in Seq(Nat)
      BY <3>1, <1>a, AppendMessage
    <3>3. /\ exchange' \in {"up", "dead"}
          /\ reader' \in [Traders -> {"none", "waiting", "ready", "ended"}]
          /\ shared' \in [Traders -> Seq(Nat)]
      BY <2>2, <3>2, ZenonT(40) DEF StoreMessage, TypeInv
    <3> QED
      BY <2>2, <3>1, <3>3 DEF StoreMessage, TypeInv
  <2> QED
    BY <1>4, <2>1, <2>2
<1>5. ASSUME NEW t \in Traders,
             ReportStartup(t) \/ GiveUp(t) \/ WaitForStart(t) \/ ReadUpdate(t)
               \/ PlaceOrder(t) \/ Die(t) \/ Terminate(t)
      PROVE  TypeInv'
  <2>1. Append(stdout[t], InitMessage) \in Seq(Nat)
    BY <1>a, AppendMessage DEF InitMessage
  <2>2. stdin[t] # <<>> =>
          Tail(stdin[t]) \in Seq({"algorithm", "start", "update"})
    BY <1>a, TakeMessage
  <2>3. CASE ReportStartup(t)
    <3>1. /\ stdin' = [stdin EXCEPT ![t] = Tail(stdin[t])]
          /\ stdout' = [stdout EXCEPT ![t] = Append(stdout[t], InitMessage)]
          /\ stdin[t] # <<>>
          /\ \E p \in {"waiting", "exited"} : process' = [process EXCEPT ![t] = p]
          /\ UNCHANGED <<serverVars, mainVars, queueVars, handle, reader, shared,
                         timers_, timestamps_, calls, placed, now, exchange>>
      BY <2>3 DEF ReportStartup
    <3>2. stdin' \in [Traders -> Seq({"algorithm", "start", "update"})]
      BY <3>1, <2>2 DEF TypeInv
    <3>3. stdout' \in [Traders -> Seq(Nat)]
      BY <3>1, <2>1 DEF TypeInv
    <3>4. process' \in [Traders -> {"none", "starting", "waiting", "running",
                                    "killed", "exited"}]
      BY <3>1 DEF TypeInv
    <3> QED
      BY <3>1, <3>2, <3>3, <3>4 DEF TypeInv
  <2>4. CASE GiveUp(t)
    BY <2>4, <2>1 DEF GiveUp, TypeInv
  <2>5. CASE WaitForStart(t) \/ ReadUpdate(t)
    <3>1. /\ stdin' = [stdin EXCEPT ![t] = Tail(stdin[t])]
          /\ \/ process' = [process EXCEPT ![t] = "running"]
             \/ process' = [process EXCEPT ![t] = "exited"]
             \/ process' = [process EXCEPT ![t] = process[t]]
          /\ stdin[t] # <<>>
          /\ UNCHANGED <<serverVars, mainVars, queueVars, handle, reader,
                         shared, timers_, stdout, timestamps_, calls, placed,
                         now, exchange>>
      BY <2>5 DEF WaitForStart, ReadUpdate
    <3>2. process' \in [Traders -> {"none", "starting", "waiting", "running",
                                    "killed", "exited"}]
      BY <3>1 DEF TypeInv
    <3> QED
      BY <3>1, <3>2, <2>2 DEF TypeInv
  <2>6. CASE PlaceOrder(t)
    <3> DEFINE recent == Unexpired(timestamps_[t], now)
    <3>1. timestamps_[t] \in Seq(Nat) /\ now \in Nat /\ calls[t] \in Nat
      BY DEF TypeInv
    <3>2. recent \in Seq(Nat)
      BY <3>1, UnexpiredIsTail
    <3> HIDE DEF recent
    <3>3. /\ Append(recent, now) \in Seq(Nat)
          /\ Append(placed[t], now) \in Seq(Nat)
      BY <3>1, <3>2, <1>a, AppendMessage
    <3>4. Append(stdout[t], Len(placed[t]) + 1) \in Seq(Nat)
      <4>1. Len(placed[t]) + 1 \in Nat
        BY <1>a, LenProperties
      <4> QED
        BY <4>1, <1>a, AppendMessage
    <3>5. /\ timestamps_' = [timestamps_ EXCEPT ![t] = recent]
             \/ timestamps_' = [timestamps_ EXCEPT ![t] = Append(recent, now)]
          /\ placed' = placed \/ placed' = [placed EXCEPT ![t] = Append(placed[t], now)]
          /\ stdout' = stdout
             \/ stdout' = [stdout EXCEPT ![t] = Append(stdout[t], Len(placed[t]) + 1)]
          /\ calls' = [calls EXCEPT ![t] = calls[t] + 1]
      BY <2>6 DEF PlaceOrder, recent, TypeInv
    <3>6. timestamps_' \in [Traders -> Seq(Nat)]
      BY <3>2, <3>3, <3>5, ZenonT(40) DEF TypeInv
    <3>7. placed' \in [Traders -> Seq(Nat)] /\ stdout' \in [Traders -> Seq(Nat)]
      BY <3>3, <3>4, <3>5, ZenonT(40) DEF TypeInv
    <3>8. calls' \in [Traders -> Nat]
      <4>1. calls \in [Traders -> Nat] /\ calls' = [calls EXCEPT ![t] = calls[t] + 1]
        BY <3>5 DEF TypeInv
      <4> QED
        BY <4>1
    <3>9. UNCHANGED <<serverVars, mainVars, queueVars, handle, reader, shared,
                      timers_, process, stdin, now, exchange>>
      BY <2>6 DEF PlaceOrder
    <3> QED
      BY <3>6, <3>7, <3>8, <3>9 DEF TypeInv
  <2>7. CASE Die(t) \/ Terminate(t)
    <3>1. /\ process' = [process EXCEPT ![t] = "killed"]
             \/ process' = [process EXCEPT ![t] = "exited"]
          /\ UNCHANGED <<serverVars, mainVars, queueVars, handle, reader,
                         shared, timers_, stdin, stdout, timestamps_, calls,
                         placed, now, exchange>>
      BY <2>7 DEF Die, Terminate
    <3> QED
      BY <3>1, ZenonT(40) DEF TypeInv
  <2> QED
    BY <1>5, <2>3, <2>4, <2>5, <2>6, <2>7
<1>6. ASSUME Advance \/ UNCHANGED sandboxVars
      PROVE  TypeInv'
  <2>1. now' \in Nat
    BY <1>6 DEF Advance, TypeInv
  <2>2. UNCHANGED <<serverVars, mainVars, queueVars, handle, reader, shared,
                    timers_, wrapperVars, exchange>>
    BY <1>6 DEF Advance
  <2> QED
    BY <2>1, <2>2 DEF TypeInv
<1> QED
  BY <1>1, <1>2, <1>3, <1>4, <1>5, <1>6, StepIsAction

\* The main thread's trader is one of its vector, and a completed read keeps its
\* message: only the handler takes it.
LEMMA PlaceKept ==
  ASSUME TypeInv, PlaceInv, [SandboxNext]_sandboxVars
  PROVE  PlaceInv'
<1> USE DEF sandboxVars, serverVars, mainVars, queueVars, wrapperVars
<1>a. \A t \in Traders : stdout[t] \in Seq(Nat)
  BY DEF TypeInv
<1>b. /\ reader \in [Traders -> {"none", "waiting", "ready", "ended"}]
      /\ visit \in Nat \ {0} /\ traders_ \in Seq(Traders)
      /\ stdout \in [Traders -> Seq(Nat)]
  BY DEF TypeInv
<1>1. ASSUME BlockOnInit \/ PushTrader \/ StartRemoveTimer \/ SendStart
      PROVE  PlaceInv'
  <2>1. /\ UNCHANGED <<main, visit, traders_, reader, stdout>>
        /\ \/ request' = request /\ at # "idle"
                /\ at' \in {"init", "push", "timer", "start"}
           \/ request' = None /\ at' = "idle"
    BY <1>1 DEF BlockOnInit, PushTrader, StartRemoveTimer, SendStart
  <2> QED
    BY <2>1 DEF PlaceInv
<1>2. ASSUME MoveTraders \/ ClearTraders \/ AddTraders \/ ReadOrders \/ TakeOrders
               \/ Report \/ SendUpdates \/ SendUpdate
      PROVE  PlaceInv'
  <2>1. UNCHANGED <<request, at, reader, stdout>>
    BY <1>2 DEF MoveTraders, ClearTraders, AddTraders, ReadOrders, TakeOrders,
                Report, SendUpdates, SendUpdate, Visit
  <2>2. main' \in {"taking", "sending"} =>
          visit' \in 1 .. Len(traders_) /\ traders_' = traders_
    <3>1. CASE ReadOrders \/ SendUpdates
      <4>1. Len(traders_) \in Nat
        BY <1>b, LenProperties
      <4>2. traders_' = traders_
        BY <3>1 DEF ReadOrders, SendUpdates, Visit
      <4>3. main' \in {"taking", "sending"} =>
              ~(visit > Len(traders_)) /\ visit' = visit
        BY <3>1 DEF ReadOrders, SendUpdates, Visit
      <4> QED
        BY <4>1, <4>2, <4>3, <1>b
    <3>2. CASE ~(ReadOrders \/ SendUpdates)
      BY <3>2, <1>2 DEF MoveTraders, ClearTraders, AddTraders, TakeOrders,
                        Report, SendUpdate
    <3> QED
      BY <3>1, <3>2
  <2> QED
    BY <2>1, <2>2 DEF PlaceInv
<1>3. ASSUME NEW t \in Traders, CreateTrader(t) \/ Expire(t) \/ DestroyHandle(t)
                               \/ UploadLog(t)
      PROVE  PlaceInv'
  <2>1. CASE CreateTrader(t)
    <3>1. request' # None /\ at' # "idle"
      BY <2>1, NoneAssumption DEF CreateTrader
    <3>2. \A u \in Traders : reader'[u] = "ready" => reader[u] = "ready"
      BY <2>1, <1>b DEF CreateTrader
    <3>3. UNCHANGED <<main, visit, traders_, stdout>>
      BY <2>1 DEF CreateTrader
    <3> QED
      BY <3>1, <3>2, <3>3 DEF PlaceInv
  <2>2. CASE Expire(t) \/ DestroyHandle(t) \/ UploadLog(t)
    <3>1. \A u \in Traders : reader'[u] = "ready" => reader[u] = "ready"
      BY <2>2, <1>b DEF Expire, DestroyHandle, UploadLog
    <3>2. UNCHANGED <<request, at, main, visit, traders_, stdout>>
      BY <2>2 DEF Expire, DestroyHandle, UploadLog
    <3> QED
      BY <3>1, <3>2 DEF PlaceInv
  <2> QED
    BY <1>3, <2>1, <2>2
<1>4. ASSUME NEW t \in Traders, ReadCompletes(t) \/ StoreMessage(t) \/ ReadEnds(t)
      PROVE  PlaceInv'
  <2>1. UNCHANGED <<request, at, main, visit, traders_>>
    BY <1>4 DEF ReadCompletes, StoreMessage, ReadEnds
  <2>2. ASSUME NEW u \in Traders, reader'[u] = "ready"
        PROVE  stdout'[u] # <<>>
    <3>1. CASE u = t
      BY <3>1, <2>2, <1>4, <1>b DEF ReadCompletes, StoreMessage, ReadEnds
    <3>2. CASE u # t
      <4>1. reader'[u] = reader[u] /\ stdout'[u] = stdout[u]
        BY <3>2, <1>4, <1>b DEF ReadCompletes, StoreMessage, ReadEnds
      <4> QED
        BY <4>1, <2>2 DEF PlaceInv
    <3> QED
      BY <3>1, <3>2
  <2> QED
    BY <2>1, <2>2 DEF PlaceInv
<1>5. ASSUME NEW t \in Traders,
             ReportStartup(t) \/ GiveUp(t) \/ WaitForStart(t) \/ ReadUpdate(t)
               \/ PlaceOrder(t) \/ Die(t) \/ Terminate(t)
      PROVE  PlaceInv'
  <2>1. UNCHANGED <<request, at, main, visit, traders_, reader>>
    BY <1>5 DEF ReportStartup, GiveUp, WaitForStart, ReadUpdate, PlaceOrder,
                Die, Terminate
  <2>2. \A u \in Traders :
          stdout'[u] = stdout[u] \/ \E m \in Nat : stdout'[u] = Append(stdout[u], m)
    <3>1. InitMessage \in Nat /\ Len(placed[t]) + 1 \in Nat
      BY LenProperties DEF InitMessage, TypeInv
    <3> QED
      BY <3>1, <1>5, <1>b DEF ReportStartup, GiveUp, WaitForStart, ReadUpdate,
                             PlaceOrder, Die, Terminate
  <2>3. \A u \in Traders : stdout[u] # <<>> => stdout'[u] # <<>>
    BY <2>2, <1>a, AppendMessage
  <2> QED
    BY <2>1, <2>3 DEF PlaceInv
<1>6. ASSUME Advance \/ UNCHANGED sandboxVars
      PROVE  PlaceInv'
  <2>1. UNCHANGED <<request, at, main, visit, traders_, reader, stdout>>
    BY <1>6 DEF Advance
  <2> QED
    BY <2>1 DEF PlaceInv
<1> QED
  BY <1>1, <1>2, <1>3, <1>4, <1>5, <1>6, StepIsAction

\* A handle goes with the timer that takes it away.
LEMMA HandleKept ==
  ASSUME TypeInv, PlaceInv, HandleInv, [SandboxNext]_sandboxVars
  PROVE  HandleInv'
<1> USE DEF sandboxVars, serverVars, mainVars, queueVars, wrapperVars
<1>b. /\ handle \in [Traders -> {"none", "alive", "released", "destroyed"}]
      /\ timers_ \in [Traders -> {"none", "armed", "stopping", "uploading", "done"}]
      /\ request \in Traders \cup {None}
  BY DEF TypeInv
<1>1. ASSUME BlockOnInit \/ PushTrader \/ StartRemoveTimer \/ SendStart
      PROVE  HandleInv'
  <2>1. CASE StartRemoveTimer
    <3>1. request \in Traders
      BY <2>1, <1>b DEF StartRemoveTimer, PlaceInv
    <3> QED
      BY <2>1, <3>1, <1>b DEF StartRemoveTimer, HandleInv
  <2>2. CASE BlockOnInit \/ PushTrader \/ SendStart
    <3>1. /\ UNCHANGED <<handle, timers_>>
          /\ \/ request' = request /\ at \in {"init", "push"}
             \/ request' = None
      BY <2>2 DEF BlockOnInit, PushTrader, SendStart
    <3> QED
      BY <3>1, NoneAssumption DEF HandleInv
  <2> QED
    BY <1>1, <2>1, <2>2
<1>2. ASSUME MoveTraders \/ ClearTraders \/ AddTraders \/ ReadOrders \/ TakeOrders
               \/ Report \/ SendUpdates \/ SendUpdate
      PROVE  HandleInv'
  <2>1. UNCHANGED <<request, at, handle, timers_>>
    BY <1>2 DEF MoveTraders, ClearTraders, AddTraders, ReadOrders, TakeOrders,
                Report, SendUpdates, SendUpdate, Visit
  <2> QED
    BY <2>1 DEF HandleInv
<1>3. ASSUME NEW t \in Traders, CreateTrader(t) \/ Expire(t) \/ DestroyHandle(t)
                               \/ UploadLog(t)
      PROVE  HandleInv'
  <2>1. CASE CreateTrader(t)
    BY <2>1, <1>b DEF CreateTrader, HandleInv
  <2>2. CASE Expire(t)
    BY <2>2, <1>b DEF Expire, HandleInv
  <2>3. CASE DestroyHandle(t)
    BY <2>3, <1>b DEF DestroyHandle, HandleInv
  <2>4. CASE UploadLog(t)
    BY <2>4, <1>b DEF UploadLog, HandleInv
  <2> QED
    BY <1>3, <2>1, <2>2, <2>3, <2>4
<1>4. ASSUME NEW t \in Traders, ReadCompletes(t) \/ StoreMessage(t) \/ ReadEnds(t)
      PROVE  HandleInv'
  <2>1. UNCHANGED <<request, at, handle, timers_>>
    BY <1>4 DEF ReadCompletes, StoreMessage, ReadEnds
  <2> QED
    BY <2>1 DEF HandleInv
<1>5. ASSUME NEW t \in Traders,
             ReportStartup(t) \/ GiveUp(t) \/ WaitForStart(t) \/ ReadUpdate(t)
               \/ PlaceOrder(t) \/ Die(t) \/ Terminate(t)
      PROVE  HandleInv'
  <2>1. UNCHANGED <<request, at, handle, timers_>>
    BY <1>5 DEF ReportStartup, GiveUp, WaitForStart, ReadUpdate, PlaceOrder,
                Die, Terminate
  <2> QED
    BY <2>1 DEF HandleInv
<1>6. ASSUME Advance \/ UNCHANGED sandboxVars
      PROVE  HandleInv'
  <2>1. UNCHANGED <<request, at, handle, timers_>>
    BY <1>6 DEF Advance
  <2> QED
    BY <2>1 DEF HandleInv
<1> QED
  BY <1>1, <1>2, <1>3, <1>4, <1>5, <1>6, StepIsAction

\* The vectors change hands under the lock.
LEMMA VectorKept ==
  ASSUME TypeInv, PlaceInv, HandleInv, VectorInv, [SandboxNext]_sandboxVars
  PROVE  VectorInv'
<1> USE DEF sandboxVars, serverVars, mainVars, queueVars, wrapperVars
<1>b. /\ timers_ \in [Traders -> {"none", "armed", "stopping", "uploading", "done"}]
      /\ request \in Traders \cup {None}
      /\ traders_to_add \in Seq(Traders)
      /\ pending \in Seq(Traders)
      /\ traders_ \in Seq(Traders)
  BY DEF TypeInv
<1>c. ToSet(<<>>) = {} /\ IsInjective(<<>>)
  BY DEF ToSet, IsInjective
\* Steps that leave the vectors alone.
<1>d. ASSUME UNCHANGED <<traders_to_add, trader_lock, pending, traders_>>,
             main' # main => {main, main'} \cap {"clear", "add"} = {},
             Pushed' = Pushed
      PROVE  VectorInv'
  BY <1>d DEF VectorInv
<1>1. ASSUME BlockOnInit \/ PushTrader \/ StartRemoveTimer \/ SendStart
      PROVE  VectorInv'
  <2>1. CASE PushTrader
    <3>1. request \in Traders /\ request \notin Pushed
      BY <2>1, <1>b DEF PushTrader, PlaceInv, HandleInv, Pushed
    <3>2. Pushed' = Pushed \cup {request}
      BY <2>1, <3>1 DEF PushTrader, Pushed
    <3>3. /\ ToSet(traders_to_add') = ToSet(traders_to_add) \cup {request}
          /\ request \notin ToSet(traders_to_add) /\ IsInjective(traders_to_add)
               => IsInjective(traders_to_add')
      <4>1. traders_to_add' = Append(traders_to_add, request)
        BY <2>1 DEF PushTrader
      <4>2. /\ traders_to_add' \in Seq(Traders)
            /\ DOMAIN traders_to_add' = 1 .. Len(traders_to_add) + 1
            /\ \A i \in 1 .. Len(traders_to_add) : traders_to_add'[i] = traders_to_add[i]
            /\ traders_to_add'[Len(traders_to_add) + 1] = request
        BY <4>1, <3>1, <1>b, AppendMessage
      <4>3. Len(traders_to_add) \in Nat /\ DOMAIN traders_to_add = 1 .. Len(traders_to_add)
        BY <1>b, LenProperties
      <4>4. ToSet(traders_to_add') = ToSet(traders_to_add) \cup {request}
        BY <4>2, <4>3 DEF ToSet
      <4>5. ASSUME request \notin ToSet(traders_to_add), IsInjective(traders_to_add)
            PROVE  IsInjective(traders_to_add')
        BY <4>2, <4>3, <4>5 DEF ToSet, IsInjective
      <4> QED
        BY <4>4, <4>5
    <3>4. UNCHANGED <<trader_lock, main, pending, traders_>> /\ trader_lock = Free
      BY <2>1 DEF PushTrader
    <3> QED
      BY <3>1, <3>2, <3>3, <3>4, FreeAssumption DEF VectorInv
  <2>2. CASE StartRemoveTimer
    <3>1. request \in Traders
      BY <2>2, <1>b DEF StartRemoveTimer, PlaceInv
    <3>2. Pushed' = Pushed
      BY <2>2, <3>1, <1>b DEF StartRemoveTimer, Pushed
    <3> QED
      BY <2>2, <3>2, <1>d DEF StartRemoveTimer
  <2>3. CASE BlockOnInit \/ SendStart
    <3>1. Pushed' = Pushed
      BY <2>3, NoneAssumption DEF BlockOnInit, SendStart, Pushed
    <3> QED
      BY <2>3, <3>1, <1>d DEF BlockOnInit, SendStart
  <2> QED
    BY <1>1, <2>1, <2>2, <2>3
<1>2. ASSUME MoveTraders \/ ClearTraders \/ AddTraders \/ ReadOrders \/ TakeOrders
               \/ Report \/ SendUpdates \/ SendUpdate
      PROVE  VectorInv'
  <2>1. UNCHANGED <<request, at, timers_>>
    BY <1>2 DEF MoveTraders, ClearTraders, AddTraders, ReadOrders, TakeOrders,
                Report, SendUpdates, SendUpdate, Visit
  <2>2. Pushed' = Pushed
    BY <2>1 DEF Pushed
  <2>3. CASE MoveTraders
    <3>1. pending = <<>>
      BY <2>3 DEF MoveTraders, VectorInv
    <3>2. /\ trader_lock' = "main" /\ main' = "clear"
          /\ pending' = traders_to_add /\ traders_to_add' = <<>>
          /\ traders_' = traders_
      BY <2>3 DEF MoveTraders
    <3> QED
      BY <3>1, <3>2, <2>2, <1>c DEF VectorInv
  <2>4. CASE ClearTraders
    <3>1. /\ trader_lock' = Free /\ main' = "add"
          /\ pending' = pending /\ traders_to_add' = <<>>
          /\ traders_' = traders_ /\ main = "clear"
      BY <2>4 DEF ClearTraders
    <3> QED
      BY <3>1, <2>2, FreeAssumption DEF VectorInv
  <2>5. CASE AddTraders
    <3>1. /\ main = "add" /\ main' = "read" /\ pending' = <<>>
          /\ traders_' = traders_ \o pending
          /\ UNCHANGED <<traders_to_add, trader_lock>>
      BY <2>5 DEF AddTraders
    <3>2. /\ ToSet(traders_ \o pending) = ToSet(traders_) \cup ToSet(pending)
          /\ IsInjective(traders_ \o pending)
      BY <1>b, JoinTraders DEF VectorInv
    <3> QED
      BY <3>1, <3>2, <2>2, <1>c DEF VectorInv
  <2>6. CASE ReadOrders \/ TakeOrders \/ Report \/ SendUpdates \/ SendUpdate
    <3>1. /\ UNCHANGED <<traders_to_add, trader_lock, pending, traders_>>
          /\ main \notin {"clear", "add"} /\ main' \notin {"clear", "add"}
      BY <2>6 DEF ReadOrders, TakeOrders, Report, SendUpdates, SendUpdate, Visit
    <3> QED
      BY <3>1, <2>2, <1>d
  <2> QED
    BY <1>2, <2>3, <2>4, <2>5, <2>6
<1>3. ASSUME NEW t \in Traders, CreateTrader(t) \/ Expire(t) \/ DestroyHandle(t)
                               \/ UploadLog(t)
      PROVE  VectorInv'
  <2>1. Pushed' = Pushed
    <3>1. CASE CreateTrader(t)
      BY <3>1, <1>b, NoneAssumption DEF CreateTrader, Pushed
    <3>2. CASE Expire(t) \/ DestroyHandle(t) \/ UploadLog(t)
      BY <3>2, <1>b DEF Expire, DestroyHandle, UploadLog, Pushed
    <3> QED
      BY <1>3, <3>1, <3>2
  <2>2. UNCHANGED <<traders_to_add, trader_lock, pending, traders_, main>>
    BY <1>3 DEF CreateTrader, Expire, DestroyHandle, UploadLog
  <2> QED
    BY <2>1, <2>2, <1>d
<1>4. ASSUME NEW t \in Traders, ReadCompletes(t) \/ StoreMessage(t) \/ ReadEnds(t)
      PROVE  VectorInv'
  <2>1. UNCHANGED <<request, at, timers_, traders_to_add, trader_lock, pending,
                    traders_, main>>
    BY <1>4 DEF ReadCompletes, StoreMessage, ReadEnds
  <2>2. Pushed' = Pushed
    BY <2>1 DEF Pushed
  <2> QED
    BY <2>1, <2>2, <1>d
<1>5. ASSUME NEW t \in Traders,
             ReportStartup(t) \/ GiveUp(t) \/ WaitForStart(t) \/ ReadUpdate(t)
               \/ PlaceOrder(t) \/ Die(t) \/ Terminate(t)
      PROVE  VectorInv'
  <2>1. UNCHANGED <<request, at, timers_, traders_to_add, trader_lock, pending,
                    traders_, main>>
    BY <1>5 DEF ReportStartup, GiveUp, WaitForStart, ReadUpdate, PlaceOrder,
                Die, Terminate
  <2>2. Pushed' = Pushed
    BY <2>1 DEF Pushed
  <2> QED
    BY <2>1, <2>2, <1>d
<1>6. ASSUME Advance \/ UNCHANGED sandboxVars
      PROVE  VectorInv'
  <2>1. UNCHANGED <<request, at, timers_, traders_to_add, trader_lock, pending,
                    traders_, main>>
    BY <1>6 DEF Advance
  <2>2. Pushed' = Pushed
    BY <2>1 DEF Pushed
  <2> QED
    BY <2>1, <2>2, <1>d
<1> QED
  BY <1>1, <1>2, <1>3, <1>4, <1>5, <1>6, StepIsAction

\* What is sent to a wrapper, and what it reads.
LEMMA StartSent ==
  ASSUME NEW S, NEW s \in Seq(S), NEW m \in S, OneStart(s),
         m = "start" => ~Contains(s, "start")
  PROVE  OneStart(Append(s, m))
<1>1. /\ Len(s) \in Nat /\ Len(Append(s, m)) = Len(s) + 1
      /\ \A i \in 1 .. Len(s) : Append(s, m)[i] = s[i]
      /\ Append(s, m)[Len(s) + 1] = m
  BY AppendMessage, LenProperties
<1>2. m = "start" => \A i \in 1 .. Len(s) : s[i] # "start"
  BY DEF Contains
<1> QED
  BY <1>1, <1>2 DEF OneStart

LEMMA StartRead ==
  ASSUME NEW S, NEW s \in Seq(S), s # <<>>, OneStart(s)
  PROVE  /\ OneStart(Tail(s))
         /\ Head(s) = "start" => ~Contains(Tail(s), "start")
         /\ ~Contains(s, "start") => ~Contains(Tail(s), "start")
<1>1. /\ Head(s) = s[1] /\ Len(s) \in Nat \ {0}
      /\ Len(Tail(s)) = Len(s) - 1
      /\ \A i \in 1 .. Len(s) - 1 : Tail(s)[i] = s[i + 1]
      /\ \A f : Contains(Tail(s), f) => Contains(s, f)
  BY TakeMessage
<1>2. OneStart(Tail(s))
  <2> SUFFICES ASSUME NEW i \in 1 .. Len(s) - 1, NEW j \in 1 .. Len(s) - 1,
                      s[i + 1] = "start", s[j + 1] = "start"
               PROVE  i = j
    BY <1>1 DEF OneStart
  <2> QED
    BY <1>1 DEF OneStart
<1>3. ASSUME Head(s) = "start", NEW i \in 1 .. Len(s) - 1
      PROVE  Tail(s)[i] # "start"
  BY <1>1, <1>3 DEF OneStart
<1> QED
  BY <1>1, <1>2, <1>3 DEF Contains

\* A start message is sent once, as the last step of a request.
LEMMA StartKept ==
  ASSUME TypeInv, PlaceInv, HandleInv, VectorInv, StartInv,
         [SandboxNext]_sandboxVars
  PROVE  StartInv'
<1> USE DEF sandboxVars, serverVars, mainVars, queueVars, wrapperVars
<1> DEFINE M == {"algorithm", "start", "update"}
           Unsent(t) == handle[t] = "none" \/ request = t
<1>b. /\ stdin \in [Traders -> Seq(M)]
      /\ process \in [Traders -> {"none", "starting", "waiting", "running",
                                  "killed", "exited"}]
      /\ handle \in [Traders -> {"none", "alive", "released", "destroyed"}]
      /\ request \in Traders \cup {None}
      /\ \A t \in Traders : stdin[t] \in Seq(M)
  BY DEF TypeInv
\* Steps that send nothing, read nothing and start nobody.
<1>d. ASSUME stdin' = stdin,
             \A t \in Traders : process'[t] = "running" => process[t] = "running",
             \A t \in Traders : Unsent(t)' => Unsent(t)
      PROVE  StartInv'
  BY <1>d DEF StartInv
<1>1. ASSUME BlockOnInit \/ PushTrader \/ StartRemoveTimer \/ SendStart
      PROVE  StartInv'
  <2>1. CASE BlockOnInit \/ PushTrader \/ StartRemoveTimer
    BY <2>1, <1>d DEF BlockOnInit, PushTrader, StartRemoveTimer
  <2>2. CASE SendStart
    <3>1. /\ request' = None /\ UNCHANGED <<process, handle>>
          /\ Send({request} \cap {t \in Traders : handle[t] = "alive"}, "start")
      BY <2>2 DEF SendStart
    <3>2. \A t \in Traders :
            \/ stdin'[t] = stdin[t]
            \/ t = request /\ stdin'[t] = Append(stdin[t], "start")
      BY <3>1, SendType
    <3> SUFFICES ASSUME NEW t \in Traders
                 PROVE  /\ handle[t] = "none" =>
                             process[t] # "running" /\ ~Contains(stdin'[t], "start")
                        /\ process[t] = "running" => ~Contains(stdin'[t], "start")
                        /\ OneStart(stdin'[t])
      BY <3>1, NoneAssumption DEF StartInv
    <3>3. CASE stdin'[t] = stdin[t]
      BY <3>3 DEF StartInv
    <3>4. CASE t = request /\ stdin'[t] = Append(stdin[t], "start")
      <4>1. OneStart(stdin'[t])
        BY <3>4, <1>b, StartSent DEF StartInv
      <4> QED
        BY <3>4, <4>1 DEF StartInv, HandleInv
    <3> QED
      BY <3>2, <3>3, <3>4
  <2> QED
    BY <1>1, <2>1, <2>2
<1>2. ASSUME MoveTraders \/ ClearTraders \/ AddTraders \/ ReadOrders \/ TakeOrders
               \/ Report \/ SendUpdates \/ SendUpdate
      PROVE  StartInv'
  <2>1. UNCHANGED <<request, handle, process>>
    BY <1>2 DEF MoveTraders, ClearTraders, AddTraders, ReadOrders, TakeOrders,
                Report, SendUpdates, SendUpdate, Visit
  <2>2. UNCHANGED stdin \/ Send({traders_[visit]}, "update")
    BY <1>2 DEF MoveTraders, ClearTraders, AddTraders, ReadOrders, TakeOrders,
                Report, SendUpdates, SendUpdate, Visit
  <2>3. \A t \in Traders :
          stdin'[t] = stdin[t] \/ stdin'[t] = Append(stdin[t], "update")
    BY <2>2, SendType
  <2> SUFFICES ASSUME NEW t \in Traders
               PROVE  /\ Contains(stdin'[t], "start") => Contains(stdin[t], "start")
                      /\ OneStart(stdin'[t])
    BY <2>1 DEF StartInv
  <2>4. CASE stdin'[t] = stdin[t]
    BY <2>4 DEF StartInv
  <2>5. CASE stdin'[t] = Append(stdin[t], "update")
    <3>1. OneStart(stdin'[t])
      BY <2>5, <1>b, StartSent DEF StartInv
    <3>2. Contains(stdin'[t], "start") => Contains(stdin[t], "start")
      BY <2>5, <1>b, AppendMessage
    <3> QED
      BY <3>1, <3>2
  <2> QED
    BY <2>3, <2>4, <2>5
<1>3. ASSUME NEW t \in Traders, CreateTrader(t) \/ Expire(t) \/ DestroyHandle(t)
                               \/ UploadLog(t)
      PROVE  StartInv'
  <2>1. CASE CreateTrader(t)
    <3>1. /\ stdin' = [stdin EXCEPT ![t] = <<"algorithm">>]
          /\ process' = [process EXCEPT ![t] = "starting"]
          /\ handle' = [handle EXCEPT ![t] = "alive"]
          /\ request' = t /\ request = None
      BY <2>1 DEF CreateTrader
    <3>2. ~Contains(<<"algorithm">>, "start") /\ OneStart(<<"algorithm">>)
      BY DEF Contains, OneStart
    <3> SUFFICES ASSUME NEW u \in Traders
                 PROVE  /\ handle'[u] = "none" \/ u = t =>
                             process'[u] # "running" /\ ~Contains(stdin'[u], "start")
                        /\ process'[u] = "running" => ~Contains(stdin'[u], "start")
                        /\ OneStart(stdin'[u])
      BY <3>1 DEF StartInv
    <3>3. CASE u = t
      BY <3>3, <3>1, <3>2, <1>b
    <3>4. CASE u # t
      <4>1. /\ stdin'[u] = stdin[u] /\ process'[u] = process[u]
            /\ handle'[u] = handle[u]
        BY <3>4, <3>1, <1>b
      <4> QED
        BY <3>4, <4>1 DEF StartInv
    <3> QED
      BY <3>3, <3>4
  <2>2. CASE Expire(t) \/ DestroyHandle(t) \/ UploadLog(t)
    <3>1. UNCHANGED <<stdin, process, request>>
      BY <2>2 DEF Expire, DestroyHandle, UploadLog
    <3>2. \A u \in Traders : handle'[u] = "none" => handle[u] = "none"
      BY <2>2, <1>b DEF Expire, DestroyHandle, UploadLog
    <3> QED
      BY <3>1, <3>2, <1>d
  <2> QED
    BY <1>3, <2>1, <2>2
<1>4. ASSUME NEW t \in Traders, ReadCompletes(t) \/ StoreMessage(t) \/ ReadEnds(t)
      PROVE  StartInv'
  <2>1. UNCHANGED <<request, handle, process, stdin>>
    BY <1>4 DEF ReadCompletes, StoreMessage, ReadEnds
  <2> QED
    BY <2>1, <1>d
<1>5. ASSUME NEW t \in Traders,
             ReportStartup(t) \/ GiveUp(t) \/ WaitForStart(t) \/ ReadUpdate(t)
               \/ PlaceOrder(t) \/ Die(t) \/ Terminate(t)
      PROVE  StartInv'
  <2>1. UNCHANGED <<request, handle>>
    BY <1>5 DEF ReportStartup, GiveUp, WaitForStart, ReadUpdate, PlaceOrder,
                Die, Terminate
  <2>2. CASE ReportStartup(t) \/ WaitForStart(t) \/ ReadUpdate(t)
    <3>1. /\ stdin[t] # <<>>
          /\ stdin' = [stdin EXCEPT ![t] = Tail(stdin[t])]
          /\ \E p \in {"waiting", "running", "exited"} :
               /\ process' = [process EXCEPT ![t] = p]
               /\ p = "running" => \/ process[t] = "running"
                                   \/ process[t] = "waiting" /\ Head(stdin[t]) = "start"
      <4>1. CASE ReportStartup(t)
        BY <4>1 DEF ReportStartup
      <4>2. CASE WaitForStart(t)
        BY <4>2 DEF WaitForStart
      <4>3. CASE ReadUpdate(t)
        BY <4>3 DEF ReadUpdate
      <4> QED
        BY <2>2, <4>1, <4>2, <4>3
    <3>2. /\ OneStart(Tail(stdin[t]))
          /\ Head(stdin[t]) = "start" => ~Contains(Tail(stdin[t]), "start")
          /\ ~Contains(stdin[t], "start") => ~Contains(Tail(stdin[t]), "start")
      BY <3>1, <1>b, StartRead DEF StartInv
    <3>3. Head(stdin[t]) = "start" => Contains(stdin[t], "start")
      <4>1. Head(stdin[t]) = stdin[t][1] /\ Len(stdin[t]) \in Nat \ {0}
        BY <3>1, <1>b, TakeMessage
      <4> QED
        BY <4>1 DEF Contains
    <3> SUFFICES ASSUME NEW u \in Traders
                 PROVE  /\ handle[u] = "none" \/ request = u =>
                             process'[u] # "running" /\ ~Contains(stdin'[u], "start")
                        /\ process'[u] = "running" => ~Contains(stdin'[u], "start")
                        /\ OneStart(stdin'[u])
      BY <2>1 DEF StartInv
    <3>4. CASE u = t
      <4>1. /\ stdin'[u] = Tail(stdin[t])
            /\ process'[u] = "running" =>
                 \/ process[t] = "running"
                 \/ Head(stdin[t]) = "start"
        BY <3>4, <3>1, <1>b
      <4> QED
        BY <3>4, <4>1, <3>2, <3>3 DEF StartInv
    <3>5. CASE u # t
      <4>1. stdin'[u] = stdin[u] /\ process'[u] = process[u]
        BY <3>5, <3>1, <1>b
      <4> QED
        BY <4>1 DEF StartInv
    <3> QED
      BY <3>4, <3>5
  <2>3. CASE GiveUp(t) \/ PlaceOrder(t) \/ Die(t) \/ Terminate(t)
    <3>1. /\ stdin' = stdin
          /\ \/ process' = process
             \/ process' = [process EXCEPT ![t] = "exited"]
             \/ process' = [process EXCEPT ![t] = "killed"]
      BY <2>3 DEF GiveUp, PlaceOrder, Die, Terminate
    <3>2. \A u \in Traders : process'[u] = "running" => process[u] = "running"
      BY <3>1, <1>b
    <3> QED
      BY <2>1, <3>1, <3>2, <1>d
  <2> QED
    BY <1>5, <2>2, <2>3
<1>6. ASSUME Advance \/ UNCHANGED sandboxVars
      PROVE  StartInv'
  <2>1. UNCHANGED <<request, handle, process, stdin>>
    BY <1>6 DEF Advance
  <2> QED
    BY <2>1, <1>d
<1> QED
  BY <1>1, <1>2, <1>3, <1>4, <1>5, <1>6, StepIsAction

\* What is behind the init message, when something is added or taken.
LEMMA NoInitAdded ==
  ASSUME NEW s \in Seq(Nat), NEW m \in Nat, m # InitMessage,
         NEW first \in {1, 2}, NoInitFrom(s, first)
  PROVE  NoInitFrom(Append(s, m), first)
<1>1. /\ Len(s) \in Nat /\ Len(Append(s, m)) = Len(s) + 1
      /\ \A i \in 1 .. Len(s) : Append(s, m)[i] = s[i]
      /\ Append(s, m)[Len(s) + 1] = m
  BY AppendMessage, LenProperties
<1> QED
  BY <1>1 DEF NoInitFrom

LEMMA NoInitTaken ==
  ASSUME NEW s \in Seq(Nat), s # <<>>, NoInitFrom(s, 2)
  PROVE  /\ NoInitFrom(Tail(s), 1)
         /\ Head(s) = s[1] /\ Head(s) \in Nat
<1>1. /\ Head(s) = s[1] /\ Head(s) \in Nat /\ Len(s) \in Nat \ {0}
      /\ Len(Tail(s)) = Len(s) - 1
      /\ \A i \in 1 .. Len(s) - 1 : Tail(s)[i] = s[i + 1]
  BY TakeMessage
<1> QED
  BY <1>1 DEF NoInitFrom

LEMMA NoInitAtAll ==
  ASSUME NEW s \in Seq(Nat), NoInitFrom(s, 1)
  PROVE  /\ NoInitFrom(s, 2)
         /\ s # <<>> => s[1] # InitMessage
<1>1. Len(s) \in Nat /\ (s # <<>> => Len(s) \in Nat \ {0})
  BY EmptySeq, LenProperties
<1> QED
  BY <1>1 DEF NoInitFrom

\* The request thread takes the init message before the trader is pushed.
LEMMA InitKept ==
  ASSUME TypeInv, PlaceInv, HandleInv, VectorInv, StartInv, InitInv,
         [SandboxNext]_sandboxVars
  PROVE  InitInv'
<1> USE DEF sandboxVars, serverVars, mainVars, queueVars, wrapperVars
<1>b. /\ shared \in [Traders -> Seq(Nat)] /\ stdout \in [Traders -> Seq(Nat)]
      /\ process \in [Traders -> {"none", "starting", "waiting", "running",
                                  "killed", "exited"}]
      /\ handle \in [Traders -> {"none", "alive", "released", "destroyed"}]
      /\ request \in Traders \cup {None}
      /\ \A t \in Traders : shared[t] \in Seq(Nat) /\ stdout[t] \in Seq(Nat)
  BY DEF TypeInv
<1>e. NoInitFrom(<<>>, 1) /\ NoInitFrom(<<>>, 2)
  BY DEF NoInitFrom
\* A trader that the step does not touch.
<1>d. ASSUME NEW u \in Traders,
             process'[u] = process[u], shared'[u] = shared[u],
             stdout'[u] = stdout[u], handle'[u] = "none" => handle[u] = "none",
             Waits(u)' = Waits(u)
      PROVE  /\ handle'[u] = "none" =>
                  process'[u] = "none" /\ shared'[u] = <<>> /\ stdout'[u] = <<>>
             /\ Waits(u)' => InitComes(u)'
             /\ ~Waits(u)' => InitTold(u)'
  BY <1>d DEF InitInv, InitComes, InitTold
<1>1. ASSUME BlockOnInit \/ PushTrader \/ StartRemoveTimer \/ SendStart
      PROVE  InitInv'
  <2>1. CASE BlockOnInit
    <3>1. /\ at = "init" /\ shared[request] # <<>>
          /\ shared' = [shared EXCEPT ![request] = Tail(shared[request])]
          /\ at' = IF Head(shared[request]) = InitMessage THEN "push" ELSE "init"
          /\ UNCHANGED <<request, process, stdout, handle>>
      BY <2>1 DEF BlockOnInit
    <3>2. request \in Traders
      BY <3>1, <1>b DEF PlaceInv
    <3>3. /\ process[request] # "starting"
          /\ shared[request][1] = InitMessage
          /\ NoInitFrom(shared[request], 2) /\ NoInitFrom(stdout[request], 1)
      BY <3>1, <3>2 DEF InitInv, InitComes, Waits
    <3>4. /\ NoInitFrom(Tail(shared[request]), 1)
          /\ Head(shared[request]) = InitMessage
      BY <3>1, <3>2, <3>3, <1>b, NoInitTaken
    <3> SUFFICES ASSUME NEW u \in Traders
                 PROVE  /\ handle'[u] = "none" =>
                              process'[u] = "none" /\ shared'[u] = <<>> /\ stdout'[u] = <<>>
                        /\ Waits(u)' => InitComes(u)'
                        /\ ~Waits(u)' => InitTold(u)'
      BY DEF InitInv
    <3>5. CASE u = request
      <4>1. ~Waits(u)' /\ shared'[u] = Tail(shared[request])
        BY <3>5, <3>1, <3>2, <3>4, <1>b DEF Waits
      <4>2. handle'[u] # "none"
        BY <3>5, <3>1, <3>2 DEF HandleInv
      <4> QED
        BY <4>1, <4>2, <3>1, <3>3, <3>4, <3>5 DEF InitTold
    <3>6. CASE u # request
      <4>1. shared'[u] = shared[u] /\ Waits(u)' = Waits(u)
        BY <3>6, <3>1, <1>b DEF Waits
      <4> QED
        BY <4>1, <3>1, <1>d
    <3> QED
      BY <3>5, <3>6
  <2>2. CASE PushTrader \/ StartRemoveTimer \/ SendStart
    <3>1. /\ UNCHANGED <<process, shared, stdout, handle>>
          /\ at # "init" /\ at' # "init"
      BY <2>2 DEF PushTrader, StartRemoveTimer, SendStart
    <3>2. \A u \in Traders : Waits(u)' = Waits(u)
      BY <3>1 DEF Waits
    <3> QED
      BY <3>1, <3>2, <1>d DEF InitInv
  <2> QED
    BY <1>1, <2>1, <2>2
<1>2. ASSUME MoveTraders \/ ClearTraders \/ AddTraders \/ ReadOrders \/ TakeOrders
               \/ Report \/ SendUpdates \/ SendUpdate
      PROVE  InitInv'
  <2>1. /\ UNCHANGED <<request, at, handle, process, stdout>>
        /\ \A u \in Traders : Waits(u)' = Waits(u)
    BY <1>2 DEF MoveTraders, ClearTraders, AddTraders, ReadOrders, TakeOrders,
                Report, SendUpdates, SendUpdate, Visit, Waits
  <2>2. CASE shared' = shared
    BY <2>1, <2>2, <1>d DEF InitInv
  <2>3. CASE shared' # shared
    <3> DEFINE t == traders_[visit]
    <3>1. TakeOrders /\ main = "taking"
      BY <1>2, <2>3 DEF MoveTraders, ClearTraders, AddTraders, ReadOrders,
                TakeOrders, Report, SendUpdates, SendUpdate, Visit
    <3>2. shared' = [shared EXCEPT ![t] = <<>>]
      BY <3>1, <2>3 DEF TakeOrders
    <3>3. t \in Traders /\ ~Waits(t)
      <4>1. traders_ \in Seq(Traders) /\ visit \in 1 .. Len(traders_)
        BY <3>1 DEF TypeInv, PlaceInv
      <4>2. visit \in DOMAIN traders_ /\ t \in Traders
        BY <4>1, LenProperties
      <4>3. t \in Pushed
        BY <4>2 DEF ToSet, VectorInv
      <4> QED
        BY <4>2, <4>3 DEF Pushed, HandleInv, Waits
    <3> HIDE DEF t
    <3> SUFFICES ASSUME NEW u \in Traders
                 PROVE  /\ handle'[u] = "none" =>
                              process'[u] = "none" /\ shared'[u] = <<>> /\ stdout'[u] = <<>>
                        /\ Waits(u)' => InitComes(u)'
                        /\ ~Waits(u)' => InitTold(u)'
      BY DEF InitInv
    <3>4. CASE u = t
      <4>1. shared'[u] = <<>> /\ ~Waits(u)'
        BY <3>2, <3>3, <3>4, <2>1, <1>b
      <4> QED
        BY <4>1, <3>3, <3>4, <2>1, <1>e DEF InitInv, InitTold
    <3>5. CASE u # t
      <4>1. shared'[u] = shared[u]
        BY <3>2, <3>5, <1>b
      <4> QED
        BY <4>1, <2>1, <1>d
    <3> QED
      BY <3>4, <3>5
  <2> QED
    BY <2>2, <2>3
<1>3. ASSUME NEW t \in Traders, CreateTrader(t) \/ Expire(t) \/ DestroyHandle(t)
                               \/ UploadLog(t)
      PROVE  InitInv'
  <2>1. CASE CreateTrader(t)
    <3>1. /\ request = None /\ handle[t] = "none"
          /\ request' = t /\ at' = "init"
          /\ handle' = [handle EXCEPT ![t] = "alive"]
          /\ process' = [process EXCEPT ![t] = "starting"]
          /\ UNCHANGED <<shared, stdout>>
      BY <2>1 DEF CreateTrader
    <3> SUFFICES ASSUME NEW u \in Traders
                 PROVE  /\ handle'[u] = "none" =>
                              process'[u] = "none" /\ shared'[u] = <<>> /\ stdout'[u] = <<>>
                        /\ Waits(u)' => InitComes(u)'
                        /\ ~Waits(u)' => InitTold(u)'
      BY DEF InitInv
    <3>2. CASE u = t
      <4>1. /\ Waits(u)' /\ handle'[u] # "none" /\ process'[u] = "starting"
            /\ shared'[u] = <<>> /\ stdout'[u] = <<>>
        BY <3>1, <3>2, <1>b DEF Waits, InitInv
      <4> QED
        BY <4>1 DEF InitComes
    <3>3. CASE u # t
      <4>1. /\ handle'[u] = handle[u] /\ process'[u] = process[u]
            /\ Waits(u)' = Waits(u)
        BY <3>1, <3>3, <1>b, NoneAssumption DEF Waits
      <4> QED
        BY <4>1, <3>1, <1>d
    <3> QED
      BY <3>2, <3>3
  <2>2. CASE Expire(t) \/ DestroyHandle(t) \/ UploadLog(t)
    <3>1. UNCHANGED <<process, shared, stdout, request, at>>
      BY <2>2 DEF Expire, DestroyHandle, UploadLog
    <3>2. \A u \in Traders : handle'[u] = "none" => handle[u] = "none"
      BY <2>2, <1>b DEF Expire, DestroyHandle, UploadLog
    <3>3. \A u \in Traders : Waits(u)' = Waits(u)
      BY <3>1 DEF Waits
    <3> QED
      BY <3>1, <3>2, <3>3, <1>d DEF InitInv
  <2> QED
    BY <1>3, <2>1, <2>2
<1>4. ASSUME NEW t \in Traders, ReadCompletes(t) \/ StoreMessage(t) \/ ReadEnds(t)
      PROVE  InitInv'
  <2>1. /\ UNCHANGED <<request, at, handle, process>>
        /\ \A u \in Traders : Waits(u)' = Waits(u)
    BY <1>4 DEF ReadCompletes, StoreMessage, ReadEnds, Waits
  <2>2. CASE ReadCompletes(t) \/ ReadEnds(t)
    <3>1. UNCHANGED <<shared, stdout>>
      BY <2>2 DEF ReadCompletes, ReadEnds
    <3> QED
      BY <2>1, <3>1, <1>d DEF InitInv
  <2>3. CASE StoreMessage(t)
    <3> DEFINE m == Head(stdout[t])
    <3>1. /\ stdout[t] # <<>>
          /\ stdout' = [stdout EXCEPT ![t] = Tail(stdout[t])]
          /\ \/ handle[t] = "destroyed" /\ shared' = shared
             \/ shared' = [shared EXCEPT ![t] = Append(shared[t], m)]
      BY <2>3 DEF StoreMessage, PlaceInv
    <3>2. /\ m = stdout[t][1] /\ m \in Nat
          /\ NoInitFrom(stdout[t], 2) => NoInitFrom(Tail(stdout[t]), 1)
          /\ NoInitFrom(stdout[t], 1) =>
               m # InitMessage /\ NoInitFrom(stdout[t], 2)
      <4>1. NoInitFrom(stdout[t], 2) => NoInitFrom(Tail(stdout[t]), 1)
        BY <3>1, <1>b, NoInitTaken
      <4>2. m = stdout[t][1] /\ m \in Nat
        BY <3>1, <1>b, TakeMessage
      <4> QED
        BY <3>1, <4>1, <4>2, <1>b, NoInitAtAll
    <3>3. handle[t] = "destroyed" => ~Waits(t)
      BY DEF HandleInv, Waits
    <3> HIDE DEF m
    <3> SUFFICES ASSUME NEW u \in Traders
                 PROVE  /\ handle'[u] = "none" =>
                              process'[u] = "none" /\ shared'[u] = <<>> /\ stdout'[u] = <<>>
                        /\ Waits(u)' => InitComes(u)'
                        /\ ~Waits(u)' => InitTold(u)'
      BY DEF InitInv
    <3>4. CASE u # t
      <4>1. shared'[u] = shared[u] /\ stdout'[u] = stdout[u]
        BY <3>1, <3>4, <1>b
      <4> QED
        BY <4>1, <2>1, <1>d
    <3>5. CASE u = t /\ shared' = shared /\ handle[t] = "destroyed"
      <4>1. stdout'[u] = Tail(stdout[t]) /\ shared'[u] = shared[t]
        BY <3>1, <3>5, <1>b
      <4>2. ~Waits(t) /\ InitTold(t)
        BY <3>3, <3>5 DEF InitInv
      <4> QED
        BY <4>1, <4>2, <3>2, <3>5, <2>1 DEF InitTold
    <3>6. CASE u = t /\ shared' = [shared EXCEPT ![t] = Append(shared[t], m)]
      <4>1. /\ stdout'[u] = Tail(stdout[t]) /\ shared'[u] = Append(shared[t], m)
            /\ handle'[u] # "none"
        BY <3>1, <3>6, <2>1, <1>b DEF InitInv
      <4>2. m # InitMessage /\ NoInitFrom(shared[t], 1)
              => NoInitFrom(Append(shared[t], m), 1)
        BY <3>2, <1>b, NoInitAdded
      <4>3. CASE ~Waits(t)
        <5>1. InitTold(t)
          BY <4>3 DEF InitInv
        <5> QED
          BY <5>1, <4>1, <4>2, <4>3, <3>2, <3>6, <2>1 DEF InitTold
      <4>4. CASE Waits(t)
        <5>1. \/ /\ process[t] # "starting"
                 /\ shared[t] # <<>> /\ shared[t][1] = InitMessage
                 /\ NoInitFrom(shared[t], 2) /\ NoInitFrom(stdout[t], 1)
              \/ /\ process[t] # "starting"
                 /\ shared[t] = <<>> /\ stdout[t][1] = InitMessage
                 /\ NoInitFrom(stdout[t], 2)
          BY <4>4, <3>1 DEF InitInv, InitComes
        <5>2. CASE /\ process[t] # "starting"
                   /\ shared[t] # <<>> /\ shared[t][1] = InitMessage
                   /\ NoInitFrom(shared[t], 2) /\ NoInitFrom(stdout[t], 1)
          <6>1. NoInitFrom(Append(shared[t], m), 2)
            BY <5>2, <3>2, <1>b, NoInitAdded
          <6>2. /\ Append(shared[t], m) # <<>>
                /\ Append(shared[t], m)[1] = InitMessage
            <7>1. Len(shared[t]) \in Nat \ {0}
              BY <5>2, <1>b, EmptySeq
            <7>2. shared[t] \in Seq(Nat) /\ m \in Nat
              BY <3>2, <1>b
            <7>3. /\ Append(shared[t], m) # <<>>
                  /\ \A i \in 1 .. Len(shared[t]) :
                       Append(shared[t], m)[i] = shared[t][i]
              BY <7>2, AppendMessage
            <7>4. 1 \in 1 .. Len(shared[t])
              BY <7>1
            <7> QED
              BY <7>3, <7>4, <5>2
          <6> QED
            BY <6>1, <6>2, <5>2, <4>1, <4>4, <3>2, <3>6, <2>1 DEF InitComes
        <5>3. CASE /\ process[t] # "starting"
                   /\ shared[t] = <<>> /\ stdout[t][1] = InitMessage
                   /\ NoInitFrom(stdout[t], 2)
          <6>1. Append(shared[t], m) = <<InitMessage>>
            BY <5>3, <3>2
          <6>2. NoInitFrom(<<InitMessage>>, 2)
            BY DEF NoInitFrom
          <6> QED
            BY <6>1, <6>2, <5>3, <4>1, <4>4, <3>2, <3>6, <2>1 DEF InitComes
        <5> QED
          BY <5>1, <5>2, <5>3
      <4> QED
        BY <4>3, <4>4
    <3> QED
      BY <3>1, <3>4, <3>5, <3>6
  <2> QED
    BY <1>4, <2>2, <2>3
<1>5. ASSUME NEW t \in Traders,
             ReportStartup(t) \/ GiveUp(t) \/ WaitForStart(t) \/ ReadUpdate(t)
               \/ PlaceOrder(t) \/ Die(t) \/ Terminate(t)
      PROVE  InitInv'
  <2>1. /\ UNCHANGED <<request, at, handle, shared>>
        /\ \A u \in Traders : Waits(u)' = Waits(u)
    BY <1>5 DEF ReportStartup, GiveUp, WaitForStart, ReadUpdate, PlaceOrder,
                Die, Terminate, Waits
  <2>2. handle[t] # "none" /\ process[t] # "none"
    <3>1. process[t] # "none"
      BY <1>5 DEF ReportStartup, GiveUp, WaitForStart, ReadUpdate, PlaceOrder,
                  Die, Terminate, Alive
    <3> QED
      BY <3>1 DEF InitInv
  <2>3. \A u \in Traders \ {t} : process'[u] = process[u] /\ stdout'[u] = stdout[u]
    BY <1>5, <1>b DEF ReportStartup, GiveUp, WaitForStart, ReadUpdate,
                      PlaceOrder, Die, Terminate
  <2> SUFFICES /\ Waits(t) => InitComes(t)'
               /\ ~Waits(t) => InitTold(t)'
    <3>1. ASSUME NEW u \in Traders, u # t
          PROVE  /\ handle'[u] = "none" =>
                      process'[u] = "none" /\ shared'[u] = <<>> /\ stdout'[u] = <<>>
                 /\ Waits(u)' => InitComes(u)'
                 /\ ~Waits(u)' => InitTold(u)'
      BY <3>1, <2>1, <2>3, <1>d
    <3> QED
      BY <3>1, <2>1, <2>2 DEF InitInv
  <2>4. CASE ReportStartup(t) \/ GiveUp(t)
    <3>1. /\ process[t] = "starting" /\ process'[t] # "starting"
          /\ stdout'[t] = Append(stdout[t], InitMessage)
      BY <2>4, <1>b DEF ReportStartup, GiveUp
    <3>2. Waits(t) /\ shared[t] = <<>> /\ stdout[t] = <<>>
      BY <3>1 DEF InitInv, InitComes, InitTold
    <3>3. stdout'[t] = <<InitMessage>>
      BY <3>1, <3>2
    <3>4. NoInitFrom(<<InitMessage>>, 2)
      BY DEF NoInitFrom
    <3> QED
      BY <3>1, <3>2, <3>3, <3>4, <2>1 DEF InitComes
  <2>5. CASE PlaceOrder(t)
    <3>1. process[t] = "running" /\ process' = process
      BY <2>5 DEF PlaceOrder
    <3>2. ~Waits(t) /\ InitTold(t)
      BY <3>1 DEF StartInv, InitInv, Waits
    <3>3. stdout'[t] = stdout[t] \/ stdout'[t] = Append(stdout[t], Len(placed[t]) + 1)
      BY <2>5, <1>b DEF PlaceOrder
    <3>4. Len(placed[t]) + 1 \in Nat /\ Len(placed[t]) + 1 # InitMessage
      <4>1. placed[t] \in Seq(Nat)
        BY DEF TypeInv
      <4>2. Len(placed[t]) \in Nat
        BY <4>1, LenProperties
      <4> QED
        BY <4>2 DEF InitMessage
    <3>5. NoInitFrom(stdout'[t], 1)
      BY <3>2, <3>3, <3>4, <1>b, NoInitAdded DEF InitTold
    <3> QED
      BY <3>1, <3>2, <3>5, <2>1 DEF InitTold
  <2>6. CASE WaitForStart(t) \/ ReadUpdate(t) \/ Die(t) \/ Terminate(t)
    <3>1. /\ stdout' = stdout
          /\ process'[t] # "starting"
          /\ process[t] = "starting" /\ process'[t] # "killed" => timers_[t] = "stopping"
          /\ process[t] # "killed"
      BY <2>6, <1>b DEF WaitForStart, ReadUpdate, Die, Terminate, Alive
    <3>2. Waits(t) => timers_[t] = "none"
      BY DEF Waits, HandleInv
    <3> QED
      BY <3>1, <3>2, <2>1 DEF InitInv, InitComes, InitTold
  <2> QED
    BY <1>5, <2>4, <2>5, <2>6
<1>6. ASSUME Advance \/ UNCHANGED sandboxVars
      PROVE  InitInv'
  <2>1. UNCHANGED <<request, at, handle, process, shared, stdout>>
    BY <1>6 DEF Advance
  <2>2. \A u \in Traders : Waits(u)' = Waits(u)
    BY <2>1 DEF Waits
  <2> QED
    BY <2>1, <2>2, <1>d DEF InitInv
<1> QED
  BY <1>1, <1>2, <1>3, <1>4, <1>5, <1>6, StepIsAction

\* The limiter lets an order through only when all but the last MAX_CALLS - 1
\* are older than the window.
LEMMA TimeKept ==
  ASSUME TypeInv, TimeInv, [SandboxNext]_sandboxVars
  PROVE  TimeInv'
<1> USE DEF sandboxVars, serverVars, mainVars, queueVars, wrapperVars
<1> DEFINE Timely(known, all, time) ==
             /\ Len(all) - Len(known) \in Nat
             /\ \A i \in 1 .. Len(known) : known[i] = all[Len(all) - Len(known) + i]
             /\ \A i \in 1 .. Len(all) - Len(known) : time - all[i] > TIME_WINDOW
             /\ \A i, j \in 1 .. Len(all) :
                  /\ all[i] <= time
                  /\ j >= i + MAX_CALLS => all[j] - all[i] > TIME_WINDOW
<1>a. \A t \in Traders : /\ timestamps_[t] \in Seq(Nat) /\ placed[t] \in Seq(Nat)
                         /\ Timely(timestamps_[t], placed[t], now)
  BY DEF TypeInv, TimeInv
<1>b. /\ timestamps_ \in [Traders -> Seq(Nat)] /\ placed \in [Traders -> Seq(Nat)]
      /\ now \in Nat
  BY DEF TypeInv
<1>c. (\A t \in Traders : Timely(timestamps_'[t], placed'[t], now')) => TimeInv'
  BY DEF TimeInv
<1> HIDE DEF Timely
<1>d. UNCHANGED <<timestamps_, placed, now>> => TimeInv'
  BY <1>a, <1>c
<1>1. ASSUME BlockOnInit \/ PushTrader \/ StartRemoveTimer \/ SendStart
      PROVE  TimeInv'
  BY <1>1, <1>d DEF BlockOnInit, PushTrader, StartRemoveTimer, SendStart
<1>2. ASSUME MoveTraders \/ ClearTraders \/ AddTraders \/ ReadOrders \/ TakeOrders
               \/ Report \/ SendUpdates \/ SendUpdate
      PROVE  TimeInv'
  BY <1>2, <1>d DEF MoveTraders, ClearTraders, AddTraders, ReadOrders, TakeOrders,
                Report, SendUpdates, SendUpdate, Visit
<1>3. ASSUME NEW t \in Traders, CreateTrader(t) \/ Expire(t) \/ DestroyHandle(t)
                               \/ UploadLog(t)
      PROVE  TimeInv'
  BY <1>3, <1>d DEF CreateTrader, Expire, DestroyHandle, UploadLog
<1>4. ASSUME NEW t \in Traders, ReadCompletes(t) \/ StoreMessage(t) \/ ReadEnds(t)
      PROVE  TimeInv'
  BY <1>4, <1>d DEF ReadCompletes, StoreMessage, ReadEnds
<1>5. ASSUME NEW t \in Traders,
             ReportStartup(t) \/ GiveUp(t) \/ WaitForStart(t) \/ ReadUpdate(t)
               \/ PlaceOrder(t) \/ Die(t) \/ Terminate(t)
      PROVE  TimeInv'
  <2>1. CASE PlaceOrder(t)
    <3> DEFINE recent == Unexpired(timestamps_[t], now)
               all == placed[t]
               popped == Len(timestamps_[t]) - Len(recent)
    <3>1. /\ recent \in Seq(Nat)
          /\ popped \in Nat
          /\ \A i \in 1 .. Len(recent) : recent[i] = timestamps_[t][popped + i]
          /\ \A i \in 1 .. popped : now - timestamps_[t][i] > TIME_WINDOW
      BY <1>a, <1>b, UnexpiredIsTail
    <3>2. /\ Len(recent) \in Nat /\ Len(all) \in Nat /\ Len(timestamps_[t]) \in Nat
          /\ \A i \in 1 .. Len(all) : all[i] \in Nat
      BY <1>a, <3>1, LenProperties
    <3>3. \/ /\ timestamps_' = [timestamps_ EXCEPT ![t] = recent]
             /\ placed' = placed
          \/ /\ Len(recent) < MAX_CALLS
             /\ timestamps_' = [timestamps_ EXCEPT ![t] = Append(recent, now)]
             /\ placed' = [placed EXCEPT ![t] = Append(all, now)]
      <4>1. ~ShouldRateLimit(recent) => Len(recent) < MAX_CALLS
        BY <3>2, LimitAssumption DEF ShouldRateLimit
      <4> QED
        BY <2>1, <4>1 DEF PlaceOrder
    <3>4. now' = now
      BY <2>1 DEF PlaceOrder
    <3> HIDE DEF recent
    <3>5. Timely(recent, all, now)
      <4>1. /\ Len(all) - Len(timestamps_[t]) \in Nat
            /\ \A i \in 1 .. Len(timestamps_[t]) :
                 timestamps_[t][i] = all[Len(all) - Len(timestamps_[t]) + i]
            /\ \A i \in 1 .. Len(all) - Len(timestamps_[t]) :
                 now - all[i] > TIME_WINDOW
            /\ \A i, j \in 1 .. Len(all) :
                 /\ all[i] <= now
                 /\ j >= i + MAX_CALLS => all[j] - all[i] > TIME_WINDOW
        BY <1>a DEF Timely
      <4>2. /\ Len(all) - Len(recent) \in Nat
            /\ \A i \in 1 .. Len(recent) : recent[i] = all[Len(all) - Len(recent) + i]
            /\ \A i \in 1 .. Len(all) - Len(recent) : now - all[i] > TIME_WINDOW
        <5>1. PICK n \in Nat, w \in Nat, r \in Nat :
                n = Len(all) /\ w = Len(timestamps_[t]) /\ r = Len(recent)
          BY <3>2
        <5>2. n - w \in Nat /\ w - r \in Nat
          BY <5>1, <4>1, <3>1
        <5>3. /\ \A i \in 1 .. w : timestamps_[t][i] = all[n - w + i]
              /\ \A i \in 1 .. n - w : now - all[i] > TIME_WINDOW
          BY <5>1, <4>1
        <5>4. /\ \A i \in 1 .. r : recent[i] = timestamps_[t][w - r + i]
              /\ \A i \in 1 .. w - r : now - timestamps_[t][i] > TIME_WINDOW
          BY <5>1, <3>1
        <5> HIDE DEF all
        <5>5. n - r \in Nat
          BY <5>2
        <5>6. ASSUME NEW i \in 1 .. r
              PROVE  recent[i] = all[n - r + i]
          <6>1. w - r + i \in 1 .. w /\ n - w + (w - r + i) = n - r + i
            BY <5>2
          <6> QED
            BY <6>1, <5>3, <5>4
        <5>7. ASSUME NEW i \in 1 .. n - r
              PROVE  now - all[i] > TIME_WINDOW
          <6>1. CASE i \in 1 .. n - w
            BY <6>1, <5>3
          <6>2. CASE i \notin 1 .. n - w
            <7>1. /\ i - (n - w) \in 1 .. w - r /\ i - (n - w) \in 1 .. w
                  /\ n - w + (i - (n - w)) = i
              BY <6>2, <5>2
            <7> QED
              BY <7>1, <5>3, <5>4
          <6> QED
            BY <6>1, <6>2
        <5> QED
          BY <5>1, <5>5, <5>6, <5>7
      <4> QED
        BY <4>1, <4>2 DEF Timely
    <3>6. ASSUME Len(recent) < MAX_CALLS
          PROVE  Timely(Append(recent, now), Append(all, now), now)
      <4>1. /\ Len(all) - Len(recent) \in Nat
            /\ \A i \in 1 .. Len(recent) : recent[i] = all[Len(all) - Len(recent) + i]
            /\ \A i \in 1 .. Len(all) - Len(recent) : now - all[i] > TIME_WINDOW
            /\ \A i, j \in 1 .. Len(all) :
                 /\ all[i] <= now
                 /\ j >= i + MAX_CALLS => all[j] - all[i] > TIME_WINDOW
        BY <3>5 DEF Timely
      <4> DEFINE known1 == Append(recent, now)
                 all1 == Append(all, now)
      <4>2. /\ Len(known1) = Len(recent) + 1 /\ Len(all1) = Len(all) + 1
            /\ \A i \in 1 .. Len(recent) : known1[i] = recent[i]
            /\ known1[Len(recent) + 1] = now
            /\ \A i \in 1 .. Len(all) : all1[i] = all[i]
            /\ all1[Len(all) + 1] = now
        BY <1>a, <1>b, <3>1, AppendMessage
      <4> HIDE DEF known1, all1, all
      <4>3. Len(all1) - Len(known1) = Len(all) - Len(recent)
        BY <4>2, <3>2
      <4>4. ASSUME NEW i \in 1 .. Len(known1)
            PROVE  known1[i] = all1[Len(all) - Len(recent) + i]
        <5>1. CASE i = Len(recent) + 1
          BY <5>1, <4>2, <3>2
        <5>2. CASE i # Len(recent) + 1
          <6>1. i \in 1 .. Len(recent) /\ Len(all) - Len(recent) + i \in 1 .. Len(all)
            BY <5>2, <4>1, <4>2, <3>2
          <6> QED
            BY <6>1, <4>1, <4>2
        <5> QED
          BY <5>1, <5>2
      <4>5. ASSUME NEW i \in 1 .. Len(all) - Len(recent)
            PROVE  now - all1[i] > TIME_WINDOW
        <5>1. i \in 1 .. Len(all)
          BY <3>2
        <5> QED
          BY <5>1, <4>1, <4>2
      <4>6. ASSUME NEW i \in 1 .. Len(all1), NEW j \in 1 .. Len(all1)
            PROVE  /\ all1[i] <= now
                   /\ j >= i + MAX_CALLS => all1[j] - all1[i] > TIME_WINDOW
        <5>1. all1[i] <= now
          <6>1. i = Len(all) + 1 \/ i \in 1 .. Len(all)
            BY <4>2, <3>2
          <6>2. CASE i = Len(all) + 1
            <7>1. all1[i] = now
              BY <6>2, <4>2
            <7> QED
              BY <7>1, <1>b
          <6>3. CASE i \in 1 .. Len(all)
            BY <6>3, <4>1, <4>2
          <6> QED
            BY <6>1, <6>2, <6>3
        <5>2. ASSUME j >= i + MAX_CALLS
              PROVE  all1[j] - all1[i] > TIME_WINDOW
          <6>1. i \in 1 .. Len(all)
            BY <5>2, <4>2, <3>2, LimitAssumption
          <6>2. CASE j \in 1 .. Len(all)
            BY <6>1, <6>2, <5>2, <4>1, <4>2
          <6>3. CASE j = Len(all) + 1
            <7>1. i \in 1 .. Len(all) - Len(recent)
              BY <6>1, <6>3, <5>2, <3>6, <3>2, LimitAssumption
            <7> QED
              BY <7>1, <6>3, <4>2, <4>5
          <6> QED
            BY <6>2, <6>3, <4>2, <3>2
        <5> QED
          BY <5>1, <5>2
      <4>7. Timely(known1, all1, now)
        BY <4>1, <4>3, <4>4, <4>5, <4>6 DEF Timely
      <4> QED
        BY <4>7 DEF known1, all1, all
    <3> HIDE DEF all
    <3> SUFFICES ASSUME NEW u \in Traders
                 PROVE  Timely(timestamps_'[u], placed'[u], now)
      BY <3>4, <1>c
    <3>7. CASE u # t
      <4>1. timestamps_'[u] = timestamps_[u] /\ placed'[u] = placed[u]
        BY <3>3, <3>7, <1>b
      <4> QED
        BY <4>1, <1>a
    <3>8. CASE u = t
      <4>1. \/ timestamps_'[u] = recent /\ placed'[u] = all
            \/ /\ Len(recent) < MAX_CALLS
               /\ timestamps_'[u] = Append(recent, now)
               /\ placed'[u] = Append(all, now)
        BY <3>3, <3>8, <1>b DEF all
      <4> QED
        BY <4>1, <3>5, <3>6
    <3> QED
      BY <3>7, <3>8
  <2>2. CASE ~PlaceOrder(t)
    BY <2>2, <1>5, <1>d DEF ReportStartup, GiveUp, WaitForStart, ReadUpdate,
                            Die, Terminate
  <2> QED
    BY <2>1, <2>2
<1>6. ASSUME Advance \/ UNCHANGED sandboxVars
      PROVE  TimeInv'
  <2>1. CASE Advance
    <3>1. now' = now + 1 /\ UNCHANGED <<timestamps_, placed>>
      BY <2>1 DEF Advance
    <3>2. ASSUME NEW t \in Traders
          PROVE  Timely(timestamps_[t], placed[t], now + 1)
      <4>1. /\ Len(placed[t]) \in Nat /\ Len(timestamps_[t]) \in Nat
            /\ \A i \in 1 .. Len(placed[t]) : placed[t][i] \in Nat
        BY <1>a, LenProperties
      <4>2. Timely(timestamps_[t], placed[t], now)
        BY <1>a
      <4> QED
        BY <4>1, <4>2, <1>b, WindowAssumption, SMTT(30) DEF Timely
    <3> QED
      BY <3>1, <3>2, <1>c
  <2>2. CASE UNCHANGED sandboxVars
    BY <2>2, <1>d
  <2> QED
    BY <1>6, <2>1, <2>2
<1> QED
  BY <1>1, <1>2, <1>3, <1>4, <1>5, <1>6, StepIsAction

-----------------------------------------------------------------------------
(***************************************************************************)
(* The theorems.                                                           *)
(***************************************************************************)
LEMMA InvInit == SandboxInit => SandboxInv
<1> SUFFICES ASSUME SandboxInit PROVE SandboxInv
  OBVIOUS
<1>1. /\ <<>> \in Seq(Traders) /\ <<>> \in Seq(Nat)
      /\ <<>> \in Seq({"algorithm", "start", "update"})
  OBVIOUS
<1>2. TypeInv
  BY <1>1 DEF SandboxInit, TypeInv
<1>3. PlaceInv
  BY DEF SandboxInit, PlaceInv
<1>4. HandleInv
  BY NoneAssumption DEF SandboxInit, HandleInv
<1>5. VectorInv
  <2>1. Pushed = {}
    BY DEF SandboxInit, Pushed
  <2>2. ToSet(<<>>) = {} /\ IsInjective(<<>>)
    BY DEF ToSet, IsInjective
  <2> QED
    BY <2>1, <2>2, FreeAssumption DEF SandboxInit, VectorInv
<1>6. InitInv
  BY DEF SandboxInit, InitInv, InitTold, Waits, NoInitFrom
<1>7. StartInv
  BY DEF SandboxInit, StartInv, Contains, OneStart
<1>8. TimeInv
  BY DEF SandboxInit, TimeInv
<1> QED
  BY <1>2, <1>3, <1>4, <1>5, <1>6, <1>7, <1>8 DEF SandboxInv

LEMMA InvKept == SandboxInv /\ [SandboxNext]_sandboxVars => SandboxInv'
BY TypeKept, PlaceKept, HandleKept, VectorKept, InitKept, StartKept, TimeKept
   DEF SandboxInv

LEMMA InvHolds == SandboxSpec => []SandboxInv
BY InvInit, InvKept, PTL DEF SandboxSpec

\* Every variable keeps its type, for any algorithms and any bounds.
THEOREM SandboxTypeCorrect == SandboxSpec => []TypeInv
<1>1. SandboxInv => TypeInv
  BY DEF SandboxInv
<1> QED
  BY <1>1, InvHolds, PTL

\* No trader is lost between the request thread and the main thread, and none
\* is added twice.
THEOREM TradersAddedOnce == SandboxSpec => []AddedOnce
<1>1. SandboxInv => AddedOnce
  <2> SUFFICES ASSUME TypeInv, VectorInv PROVE AddedOnce
    BY DEF SandboxInv
  <2>1. /\ traders_to_add \in Seq(Traders) /\ pending \in Seq(Traders)
        /\ traders_ \in Seq(Traders)
    BY DEF TypeInv
  <2> DEFINE both == traders_to_add \o pending
  <2>2. /\ both \in Seq(Traders)
        /\ ToSet(both) = ToSet(traders_to_add) \cup ToSet(pending)
        /\ IsInjective(both)
    BY <2>1, JoinTraders DEF VectorInv
  <2> HIDE DEF both
  <2>3. ToSet(both) \cap ToSet(traders_) = {}
    BY <2>2 DEF VectorInv
  <2>4. /\ ToSet(both \o traders_) = Pushed
        /\ IsInjective(both \o traders_)
    <3>1. /\ ToSet(both \o traders_) = ToSet(both) \cup ToSet(traders_)
          /\ IsInjective(both) /\ IsInjective(traders_)
               => IsInjective(both \o traders_)
      BY <2>1, <2>2, <2>3, JoinTraders
    <3>2. ToSet(both) \cup ToSet(traders_) = Pushed /\ IsInjective(traders_)
      BY <2>2 DEF VectorInv
    <3> QED
      BY <3>1, <3>2, <2>2
  <2> QED
    BY <2>4 DEF both, AddedOnce, Pushed
<1> QED
  BY <1>1, InvHolds, PTL

LEMMA NoInitJoined ==
  ASSUME NEW s \in Seq(Nat), NEW u \in Seq(Nat),
         NoInitFrom(s, 1), NoInitFrom(u, 1),
         NEW n \in 1 .. Len(s \o u)
  PROVE  (s \o u)[n] # InitMessage
<1>1. PICK k \in Nat, l \in Nat : k = Len(s) /\ l = Len(u)
  BY LenProperties
<1>2. /\ n \in 1 .. k + l
      /\ (s \o u)[n] = IF n <= k THEN s[n] ELSE u[n - k]
  BY <1>1, ConcatProperties
<1>3. CASE n <= k
  BY <1>1, <1>2, <1>3 DEF NoInitFrom
<1>4. CASE ~(n <= k)
  <2>1. n - k \in 1 .. l
    BY <1>2, <1>4, SMTT(30)
  <2> QED
    BY <1>1, <1>2, <1>4, <2>1 DEF NoInitFrom
<1> QED
  BY <1>3, <1>4

\* The main thread never meets an init message.
THEOREM InitTakenFirst == SandboxSpec => []InitTaken
<1>1. SandboxInv => InitTaken
  <2> SUFFICES ASSUME SandboxInv, NEW i \in DOMAIN traders_,
                      NEW n \in 1 .. Len(shared[traders_[i]] \o stdout[traders_[i]])
               PROVE  (shared[traders_[i]] \o stdout[traders_[i]])[n] # InitMessage
    BY DEF InitTaken, Contains
  <2> DEFINE t == traders_[i]
  <2>1. t \in Pushed
    BY DEF SandboxInv, VectorInv, ToSet
  <2> HIDE DEF t
  <2>2. t \in Traders /\ InitTold(t)
    BY <2>1 DEF SandboxInv, HandleInv, InitInv, Pushed, Waits
  <2>3. shared[t] \in Seq(Nat) /\ stdout[t] \in Seq(Nat)
    BY <2>2 DEF SandboxInv, TypeInv
  <2>4. n \in 1 .. Len(shared[t] \o stdout[t])
    BY DEF t
  <2>5. (shared[t] \o stdout[t])[n] # InitMessage
    BY <2>2, <2>3, <2>4, NoInitJoined DEF InitTold
  <2> QED
    BY <2>5 DEF t
<1> QED
  BY <1>1, InvHolds, PTL

\* No wrapper that runs is told to start again.
THEOREM WrappersStartOnce == SandboxSpec => []StartedOnce
<1>1. SandboxInv => StartedOnce
  BY DEF SandboxInv, StartInv, StartedOnce
<1> QED
  BY <1>1, InvHolds, PTL

\* No window of time holds more orders of a client than the limiter allows.
THEOREM RateLimited == SandboxSpec => []WindowBound
<1>1. SandboxInv => WindowBound
  <2>1. ASSUME SandboxInv, NEW t \in Traders
        PROVE  DOMAIN placed[t] = 1 .. Len(placed[t])
    <3>1. placed[t] \in Seq(Nat)
      BY <2>1 DEF SandboxInv, TypeInv
    <3> QED
      BY <3>1, LenProperties
  <2> QED
    BY <2>1 DEF SandboxInv, TimeInv, WindowBound
<1> QED
  BY <1>1, InvHolds, PTL

-----------------------------------------------------------------------------
(***************************************************************************)
(* The orders of a wrapper.                                                *)
(***************************************************************************)
\* The orders that a wrapper has written, numbered as they were.
Written(n) == [i \in 1 .. n |-> i]

LEMMA WrittenSeq ==
  ASSUME NEW n \in Nat
  PROVE  /\ Written(n) \in Seq(Nat) /\ Len(Written(n)) = n
         /\ Append(Written(n), n + 1) = Written(n + 1)
<1>1. ASSUME NEW k \in Nat PROVE Written(k) \in Seq(Nat) /\ Len(Written(k)) = k
  <2>1. Written(k) \in [1 .. k -> Nat] /\ DOMAIN Written(k) = 1 .. k
    BY DEF Written
  <2>2. Written(k) \in Seq(Nat)
    BY <2>1, SeqDef
  <2>3. Len(Written(k)) \in Nat /\ DOMAIN Written(k) = 1 .. Len(Written(k))
    BY <2>2, LenProperties
  <2> QED
    BY <2>1, <2>2, <2>3
<1>2. PICK s, u : s = Append(Written(n), n + 1) /\ u = Written(n + 1)
  OBVIOUS
<1>3. /\ s \in Seq(Nat) /\ Len(s) = n + 1 /\ s[n + 1] = n + 1
      /\ \A i \in 1 .. n : s[i] = Written(n)[i]
  BY <1>1, <1>2, AppendProperties
<1>4. u \in Seq(Nat) /\ Len(u) = n + 1 /\ \A i \in 1 .. n + 1 : u[i] = i
  BY <1>1, <1>2 DEF Written
<1>5. \A i \in 1 .. Len(s) : s[i] = u[i]
  BY <1>3, <1>4 DEF Written
<1>6. s = u
  BY <1>3, <1>4, <1>5, SeqEqual
<1> QED
  BY <1>1, <1>2, <1>6

\* Sequences of messages, one behind the other.
LEMMA Joined ==
  \A s, u \in Seq(Nat) :
    /\ s \o u \in Seq(Nat)
    /\ Len(s \o u) = Len(s) + Len(u)
    /\ \A i \in 1 .. Len(s) + Len(u) :
          (s \o u)[i] = IF i <= Len(s) THEN s[i] ELSE u[i - Len(s)]
<1>1. ASSUME NEW s \in Seq(Nat), NEW u \in Seq(Nat)
      PROVE  /\ s \o u \in Seq(Nat)
             /\ Len(s \o u) = Len(s) + Len(u)
             /\ \A i \in 1 .. Len(s) + Len(u) :
                   (s \o u)[i] = IF i <= Len(s) THEN s[i] ELSE u[i - Len(s)]
  BY ConcatProperties
<1> QED
  BY <1>1, Zenon

LEMMA Regrouped ==
  ASSUME NEW x \in Seq(Nat), NEW y \in Seq(Nat), NEW z \in Seq(Nat)
  PROVE  (x \o y) \o z = x \o (y \o z)
OBVIOUS

LEMMA HeadAndTail ==
  ASSUME NEW w \in Seq(Nat), w # <<>>
  PROVE  w = <<Head(w)>> \o Tail(w)
<1>1. PICK h \in Nat, r \in Seq(Nat) : h = Head(w) /\ r = Tail(w)
  BY HeadTailProperties
<1>2. PICK one : one = <<h>>
  OBVIOUS
<1>3. one \in Seq(Nat) /\ Len(one) = 1 /\ one[1] = h
  BY <1>2
<1>4. PICK l \in Nat : l = Len(r)
  BY <1>1, LenProperties
<1>5. PICK v : v = one \o r
  OBVIOUS
<1>6. /\ v \in Seq(Nat) /\ Len(v) = 1 + l
      /\ \A i \in 1 .. 1 + l : v[i] = IF i <= 1 THEN one[i] ELSE r[i - 1]
  <2>1. PICK k \in Nat : k = Len(one) /\ k = 1
    BY <1>3
  <2>2. /\ v \in Seq(Nat) /\ Len(v) = k + l
        /\ \A i \in 1 .. k + l : v[i] = IF i <= k THEN one[i] ELSE r[i - k]
    <3>1. /\ one \o r \in Seq(Nat)
          /\ Len(one \o r) = Len(one) + Len(r)
          /\ \A i \in 1 .. Len(one) + Len(r) :
                (one \o r)[i] = IF i <= Len(one) THEN one[i] ELSE r[i - Len(one)]
      BY <1>3, Joined, Zenon
    <3> QED
      BY <1>4, <1>5, <2>1, <3>1
  <2> QED
    BY <2>1, <2>2
<1>7. /\ w[1] = h /\ Len(w) = 1 + l
      /\ \A i \in 1 .. l : r[i] = w[i + 1]
  <2>1. /\ w[1] = h /\ Len(w) \in Nat /\ l = Len(w) - 1
        /\ \A i \in 1 .. Len(w) - 1 : r[i] = w[i + 1]
    BY <1>1, <1>4, TakeMessage
  <2> QED
    BY <2>1
<1>8. \A i \in 1 .. Len(v) : v[i] = w[i]
  <2> SUFFICES ASSUME NEW i \in 1 .. 1 + l PROVE v[i] = w[i]
    BY <1>6
  <2>1. CASE i = 1
    BY <2>1, <1>3, <1>6, <1>7
  <2>2. CASE i # 1
    <3>1. PICK j \in 1 .. l : i - 1 = j /\ i = j + 1
      BY <2>2
    <3>2. v[i] = r[j]
      BY <1>6, <2>2, <3>1, SMTT(30)
    <3>3. r[j] = w[i]
      BY <1>7, <3>1
    <3> QED
      BY <3>2, <3>3
  <2> QED
    BY <2>1, <2>2
<1>9. v = w
  BY <1>6, <1>7, <1>8, SeqEqual
<1> QED
  BY <1>1, <1>2, <1>5, <1>9

\* What happens to sequences, one behind the other, when the wrapper writes
\* another message to the last, and when the reader stores the first of the last.
LEMMA WriteOne ==
  ASSUME NEW s \in Seq(Nat), NEW w \in Seq(Nat), NEW m \in Nat
  PROVE  s \o Append(w, m) = Append(s \o w, m)
<1>1. PICK one : one = <<m>>
  OBVIOUS
<1>2. one \in Seq(Nat)
  BY <1>1
<1>3. Append(w, m) = w \o one
  BY <1>1, AppendIsConcat
<1>4. s \o w \in Seq(Nat)
  BY ConcatProperties
<1>5. Append(s \o w, m) = (s \o w) \o one
  BY <1>1, <1>4, AppendIsConcat
<1>6. (s \o w) \o one = s \o (w \o one)
  BY <1>2, Regrouped, Zenon
<1> QED
  BY <1>3, <1>5, <1>6

LEMMA StoreOne ==
  ASSUME NEW s \in Seq(Nat), NEW u \in Seq(Nat), NEW w \in Seq(Nat), w # <<>>
  PROVE  (s \o Append(u, Head(w))) \o Tail(w) = (s \o u) \o w
<1>1. PICK h \in Nat, r \in Seq(Nat) : h = Head(w) /\ r = Tail(w)
  BY HeadTailProperties
<1>2. PICK one : one = <<h>>
  OBVIOUS
<1>3. one \in Seq(Nat)
  BY <1>2
<1>4. one \o r = w
  BY <1>1, <1>2, HeadAndTail
<1>5. PICK v \in Seq(Nat) : v = s \o u
  BY ConcatProperties
<1>6. s \o Append(u, h) = v \o one
  BY <1>2, <1>5, WriteOne, AppendIsConcat, SMTT(30)
<1>7. (v \o one) \o r = v \o (one \o r)
  <2>1. v \in Seq(Nat) /\ r \in Seq(Nat)
    BY <1>1, <1>5
  <2> QED
    BY <1>3, <2>1, Regrouped, ZenonT(40)
<1> QED
  BY <1>1, <1>4, <1>5, <1>6, <1>7

\* The first of two sequences loses its first message.
LEMMA TakeOne ==
  ASSUME NEW u \in Seq(Nat), NEW w \in Seq(Nat), u # <<>>
  PROVE  Tail(u) \o w = Tail(u \o w) /\ Head(u) = Head(u \o w) /\ u \o w # <<>>
<1>1. PICK v : v = u \o w
  OBVIOUS
<1>2. PICK k \in Nat, l \in Nat : k = Len(u) /\ l = Len(w)
  BY LenProperties
<1>3. /\ v \in Seq(Nat) /\ Len(v) = k + l /\ k > 0
      /\ \A i \in 1 .. k + l : v[i] = IF i <= k THEN u[i] ELSE w[i - k]
  BY <1>1, <1>2, ConcatProperties, EmptySeq
<1>4. v # <<>>
  BY <1>2, <1>3, EmptySeq
<1>5. /\ Head(v) = v[1] /\ Tail(v) \in Seq(Nat) /\ Len(Tail(v)) = k + l - 1
      /\ \A i \in 1 .. k + l - 1 : Tail(v)[i] = v[i + 1]
  BY <1>2, <1>3, <1>4, TakeMessage
<1>6. /\ Head(u) = u[1] /\ Tail(u) \in Seq(Nat) /\ Len(Tail(u)) = k - 1
      /\ \A i \in 1 .. k - 1 : Tail(u)[i] = u[i + 1]
  BY <1>2, TakeMessage
<1>7. PICK x : x = Tail(u) \o w
  OBVIOUS
<1>8. /\ x \in Seq(Nat) /\ Len(x) = k + l - 1
      /\ \A i \in 1 .. k + l - 1 : x[i] = IF i <= k - 1 THEN Tail(u)[i] ELSE w[i - (k - 1)]
  <2>1. /\ x \in Seq(Nat) /\ Len(x) = (k - 1) + l
        /\ \A i \in 1 .. (k - 1) + l :
             x[i] = IF i <= k - 1 THEN Tail(u)[i] ELSE w[i - (k - 1)]
    BY <1>2, <1>6, <1>7, ConcatProperties
  <2> QED
    BY <1>2, <2>1
<1>9. \A i \in 1 .. Len(x) : x[i] = Tail(v)[i]
  <2> SUFFICES ASSUME NEW i \in 1 .. k + l - 1 PROVE x[i] = Tail(v)[i]
    BY <1>8
  <2>1. i + 1 \in 1 .. k + l /\ (i + 1) - k = i - (k - 1)
    OBVIOUS
  <2>2. CASE i <= k - 1
    BY <1>3, <1>5, <1>6, <1>8, <2>1, <2>2
  <2>3. CASE ~(i <= k - 1)
    <3>1. PICK j \in 1 .. k + l, n \in Int : j = i + 1 /\ n = j - k /\ n = i - (k - 1)
      BY <2>1
    <3>2. Tail(v)[i] = v[j]
      BY <1>5, <3>1
    <3>3. v[j] = w[n]
      <4>1. v[j] = IF j <= k THEN u[j] ELSE w[j - k]
        BY <1>3, <3>1
      <4>2. ~(j <= k) /\ j - k = n
        BY <2>3, <3>1
      <4> QED
        BY <4>1, <4>2
    <3>4. x[i] = w[n]
      BY <1>8, <2>3, <3>1
    <3> QED
      BY <3>2, <3>3, <3>4
  <2> QED
    BY <2>2, <2>3
<1>10. x = Tail(v)
  BY <1>5, <1>8, <1>9, SeqEqual
<1>11. Head(u) = Head(v)
  BY <1>3, <1>5, <1>6
<1> QED
  BY <1>1, <1>4, <1>7, <1>10, <1>11

\* What has been taken and what is still to come of a wrapper's messages.
Coming == [t \in Traders |-> (taken[t] \o shared[t]) \o stdout[t]]

InTurn(messages, n) == messages \in {Written(n), <<InitMessage>> \o Written(n)}

\* Nothing is taken from a trader before its init message, it writes no order
\* before it runs, and what comes is in turn.
OrdersOf(t) ==
    /\ handle[t] = "none" \/ Waits(t) => taken[t] = <<>>
    /\ process[t] \in {"none", "starting", "waiting"} => placed[t] = <<>>
    /\ handle[t] # "destroyed" => InTurn(Coming[t], Len(placed[t]))

OrdersInv == \A t \in Traders : OrdersOf(t)

\* A step that leaves a trader's messages where they are.
Untouched(u) ==
    /\ taken'[u] = taken[u] /\ shared'[u] = shared[u]
    /\ stdout'[u] = stdout[u] /\ placed'[u] = placed[u]
    /\ handle'[u] = "none" \/ Waits(u)' => handle[u] = "none" \/ Waits(u)
    /\ process'[u] \in {"none", "starting", "waiting"}
         => process[u] \in {"none", "starting", "waiting"}
    /\ handle'[u] # "destroyed" => handle[u] # "destroyed"

LEMMA UntouchedOrders ==
  ASSUME NEW u \in Traders, OrdersOf(u), Untouched(u)
  PROVE  OrdersOf(u)'
<1>1. Coming'[u] = Coming[u]
  BY DEF Untouched, Coming
<1> QED
  BY <1>1 DEF Untouched, OrdersOf

\* Not all steps do.
Touches(t) ==
    \/ BlockOnInit /\ t = request
    \/ TakeOrders /\ t = traders_[visit] /\ handle[t] # "destroyed"
    \/ StoreMessage(t) \/ ReportStartup(t) \/ GiveUp(t) \/ PlaceOrder(t)

LEMMA OthersUntouched ==
  ASSUME SandboxInv, [SandboxNext]_sandboxVars, NEW u \in Traders
  PROVE  Touches(u) \/ Untouched(u)
<1> USE DEF sandboxVars, serverVars, mainVars, queueVars, wrapperVars
<1>b. /\ shared \in [Traders -> Seq(Nat)] /\ stdout \in [Traders -> Seq(Nat)]
      /\ taken \in [Traders -> Seq(Nat)] /\ placed \in [Traders -> Seq(Nat)]
      /\ process \in [Traders -> {"none", "starting", "waiting", "running",
                                  "killed", "exited"}]
      /\ handle \in [Traders -> {"none", "alive", "released", "destroyed"}]
  BY DEF SandboxInv, TypeInv
<1> DEFINE P == Touches(u) \/ Untouched(u)
<1>1. ASSUME BlockOnInit \/ PushTrader \/ StartRemoveTimer \/ SendStart PROVE P
  <2>1. CASE BlockOnInit
    <3>1. CASE u = request
      BY <2>1, <3>1 DEF Touches
    <3>2. CASE u # request
      BY <2>1, <3>2, <1>b DEF BlockOnInit, Untouched, Waits
    <3> QED
      BY <3>1, <3>2
  <2>2. CASE PushTrader \/ StartRemoveTimer \/ SendStart
    BY <2>2 DEF PushTrader, StartRemoveTimer, SendStart, Untouched, Waits
  <2> QED
    BY <1>1, <2>1, <2>2
<1>2. ASSUME MoveTraders \/ ClearTraders \/ AddTraders \/ ReadOrders \/ TakeOrders
               \/ Report \/ SendUpdates \/ SendUpdate
      PROVE  P
  <2>1. CASE TakeOrders
    <3> DEFINE t == traders_[visit]
    <3>1. /\ UNCHANGED <<request, at, handle, stdout, process, placed>>
          /\ \/ handle[t] = "destroyed" /\ UNCHANGED <<taken, shared>>
             \/ /\ handle[t] # "destroyed"
                /\ taken' = [taken EXCEPT ![t] = @ \o shared[t]]
                /\ shared' = [shared EXCEPT ![t] = <<>>]
      BY <2>1 DEF TakeOrders
    <3>2. CASE u = t /\ handle[t] # "destroyed"
      BY <2>1, <3>2 DEF Touches
    <3> HIDE DEF t
    <3>3. CASE ~(u = t /\ handle[t] # "destroyed")
      BY <3>1, <3>3, <1>b DEF Untouched, Waits
    <3> QED
      BY <3>2, <3>3
  <2>2. CASE MoveTraders \/ ClearTraders \/ AddTraders \/ ReadOrders
               \/ Report \/ SendUpdates \/ SendUpdate
    <3>1. UNCHANGED <<request, at, handle, stdout, process, placed, taken, shared>>
      BY <2>2 DEF MoveTraders, ClearTraders, AddTraders, ReadOrders,
                  Report, SendUpdates, SendUpdate, Visit
    <3> QED
      BY <3>1 DEF Untouched, Waits
  <2> QED
    BY <1>2, <2>1, <2>2
<1>3. ASSUME NEW t \in Traders, CreateTrader(t) \/ Expire(t) \/ DestroyHandle(t)
                               \/ UploadLog(t)
      PROVE  P
  <2>1. CASE CreateTrader(t)
    <3>1. /\ request = None /\ handle[t] = "none"
          /\ request' = t /\ at' = "init"
          /\ handle' = [handle EXCEPT ![t] = "alive"]
          /\ process' = [process EXCEPT ![t] = "starting"]
          /\ UNCHANGED <<shared, stdout, taken, placed>>
      BY <2>1 DEF CreateTrader
    <3>2. handle[t] = "none" => process[t] = "none"
      BY DEF SandboxInv, InitInv
    <3> QED
      BY <3>1, <3>2, <1>b DEF Untouched, Waits
  <2>2. CASE Expire(t) \/ DestroyHandle(t) \/ UploadLog(t)
    <3>1. UNCHANGED <<process, shared, stdout, taken, placed, request, at>>
      BY <2>2 DEF Expire, DestroyHandle, UploadLog
    <3>2. /\ handle'[u] = "none" => handle[u] = "none"
          /\ handle'[u] # "destroyed" => handle[u] # "destroyed"
      <4>1. CASE Expire(t)
        <5>1. handle' = [handle EXCEPT ![t] = "released"] /\ timers_[t] = "armed"
          BY <4>1 DEF Expire
        <5>2. timers_[t] = "armed" => handle[t] # "destroyed"
          BY DEF SandboxInv, HandleInv
        <5> QED
          BY <5>1, <5>2, <1>b
      <4>2. CASE DestroyHandle(t) \/ UploadLog(t)
        BY <4>2, <1>b DEF DestroyHandle, UploadLog
      <4> QED
        BY <2>2, <4>1, <4>2
    <3> QED
      BY <3>1, <3>2 DEF Untouched, Waits
  <2> QED
    BY <1>3, <2>1, <2>2
<1>4. ASSUME NEW t \in Traders, ReadCompletes(t) \/ StoreMessage(t) \/ ReadEnds(t)
      PROVE  P
  <2>1. CASE StoreMessage(t)
    <3>1. CASE u = t
      BY <2>1, <3>1 DEF Touches
    <3>2. CASE u # t
      BY <2>1, <3>2, <1>b DEF StoreMessage, Untouched, Waits
    <3> QED
      BY <3>1, <3>2
  <2>2. CASE ReadCompletes(t) \/ ReadEnds(t)
    BY <2>2 DEF ReadCompletes, ReadEnds, Untouched, Waits
  <2> QED
    BY <1>4, <2>1, <2>2
<1>5. ASSUME NEW t \in Traders,
             ReportStartup(t) \/ GiveUp(t) \/ WaitForStart(t) \/ ReadUpdate(t)
               \/ PlaceOrder(t) \/ Die(t) \/ Terminate(t)
      PROVE  P
  <2>1. CASE ReportStartup(t) \/ GiveUp(t) \/ PlaceOrder(t)
    <3>1. CASE u = t
      BY <2>1, <3>1 DEF Touches
    <3>2. CASE u # t
      BY <2>1, <3>2, <1>b DEF ReportStartup, GiveUp, PlaceOrder, Untouched, Waits
    <3> QED
      BY <3>1, <3>2
  <2>2. CASE WaitForStart(t) \/ ReadUpdate(t) \/ Die(t) \/ Terminate(t)
    <3>1. UNCHANGED <<request, at, handle, taken, shared, stdout, placed>>
      BY <2>2 DEF WaitForStart, ReadUpdate, Die, Terminate
    <3>2. process'[u] \in {"none", "starting", "waiting"}
            => process[u] \in {"none", "starting", "waiting"}
      BY <2>2, <1>b DEF WaitForStart, ReadUpdate, Die, Terminate, Alive
    <3> QED
      BY <3>1, <3>2 DEF Untouched, Waits
  <2> QED
    BY <1>5, <2>1, <2>2
<1>6. ASSUME Advance \/ UNCHANGED sandboxVars PROVE P
  BY <1>6 DEF Advance, Untouched, Waits
<1> HIDE DEF P
<1>7. P
  BY <1>1, <1>2, <1>3, <1>4, <1>5, <1>6, StepIsAction
<1> QED
  BY <1>7 DEF P

\* The init message is taken from the front, and the orders go to the end.
LEMMA TakeInit ==
  ASSUME NEW v \in Seq(Nat), v # <<>>, Head(v) = InitMessage,
         NEW n \in Nat, InTurn(v, n)
  PROVE  InTurn(Tail(v), n)
<1>1. PICK w \in Seq(Nat) : w = Written(n) /\ Len(w) = n
  BY WrittenSeq
<1>2. v # w
  <2>1. Len(v) \in Nat \ {0} /\ Head(v) = v[1]
    BY TakeMessage
  <2>2. CASE n = 0
    BY <1>1, <2>1, <2>2
  <2>3. CASE n # 0
    <3>1. 1 \in 1 .. n
      BY <2>3
    <3>2. w[1] = 1
      BY <1>1, <3>1 DEF Written
    <3> QED
      BY <2>1, <3>2 DEF InitMessage
  <2> QED
    BY <2>2, <2>3
<1>3. PICK one : one = <<InitMessage>>
  OBVIOUS
<1>4. one \in Seq(Nat) /\ one # <<>> /\ Tail(one) = <<>>
  BY <1>3 DEF InitMessage
<1>5. v = one \o w
  BY <1>1, <1>2, <1>3 DEF InTurn
<1>6. Tail(one) \o w = Tail(one \o w)
  BY <1>4, TakeOne
<1>7. <<>> \o w = w
  BY ConcatEmptySeq
<1> QED
  BY <1>1, <1>4, <1>5, <1>6, <1>7 DEF InTurn

LEMMA WriteInTurn ==
  ASSUME NEW v \in Seq(Nat), NEW n \in Nat, InTurn(v, n)
  PROVE  InTurn(Append(v, n + 1), n + 1)
<1>1. PICK w \in Seq(Nat) : w = Written(n) /\ Append(w, n + 1) = Written(n + 1)
  BY WrittenSeq
<1>2. PICK one : one = <<InitMessage>>
  OBVIOUS
<1>3. one \in Seq(Nat)
  BY <1>2 DEF InitMessage
<1>4. one \o Append(w, n + 1) = Append(one \o w, n + 1)
  BY <1>3, WriteOne, SMTT(30)
<1>5. v = w \/ v = one \o w
  BY <1>1, <1>2 DEF InTurn
<1> QED
  BY <1>1, <1>2, <1>4, <1>5 DEF InTurn

LEMMA TouchedOrders ==
  ASSUME SandboxInv, NEW t \in Traders, OrdersOf(t), Touches(t)
  PROVE  OrdersOf(t)'
<1> USE DEF sandboxVars, serverVars, mainVars, queueVars, wrapperVars
<1>1. /\ shared \in [Traders -> Seq(Nat)] /\ stdout \in [Traders -> Seq(Nat)]
      /\ taken \in [Traders -> Seq(Nat)] /\ placed \in [Traders -> Seq(Nat)]
      /\ process \in [Traders -> {"none", "starting", "waiting", "running",
                                  "killed", "exited"}]
  BY DEF SandboxInv, TypeInv
<1>2. PICK took \in Seq(Nat), stored \in Seq(Nat), out \in Seq(Nat), n \in Nat :
        took = taken[t] /\ stored = shared[t] /\ out = stdout[t] /\ n = Len(placed[t])
  <2>1. placed[t] \in Seq(Nat)
    BY <1>1
  <2>2. Len(placed[t]) \in Nat
    BY <2>1, LenProperties
  <2> QED
    BY <1>1, <2>2
<1>3. Coming[t] = (took \o stored) \o out
  BY <1>2 DEF Coming
<1>4. Coming'[t] = (taken'[t] \o shared'[t]) \o stdout'[t]
  BY DEF Coming
<1>5. /\ <<>> \o stored = stored /\ <<>> \o <<>> = <<>>
      /\ took \o stored \in Seq(Nat) /\ (took \o stored) \o <<>> = took \o stored
  <2>1. took \o stored \in Seq(Nat)
    BY ConcatProperties
  <2>2. <<>> \in Seq(Nat)
    OBVIOUS
  <2> QED
    BY <2>1, <2>2, ConcatEmptySeq
<1>6. CASE BlockOnInit /\ t = request
  <2>1. /\ at = "init" /\ stored # <<>>
        /\ shared' = [shared EXCEPT ![t] = Tail(stored)]
        /\ UNCHANGED <<request, taken, stdout, placed, process, handle>>
        /\ at' = IF Head(stored) = InitMessage THEN "push" ELSE "init"
    BY <1>2, <1>6 DEF BlockOnInit
  <2>2. Waits(t)
    BY <1>6, <2>1 DEF Waits
  <2>3. took = <<>> /\ Head(stored) = InitMessage /\ handle[t] # "none"
    <3>1. stored[1] = InitMessage
      BY <1>2, <2>1, <2>2 DEF SandboxInv, InitInv, InitComes
    <3>2. Head(stored) = stored[1]
      BY <2>1, TakeMessage
    <3>3. handle[t] # "none"
      BY <1>6 DEF SandboxInv, HandleInv
    <3> QED
      BY <1>2, <2>2, <3>1, <3>2, <3>3 DEF OrdersOf
  <2>4. ~Waits(t)'
    BY <2>1, <2>3 DEF Waits
  <2>5. PICK v \in Seq(Nat) : v = stored \o out
    BY ConcatProperties
  <2>6. Tail(stored) \o out = Tail(v) /\ Head(stored) = Head(v) /\ v # <<>>
    BY <2>1, <2>5, TakeOne
  <2>7. Coming[t] = v
    BY <1>3, <1>5, <2>3, <2>5
  <2>8. Coming'[t] = Tail(v)
    <3>1. taken'[t] = <<>> /\ shared'[t] = Tail(stored) /\ stdout'[t] = out
      BY <1>1, <1>2, <2>1, <2>3
    <3>2. Tail(stored) \in Seq(Nat)
      BY <2>1, TakeMessage
    <3>3. <<>> \o Tail(stored) = Tail(stored)
      BY <3>2, ConcatEmptySeq
    <3> QED
      BY <1>4, <2>6, <3>1, <3>3
  <2>9. InTurn(v, n) => InTurn(Tail(v), n)
    BY <2>3, <2>6, TakeInit
  <2> QED
    BY <1>2, <2>1, <2>3, <2>4, <2>7, <2>8, <2>9 DEF OrdersOf
<1>7. CASE TakeOrders /\ t = traders_[visit] /\ handle[t] # "destroyed"
  <2>1. /\ main = "taking"
        /\ taken' = [taken EXCEPT ![t] = took \o stored]
        /\ shared' = [shared EXCEPT ![t] = <<>>]
        /\ UNCHANGED <<request, at, stdout, placed, process, handle>>
    BY <1>2, <1>7 DEF TakeOrders
  <2>2. ~Waits(t)' /\ handle[t] # "none"
    <3>1. traders_ \in Seq(Traders) /\ visit \in 1 .. Len(traders_)
      BY <2>1 DEF SandboxInv, TypeInv, PlaceInv
    <3>2. visit \in DOMAIN traders_
      BY <3>1, LenProperties
    <3>3. t \in Pushed
      BY <1>7, <3>2 DEF ToSet, SandboxInv, VectorInv
    <3> QED
      BY <2>1, <3>3 DEF Pushed, SandboxInv, HandleInv, Waits
  <2>3. taken'[t] = took \o stored /\ shared'[t] = <<>> /\ stdout'[t] = out
    BY <1>1, <1>2, <2>1
  <2>4. Coming'[t] = Coming[t]
    BY <1>3, <1>4, <1>5, <2>3
  <2> QED
    BY <2>1, <2>2, <2>4 DEF OrdersOf
<1>8. CASE StoreMessage(t)
  <2>1. /\ out # <<>>
        /\ stdout' = [stdout EXCEPT ![t] = Tail(out)]
        /\ \/ handle[t] = "destroyed"
           \/ shared' = [shared EXCEPT ![t] = Append(stored, Head(out))]
        /\ UNCHANGED <<request, at, taken, placed, process, handle>>
    BY <1>2, <1>8 DEF StoreMessage, SandboxInv, PlaceInv
  <2>2. Waits(t)' = Waits(t)
    BY <2>1 DEF Waits
  <2>3. CASE handle[t] = "destroyed"
    BY <2>1, <2>2, <2>3 DEF OrdersOf
  <2>4. CASE shared' = [shared EXCEPT ![t] = Append(stored, Head(out))]
    <3>1. /\ taken'[t] = took /\ shared'[t] = Append(stored, Head(out))
          /\ stdout'[t] = Tail(out)
      BY <1>1, <1>2, <2>1, <2>4
    <3>2. (took \o Append(stored, Head(out))) \o Tail(out) = (took \o stored) \o out
      BY <2>1, StoreOne
    <3>3. Coming'[t] = Coming[t]
      BY <1>3, <1>4, <3>1, <3>2
    <3> QED
      BY <2>1, <2>2, <3>3 DEF OrdersOf
  <2> QED
    BY <2>1, <2>3, <2>4
<1>9. CASE ReportStartup(t) \/ GiveUp(t)
  <2>1. /\ process[t] = "starting"
        /\ stdout' = [stdout EXCEPT ![t] = Append(out, InitMessage)]
        /\ UNCHANGED <<request, at, taken, shared, placed, handle>>
    BY <1>2, <1>9 DEF ReportStartup, GiveUp
  <2>2. Waits(t)' = Waits(t)
    BY <2>1 DEF Waits
  <2>3. /\ took = <<>> /\ stored = <<>> /\ out = <<>> /\ placed[t] = <<>>
    <3>1. Waits(t) /\ stored = <<>> /\ out = <<>>
      BY <1>2, <2>1 DEF SandboxInv, InitInv, InitTold, InitComes
    <3> QED
      BY <1>2, <2>1, <3>1 DEF OrdersOf
  <2>4. Append(<<>>, InitMessage) = <<InitMessage>>
    OBVIOUS
  <2>5. taken'[t] = <<>> /\ shared'[t] = <<>> /\ stdout'[t] = <<InitMessage>>
    BY <1>1, <1>2, <2>1, <2>3, <2>4
  <2>6. PICK one \in Seq(Nat) : one = <<InitMessage>>
    <3>1. <<InitMessage>> \in Seq(Nat)
      BY DEF InitMessage
    <3> QED
      BY <3>1
  <2>7. <<>> \o one = one /\ one \o <<>> = one
    BY ConcatEmptySeq
  <2>8. Coming'[t] = one
    BY <1>4, <1>5, <2>3, <2>5, <2>6, <2>7
  <2>9. Written(0) = <<>> /\ Len(placed'[t]) = 0
    BY <2>1, <2>3 DEF Written
  <2>10. InTurn(Coming'[t], Len(placed'[t]))
    BY <2>6, <2>7, <2>8, <2>9 DEF InTurn
  <2> QED
    BY <1>2, <2>1, <2>2, <2>3, <2>10 DEF OrdersOf
<1>10. CASE PlaceOrder(t)
  <2>1. /\ process[t] = "running"
        /\ \/ UNCHANGED <<stdout, placed>>
           \/ /\ placed' = [placed EXCEPT ![t] = Append(placed[t], now)]
              /\ stdout' = [stdout EXCEPT ![t] = Append(out, n + 1)]
        /\ UNCHANGED <<request, at, taken, shared, process, handle>>
    BY <1>2, <1>10 DEF PlaceOrder
  <2>2. Waits(t)' = Waits(t)
    BY <2>1 DEF Waits
  <2>3. CASE UNCHANGED <<stdout, placed>>
    <3>1. Coming' = Coming
      BY <2>1, <2>3 DEF Coming
    <3> QED
      BY <2>1, <2>2, <2>3, <3>1 DEF OrdersOf
  <2>4. CASE /\ placed' = [placed EXCEPT ![t] = Append(placed[t], now)]
             /\ stdout' = [stdout EXCEPT ![t] = Append(out, n + 1)]
    <3>1. /\ taken'[t] = took /\ shared'[t] = stored
          /\ stdout'[t] = Append(out, n + 1) /\ placed'[t] = Append(placed[t], now)
      BY <1>1, <1>2, <2>1, <2>4
    <3>2. Len(placed'[t]) = n + 1
      <4>1. placed[t] \in Seq(Nat) /\ now \in Nat
        BY <1>1 DEF SandboxInv, TypeInv
      <4>2. Len(Append(placed[t], now)) = Len(placed[t]) + 1
        BY <4>1, AppendProperties
      <4> QED
        BY <1>2, <3>1, <4>2
    <3>3. PICK v \in Seq(Nat) : v = (took \o stored) \o out
      BY <1>5, ConcatProperties
    <3>4. (took \o stored) \o Append(out, n + 1) = Append(v, n + 1)
      BY <1>5, <3>3, WriteOne, SMTT(30)
    <3>5. Coming[t] = v /\ Coming'[t] = Append(v, n + 1)
      BY <1>3, <1>4, <3>1, <3>3, <3>4
    <3>6. InTurn(v, n) => InTurn(Append(v, n + 1), n + 1)
      BY <3>3, WriteInTurn
    <3> QED
      BY <1>2, <2>1, <2>2, <3>2, <3>5, <3>6 DEF OrdersOf
  <2> QED
    BY <2>1, <2>3, <2>4
<1> QED
  BY <1>6, <1>7, <1>8, <1>9, <1>10 DEF Touches

LEMMA OrdersStep ==
  SandboxInv /\ OrdersInv /\ [SandboxNext]_sandboxVars => OrdersInv'
<1> SUFFICES ASSUME SandboxInv, OrdersInv, [SandboxNext]_sandboxVars, NEW t \in Traders
             PROVE  OrdersOf(t)'
  BY DEF OrdersInv
<1>1. OrdersOf(t)
  BY DEF OrdersInv
<1>2. Touches(t) \/ Untouched(t)
  BY OthersUntouched
<1>3. CASE Touches(t)
  BY <1>1, <1>3, TouchedOrders
<1>4. CASE Untouched(t)
  BY <1>1, <1>4, UntouchedOrders
<1> QED
  BY <1>2, <1>3, <1>4

\* No order is lost, doubled or overtaken between the wrapper that writes it and
\* the main thread that takes it, whatever the threads do to what is stored
\* (pipe_reader.cpp, reader.hpp), as long as the handle is there.
THEOREM OrdersArriveInTurn == SandboxSpec => []OrdersKept
<1>1. SandboxInit => OrdersInv
  <2> SUFFICES ASSUME SandboxInit, NEW t \in Traders PROVE OrdersOf(t)
    BY DEF OrdersInv
  <2>1. /\ taken[t] = <<>> /\ shared[t] = <<>> /\ stdout[t] = <<>> /\ placed[t] = <<>>
    BY DEF SandboxInit
  <2>2. (<<>> \o <<>>) \o <<>> = <<>> /\ Written(0) = <<>> /\ Len(<<>>) = 0
    BY DEF Written
  <2>3. Coming[t] = <<>>
    BY <2>1, <2>2 DEF Coming
  <2> QED
    BY <2>1, <2>2, <2>3 DEF OrdersOf, InTurn
<1>2. OrdersInv => OrdersKept
  <2> SUFFICES ASSUME OrdersInv, NEW t \in Traders, handle[t] \in {"alive", "released"}
               PROVE  (taken[t] \o shared[t]) \o stdout[t]
                        \in {Written(Len(placed[t])),
                             <<InitMessage>> \o Written(Len(placed[t]))}
    BY DEF OrdersKept, Written
  <2>1. InTurn(Coming[t], Len(placed[t]))
    BY DEF OrdersInv, OrdersOf
  <2> QED
    BY <2>1 DEF InTurn, Coming
<1> QED
  BY <1>1, <1>2, OrdersStep, InvHolds, PTL DEF SandboxSpec
=============================================================================
