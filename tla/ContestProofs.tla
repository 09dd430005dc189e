----------------------------- MODULE ContestProofs -----------------------------
(***************************************************************************)
(* Proofs about Linter and Contest: every call of the linter ends in a     *)
(* verdict that is founded, for any number of calls; what the linter       *)
(* passes is loaded by the wrapper, for any algorithm; no algorithm runs   *)
(* before all have reported, for any number of wrappers; nothing is        *)
(* started with a wrong configuration.                                     *)
(***************************************************************************)
EXTENDS Contest, SequenceTheorems, FiniteSetTheorems, TLAPS

-----------------------------------------------------------------------------
(***************************************************************************)
(* The linter on its own.  LinterInv adds to the types what ties the two   *)
(* handlers to the read and the timer, and both to the result: a timer     *)
(* whose handler has run has left no read that could still take a line.    *)
(***************************************************************************)
\* The lines that lint or the algorithm may write.
PipeLines == [by : {"lint", "algorithm"}, what : Lines]

\* When lint writes that an algorithm passes, its last call has returned.
ReportInv ==
    /\ \A i \in DOMAIN out :
          out[i].by = "lint" => \/ out[i].what = "failed"
                                \/ out[i].what = "passed" /\ child # "linting" /\ ran = Calls
    /\ success = "yes" => /\ ran = Calls \/ message = <<"algorithm">>
                         /\ child = "gone"

\* What waits in the queue, and what has run.
HandlerInv ==
    /\ read = "aborted" => handlers \in {<<"read">>} /\ timer = "done"
    /\ read = "done" => handlers \in {<<>>, <<"timer">>} /\ timer # "waiting"
    /\ read = "threw" => handlers = <<>> /\ timer = "done"
    /\ timer \in {"expired", "cancelled"} <=>
        handlers \in {<<"timer">>, <<"read", "timer">>, <<"timer", "read">>}
    /\ timer = "cancelled" => read = "done"
    /\ timer = "done" => read # "waiting"

\* Once a handler has run there is a result and no process.
ResultInv ==
    /\ read \in {"done", "threw"} \/ timer = "done" => child = "gone"
    /\ read = "done" \/ (timer = "done" /\ read # "threw") => success # "unset"
    /\ \A i \in DOMAIN message : message[i] = "timeout" =>
        read # "waiting" /\ success = "no"

LinterInv == LinterTypeOK /\ ReportInv /\ HandlerInv /\ ResultInv

\* The first state satisfies the invariant.
LEMMA LinterInitInv == LinterInit => LinterInv
BY LinterAssumption
   DEF LinterInit, LinterInv, LinterTypeOK, ReportInv, HandlerInv, ResultInv

\* The steps of the process.
LEMMA ChildInv ==
  ASSUME LinterInv,
         \/ CallReturns \/ CallFails \/ LintSucceeds \/ Exits
         \/ \E what \in Lines : Prints(what)
  PROVE  LinterInv'
<1>1. CASE CallReturns
  BY <1>1, LinterAssumption
     DEF CallReturns, resVars, LinterInv, LinterTypeOK, ReportInv, HandlerInv, ResultInv
<1>2. ASSUME NEW by \in {"lint", "algorithm"}, NEW what \in Lines, Writes(by, what),
             by = "lint" => \/ what = "failed"
                            \/ what = "passed" /\ child' # "linting" /\ ran = Calls,
             child = "linting", child' \in {"linting", "reported"},
             UNCHANGED <<ran, read, timer, handlers, resVars>>
      PROVE  LinterInv'
  <2> DEFINE line == [by |-> by, what |-> what]
  <2>1. line \in PipeLines /\ line.by = by /\ line.what = what
    BY DEF PipeLines
  <2> HIDE DEF line
  <2>2. out \in Seq(PipeLines)
    BY DEF LinterInv, LinterTypeOK, PipeLines
  <2>3. out' = Append(out, line)
    BY <1>2 DEF Writes, line
  <2>4. out' \in Seq(PipeLines)
    BY <2>1, <2>2, <2>3
  <2>5. ASSUME NEW i \in DOMAIN out'
        PROVE  (i \in DOMAIN out /\ out'[i] = out[i]) \/ out'[i] = line
    BY <2>1, <2>2, <2>3, <2>5
  <2>6. LinterTypeOK'
    BY <1>2, <2>4 DEF resVars, LinterInv, LinterTypeOK, PipeLines
  <2>7. ReportInv'
    <3>1. \A i \in DOMAIN out' :
            out'[i].by = "lint" => \/ out'[i].what = "failed"
                                   \/ /\ out'[i].what = "passed"
                                      /\ child' # "linting" /\ ran' = Calls
      BY <1>2, <2>1, <2>5 DEF LinterInv, ReportInv
    <3>2. success # "yes"
      BY <1>2 DEF LinterInv, ReportInv
    <3> QED
      BY <1>2, <3>1, <3>2 DEF ReportInv, resVars
  <2>8. HandlerInv' /\ ResultInv'
    BY <1>2 DEF resVars, LinterInv, HandlerInv, ResultInv
  <2> QED
    BY <2>6, <2>7, <2>8 DEF LinterInv
<1>3. CASE CallFails
  BY <1>2, <1>3 DEF CallFails, Lines
<1>4. CASE LintSucceeds
  BY <1>2, <1>4 DEF LintSucceeds, Lines
<1>5. ASSUME NEW what \in Lines, Prints(what) PROVE LinterInv'
  BY <1>2, <1>5 DEF Prints, childVars
<1>6. CASE Exits
  BY <1>6 DEF Exits, resVars, LinterInv, LinterTypeOK, ReportInv, HandlerInv, ResultInv
<1> QED
  BY <1>1, <1>3, <1>4, <1>5, <1>6

\* Two handlers make a queue of two.
LEMMA AppendTwo ==
  ASSUME NEW S, NEW x \in S, NEW y \in S
  PROVE  Append(<<x>>, y) = <<x, y>>
<1>1. <<x>> \in Seq(S) /\ <<x, y>> \in Seq(S)
  OBVIOUS
<1>2. LET s == Append(<<x>>, y)
      IN s \in Seq(S) /\ Len(s) = 2 /\ s[1] = x /\ s[2] = y
  BY <1>1
<1>3. Len(<<x, y>>) = 2 /\ <<x, y>>[1] = x /\ <<x, y>>[2] = y
  OBVIOUS
<1>4. \A i \in 1 .. 2 : Append(<<x>>, y)[i] = <<x, y>>[i]
  BY <1>2, <1>3
<1> QED
  BY <1>1, <1>2, <1>3, <1>4, SeqEqual

\* The queues that handlers make.
LEMMA Queues ==
    /\ Append(<<>>, "read") = <<"read">>
    /\ Append(<<>>, "timer") = <<"timer">>
    /\ Append(<<"read">>, "timer") = <<"read", "timer">>
    /\ Append(<<"timer">>, "read") = <<"timer", "read">>
    /\ Tail(<<"read">>) = <<>> /\ Tail(<<"timer">>) = <<>>
    /\ Tail(<<"read", "timer">>) = <<"timer">>
    /\ Tail(<<"timer", "read">>) = <<"read">>
    /\ Head(<<"read">>) = "read" /\ Head(<<"timer">>) = "timer"
    /\ Head(<<"read", "timer">>) = "read"
    /\ Head(<<"timer", "read">>) = "timer"
<1>1. "read" \in {"read", "timer"} /\ "timer" \in {"read", "timer"}
  OBVIOUS
<1>2. /\ Append(<<"read">>, "timer") = <<"read", "timer">>
      /\ Append(<<"timer">>, "read") = <<"timer", "read">>
  BY <1>1, AppendTwo
<1>3. Append(<<>>, "read") = <<"read">> /\ Append(<<>>, "timer") = <<"timer">>
  OBVIOUS
<1>4. /\ Tail(<<"read">>) = <<>> /\ Tail(<<"timer">>) = <<>>
      /\ Tail(<<"read", "timer">>) = <<"timer">>
      /\ Tail(<<"timer", "read">>) = <<"read">>
  OBVIOUS
<1>5. /\ Head(<<"read">>) = "read" /\ Head(<<"timer">>) = "timer"
      /\ Head(<<"read", "timer">>) = "read"
      /\ Head(<<"timer", "read">>) = "timer"
  OBVIOUS
<1> QED
  BY <1>2, <1>3, <1>4, <1>5

\* A queue without the timer is none of those with it.
LEMMA TimerNotQueued ==
  \A q \in {<<>>, <<"read">>} :
    q \notin {<<"timer">>, <<"read", "timer">>, <<"timer", "read">>}
<1>1. <<>> \notin {<<"timer">>, <<"read", "timer">>, <<"timer", "read">>}
  OBVIOUS
<1>2. <<"read">> # <<"timer">>
  <2>1. <<"read">>[1] # <<"timer">>[1]
    OBVIOUS
  <2> QED
    BY <2>1
<1>3. Len(<<"read">>) = 1 /\ Len(<<"read", "timer">>) = 2 /\ Len(<<"timer", "read">>) = 2
  OBVIOUS
<1> QED
  BY <1>1, <1>2, <1>3

\* A handler becomes ready.
LEMMA ReadyInv ==
  ASSUME LinterInv, PipeReady \/ TimerExpires
  PROVE  LinterInv'
<1>1. CASE PipeReady
  <2>1. \A i \in DOMAIN handlers : handlers[i] # "read"
    BY <1>1 DEF PipeReady
  <2>2. handlers \in {<<>>, <<"timer">>}
    BY <2>1 DEF LinterInv, LinterTypeOK
  <2>3. \/ handlers = <<>> /\ handlers' = <<"read">>
        \/ handlers = <<"timer">> /\ handlers' = <<"timer", "read">>
    BY <1>1, <2>2, Queues DEF PipeReady
  <2>4. LinterTypeOK' /\ ReportInv' /\ ResultInv'
    BY <1>1, <2>3 DEF PipeReady, childVars, resVars, LinterInv, LinterTypeOK,
                      ReportInv, ResultInv
  <2>5. HandlerInv'
    BY <1>1, <2>3 DEF PipeReady, childVars, resVars, LinterInv, HandlerInv
  <2> QED
    BY <2>4, <2>5 DEF LinterInv
<1>2. CASE TimerExpires
  <2>1. \/ handlers = <<>> /\ handlers' = <<"timer">>
        \/ handlers = <<"read">> /\ handlers' = <<"read", "timer">>
    BY <1>2, Queues DEF TimerExpires, LinterInv, LinterTypeOK, HandlerInv
  <2>2. LinterTypeOK' /\ ReportInv' /\ ResultInv'
    BY <1>2, <2>1 DEF TimerExpires, childVars, resVars, LinterInv, LinterTypeOK,
                      ReportInv, ResultInv
  <2>3. HandlerInv'
    BY <1>2, <2>1 DEF TimerExpires, childVars, resVars, LinterInv, HandlerInv
  <2> QED
    BY <2>2, <2>3 DEF LinterInv
<1> QED
  BY <1>1, <1>2

\* What the result becomes: an aborted read adds to the message, another error
\* replaces it; neither makes it pass.
LEMMA ErrorEffect ==
  ASSUME LinterTypeOK, NEW error \in {"aborted", "eof"}, ReadError(error)
  PROVE  /\ child' = "gone"
         /\ success' = "no"
         /\ message' \in Seq({"lint", "algorithm", "timeout", "internal"})
         /\ IF error = "aborted"
            THEN \A i \in DOMAIN message :
                    i \in DOMAIN message' /\ message'[i] = message[i]
            ELSE \A i \in DOMAIN message' : message'[i] # "timeout"
<1>1. child' = "gone" /\ success' = "no"
  BY DEF ReadError, Terminate
<1>2. CASE error = "aborted"
  <2>1. message' = Append(message, "timeout")
    BY <1>2 DEF ReadError
  <2> QED
    BY <1>1, <1>2, <2>1 DEF LinterTypeOK
<1>3. CASE error # "aborted"
  <2>1. message' = <<"internal">>
    BY <1>3 DEF ReadError
  <2> QED
    BY <1>1, <1>3, <2>1
<1> QED
  BY <1>2, <1>3

\* A line makes it pass in the words of the one who has written it.
LEMMA LineEffect ==
  ASSUME NEW line \in PipeLines, ReadLine(line)
  PROVE  /\ child' = "gone"
         /\ success' \in {"yes", "no"}
         /\ success' = "yes" => /\ message' = <<line.by>>
                               /\ line.what \in {"passed", "partial"}
         /\ message' \in Seq({"lint", "algorithm", "timeout", "internal"})
         /\ \A i \in DOMAIN message' : message'[i] # "timeout"
<1>1. line.by \in {"lint", "algorithm"}
  BY DEF PipeLines
<1>2. child' = "gone" /\ success' \in {"yes", "no"}
  BY DEF ReadLine, Terminate
<1>3. success' = "yes" => line.what \in {"passed", "partial"}
  BY DEF ReadLine
<1>4. success' = "yes" => message' = <<line.by>>
  BY <1>3 DEF ReadLine
<1>5. PICK part \in {"lint", "algorithm", "internal"} : message' = <<part>>
  BY <1>1 DEF ReadLine
<1> QED
  BY <1>2, <1>3, <1>4, <1>5

\* The read's handler runs.
LEMMA HandleReadInv ==
  ASSUME LinterInv, HandleRead
  PROVE  LinterInv'
<1> DEFINE Pipe == out \in Seq(PipeLines)
<1>1. Pipe
  BY DEF LinterInv, LinterTypeOK, PipeLines
<1>2. handlers \in {<<"read">>, <<"read", "timer">>} /\ ran' = ran
  BY Queues DEF HandleRead, LinterInv, LinterTypeOK
<1>3. read # "done" /\ read # "threw"
  BY <1>2, Queues, TimerNotQueued DEF HandleRead, LinterInv, HandlerInv
<1>4. ASSUME out # <<>>, out' = Tail(out)
      PROVE  /\ Head(out) \in PipeLines /\ Head(out) = out[1] /\ 1 \in DOMAIN out
             /\ out' \in Seq(PipeLines)
             /\ \A i \in DOMAIN out' : \E j \in DOMAIN out : out'[i] = out[j]
  <2>1. Head(out) \in PipeLines /\ Head(out) = out[1] /\ 1 \in DOMAIN out
    BY <1>1, <1>4
  <2>2. out' \in Seq(PipeLines)
    BY <1>1, <1>4
  <2>3. ASSUME NEW i \in DOMAIN out'
        PROVE  i + 1 \in DOMAIN out /\ out'[i] = out[i + 1]
    BY <1>1, <1>4
  <2> QED
    BY <2>1, <2>2, <2>3
<1>5. CASE read = "waiting" /\ out # <<>> /\ Head(out).what = "noise"
  <2>1. ReadThrows /\ out' = Tail(out)
    BY <1>5 DEF HandleRead
  <2>2. /\ timer' = "done" /\ handlers' = <<>> /\ child' = "gone" /\ read' = "threw"
        /\ success' = success /\ message' = message
    BY <2>1 DEF ReadThrows, resVars
  <2>3. LinterTypeOK'
    BY <1>2, <1>4, <1>5, <2>1, <2>2 DEF LinterInv, LinterTypeOK, PipeLines
  <2>4. ReportInv'
    BY <1>2, <1>4, <1>5, <2>1, <2>2 DEF LinterInv, ReportInv
  <2>5. HandlerInv'
    BY <2>2, TimerNotQueued DEF HandlerInv
  <2>6. ResultInv'
    BY <1>5, <2>2 DEF LinterInv, ResultInv
  <2> QED
    BY <2>3, <2>4, <2>5, <2>6 DEF LinterInv
<1>6. CASE ~(read = "waiting" /\ out # <<>> /\ Head(out).what = "noise")
  <2>1. CancelTimer(Tail(handlers)) /\ read' = "done"
    BY <1>6 DEF HandleRead
  <2>2. /\ child' = "gone" /\ success' \in {"yes", "no"}
        /\ success' = "yes" => ran = Calls \/ message' = <<"algorithm">>
        /\ message' \in Seq({"lint", "algorithm", "timeout", "internal"})
        /\ (\E i \in DOMAIN message' : message'[i] = "timeout") => success' = "no"
        /\ out' \in Seq(PipeLines)
        /\ \A i \in DOMAIN out' : \E j \in DOMAIN out : out'[i] = out[j]
    <3>1. CASE read = "aborted"
      <4>1. ReadError("aborted") /\ out' = out
        BY <1>6, <3>1 DEF HandleRead
      <4> QED
        BY <1>1, <4>1, ErrorEffect DEF LinterInv
    <3>2. CASE read # "aborted" /\ out = <<>>
      <4>1. ReadError("eof") /\ out' = out
        BY <1>6, <3>2 DEF HandleRead
      <4> QED
        BY <1>1, <4>1, ErrorEffect DEF LinterInv
    <3>3. CASE read # "aborted" /\ out # <<>>
      <4>1. ReadLine(Head(out)) /\ out' = Tail(out)
        BY <1>6, <3>3 DEF HandleRead
      <4>2. PICK line \in PipeLines : line = out[1] /\ ReadLine(line)
        BY <1>4, <3>3, <4>1
      <4>3. \/ line.by = "algorithm"
            \/ line.by = "lint" /\ (line.what = "passed" => ran = Calls)
        BY <1>4, <3>3, <4>1, <4>2 DEF LinterInv, ReportInv, PipeLines
      <4>4. line.by = "lint" => line.what # "partial"
        BY <1>4, <3>3, <4>1, <4>2 DEF LinterInv, ReportInv
      <4> QED
        BY <1>4, <3>3, <4>1, <4>2, <4>3, <4>4, LineEffect
    <3> QED
      BY <3>1, <3>2, <3>3
  <2>3. /\ timer = "waiting" => timer' = "cancelled" /\ handlers' = <<"timer">>
        /\ timer # "waiting" => timer' = timer /\ handlers' = Tail(handlers)
    BY <1>2, <2>1, Queues DEF CancelTimer, LinterInv, LinterTypeOK, HandlerInv
  <2>4. /\ timer' \in {"expired", "cancelled", "done"}
        /\ handlers' \in {<<>>, <<"timer">>}
        /\ timer' \in {"expired", "cancelled"} <=> handlers' = <<"timer">>
    BY <1>2, <2>3, Queues DEF LinterInv, LinterTypeOK, HandlerInv
  <2>5. LinterTypeOK'
    BY <1>2, <2>1, <2>2, <2>4 DEF LinterInv, LinterTypeOK, PipeLines
  <2>6. ReportInv'
    BY <1>2, <2>1, <2>2 DEF LinterInv, ReportInv
  <2>7. HandlerInv'
    BY <2>1, <2>4 DEF HandlerInv
  <2>8. ResultInv'
    BY <2>1, <2>2 DEF ResultInv
  <2> QED
    BY <2>5, <2>6, <2>7, <2>8 DEF LinterInv
<1> QED
  BY <1>5, <1>6

\* The timer's handler runs.
LEMMA HandleTimeoutInv ==
  ASSUME LinterInv, HandleTimeout
  PROVE  LinterInv'
<1>1. handlers \in {<<"timer">>, <<"timer", "read">>}
  BY Queues DEF HandleTimeout, LinterInv, LinterTypeOK
<1>2. timer' = "done" /\ ran' = ran /\ out' = out
  BY DEF HandleTimeout
<1>3. CASE timer = "expired"
  <2>1. CancelRead /\ ReadError("aborted")
    BY <1>3 DEF HandleTimeout
  <2>2. /\ child' = "gone" /\ success' = "no"
        /\ message' \in Seq({"lint", "algorithm", "timeout", "internal"})
    BY <2>1, ErrorEffect DEF LinterInv
  <2>3. \/ read = "waiting" /\ read' = "aborted" /\ handlers' = <<"read">>
        \/ read = "done" /\ read' = "done" /\ handlers' = <<>>
    <3>1. read # "aborted" /\ read # "threw"
      BY <1>3 DEF LinterInv, HandlerInv
    <3>2. CASE read = "waiting"
      BY <2>1, <3>2 DEF CancelRead
    <3>3. CASE read = "done"
      <4>1. handlers \in {<<>>, <<"timer">>}
        BY <3>3 DEF LinterInv, HandlerInv
      <4>2. handlers # <<>>
        BY DEF HandleTimeout
      <4>3. handlers = <<"timer">>
        BY <4>1, <4>2
      <4> QED
        BY <2>1, <3>3, <4>3, Queues DEF CancelRead
    <3> QED
      BY <3>1, <3>2, <3>3 DEF LinterInv, LinterTypeOK
  <2>4. LinterTypeOK' /\ ReportInv'
    BY <1>2, <2>2, <2>3 DEF LinterInv, LinterTypeOK, ReportInv
  <2>5. HandlerInv' /\ ResultInv'
    BY <1>2, <2>2, <2>3, TimerNotQueued DEF HandlerInv, ResultInv
  <2> QED
    BY <2>4, <2>5 DEF LinterInv
<1>4. CASE timer # "expired"
  <2>1. /\ read = "done" /\ read' = "done" /\ handlers' = <<>>
        /\ UNCHANGED <<child, success, message>>
    BY <1>1, <1>4, Queues DEF HandleTimeout, resVars, LinterInv, LinterTypeOK, HandlerInv
  <2>2. LinterTypeOK' /\ ReportInv'
    BY <1>2, <2>1 DEF LinterInv, LinterTypeOK, ReportInv
  <2>3. HandlerInv'
    BY <1>2, <2>1, TimerNotQueued DEF HandlerInv
  <2>4. ResultInv'
    BY <1>2, <2>1 DEF LinterInv, ResultInv
  <2> QED
    BY <2>2, <2>3, <2>4 DEF LinterInv
<1> QED
  BY <1>3, <1>4

\* Every step keeps the invariant.
LEMMA LinterNextInv == LinterInv /\ [LinterNext]_linterVars => LinterInv'
<1> SUFFICES ASSUME LinterInv, [LinterNext]_linterVars PROVE LinterInv'
  OBVIOUS
<1>1. CASE UNCHANGED linterVars
  BY <1>1 DEF linterVars, childVars, resVars, LinterInv, LinterTypeOK, ReportInv,
              HandlerInv, ResultInv
<1>2. CASE Return
  BY <1>1, <1>2 DEF Return
<1> QED
  BY <1>1, <1>2, ChildInv, ReadyInv, HandleReadInv, HandleTimeoutInv DEF LinterNext

-----------------------------------------------------------------------------
(***************************************************************************)
(* The theorems.                                                           *)
(***************************************************************************)
\* The invariant holds in every state.
LEMMA LinterInvInvariant == LinterSpec => []LinterInv
<1> QED
  BY LinterInitInv, LinterNextInv, PTL DEF LinterSpec

\* Read, timer, queue and result keep their types, and no handler of
\* AsyncReadWithTimeout waits twice.
THEOREM LinterTypeCorrect == LinterSpec => []LinterTypeOK
<1>1. LinterInv => LinterTypeOK
  BY DEF LinterInv
<1> QED
  BY <1>1, LinterInvInvariant, PTL

\* An algorithm passes only when init and every callback have returned, or when
\* the first line of its process says so and is its own.
THEOREM VerdictIsFounded == LinterSpec => []VerdictFounded
<1>1. LinterInv => VerdictFounded
  BY DEF LinterInv, ReportInv, VerdictFounded
<1> QED
  BY <1>1, LinterInvInvariant, PTL

\* spawn_client returns with a verdict, and neither returns nor throws before the
\* process is gone.
THEOREM ReturnsSettled == LinterSpec => []Settled
<1>1. LinterInv => Settled
  BY DEF LinterInv, ResultInv, Returned, Threw, Settled
<1> QED
  BY <1>1, LinterInvInvariant, PTL

\* What the timeout has decided stays decided.
THEOREM TimeoutIsFinal == LinterSpec => TimeoutFinal
<1> DEFINE Final ==
      \A i \in DOMAIN message : message[i] = "timeout" =>
        /\ success' = "no"
        /\ i \in DOMAIN message' /\ message'[i] = "timeout"
<1>1. LinterInv /\ [LinterNext]_linterVars => [Final]_linterVars
  <2> SUFFICES ASSUME LinterInv, LinterNext,
                      NEW i \in DOMAIN message, message[i] = "timeout"
               PROVE  /\ success' = "no"
                      /\ i \in DOMAIN message' /\ message'[i] = "timeout"
    OBVIOUS
  <2>1. read # "waiting" /\ success = "no"
    BY DEF LinterInv, ResultInv
  <2>2. CASE UNCHANGED resVars
    BY <2>1, <2>2 DEF resVars
  <2>3. ASSUME ReadError("aborted")
        PROVE  success' = "no" /\ i \in DOMAIN message' /\ message'[i] = "timeout"
    BY <2>3, ErrorEffect DEF LinterInv
  <2>4. CASE HandleRead
    <3>1. read = "aborted"
      BY <2>1, <2>4, Queues DEF HandleRead, LinterInv, LinterTypeOK, HandlerInv
    <3> QED
      BY <2>3, <2>4, <3>1 DEF HandleRead
  <2>5. CASE HandleTimeout
    BY <2>2, <2>3, <2>5 DEF HandleTimeout, resVars
  <2> QED
    BY <2>2, <2>4, <2>5
       DEF LinterNext, CallReturns, CallFails, LintSucceeds, Prints, Exits,
           PipeReady, TimerExpires, Return, linterVars
<1> QED
  BY <1>1, LinterInvInvariant, PTL DEF LinterSpec, TimeoutFinal

-----------------------------------------------------------------------------
(***************************************************************************)
(* Algorithms.                                                             *)
(***************************************************************************)
\* An entry does what may come of it.
LEMMA MayDoType ==
  ASSUME NEW a \in AlgorithmType, NEW entry \in Entries
  PROVE  MayDo(a, entry) \subseteq Outcomes
<1>1. a.does[entry] \in Outcomes \cup {"varies"}
  BY DEF AlgorithmType
<1> QED
  BY <1>1 DEF MayDo

\* What a wrapper's runtime does with an algorithm.
LEMMA WrapperInitType ==
  ASSUME NEW a \in AlgorithmType, NEW language
  PROVE  WrapperInit(a, language) \subseteq {"returns", "hangs", "dies"}
<1>1. /\ MayDo(a, "import") \subseteq Outcomes
      /\ MayDo(a, "construct") \subseteq Outcomes
  BY MayDoType DEF Entries
<1>2. WrapperConstruct(a) \subseteq Outcomes
  BY <1>1 DEF WrapperConstruct, Fails, Replace, Outcomes
<1>3. ImportPython(a, {}) \subseteq Outcomes
  BY <1>1 DEF ImportPython, Outcomes
<1>4. WrapperInitPython(a) \subseteq Outcomes /\ WrapperInitCpp(a) \subseteq Outcomes
  BY <1>1, <1>2, <1>3 DEF WrapperInitPython, WrapperInitCpp, Then, Require, Outcomes
<1> QED
  BY <1>4 DEF WrapperInit, Unguarded, Replace, Outcomes

LEMMA WrapperCallType ==
  ASSUME NEW a \in AlgorithmType, NEW callback \in Callbacks
  PROVE  WrapperCall(a, callback) \subseteq {"returns", "hangs", "dies"}
<1>1. MayDo(a, callback) \subseteq Outcomes
  BY MayDoType DEF Entries
<1> QED
  BY <1>1 DEF WrapperCall, WrapperCallPython, WrapperCallCpp, Logged, Unguarded, Replace,
              Outcomes

LEMMA WrapperUpdateType ==
  ASSUME NEW a \in AlgorithmType
  PROVE  /\ WrapperTick(a) \subseteq {"returns", "hangs", "dies"}
         /\ WrapperAccount(a) \subseteq {"returns", "hangs", "dies"}
BY WrapperCallType DEF Callbacks, WrapperTick, WrapperAccount, Then

\* The flag that the exchange passes for a language stands for that language.
LEMMA FlagOfLanguage ==
  ASSUME NEW language \in Languages
  PROVE  AlgoType(Flags(language)) = language
<1>1. "--cpp_algo" \notin {"--python_algo"} /\ "--cpp_algo" \in {"--cpp_algo"}
  OBVIOUS
<1>2. language = "cpp" \/ language = "python"
  BY DEF Languages
<1>3. CASE language = "cpp"
  BY <1>1, <1>3 DEF AlgoType, Flags
<1>4. CASE language = "python"
  BY <1>1, <1>4 DEF AlgoType, Flags
<1> QED
  BY <1>2, <1>3, <1>4

\* An algorithm whose initialization the linter may find right, and which keeps to
\* Portable, compiles and is always loaded.
THEOREM LintedLoads ==
  ASSUME NEW a \in AlgorithmType, NEW language \in Languages,
         "returns" \in LintInit(a, language), Portable(a)
  PROVE  /\ "returns" \in GetAlgoString(a, language)
         /\ WrapperInit(a, language) = {"returns"}
<1>1. /\ MayDo(a, "import") = {a.does["import"]}
      /\ MayDo(a, "construct") = {a.does["construct"]}
  BY DEF Portable, MayDo
<1>2. CASE language = "python"
  <2>1. "returns" \in LintInitPython(a)
    BY <1>2 DEF LintInit
  <2>2. /\ a.language = "python"
        /\ a.does["import"] = "returns" /\ a.does["construct"] = "returns"
    BY <2>1, <1>1 DEF LintInitPython, Then, Require, ImportPython
  <2>3. ImportPython(a, {}) = {"returns"} /\ WrapperConstruct(a) = {"returns"}
    BY <2>2, <1>1 DEF ImportPython, WrapperConstruct, Portable
  <2>4. WrapperInitPython(a) = {"returns"}
    BY <2>2, <2>3 DEF WrapperInitPython, Then, Require, Portable
  <2> QED
    BY <1>2, <2>4 DEF WrapperInit, Unguarded, Replace, GetAlgoString
<1>3. CASE language = "cpp"
  <2>1. "returns" \in LintInitCpp(a)
    BY <1>3 DEF LintInit
  <2>2. Compiles(a) /\ a.does["import"] = "returns" /\ a.does["construct"] = "returns"
    BY <2>1, <1>1 DEF LintInitCpp, Then, Require, Unguarded, Replace
  <2>3. a.language # "python"
    BY <2>2 DEF Compiles
  <2>4. WrapperConstruct(a) = {"returns"}
    BY <2>2, <2>3, <1>1 DEF WrapperConstruct, Portable
  <2>5. WrapperInitCpp(a) = {"returns"}
    BY <2>2, <2>4, <1>1 DEF WrapperInitCpp, Then
  <2> QED
    BY <1>3, <2>2, <2>5 DEF WrapperInit, Unguarded, Replace, GetAlgoString, Require
<1> QED
  BY <1>2, <1>3 DEF Languages

-----------------------------------------------------------------------------
(***************************************************************************)
(* Types.                                                                  *)
(***************************************************************************)
\* The algorithms that the exchange starts are there once the files are.
FilesInv ==
    /\ algo \in AlgorithmType
    /\ files \in [Wrappers -> AlgorithmType \cup {NoAlgorithm}]
    /\ main \in {"trader", "init"} /\ mode = "dev" =>
           \A w \in Wrappers : files[w] \in AlgorithmType

TypeInv == WrapperTypeOK /\ FilesInv

LEMMA ContestInitTypes == ContestInit => TypeInv
<1> SUFFICES ASSUME ContestInit PROVE TypeInv
  OBVIOUS
<1>1. algo \in AlgorithmType /\ files \in [Wrappers -> AlgorithmType \cup {NoAlgorithm}]
  BY ContestAssumption DEF ContestInit
<1>2. WrapperTypeOK
  BY DEF ContestInit, WrapperInitial, WrapperTypeOK
<1> QED
  BY <1>1, <1>2 DEF TypeInv, FilesInv, ContestInit

\* The steps of a wrapper, whether the exchange lives or not.
LEMMA WrapperStepTypes ==
  ASSUME WrapperTypeOK, NEW w \in Wrappers, NEW lives, UNCHANGED startTime,
         WrapperStep(w, lives), lives \in BOOLEAN
  PROVE  WrapperTypeOK'
<1>1. CASE SetHandlers(w)
  BY <1>1 DEF SetHandlers, Goto, WrapperTypeOK, Steps, Gone
<1>2. CASE SetLimits(w, lives)
  BY <1>2 DEF SetLimits, Goto, WrapperTypeOK, Steps, Gone
<1>3. CASE ConsumeAlgorithm(w)
  BY <1>3 DEF ConsumeAlgorithm, Goto, WrapperTypeOK, Steps, Gone
<1>4. CASE ConsumeStart(w)
  BY <1>4 DEF ConsumeStart, Goto, WrapperTypeOK, Steps, Gone
<1>5. CASE WakeUp(w)
  BY <1>5 DEF WakeUp, Goto, WrapperTypeOK, Steps
<1>6. ASSUME NEW outcomes \in SUBSET {"returns", "hangs", "dies"}, After(w, outcomes),
             pc[w] # "none", runs' = runs, UNCHANGED <<reported, guarded>>,
             stdin' \in [Wrappers -> Seq({"algorithm", "start", "tick", "account"})]
      PROVE  WrapperTypeOK'
  <2>1. PICK outcome \in {"returns", "hangs", "dies"} :
          Goto(w, CASE outcome = "returns" -> "loop"
                    [] outcome = "hangs"   -> "hangs"
                    [] outcome = "dies"    -> "crashed")
    BY <1>6 DEF After
  <2>2. PICK next \in {"loop", "hangs", "crashed"} : Goto(w, next)
    BY <2>1
  <2> QED
    BY <1>6, <2>2 DEF Goto, WrapperTypeOK, Steps, Gone
<1>7. CASE Load(w)
  <2>1. runs[w] \in AlgorithmType
    BY <1>7 DEF Load, WrapperTypeOK
  <2> QED
    BY <1>7, <1>6, <2>1, WrapperInitType DEF Load, WrapperTypeOK
<1>8. CASE HandleUpdate(w)
  <2>1. runs[w] \in AlgorithmType
    BY <1>8 DEF HandleUpdate, WrapperTypeOK
  <2>2. PICK outcomes \in SUBSET {"returns", "hangs", "dies"} : After(w, outcomes)
    <3>1. CASE Head(stdin[w]) = "tick"
      BY <1>8, <3>1, <2>1, WrapperUpdateType DEF HandleUpdate
    <3>2. CASE Head(stdin[w]) = "account"
      BY <1>8, <3>2, <2>1, WrapperUpdateType DEF HandleUpdate
    <3>3. CASE Head(stdin[w]) \notin {"tick", "account"}
      BY <1>8, <3>3 DEF HandleUpdate
    <3> QED
      BY <3>1, <3>2, <3>3
  <2>3. stdin' \in [Wrappers -> Seq({"algorithm", "start", "tick", "account"})]
    BY <1>8 DEF HandleUpdate, WrapperTypeOK
  <2> QED
    BY <1>8, <1>6, <2>2, <2>3 DEF HandleUpdate
<1>9. CASE EndOfInput(w, lives)
  BY <1>9 DEF EndOfInput, Goto, WrapperTypeOK, Gone
<1>10. CASE KilledWithExchange(w, lives)
  BY <1>10 DEF KilledWithExchange, Alive, Goto, WrapperTypeOK, Gone
<1> QED
  BY <1>1, <1>2, <1>3, <1>4, <1>5, <1>7, <1>8, <1>9, <1>10 DEF WrapperStep

\* The steps of the exchange.
LEMMA StartupTypes ==
  ASSUME TypeInv, StartupNext, UNCHANGED algo
  PROVE  TypeInv'
<1> USE DEF TypeInv
<1>1. CASE ProcessArguments
  BY <1>1 DEF ProcessArguments, inputVars, botVars, wrapperVars, WrapperTypeOK, FilesInv
<1>2. CASE ReadConfig
  BY <1>2 DEF ReadConfig, inputVars, botVars, wrapperVars, WrapperTypeOK, FilesInv
<1>3. CASE InitializeFiles
  <2>1. WrapperTypeOK'
    BY <1>3 DEF InitializeFiles, wrapperVars, WrapperTypeOK
  <2>2. CASE mode = "dev"
    <3>1. PICK n \in 0 .. NumWrappers :
            /\ files' = FilesUpTo(n)
            /\ \/ n = NumWrappers /\ main' = "trader"
               \/ n < NumWrappers /\ main' = "failed"
      BY <1>3, <2>2 DEF InitializeFiles
    <3>2. \A w \in Wrappers : Template[Language[w]] \in AlgorithmType
      BY ContestAssumption, WrapperAssumption
    <3>3. /\ files' \in [Wrappers -> AlgorithmType \cup {NoAlgorithm}]
          /\ n = NumWrappers => \A w \in Wrappers : files'[w] \in AlgorithmType
      BY <3>1, <3>2, WrapperAssumption DEF FilesUpTo, FilesInv, Wrappers
    <3>4. main' = "trader" => n = NumWrappers
      BY <3>1
    <3>5. main' # "init" /\ algo' \in AlgorithmType
      BY <3>1 DEF FilesInv
    <3> QED
      BY <2>1, <3>3, <3>4, <3>5 DEF FilesInv
  <2>3. CASE mode # "dev"
    BY <1>3, <2>1, <2>3 DEF InitializeFiles, FilesInv
  <2> QED
    BY <2>2, <2>3
<1>4. CASE SpawnWrapper
  <2>1. files' = files /\ main' \in {"init", "failed"} /\ mode' = mode /\ main = "trader"
    BY <1>4 DEF SpawnWrapper
  <2>2. FilesInv'
    BY <2>1 DEF FilesInv
  <2>3. NextPlace \in Wrappers /\ files[NextPlace] \in AlgorithmType
    BY <1>4 DEF SpawnWrapper, FilesInv
  <2>4. <<"algorithm">> \in Seq({"algorithm", "start", "tick", "account"})
    OBVIOUS
  <2>5. WrapperTypeOK'
    BY <1>4, <2>3, <2>4 DEF SpawnWrapper, WrapperTypeOK, Steps
  <2> QED
    BY <2>2, <2>5
<1>5. CASE BlockOnInit
  BY <1>5 DEF BlockOnInit, inputVars, botVars, wrapperVars, WrapperTypeOK, FilesInv
<1>6. CASE SendStartTimes
  BY <1>6 DEF SendStartTimes, inputVars, botVars, WrapperTypeOK, FilesInv
<1>7. CASE WakeMain
  BY <1>7 DEF WakeMain, inputVars, botVars, wrapperVars, WrapperTypeOK, FilesInv
<1>8. CASE GetRemoteTraders
  BY <1>8 DEF GetRemoteTraders, inputVars, botVars, wrapperVars, WrapperTypeOK, FilesInv
<1>9. CASE NoAlgorithms
  BY <1>9 DEF NoAlgorithms, inputVars, botVars, wrapperVars, WrapperTypeOK, FilesInv
<1>10. CASE TakeTicker
  BY <1>10 DEF TakeTicker, inputVars, wrapperVars, WrapperTypeOK, FilesInv
<1>11. CASE EnterLoop
  BY <1>11 DEF EnterLoop, inputVars, botVars, wrapperVars, WrapperTypeOK, FilesInv
<1>12. CASE TimePasses
  BY <1>12 DEF TimePasses, inputVars, botVars, wrapperVars, WrapperTypeOK, FilesInv
<1>13. CASE SendUpdate
  <2>1. PICK to \in {AlgoTraders} \cup {{w} : w \in AlgoTraders},
            what \in {"tick", "account"} :
          stdin' = [w \in Wrappers |-> IF w \in to THEN Append(stdin[w], what) ELSE stdin[w]]
    BY <1>13 DEF SendUpdate
  <2> QED
    BY <1>13, <2>1 DEF SendUpdate, inputVars, botVars, WrapperTypeOK, FilesInv
<1>14. CASE CtrlC
  BY <1>14 DEF CtrlC, inputVars, botVars, wrapperVars, WrapperTypeOK, FilesInv
<1>15. CASE InterruptExchange
  BY <1>15 DEF InterruptExchange, inputVars, botVars, wrapperVars, WrapperTypeOK, FilesInv
<1>16. ASSUME NEW w \in Wrappers, StepOf(w)
       PROVE  TypeInv'
  <2>1. WrapperTypeOK'
    BY <1>16, WrapperStepTypes DEF StepOf, Lives
  <2> QED
    BY <1>16, <2>1 DEF StepOf, FilesInv
<1>17. ASSUME NEW w \in Wrappers, InterruptWrapper(w)
       PROVE  TypeInv'
  BY <1>17 DEF InterruptWrapper, Interrupt, Alive, Goto, inputVars, botVars, wrapperVars,
               WrapperTypeOK, FilesInv, Gone
<1> QED
  BY <1>1, <1>2, <1>3, <1>4, <1>5, <1>6, <1>7, <1>8, <1>9, <1>10, <1>11, <1>12, <1>13,
     <1>14, <1>15, <1>16, <1>17 DEF StartupNext, MainStep

-----------------------------------------------------------------------------
(***************************************************************************)
(* What the invariants need of a step.                                     *)
(***************************************************************************)
\* A step of a wrapper moves no other, unsends no report, and gives an algorithm
\* the process only after the start time.
LEMMA WrapperStepEffect ==
  ASSUME WrapperTypeOK, NEW w \in Wrappers, NEW lives, WrapperStep(w, lives)
  PROVE  /\ runs' = runs
         /\ pc[w] # "none"
         /\ \A v \in Wrappers \ {w} : pc'[v] = pc[v]
         /\ \A v \in Wrappers : reported[v] => reported'[v]
         /\ pc'[w] \in Running => startTime = "past" \/ pc[w] \in Running
         /\ pc[w] = "load" /\ pc'[w] = "crashed" => Load(w)
<1> USE DEF WrapperTypeOK
<1>1. CASE SetHandlers(w)
  BY <1>1 DEF SetHandlers, Goto, Running, Loaded
<1>2. CASE SetLimits(w, lives)
  BY <1>2 DEF SetLimits, Goto, Running, Loaded
<1>3. CASE ConsumeAlgorithm(w)
  BY <1>3 DEF ConsumeAlgorithm, Goto, Running, Loaded
<1>4. CASE ConsumeStart(w)
  BY <1>4 DEF ConsumeStart, Goto, Running, Loaded
<1>5. CASE WakeUp(w)
  BY <1>5 DEF WakeUp, Goto
<1>6. CASE Load(w)
  <2>1. PICK next : Goto(w, next)
    BY <1>6 DEF Load, After
  <2> QED
    BY <1>6, <2>1 DEF Load, Goto, Running
<1>7. CASE HandleUpdate(w)
  <2>1. PICK next : Goto(w, next)
    BY <1>7 DEF HandleUpdate, After
  <2> QED
    BY <1>7, <2>1 DEF HandleUpdate, Goto, Running, Loaded
<1>8. CASE EndOfInput(w, lives)
  BY <1>8 DEF EndOfInput, Goto, Running, Loaded
<1>9. CASE KilledWithExchange(w, lives)
  BY <1>9 DEF KilledWithExchange, Alive, Goto, Running, Loaded
<1> QED
  BY <1>1, <1>2, <1>3, <1>4, <1>5, <1>6, <1>7, <1>8, <1>9 DEF WrapperStep

\* Nor does a signal.
LEMMA InterruptEffect ==
  ASSUME WrapperTypeOK, NEW w \in Wrappers, InterruptWrapper(w)
  PROVE  /\ runs' = runs /\ reported' = reported
         /\ \A v \in Wrappers : \/ pc'[v] = pc[v]
                                \/ pc[v] # "none" /\ pc'[v] \in {"spins", "killed"}
BY DEF InterruptWrapper, Interrupt, Alive, Goto, wrapperVars, WrapperTypeOK

-----------------------------------------------------------------------------
(***************************************************************************)
(* The exchange.                                                           *)
(***************************************************************************)
\* The wrappers come after the files, and each runs its file.
SpawnInv ==
    /\ main \in {"arguments", "config", "files"} =>
           \A w \in Wrappers : pc[w] = "none"
    /\ \A w \in Wrappers : pc[w] # "none" => runs[w] = files[w]

\* Every trader there is has reported while algorithms are added; the start time
\* is set when all have, and waited for.
ReportedInv ==
    /\ main \in {"arguments", "config", "files"} => traders = <<>>
    /\ main \in {"trader", "init"} =>
           /\ traders \in Seq({[type |-> "algorithm"]})
           /\ \A w \in Wrappers : w <= Len(traders) => reported[w]
    /\ startTime # "unset" => \A w \in Wrappers : reported[w]
    /\ main \in {"arguments", "config", "files", "trader", "init"} => startTime = "unset"
    /\ main = "sleep" => startTime # "unset"
    /\ main \in {"tickers", "running"} /\ mode = "dev" => startTime = "past"
    /\ \A w \in Wrappers : pc[w] \in Running => startTime = "past"

StartInv == SpawnInv /\ ReportedInv /\ ConfigFirst

LEMMA ContestInitStart == ContestInit => StartInv
BY DEF ContestInit, WrapperInitial, StartInv, SpawnInv, ReportedInv, ConfigFirst, Running,
       Loaded

\* While algorithms are added, the place of the next is behind them all.
LEMMA NextPlaceIs ==
  ASSUME ReportedInv, main \in {"trader", "init"}
  PROVE  NextPlace = Len(traders) + 1
<1>1. traders \in Seq({[type |-> "algorithm"]})
  BY DEF ReportedInv
<1>2. \A t \in DOMAIN traders : traders[t] = [type |-> "algorithm"]
  BY <1>1
<1>3. AlgoTraders = 1 .. Len(traders)
  BY <1>1, <1>2 DEF AlgoTraders
<1>4. Len(traders) \in Nat
  BY <1>1
<1>5. Cardinality(1 .. Len(traders)) = Len(traders)
  <2>1. PICK n \in Nat : n = Len(traders)
    BY <1>4
  <2>2. Cardinality(1 .. n) = n
    <3>1. Cardinality(1 .. n) = IF 1 > n THEN 0 ELSE n - 1 + 1
      <4>1. 1 \in Int /\ n \in Int
        OBVIOUS
      <4> QED
        BY <4>1, FS_Interval, Zenon
    <3> QED
      BY <3>1
  <2> QED
    BY <2>1, <2>2
<1> QED
  BY <1>3, <1>5 DEF NextPlace

\* The steps of main.
LEMMA MainStart ==
  ASSUME TypeInv, StartInv, MainStep
  PROVE  StartInv'
<1> USE DEF StartInv
<1>1. CASE ProcessArguments
  BY <1>1 DEF ProcessArguments, inputVars, wrapperVars, SpawnInv, ReportedInv, ConfigFirst,
              ConfigValid, Dead
<1>2. CASE ReadConfig
  BY <1>2 DEF ReadConfig, inputVars, wrapperVars, SpawnInv, ReportedInv, ConfigFirst,
              ConfigValid, Dead
<1>3. CASE InitializeFiles
  <2>1. main = "files" /\ main' \in {"trader", "failed"}
    BY <1>3 DEF InitializeFiles
  <2>2. UNCHANGED <<inputVars, traders, mode, startTime, wrapperVars>>
    BY <1>3 DEF InitializeFiles
  <2>3. traders = <<>> /\ <<>> \in Seq({[type |-> "algorithm"]}) /\ Len(<<>>) = 0
    BY <2>1 DEF ReportedInv
  <2>4. ReportedInv'
    BY <2>1, <2>2, <2>3 DEF ReportedInv, wrapperVars, Wrappers
  <2> QED
    BY <2>1, <2>2, <2>4 DEF SpawnInv, ConfigFirst, ConfigValid, Dead, inputVars, wrapperVars
<1>4. CASE SpawnWrapper
  <2>1. main = "trader" /\ main' \in {"init", "failed"}
    BY <1>4 DEF SpawnWrapper
  <2>2. UNCHANGED <<inputVars, files, traders, mode, startTime, reported>>
    BY <1>4 DEF SpawnWrapper
  <2>3. \/ UNCHANGED <<pc, runs>>
        \/ /\ NextPlace \in Wrappers
           /\ pc' = [pc EXCEPT ![NextPlace] = "arguments"]
           /\ runs' = [runs EXCEPT ![NextPlace] = files[NextPlace]]
    BY <1>4 DEF SpawnWrapper
  <2>4. ReportedInv'
    BY <2>1, <2>2, <2>3 DEF ReportedInv, Running, Loaded, TypeInv, WrapperTypeOK
  <2>5. SpawnInv'
    BY <2>1, <2>2, <2>3 DEF SpawnInv, TypeInv, WrapperTypeOK
  <2> QED
    BY <2>1, <2>2, <2>4, <2>5 DEF ConfigFirst, Dead, ConfigValid, inputVars
<1>5. CASE BlockOnInit
  <2>1. main = "init" /\ main' = "trader" /\ traders' = Append(traders, [type |-> "algorithm"])
    BY <1>5 DEF BlockOnInit
  <2>2. UNCHANGED <<inputVars, mode, files, startTime, wrapperVars>> /\ reported[NextPlace]
    BY <1>5 DEF BlockOnInit
  <2>3. traders \in Seq({[type |-> "algorithm"]}) /\ Len(traders) \in Nat
    BY <2>1 DEF ReportedInv
  <2>4. /\ traders' \in Seq({[type |-> "algorithm"]})
        /\ Len(traders') = Len(traders) + 1
    BY <2>1, <2>3
  <2>5. \A w \in Wrappers : w <= Len(traders') => w <= Len(traders) \/ w = NextPlace
    BY <2>1, <2>3, <2>4, NextPlaceIs DEF Wrappers
  <2>6. ReportedInv'
    BY <2>1, <2>2, <2>4, <2>5 DEF ReportedInv, wrapperVars
  <2> QED
    BY <2>1, <2>2, <2>6 DEF SpawnInv, ConfigFirst, ConfigValid, Dead, inputVars, wrapperVars
<1>6. CASE SendStartTimes
  <2>1. main = "trader" /\ main' = "sleep" /\ startTime' = "ahead" /\ mode = "dev"
    BY <1>6 DEF SendStartTimes
  <2>2. UNCHANGED <<inputVars, mode, files, traders, pc, runs, reported>>
        /\ NextPlace \notin Wrappers
    BY <1>6 DEF SendStartTimes
  <2>3. Len(traders) \in Nat
    BY <2>1 DEF ReportedInv
  <2>4. \A w \in Wrappers : w <= Len(traders)
    BY <2>1, <2>2, <2>3, NextPlaceIs, WrapperAssumption DEF Wrappers
  <2>5. \A w \in Wrappers : reported[w]
    BY <2>1, <2>4 DEF ReportedInv
  <2>6. startTime # "past"
    BY <2>1 DEF ReportedInv
  <2> QED
    BY <2>1, <2>2, <2>5, <2>6 DEF ReportedInv, SpawnInv, ConfigFirst, ConfigValid, Dead,
                                  inputVars
<1>7. CASE WakeMain
  BY <1>7 DEF WakeMain, inputVars, wrapperVars, SpawnInv, ReportedInv, ConfigFirst,
              ConfigValid, Dead
<1>8. CASE GetRemoteTraders
  BY <1>8 DEF GetRemoteTraders, inputVars, wrapperVars, SpawnInv, ReportedInv, ConfigFirst,
              ConfigValid, Dead
<1>9. CASE NoAlgorithms
  BY <1>9 DEF NoAlgorithms, inputVars, wrapperVars, SpawnInv, ReportedInv, ConfigFirst,
              ConfigValid, Dead
<1>10. CASE TakeTicker
  BY <1>10 DEF TakeTicker, inputVars, wrapperVars, SpawnInv, ReportedInv, ConfigFirst,
              ConfigValid, Dead
<1>11. CASE EnterLoop
  BY <1>11 DEF EnterLoop, inputVars, wrapperVars, SpawnInv, ReportedInv, ConfigFirst,
              ConfigValid, Dead
<1> QED
  BY <1>1, <1>2, <1>3, <1>4, <1>5, <1>6, <1>7, <1>8, <1>9, <1>10, <1>11 DEF MainStep

\* The other steps: time, updates, signals and the wrappers.
LEMMA StartupStart ==
  ASSUME TypeInv, StartInv, StartupNext
  PROVE  StartInv'
<1> USE DEF StartInv
<1>1. CASE MainStep
  BY <1>1, MainStart
<1>2. CASE TimePasses
  BY <1>2 DEF TimePasses, inputVars, wrapperVars, SpawnInv, ReportedInv, ConfigFirst,
              ConfigValid, Dead
<1>3. CASE SendUpdate
  BY <1>3 DEF SendUpdate, inputVars, SpawnInv, ReportedInv, ConfigFirst, ConfigValid, Dead
<1>4. CASE CtrlC
  BY <1>4 DEF CtrlC, inputVars, wrapperVars, SpawnInv, ReportedInv, ConfigFirst,
              ConfigValid, Dead
<1>5. CASE InterruptExchange
  BY <1>5 DEF InterruptExchange, inputVars, wrapperVars, SpawnInv, ReportedInv, ConfigFirst,
              ConfigValid, Dead
<1>6. ASSUME NEW w \in Wrappers, StepOf(w)
      PROVE  StartInv'
  <2>1. WrapperStep(w, Lives)
    BY <1>6 DEF StepOf
  <2>2. UNCHANGED <<inputVars, main, mode, files, traders, startTime>>
    BY <1>6 DEF StepOf
  <2>3. /\ runs' = runs
        /\ pc[w] # "none"
        /\ \A v \in Wrappers \ {w} : pc'[v] = pc[v]
        /\ \A v \in Wrappers : reported[v] => reported'[v]
        /\ pc'[w] \in Running => startTime = "past" \/ pc[w] \in Running
    BY <2>1, WrapperStepEffect DEF TypeInv
  <2>4. ReportedInv'
    BY <2>2, <2>3 DEF ReportedInv
  <2> QED
    BY <2>2, <2>3, <2>4 DEF SpawnInv, ConfigFirst, ConfigValid, Dead, inputVars
<1>7. ASSUME NEW w \in Wrappers, InterruptWrapper(w)
      PROVE  StartInv'
  <2>1. UNCHANGED <<inputVars, main, mode, files, traders, startTime>>
    BY <1>7 DEF InterruptWrapper
  <2>2. /\ runs' = runs /\ reported' = reported
        /\ \A v \in Wrappers : \/ pc'[v] = pc[v]
                               \/ pc[v] # "none" /\ pc'[v] \in {"spins", "killed"}
    BY <1>7, InterruptEffect DEF TypeInv
  <2> QED
    BY <2>1, <2>2 DEF SpawnInv, ReportedInv, ConfigFirst, ConfigValid, Dead, inputVars,
                      Running, Loaded
<1> QED
  BY <1>1, <1>2, <1>3, <1>4, <1>5, <1>6, <1>7 DEF StartupNext

-----------------------------------------------------------------------------
(***************************************************************************)
(* The verdict.                                                            *)
(***************************************************************************)
\* What has been called may have returned, and an algorithm has passed only when
\* everything was called.
PassedInv ==
    /\ ran # 0 => asked \in Languages /\ "returns" \in LintInit(algo, asked)
    /\ reply = "none" => ran = 0
    /\ reply = "linting" => asked \in Languages
    /\ reply = "passed" => success = "yes"

\* A line is the algorithm's own, and makes it pass, only if it writes such lines.
WrittenInv ==
    /\ \A i \in DOMAIN out : out[i].by = "algorithm" => out[i].what \in algo.writes
    /\ success = "yes" /\ message = <<"algorithm">>
         => algo.writes \cap {"passed", "partial"} # {}

ContestInv == LinterInv /\ TypeInv /\ StartInv /\ PassedInv /\ WrittenInv

LEMMA ContestInitInv == ContestInit => ContestInv
<1>1. ContestInit => LinterInv
  BY LinterInitInv DEF ContestInit
<1>2. ContestInit => PassedInv /\ WrittenInv
  BY DEF ContestInit, LinterInit, PassedInv, WrittenInv
<1> QED
  BY <1>1, <1>2, ContestInitTypes, ContestInitStart DEF ContestInv

\* What leaves the exchange alone.
LEMMA UnchangedStartup ==
  ASSUME UNCHANGED <<algo, startupVars>>, TypeInv, StartInv
  PROVE  TypeInv' /\ StartInv'
BY DEF startupVars, inputVars, botVars, wrapperVars, TypeInv, WrapperTypeOK, FilesInv,
       StartInv, SpawnInv, ReportedInv, ConfigFirst, ConfigValid

\* The handlers believe no other line than one of the pipe.
LEMMA HandlersWritten ==
  ASSUME LinterInv, WrittenInv, algo' = algo,
         PipeReady \/ TimerExpires \/ HandleRead \/ HandleTimeout
  PROVE  WrittenInv'
<1>1. CASE PipeReady \/ TimerExpires
  BY <1>1 DEF PipeReady, TimerExpires, resVars, WrittenInv
<1>2. CASE HandleTimeout
  <2>1. out' = out /\ (success' = "no" \/ UNCHANGED resVars)
    BY <1>2 DEF HandleTimeout, ReadError, resVars
  <2> QED
    BY <2>1 DEF WrittenInv, resVars
<1>3. CASE HandleRead
  <2>1. out \in Seq(PipeLines)
    BY DEF LinterInv, LinterTypeOK, PipeLines
  <2>2. ASSUME out # <<>>, out' = Tail(out)
        PROVE  \A i \in DOMAIN out' : \E j \in DOMAIN out : out'[i] = out[j]
    <3>1. ASSUME NEW i \in DOMAIN out'
          PROVE  i + 1 \in DOMAIN out /\ out'[i] = out[i + 1]
      BY <2>1, <2>2
    <3> QED
      BY <3>1
  <2>3. \/ out' = out
        \/ out # <<>> /\ out' = Tail(out)
    BY <1>3 DEF HandleRead
  <2>4. \A i \in DOMAIN out' : out'[i].by = "algorithm" => out'[i].what \in algo'.writes
    BY <2>2, <2>3 DEF WrittenInv
  <2>5. \/ UNCHANGED resVars
        \/ success' = "no"
        \/ out # <<>> /\ ReadLine(Head(out))
    BY <1>3 DEF HandleRead, ReadThrows, ReadError
  <2>6. ASSUME out # <<>>, ReadLine(Head(out)), success' = "yes", message' = <<"algorithm">>
        PROVE  algo.writes \cap {"passed", "partial"} # {}
    <3>1. PICK line \in PipeLines : line = out[1] /\ ReadLine(line) /\ 1 \in DOMAIN out
      BY <2>1, <2>6
    <3>2. message' = <<line.by>> /\ line.what \in {"passed", "partial"}
      BY <2>6, <3>1, LineEffect
    <3>3. line.by = "algorithm"
      <4>1. <<line.by>>[1] = <<"algorithm">>[1]
        BY <2>6, <3>2
      <4> QED
        BY <4>1
    <3>4. line.what \in algo.writes
      BY <3>1, <3>3 DEF WrittenInv
    <3> QED
      BY <3>2, <3>4
  <2> QED
    BY <2>4, <2>5, <2>6 DEF WrittenInv, resVars
<1> QED
  BY <1>1, <1>2, <1>3

\* What the process writes.
LEMMA ProcessWritten ==
  ASSUME LinterInv, TypeInv, WrittenInv, algo' = algo, LintProcess
  PROVE  WrittenInv'
<1>1. UNCHANGED resVars
  BY DEF LintProcess, CallReturns, CallFails, LintSucceeds, Prints, Exits
<1>2. CASE UNCHANGED out
  BY <1>1, <1>2 DEF WrittenInv, resVars
<1>3. ASSUME NEW by \in {"lint", "algorithm"}, NEW what \in Lines, Writes(by, what),
             by = "algorithm" => what \in algo.writes
      PROVE  WrittenInv'
  <2> DEFINE line == [by |-> by, what |-> what]
  <2>1. line \in PipeLines /\ line.by = by /\ line.what = what
    BY DEF PipeLines
  <2> HIDE DEF line
  <2>2. out \in Seq(PipeLines)
    BY DEF LinterInv, LinterTypeOK, PipeLines
  <2>3. out' = Append(out, line)
    BY <1>3 DEF Writes, line
  <2>4. ASSUME NEW i \in DOMAIN out'
        PROVE  (i \in DOMAIN out /\ out'[i] = out[i]) \/ out'[i] = line
    BY <2>1, <2>2, <2>3, <2>4
  <2> QED
    BY <1>1, <1>3, <2>1, <2>4 DEF WrittenInv, resVars
<1>4. CASE CallReturns \/ Exits
  BY <1>2, <1>4 DEF CallReturns, Exits
<1>5. CASE CallFails \/ LintSucceeds
  BY <1>3, <1>5 DEF CallFails, LintSucceeds, Lines
<1>6. ASSUME NEW what \in LintWrites(algo, asked), Prints(what)
      PROVE  WrittenInv'
  <2>1. what \in algo.writes
    BY <1>6 DEF LintWrites
  <2>2. Writes("algorithm", what)
    BY <1>6 DEF Prints
  <2>3. what \in Lines
    BY <1>6, <2>1 DEF TypeInv, FilesInv, AlgorithmType
  <2> QED
    BY <1>3, <2>1, <2>2, <2>3
<1> QED
  BY <1>4, <1>5, <1>6 DEF LintProcess

LEMMA ContestNextInv == ContestInv /\ [ContestNext]_contestVars => ContestInv'
<1> SUFFICES ASSUME ContestInv, [ContestNext]_contestVars PROVE ContestInv'
  OBVIOUS
<1> USE DEF ContestInv
<1>1. CASE Ask
  <2>1. UNCHANGED <<algo, linterVars, startupVars>> /\ reply = "none"
    BY <1>1 DEF Ask
  <2>2. reply' = "linting" => asked' \in Languages
    BY <1>1 DEF Ask
  <2>3. reply' # "none" /\ reply' # "passed"
    BY <1>1 DEF Ask
  <2>4. PassedInv' /\ WrittenInv'
    BY <2>1, <2>2, <2>3 DEF PassedInv, WrittenInv, linterVars, childVars, resVars
  <2> QED
    BY <2>1, <2>4, UnchangedStartup, LinterNextInv
<1>2. CASE LintStep(LintProcess)
  <2>1. /\ reply = "linting" /\ LintProcess
        /\ UNCHANGED <<algo, asked, reply, startupVars>>
    BY <1>2 DEF LintStep
  <2>2. LinterNext
    <3>1. LintWrites(algo, asked) \subseteq Lines
      BY DEF LintWrites, TypeInv, FilesInv, AlgorithmType
    <3> QED
      BY <2>1, <3>1 DEF LintProcess, LinterNext
  <2>3. LinterInv'
    BY <2>2, LinterNextInv
  <2>4. ran' # ran => "returns" \in LintCall(algo, asked, ran + 1) /\ CallReturns
    BY <2>1 DEF LintProcess, CallReturns, CallFails, LintSucceeds, Prints, Exits, childVars
  <2>5. ran = 0 /\ ran' # 0 => "returns" \in LintInit(algo, asked)
    <3>1. LintCalls[1] = "init"
      BY DEF LintCalls
    <3> QED
      BY <2>4, <3>1 DEF LintCall
  <2>6. PassedInv'
    BY <2>1, <2>5 DEF PassedInv
  <2>7. WrittenInv'
    BY <2>1, ProcessWritten
  <2> QED
    BY <2>1, <2>3, <2>6, <2>7, UnchangedStartup
<1>3. ASSUME LinterNext, ran' = ran, reply = "linting", WrittenInv',
             UNCHANGED <<algo, asked, reply, startupVars>>
      PROVE  ContestInv'
  <2>1. LinterInv'
    BY <1>3, LinterNextInv
  <2>2. PassedInv'
    BY <1>3 DEF PassedInv
  <2> QED
    BY <1>3, <2>1, <2>2, UnchangedStartup
<1>4. CASE \/ LintStep(PipeReady) \/ LintStep(TimerExpires)
           \/ LintStep(HandleRead) \/ LintStep(HandleTimeout)
  <2>1. /\ PipeReady \/ TimerExpires \/ HandleRead \/ HandleTimeout
        /\ reply = "linting" /\ UNCHANGED <<algo, asked, reply, startupVars>>
    BY <1>4 DEF LintStep
  <2>2. ran' = ran
    BY <2>1 DEF PipeReady, TimerExpires, HandleRead, HandleTimeout, childVars
  <2>3. WrittenInv'
    BY <2>1, HandlersWritten
  <2> QED
    BY <2>1, <2>2, <2>3, <1>3 DEF LinterNext
<1>5. CASE Answer
  <2>1. UNCHANGED <<algo, asked, linterVars, startupVars>> /\ reply = "linting"
    BY <1>5 DEF Answer
  <2>2. /\ reply' \in {"passed", "failed", "error"}
        /\ reply' = "passed" => success = "yes"
    BY <1>5 DEF Answer
  <2>3. PassedInv' /\ WrittenInv'
    BY <2>1, <2>2 DEF PassedInv, WrittenInv, linterVars, childVars, resVars
  <2> QED
    BY <2>1, <2>3, UnchangedStartup, LinterNextInv
<1>6. CASE Start(StartupNext)
  <2>1. StartupNext /\ UNCHANGED <<algo, asked, reply, linterVars>>
    BY <1>6 DEF Start
  <2>2. PassedInv' /\ WrittenInv'
    BY <2>1 DEF PassedInv, WrittenInv, linterVars, childVars, resVars
  <2> QED
    BY <2>1, <2>2, StartupTypes, StartupStart, LinterNextInv
<1>7. CASE UNCHANGED contestVars
  <2>1. UNCHANGED <<algo, asked, reply, linterVars, startupVars>>
    BY <1>7 DEF contestVars
  <2>2. PassedInv' /\ WrittenInv'
    BY <2>1 DEF PassedInv, WrittenInv, linterVars, childVars, resVars
  <2> QED
    BY <2>1, <2>2, UnchangedStartup, LinterNextInv
<1> QED
  BY <1>1, <1>2, <1>4, <1>5, <1>6, <1>7 DEF ContestNext

LEMMA ContestInvInvariant == ContestSpec => []ContestInv
<1> QED
  BY ContestInitInv, ContestNextInv, PTL DEF ContestSpec

-----------------------------------------------------------------------------
(***************************************************************************)
(* Theorems.                                                               *)
(***************************************************************************)
\* Every wrapper's state keeps its type.
THEOREM WrapperTypesCorrect == ContestSpec => []WrapperTypeOK
<1>1. ContestInv => WrapperTypeOK
  BY DEF ContestInv, TypeInv
<1> QED
  BY <1>1, ContestInvInvariant, PTL

\* Nothing is started with a configuration that is wrong anywhere.
THEOREM ConfigComesFirst == ContestSpec => []ConfigFirst
<1>1. ContestInv => ConfigFirst
  BY DEF ContestInv, StartInv
<1> QED
  BY <1>1, ContestInvInvariant, PTL

\* No algorithm has the process, and no tick runs, before all have reported and the
\* start time has come.
THEOREM AllStartTogether == ContestSpec => []StartedTogether
<1>1. ContestInv => StartedTogether
  BY DEF ContestInv, StartInv, ReportedInv, StartedTogether
<1> QED
  BY <1>1, ContestInvInvariant, PTL

\* With the server around it too, an algorithm passes only when every call has
\* returned or by a line of its own.
THEOREM ContestVerdictFounded == ContestSpec => []VerdictFounded
<1>1. ContestInv => VerdictFounded
  BY DEF ContestInv, LinterInv, ReportInv, VerdictFounded
<1> QED
  BY <1>1, ContestInvInvariant, PTL

\* What passes and keeps to Portable is compiled and loaded, for any algorithm.
THEOREM AcceptedAlgorithmsLoad == ContestSpec => AcceptedLoads
<1> DEFINE Accepted(w) ==
        reply = "passed" /\ Language[w] = asked /\ Portable(algo) /\ files[w] = algo
<1> DEFINE Loads(w) ==
        /\ ~(main = "trader" /\ mode = "dev" /\ w = NextPlace /\ main' = "failed")
        /\ ~(pc[w] = "load" /\ pc'[w] = "crashed")
<1>1. ASSUME ContestInv, NEW w \in Wrappers, Accepted(w)
      PROVE  /\ "returns" \in GetAlgoString(algo, Language[w])
             /\ WrapperInit(algo, Language[w]) = {"returns"}
  <2>1. success = "yes" /\ ran = Calls
    <3>1. success = "yes" /\ (ran = Calls \/ message = <<"algorithm">>)
      BY <1>1 DEF ContestInv, PassedInv, LinterInv, ReportInv
    <3>2. message # <<"algorithm">>
      BY <1>1, <3>1 DEF ContestInv, WrittenInv, Portable
    <3> QED
      BY <3>1, <3>2
  <2>2. Calls # 0
    BY ContestAssumption DEF LintCalls
  <2>3. asked \in Languages /\ "returns" \in LintInit(algo, asked)
    BY <1>1, <2>1, <2>2 DEF ContestInv, PassedInv
  <2>4. algo \in AlgorithmType
    BY <1>1 DEF ContestInv, TypeInv, FilesInv
  <2> QED
    BY <1>1, <2>3, <2>4, LintedLoads
<1>2. ASSUME ContestInv, ContestNext, NEW w \in Wrappers, Accepted(w)
      PROVE  Loads(w)
  <2>1. Start(StartupNext) \/ UNCHANGED startupVars
    BY <1>2 DEF ContestNext, Ask, LintStep, Answer
  <2>2. CASE UNCHANGED startupVars
    BY <2>2 DEF startupVars, wrapperVars
  <2>3. CASE StartupNext
    <3>1. CASE SpawnWrapper
      <4>1. w = NextPlace => main' = "init"
        BY <1>1, <1>2, <3>1 DEF SpawnWrapper
      <4>2. pc' = [pc EXCEPT ![NextPlace] = "arguments"] \/ pc' = pc
        BY <3>1 DEF SpawnWrapper
      <4>3. pc \in [Wrappers -> Steps \cup Gone \cup {"none", "hangs", "spins"}]
        BY <1>2 DEF ContestInv, TypeInv, WrapperTypeOK
      <4> QED
        BY <4>1, <4>2, <4>3
    <3>2. ASSUME NEW v \in Wrappers, StepOf(v)
          PROVE  Loads(w)
      <4>1. WrapperStep(v, Lives) /\ main' = main
        BY <3>2 DEF StepOf
      <4>2. /\ w # v => pc'[w] = pc[w]
            /\ pc[v] = "load" /\ pc'[v] = "crashed" => Load(v)
        BY <1>2, <4>1, WrapperStepEffect DEF ContestInv, TypeInv
      <4>3. ASSUME w = v, Load(w) PROVE pc'[w] # "crashed"
        <5>1. runs[w] = algo
          BY <1>2, <4>3 DEF ContestInv, StartInv, SpawnInv, Load
        <5>2. Language[w] \in Languages
          BY WrapperAssumption
        <5>3. WrapperInit(runs[w], AlgoType(Flags(Language[w]))) = {"returns"}
          BY <1>1, <1>2, <5>1, <5>2, FlagOfLanguage
        <5>4. Goto(w, "loop")
          BY <4>3, <5>3 DEF Load, After
        <5> QED
          BY <1>2, <5>4 DEF Goto, ContestInv, TypeInv, WrapperTypeOK
      <4> QED
        BY <4>1, <4>2, <4>3
    <3>3. ASSUME NEW v \in Wrappers, InterruptWrapper(v)
          PROVE  Loads(w)
      <4>1. pc'[w] = pc[w] \/ pc'[w] \in {"spins", "killed"}
        BY <1>2, <3>3, InterruptEffect DEF ContestInv, TypeInv
      <4> QED
        BY <3>3, <4>1 DEF InterruptWrapper
    <3>4. CASE \/ ProcessArguments \/ ReadConfig \/ InitializeFiles \/ BlockOnInit
               \/ SendStartTimes \/ WakeMain \/ GetRemoteTraders \/ NoAlgorithms
               \/ TakeTicker \/ EnterLoop \/ TimePasses \/ SendUpdate \/ CtrlC
               \/ InterruptExchange
      BY <3>4 DEF ProcessArguments, ReadConfig, InitializeFiles, BlockOnInit,
                  SendStartTimes, WakeMain, GetRemoteTraders, NoAlgorithms, TakeTicker,
                  EnterLoop, TimePasses, SendUpdate, CtrlC, InterruptExchange, wrapperVars
    <3> QED
      BY <2>3, <3>1, <3>2, <3>3, <3>4 DEF StartupNext, MainStep
  <2> QED
    BY <2>1, <2>2, <2>3 DEF Start
<1>3. ContestInv /\ [ContestNext]_contestVars
        => [\A w \in Wrappers : Accepted(w) => Loads(w)]_contestVars
  BY <1>2
<1> QED
  BY <1>3, ContestInvInvariant, PTL DEF ContestSpec, AcceptedLoads
=============================================================================
