------------------------------- MODULE Linter -------------------------------
(***************************************************************************)
(* spawn_client: the linter starts a process that tries an algorithm, and  *)
(* waits for one line of it or for a timer, in an io_context that one      *)
(* thread runs.                                                            *)
(*                                                                         *)
(*   child      the process: "linting" until it has "reported".            *)
(*   ran        the number of calls of the algorithm that have returned.   *)
(*   out        the lines in its pipe: what each says, and whether lint    *)
(*              or the algorithm itself has written it.                    *)
(*   read       the read operation; "aborted" when it has been cancelled,  *)
(*              "threw" when its handler has left spawn_client.            *)
(*   timer      the timer; "cancelled" before it expired, or "done".       *)
(*   handlers   the handlers that are ready to run, first come first       *)
(*              served.                                                    *)
(*   success, message   res; the message as the sequence of its parts, a   *)
(*              part being the words of who has written the line, or the   *)
(*              linter's own about a timeout or an internal error.         *)
(***************************************************************************)
EXTENDS Algorithm

CONSTANTS
    Calls,      \* the number of calls that lint makes: init and callbacks
    MaxNoise    \* bound on the lines that the algorithm itself prints

ASSUME LinterAssumption == Calls \in Nat /\ MaxNoise \in Nat

VARIABLES child, ran, out, read, timer, handlers, success, message

childVars  == <<child, ran>>
resVars    == <<success, message>>
linterVars == <<childVars, out, read, timer, handlers, resVars>>

\* success has no value before the first handler runs.
LinterInit ==
    /\ child = "linting"
    /\ ran = 0
    /\ out = <<>>
    /\ read = "waiting"
    /\ timer = "waiting"
    /\ handlers = <<>>
    /\ success = "unset"
    /\ message = <<>>

-----------------------------------------------------------------------------
(***************************************************************************)
(* The process: lint and main of the spawner.                              *)
(***************************************************************************)
Writes(by, what) == out' = Append(out, [by |-> by, what |-> what])

\* The next call returns.
CallReturns ==
    /\ child = "linting"
    /\ ran < Calls
    /\ ran' = ran + 1
    /\ UNCHANGED <<child, out, read, timer, handlers, resVars>>

\* Mutant of CallFails: lint goes on.
CallFailsUnseen ==
    /\ child = "linting"
    /\ ran < Calls
    /\ child' = "reported"
    /\ Writes("lint", "passed")
    /\ UNCHANGED <<ran, read, timer, handlers, resVars>>

\* The next call throws, and lint returns what has failed.
CallFails ==
    /\ child = "linting"
    /\ ran < Calls
    /\ child' = "reported"
    /\ Writes("lint", "failed")
    /\ UNCHANGED <<ran, read, timer, handlers, resVars>>

LintSucceeds ==
    /\ child = "linting"
    /\ ran = Calls
    /\ child' = "reported"
    /\ Writes("lint", "passed")
    /\ UNCHANGED <<ran, read, timer, handlers, resVars>>

\* An algorithm may write to the standard output as well.  (A line that it only
\* begins, and that lint's own ends, counts as one of its own.)
Prints(what) ==
    /\ child = "linting"
    /\ Len(out) < MaxNoise
    /\ Writes("algorithm", what)
    /\ UNCHANGED <<childVars, read, timer, handlers, resVars>>

\* It returns from main, or crashes.
Exits ==
    /\ child # "gone"
    /\ child' = "gone"
    /\ UNCHANGED <<ran, out, read, timer, handlers, resVars>>

-----------------------------------------------------------------------------
(***************************************************************************)
(* The io_context.  A handler that is ready to run and a timer that has    *)
(* expired cannot be cancelled any more; a read that has not taken its     *)
(* line can.                                                               *)
(***************************************************************************)
\* There is a line to read, or the end.
PipeReady ==
    /\ read = "waiting"
    /\ out # <<>> \/ child = "gone"
    /\ \A i \in DOMAIN handlers : handlers[i] # "read"
    /\ handlers' = Append(handlers, "read")
    /\ UNCHANGED <<childVars, out, read, timer, resVars>>

TimerExpires ==
    /\ timer = "waiting"
    /\ timer' = "expired"
    /\ handlers' = Append(handlers, "timer")
    /\ UNCHANGED <<childVars, out, read, resVars>>

\* timeout_timer_.cancel(): a timer that has not expired is ready at once.
CancelTimer(others) ==
    IF timer = "waiting"
    THEN timer' = "cancelled" /\ handlers' = Append(others, "timer")
    ELSE handlers' = others /\ UNCHANGED timer

\* pipe_.cancel(): so is a read that has not taken its line; no other handler
\* can be in the queue.
CancelRead ==
    IF read = "waiting"
    THEN read' = "aborted" /\ handlers' = <<"read">>
    ELSE handlers' = Tail(handlers) /\ UNCHANGED read

\* Mutant of Terminate: only a process that has reported is ended.
TerminateReported == child' = IF child = "reported" THEN "gone" ELSE child

\* if (process->running()) process->terminate()
Terminate == child' = "gone"

\* read_handler_ with an error: that of a read that was cancelled, or the end
ReadError(error) ==
    /\ Terminate
    /\ success' = "no"
    /\ message' = IF error = "aborted" THEN Append(message, "timeout") ELSE <<"internal">>

\* read_handler_ with a line that it can decode.  The success of a result that
\* leaves it out is whatever was in memory.
ReadLine(line) ==
    /\ Terminate
    /\ success' \in CASE line.what = "passed"  -> {"yes"}
                      [] line.what = "partial" -> {"yes", "no"}
                      [] OTHER                 -> {"no"}
    /\ message' = IF line.what \in {"passed", "failed", "partial"}
                  THEN <<line.by>> ELSE <<"internal">>

\* read_handler_ with a line that is not base64: base64_decode throws, and nothing
\* catches it up to the caller of spawn_client.  What spawn_client holds is
\* destroyed: the handlers that wait, the timer, and the process with its handle.
ReadThrows ==
    /\ timer' = "done"
    /\ handlers' = <<>>
    /\ child' = "gone"
    /\ read' = "threw"
    /\ UNCHANGED resVars

\* handle_read_
HandleRead ==
    /\ handlers # <<>>
    /\ Head(handlers) = "read"
    /\ IF read = "waiting" /\ out # <<>> /\ Head(out).what = "noise"
       THEN ReadThrows /\ out' = Tail(out)
       ELSE /\ CancelTimer(Tail(handlers))
            /\ IF read = "aborted" THEN ReadError("aborted") /\ UNCHANGED out
               ELSE IF out = <<>>  THEN ReadError("eof") /\ UNCHANGED out
               ELSE ReadLine(Head(out)) /\ out' = Tail(out)
            /\ read' = "done"
    /\ UNCHANGED ran

\* Mutants of HandleTimeout: the pipe is not cancelled; nothing is done.
TimeoutLeavesRead ==
    /\ handlers # <<>>
    /\ Head(handlers) = "timer"
    /\ timer' = "done"
    /\ IF timer = "expired" THEN ReadError("aborted")
                            ELSE UNCHANGED <<child, resVars>>
    /\ handlers' = Tail(handlers)
    /\ UNCHANGED <<read, ran, out>>

TimeoutIgnored ==
    /\ handlers # <<>>
    /\ Head(handlers) = "timer"
    /\ timer' = "done"
    /\ handlers' = Tail(handlers)
    /\ UNCHANGED <<childVars, out, read, resVars>>

\* handle_timeout_: nothing, if the timer was cancelled in time
HandleTimeout ==
    /\ handlers # <<>>
    /\ Head(handlers) = "timer"
    /\ timer' = "done"
    /\ IF timer = "expired"
       THEN CancelRead /\ ReadError("aborted")
       ELSE handlers' = Tail(handlers) /\ UNCHANGED <<read, child, resVars>>
    /\ UNCHANGED <<ran, out>>

\* io_context.run() returns when nothing is left to wait for.
Returned == read = "done" /\ timer = "done"

\* It does not return but throws.
Threw == read = "threw"

Return == (Returned \/ Threw) /\ UNCHANGED linterVars

LinterNext ==
    \/ CallReturns \/ CallFails \/ LintSucceeds \/ Exits
    \/ \E what \in Lines : Prints(what)
    \/ PipeReady \/ TimerExpires
    \/ HandleRead \/ HandleTimeout
    \/ Return

LinterSpec == LinterInit /\ [][LinterNext]_linterVars

-----------------------------------------------------------------------------
(***************************************************************************)
(* Properties.                                                             *)
(***************************************************************************)
\* Every variable keeps its type, and no handler is queued twice.
LinterTypeOK ==
    /\ child \in {"linting", "reported", "gone"}
    /\ ran \in 0 .. Calls
    /\ out \in Seq([by : {"lint", "algorithm"}, what : Lines])
    /\ read \in {"waiting", "aborted", "done", "threw"}
    /\ timer \in {"waiting", "expired", "cancelled", "done"}
    /\ handlers \in {<<>>, <<"read">>, <<"timer">>, <<"read", "timer">>,
                     <<"timer", "read">>}
    /\ success \in {"unset", "yes", "no"}
    /\ message \in Seq({"lint", "algorithm", "timeout", "internal"})

\* An algorithm passes only when every call of lint has returned, or by a line
\* that it has written itself.
VerdictFounded == success = "yes" => ran = Calls \/ message = <<"algorithm">>

\* When spawn_client is over, by an exception too, the process is gone; when it
\* returns it has a verdict.
Settled ==
    /\ Returned \/ Threw => child = "gone"
    /\ Returned => success # "unset"

\* Once a run has been called too slow nothing makes it pass, not even a report
\* that arrives with the timeout.
TimeoutFinal ==
    [][\A i \in DOMAIN message : message[i] = "timeout" =>
        /\ success' = "no"
        /\ i \in DOMAIN message' /\ message'[i] = "timeout"]_linterVars
=============================================================================
