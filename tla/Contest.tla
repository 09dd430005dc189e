-------------------------------- MODULE Contest --------------------------------
(***************************************************************************)
(* The life of an algorithm: its author has it linted, puts it into a file *)
(* and starts the exchange.  The exchange does not look at the verdict;    *)
(* that it is started with an algorithm that has not passed is the case in *)
(* which the linter was not asked.                                         *)
(*                                                                         *)
(*   algo     the algorithm.                                               *)
(*   asked    the language that the linter was told.                       *)
(*   reply    what the linter's server has answered, or "linting".         *)
(***************************************************************************)
EXTENDS Linter, Startup

CONSTANT Inputs     \* [algo, place, argv, config]: what may be tried

ASSUME ContestAssumption ==
    /\ Calls = Len(LintCalls)
    /\ Template \in [Languages -> AlgorithmType]
    /\ \A input \in Inputs : input.algo \in AlgorithmType

VARIABLES algo, asked, reply

contestVars == <<algo, asked, reply, linterVars, startupVars>>

ContestInit ==
    /\ LinterInit
    /\ WrapperInitial
    /\ \E input \in Inputs :
          /\ algo = input.algo
          /\ argv = input.argv
          /\ config = input.config
          /\ files = [w \in Wrappers |-> IF w = input.place THEN input.algo
                                         ELSE NoAlgorithm]
    /\ asked = "none"
    /\ reply = "none"
    /\ main = "arguments"
    /\ mode = "none"
    /\ traders = <<>>
    /\ acting = [t \in TickerNames |-> {}]
    /\ taken = 0
    /\ pending = NotPressed
    /\ updates = 0
    /\ startTime = "unset"

-----------------------------------------------------------------------------
\* The route of the linter's server: a request, with what storage_request finds.
Ask ==
    /\ reply = "none"
    /\ main = "arguments"
    /\ \E preflight, url, stored \in BOOLEAN, language \in Languages \cup {"none", "other"} :
          /\ asked' = language
          /\ reply' = CASE preflight                     -> "no content"
                        [] ~url \/ language \notin Languages -> "bad request"
                        [] ~stored                       -> "not found"
                        [] OTHER                         -> "linting"
    /\ UNCHANGED <<algo, linterVars, startupVars>>

\* What the process does with the algorithm.
LintProcess ==
    LET next == IF ran < Calls THEN LintCall(algo, asked, ran + 1) ELSE {}
    IN \/ "returns" \in next /\ CallReturns
       \/ "throws" \in next /\ CallFails
       \/ LintSucceeds
       \/ \E what \in LintWrites(algo, asked) : Prints(what)
       \/ (child = "reported" \/ "dies" \in next) /\ Exits

LintStep(action) ==
    reply = "linting" /\ action /\ UNCHANGED <<algo, asked, reply, startupVars>>

\* spawn_client has returned, or thrown what only the server catches.
Answer ==
    /\ reply = "linting"
    /\ \/ Returned /\ reply' = IF success = "yes" THEN "passed" ELSE "failed"
       \/ Threw /\ reply' = "error"
    /\ UNCHANGED <<algo, asked, linterVars, startupVars>>

\* Then, or without the linter, the exchange is started.
Start(action) ==
    reply \in {"none", "passed"} /\ action /\ UNCHANGED <<algo, asked, reply, linterVars>>

ContestNext ==
    \/ Ask
    \/ LintStep(LintProcess)
    \/ LintStep(PipeReady) \/ LintStep(TimerExpires)
    \/ LintStep(HandleRead) \/ LintStep(HandleTimeout)
    \/ Answer
    \/ Start(StartupNext)

\* The io_context and the processes run, time passes and signals arrive.  An
\* algorithm may hang, and nothing makes the linter's process go on.
ContestSpec ==
    /\ ContestInit /\ [][ContestNext]_contestVars
    /\ WF_contestVars(LintStep(PipeReady))
    /\ WF_contestVars(LintStep(TimerExpires))
    /\ WF_contestVars(LintStep(HandleRead \/ HandleTimeout))
    /\ WF_contestVars(Answer)
    /\ WF_contestVars(Start(MainStep))
    /\ WF_contestVars(Start(TimePasses))
    /\ WF_contestVars(Start(InterruptExchange))
    /\ \A w \in Wrappers :
        /\ WF_contestVars(Start(StepOf(w)))
        /\ WF_contestVars(Start(InterruptWrapper(w)))

-----------------------------------------------------------------------------
(***************************************************************************)
(* Properties.                                                             *)
(***************************************************************************)
\* The linter answers, whatever the algorithm does, and with a verdict unless the
\* algorithm writes something that is not base64.
LintAnswers ==
    reply = "linting" ~> \/ reply \in {"passed", "failed"}
                         \/ reply = "error" /\ "noise" \in algo.writes

\* An algorithm that passes, in the language of the file it is put into, and
\* keeps to Portable, is compiled and loaded by its wrapper.
AcceptedLoads ==
    [][\A w \in Wrappers :
        reply = "passed" /\ Language[w] = asked /\ Portable(algo) /\ files[w] = algo =>
            /\ ~(main = "trader" /\ mode = "dev" /\ w = NextPlace /\ main' = "failed")
            /\ ~(pc[w] = "load" /\ pc'[w] = "crashed")]_contestVars
=============================================================================
