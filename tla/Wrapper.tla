-------------------------------- MODULE Wrapper --------------------------------
(***************************************************************************)
(* The wrapper processes: main of src/wrapper, one process for each        *)
(* algorithm that the exchange starts.                                     *)
(*                                                                         *)
(*   pc      how far main is; "exited" (it has returned), "crashed" (an    *)
(*           exception, or the algorithm) and "killed" (a signal) when it  *)
(*           is gone, "none" before it is there.                           *)
(*   runs    the algorithm it has been given.                              *)
(*   stdin   the messages in its standard input.                           *)
(*   reported   whether it has sent its init message.                      *)
(*   guarded whether it has asked to be killed when the exchange dies, of  *)
(*           an exchange that was alive.                                   *)
(*   startTime   that of the exchange: "unset", "ahead" or "past".         *)
(*                                                                         *)
(* Every action is told whether the exchange lives: without it the         *)
(* standard input ends.                                                    *)
(***************************************************************************)
EXTENDS Algorithm

CONSTANTS
    NumWrappers,    \* the wrappers, by the place of their algorithm, are 1 .. NumWrappers
    Language,       \* the flag each of them is given
    NoAlgorithm

Wrappers == 1 .. NumWrappers

ASSUME WrapperAssumption ==
    /\ NumWrappers \in Nat \ {0}
    /\ Language \in [Wrappers -> Languages]

VARIABLES pc, runs, stdin, reported, guarded, startTime

wrapperVars == <<pc, runs, stdin, reported, guarded>>

Gone    == {"exited", "crashed", "killed"}
Loaded  == {"loop", "hangs"}
Running == {"load"} \cup Loaded         \* the algorithm has the process

\* main of the wrapper between the lines named; it handles signals from the
\* second on.
Steps == {"arguments", "handlers", "algorithm", "start", "sleep", "load", "loop"}

Alive(w) == pc[w] \notin Gone \cup {"none"}

WrapperInitial ==
    /\ pc = [w \in Wrappers |-> "none"]
    /\ runs = [w \in Wrappers |-> NoAlgorithm]
    /\ stdin = [w \in Wrappers |-> <<>>]
    /\ reported = [w \in Wrappers |-> FALSE]
    /\ guarded = [w \in Wrappers |-> FALSE]

\* create_arguments of the exchange, and process_arguments of the wrapper: one of
\* two options, which exclude each other
Flags(language) == {IF language = "cpp" THEN "--cpp_algo" ELSE "--python_algo"}

FlagsValid(flags) == flags \in {{"--cpp_algo"}, {"--python_algo"}}

AlgoType(flags) == IF "--cpp_algo" \in flags THEN "cpp" ELSE "python"

Goto(w, step) == pc' = [pc EXCEPT ![w] = step]

\* process_arguments; std::signal(SIGINT, ...), std::signal(SIGTERM, ...)
SetHandlers(w) ==
    /\ pc[w] = "arguments"
    /\ Goto(w, IF FlagsValid(Flags(Language[w])) THEN "handlers" ELSE "exited")
    /\ UNCHANGED <<runs, stdin, reported, guarded>>

\* The limits; where they fail the process reports all the same, and exits.
SetLimits(w, exchangeLives) ==
    /\ pc[w] = "handlers"
    /\ \/ /\ Goto(w, "algorithm")
          /\ guarded' = [guarded EXCEPT ![w] = exchangeLives]
          /\ UNCHANGED reported
       \/ /\ Goto(w, "exited")
          /\ reported' = [reported EXCEPT ![w] = TRUE]
          /\ UNCHANGED guarded
    /\ UNCHANGED <<runs, stdin>>

\* Mutant of ConsumeAlgorithm: an empty algorithm is not reported.
ConsumeSilently(w) ==
    /\ pc[w] = "algorithm"
    /\ stdin[w] # <<>> /\ Head(stdin[w]) = "algorithm"
    /\ stdin' = [stdin EXCEPT ![w] = Tail(@)]
    /\ IF runs[w].empty
       THEN Goto(w, "exited") /\ UNCHANGED reported
       ELSE Goto(w, "start") /\ reported' = [reported EXCEPT ![w] = TRUE]
    /\ UNCHANGED <<runs, guarded>>

\* consume_algorithm; report_startup_complete
ConsumeAlgorithm(w) ==
    /\ pc[w] = "algorithm"
    /\ stdin[w] # <<>> /\ Head(stdin[w]) = "algorithm"
    /\ stdin' = [stdin EXCEPT ![w] = Tail(@)]
    /\ reported' = [reported EXCEPT ![w] = TRUE]
    /\ Goto(w, IF runs[w].empty THEN "exited" ELSE "start")
    /\ UNCHANGED <<runs, guarded>>

\* wait_and_consume_message<start_time>: an update that comes first is dropped.
ConsumeStart(w) ==
    /\ pc[w] = "start"
    /\ stdin[w] # <<>>
    /\ stdin' = [stdin EXCEPT ![w] = Tail(@)]
    /\ Goto(w, IF Head(stdin[w]) = "start" THEN "sleep" ELSE "start")
    /\ UNCHANGED <<runs, reported, guarded>>

\* std::this_thread::sleep_until
WakeUp(w) ==
    /\ pc[w] = "sleep"
    /\ startTime = "past"
    /\ Goto(w, "load")
    /\ UNCHANGED <<runs, stdin, reported, guarded>>

\* The algorithm has had its turn.
After(w, outcomes) ==
    \E outcome \in outcomes :
        Goto(w, CASE outcome = "returns" -> "loop"
                  [] outcome = "hangs"   -> "hangs"
                  [] outcome = "dies"    -> "crashed")

\* PyRuntime{...}, CppRuntime{...}
Load(w) ==
    /\ pc[w] = "load"
    /\ After(w, WrapperInit(runs[w], AlgoType(Flags(Language[w]))))
    /\ UNCHANGED <<runs, stdin, reported, guarded>>

\* main_event_loop: an update; anything else does not parse, and throws.
HandleUpdate(w) ==
    /\ pc[w] = "loop"
    /\ stdin[w] # <<>>
    /\ stdin' = [stdin EXCEPT ![w] = Tail(@)]
    /\ After(w, CASE Head(stdin[w]) = "tick"    -> WrapperTick(runs[w])
                  [] Head(stdin[w]) = "account" -> WrapperAccount(runs[w])
                  [] OTHER                      -> {"dies"})
    /\ UNCHANGED <<runs, reported, guarded>>

\* consume_message throws at the end of the standard input.
EndOfInput(w, exchangeLives) ==
    /\ pc[w] \in {"algorithm", "start", "loop"}
    /\ stdin[w] = <<>>
    /\ ~exchangeLives
    /\ Goto(w, "crashed")
    /\ UNCHANGED <<runs, stdin, reported, guarded>>

-----------------------------------------------------------------------------
(***************************************************************************)
(* Signals.                                                                *)
(***************************************************************************)
\* SIGINT: catch_sigint spins for ever; before it is installed the process ends.
Interrupt(w) ==
    /\ Goto(w, IF pc[w] = "arguments" THEN "killed" ELSE "spins")
    /\ UNCHANGED <<runs, stdin, reported, guarded>>

\* Mutant of KilledWithExchange: PR_SET_PDEATHSIG asks for the signal that the
\* exchange gets.
InterruptedWithExchange(w, exchangeLives) ==
    /\ Alive(w)
    /\ guarded[w]
    /\ ~exchangeLives
    /\ Interrupt(w)

\* prctl(PR_SET_PDEATHSIG, SIGKILL)
KilledWithExchange(w, exchangeLives) ==
    /\ Alive(w)
    /\ guarded[w]
    /\ ~exchangeLives
    /\ Goto(w, "killed")
    /\ UNCHANGED <<runs, stdin, reported, guarded>>

WrapperStep(w, exchangeLives) ==
    \/ SetHandlers(w)
    \/ SetLimits(w, exchangeLives)
    \/ ConsumeAlgorithm(w)
    \/ ConsumeStart(w)
    \/ WakeUp(w)
    \/ Load(w)
    \/ HandleUpdate(w)
    \/ EndOfInput(w, exchangeLives)
    \/ KilledWithExchange(w, exchangeLives)

\* Every variable keeps its type.
WrapperTypeOK ==
    /\ pc \in [Wrappers -> Steps \cup Gone \cup {"none", "hangs", "spins"}]
    /\ runs \in [Wrappers -> AlgorithmType \cup {NoAlgorithm}]
    /\ \A w \in Wrappers : pc[w] # "none" => runs[w] \in AlgorithmType
    /\ stdin \in [Wrappers -> Seq({"algorithm", "start", "tick", "account"})]
    /\ reported \in [Wrappers -> BOOLEAN]
    /\ guarded \in [Wrappers -> BOOLEAN]
    /\ startTime \in {"unset", "ahead", "past"}
=============================================================================
