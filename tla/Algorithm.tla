------------------------------- MODULE Algorithm -------------------------------
(***************************************************************************)
(* What the linter and the wrapper make of one and the same algorithm.     *)
(* Both load it and call it, each in a way of its own; these operators say *)
(* what may come of it.                                                    *)
(*                                                                         *)
(* An algorithm is a record:                                               *)
(*   language   what it is written in.                                     *)
(*   empty      it has no text.                                            *)
(*   does       what comes of each of its entries: "import" is its top     *)
(*              level, or its compilation; "construct" is Strategy().  An  *)
(*              entry that "varies" does one thing today and another       *)
(*              tomorrow.                                                  *)
(*   methods    the callbacks its Strategy has.                            *)
(*   reads      the names of the API that its import reads before it binds *)
(*              them, in an annotation for example.                        *)
(*   binds      the names of the API that its import binds.                *)
(*   prints     the entries that print anything but one string.            *)
(*   writes     the lines that it writes to the standard output of the     *)
(*              linter's process, past the print of Python.                *)
(*   heavy      its constructor needs more memory than a wrapper has.      *)
(***************************************************************************)
EXTENDS Integers, Sequences

Languages == {"python", "cpp"}
Callbacks == {"on_orderbook_update", "on_trade_update", "on_account_update"}
Entries   == {"import", "construct"} \cup Callbacks
Outcomes  == {"returns", "throws", "dies", "hangs"}

\* What a line in the linter's pipe may be: a result, a result that leaves its
\* success out, something else in base64, or not base64 at all.
Lines == {"passed", "failed", "partial", "other", "noise"}

AlgorithmType ==
    [language : Languages, empty : BOOLEAN, does : [Entries -> Outcomes \cup {"varies"}],
     methods : SUBSET Callbacks, reads : SUBSET {"Side", "Ticker"},
     binds : SUBSET {"Side", "Ticker"}, prints : SUBSET Entries,
     writes : SUBSET Lines, heavy : BOOLEAN]

MayDo(a, entry) ==
    IF a.does[entry] = "varies" THEN Outcomes ELSE {a.does[entry]}

\* first, and if that returns, then
Then(first, then) ==
    (first \ {"returns"}) \cup (IF "returns" \in first THEN then ELSE {})

\* An exception that nobody catches ends the process; one that is caught and
\* logged is as good as a return; a call that would return fails instead.
Replace(outcomes, old, new) == {IF o = old THEN new ELSE o : o \in outcomes}
Unguarded(outcomes) == Replace(outcomes, "throws", "dies")
Logged(outcomes)    == Replace(outcomes, "throws", "returns")
Fails(outcomes)     == Replace(outcomes, "returns", "throws")

Require(condition) == IF condition THEN {"returns"} ELSE {"throws"}

-----------------------------------------------------------------------------
(***************************************************************************)
(* What nutc_api, the module that an algorithm in Python finds, defines    *)
(* (besides the functions that place and cancel orders).  The wrapper's    *)
(* print takes one string and replaces Python's; the linter leaves that.   *)
(***************************************************************************)
LintApi    == {"Side", "Ticker"}
WrapperApi == {"Side", "Ticker", "print"}

\* An import that finds the names known.
ImportPython(a, known) ==
    IF a.language = "python" /\ a.reads \subseteq known
    THEN MayDo(a, "import") ELSE {"throws"}

-----------------------------------------------------------------------------
(***************************************************************************)
(* Compilation: the text is included in front of template.cpp, which calls *)
(* every method.                                                           *)
(***************************************************************************)
\* compile_cpp: throws, unless g++ succeeds
Compiles(a) ==
    /\ a.language = "cpp"
    /\ ~a.empty
    /\ a.does["import"] # "throws"
    /\ a.methods = Callbacks

-----------------------------------------------------------------------------
(***************************************************************************)
(* The linter, asked for a language.                                       *)
(***************************************************************************)
\* PyRuntime::run_initialization_code: the names of the API are bound before the
\* import, and whatever throws is reported.
LintInitPython(a) ==
    Then(IF a.empty THEN {"returns"} ELSE ImportPython(a, LintApi),
    Then(Require(~a.empty),
    Then(MayDo(a, "construct"),
         Require(a.methods = Callbacks))))

\* CppRuntime::init: compile, dlopen, dlsym, and a call that nothing guards
LintInitCpp(a) ==
    Then(Require(Compiles(a)),
    Then(MayDo(a, "import"),
         Unguarded(MayDo(a, "construct"))))

\* Mutant of LintInit: a failure of the initialization code is not reported.
LintInitUnseen(a, language) ==
    IF language = "python" THEN Logged(LintInitPython(a)) ELSE LintInitCpp(a)

LintInit(a, language) ==
    IF language = "python" THEN LintInitPython(a) ELSE LintInitCpp(a)

\* The calls of lint, in their order; each is tried and what it throws reported.
LintCalls ==
    <<"init",
      "on_orderbook_update", "on_trade_update",
      "on_orderbook_update", "on_trade_update",
      "on_account_update", "on_account_update",
      "on_orderbook_update", "on_trade_update",
      "on_account_update">>

\* What the nth call may do.
LintCall(a, language, n) ==
    IF LintCalls[n] = "init" THEN LintInit(a, language) ELSE MayDo(a, LintCalls[n])

\* What it may write meanwhile: nothing, unless it is text that can be run.
LintWrites(a, language) ==
    IF a.language # language \/ a.empty \/ (language = "cpp" /\ ~Compiles(a))
    THEN {} ELSE a.writes

-----------------------------------------------------------------------------
(***************************************************************************)
(* The wrapper.                                                            *)
(***************************************************************************)
\* get_algo_string: the text, or what it compiles to.
GetAlgoString(a, language) ==
    IF language = "python" THEN {"returns"} ELSE Require(Compiles(a))

\* Strategy() in a wrapper: within RLIMIT_AS, and with the wrapper's print.
WrapperConstruct(a) ==
    IF \/ a.heavy
       \/ a.language = "python" /\ "print" \in WrapperApi /\ "construct" \in a.prints
    THEN Fails(MayDo(a, "construct"))
    ELSE MayDo(a, "construct")

\* PyRuntime: the names of the API are bound after the import, and after the
\* definition of place_market_order(side: Side, ...).
WrapperInitPython(a) ==
    Then(ImportPython(a, {}),
    Then(Require("Side" \in a.binds),
         WrapperConstruct(a)))

\* CppRuntime: dlopen, dlsym and init
WrapperInitCpp(a) == Then(MayDo(a, "import"), WrapperConstruct(a))

\* The constructor of the runtime; main does not catch what it throws.
WrapperInit(a, language) ==
    Unguarded(IF language = "python" THEN WrapperInitPython(a)
                                     ELSE WrapperInitCpp(a))

\* One callback.  Python: what it throws, as a method that is missing does, is
\* logged.  C++: nothing is caught.
WrapperCallPython(a, callback) ==
    IF callback \in a.methods THEN Logged(MayDo(a, callback)) ELSE {"returns"}

WrapperCallCpp(a, callback) == Unguarded(MayDo(a, callback))

WrapperCall(a, callback) ==
    IF a.language = "python" THEN WrapperCallPython(a, callback)
                             ELSE WrapperCallCpp(a, callback)

\* process_tick_update: any number of updates of the book, then of trades
WrapperTick(a) ==
    Then({"returns"} \cup WrapperCall(a, "on_orderbook_update"),
         {"returns"} \cup WrapperCall(a, "on_trade_update"))

WrapperAccount(a) == WrapperCall(a, "on_account_update")

-----------------------------------------------------------------------------
(***************************************************************************)
(* What an algorithm must keep to besides what the linter looks at, to be  *)
(* loaded by a wrapper as well.                                            *)
(***************************************************************************)
Portable(a) ==
    /\ a.language = "python" =>
           a.reads = {} /\ "Side" \in a.binds /\ "construct" \notin a.prints
    /\ ~a.heavy
    /\ a.writes \cap {"passed", "partial"} = {}
    /\ \A entry \in {"import", "construct"} : a.does[entry] # "varies"
=============================================================================
