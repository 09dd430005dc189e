----------------------------- MODULE RateLimiter -----------------------------
(***************************************************************************)
(* RateLimiter::should_rate_limit: the times of the calls it has let       *)
(* through in the last TIME_WINDOW, oldest first.                          *)
(***************************************************************************)
EXTENDS Integers, Sequences

CONSTANTS
    MAX_CALLS,      \* how many calls a window holds
    TIME_WINDOW     \* its length

ASSUME LimitAssumption  == MAX_CALLS \in Nat \ {0}
ASSUME WindowAssumption == TIME_WINDOW \in Nat

\* Mutant of Unexpired: a call as old as the window is popped.
ExpiresEarly(timestamps, now) ==
    SelectSeq(timestamps, LAMBDA time : now - time < TIME_WINDOW)

\* The loop pops the front while it is older than the window.
Unexpired(timestamps, now) ==
    LET n == Len(timestamps)
        kept == {i \in 1 .. n : now - timestamps[i] <= TIME_WINDOW}
    IN IF kept = {} THEN <<>>
       ELSE SubSeq(timestamps, CHOOSE i \in kept : \A j \in kept : i <= j, n)

\* What is left after the loop fills the window.
ShouldRateLimit(timestamps) == Len(timestamps) >= MAX_CALLS
=============================================================================
