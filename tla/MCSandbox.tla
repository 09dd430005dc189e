------------------------------ MODULE MCSandbox ------------------------------
(***************************************************************************)
(* Two algorithms, one of which places orders: two for a rate limiter that *)
(* lets one through in a window, or a single one.                          *)
(***************************************************************************)
EXTENDS Sandbox

CONSTANTS a, b

MCMaxCalls == [t \in Traders |-> IF t = a THEN 2 ELSE 0]

MCOneCall == [t \in Traders |-> IF t = a THEN 1 ELSE 0]
=============================================================================
