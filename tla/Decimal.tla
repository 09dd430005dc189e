------------------------------ MODULE Decimal ------------------------------
(***************************************************************************)
(* Fixed-point arithmetic of common/types/decimal.hpp.  A Decimal<Scale>   *)
(* is a signed integer `value_' counted in units of 10^-Scale.  Prices,    *)
(* quantities and the order fee have Scale 2; capital and open interest    *)
(* are accumulated at Scale 4 (decimal_high_precision).  Every TLA+ number *)
(* below is such a `value_': 150 is the price 1.50.                        *)
(*                                                                         *)
(* The code computes in int64_t; the model in unbounded integers (see the  *)
(* README, "What is not modelled").                                        *)
(***************************************************************************)
EXTENDS Integers

\* MULTIPLIER = pow10(Scale) of a Decimal<2>.
Multiplier == 100

\* The integer division of C++, which rounds toward zero (\div rounds down).
Quotient(n, d) ==
    IF n >= 0 THEN n \div d ELSE -((-n) \div d)

\* operator* of Decimal<2>: the product loses its two low digits.
Times(a, b) == Quotient(a * b, Multiplier)

\* operator/ of Decimal<2>, for a divisor that is not zero.
Divide(a, b) ==
    IF b > 0 THEN Quotient(a * Multiplier, b) ELSE Quotient(-a * Multiplier, -b)

\* high_precision_multiply: the product of two Decimal<2> is kept exactly, at
\* Scale 4.
HighPrecisionTimes(a, b) == a * b

\* Decimal<4>{Decimal<2>} and Decimal<2>{Decimal<4>}.
Widen(a) == a * Multiplier
Narrow(a) == Quotient(a, Multiplier)

\* Decimal<2>{double}, of a value at Scale 4: std::round to the nearest.  Half
\* a unit goes either way, as the double may be a little less or more.
Rounded(a, up) == (2 * a + (IF up THEN Multiplier ELSE Multiplier - 1)) \div (2 * Multiplier)

\* decimal_price{1.0}
One == Multiplier

=============================================================================
