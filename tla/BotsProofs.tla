----------------------------- MODULE BotsProofs -----------------------------
(***************************************************************************)
(* Theorems about Bots, for any bots, capital, prices, limit of volume and *)
(* number of ticks.                                                        *)
(***************************************************************************)
EXTENDS Bots, MatchingEngineProofs, SequenceTheorems

-----------------------------------------------------------------------------
(***************************************************************************)
(* What a market maker reckons with.                                       *)
(***************************************************************************)
\* A quotient of numbers that are not negative is rounded down.
LEMMA QuotientNat ==
  ASSUME NEW a \in Nat, NEW d \in Nat, d > 0
  PROVE  /\ Quotient(a, d) \in Nat
         /\ Quotient(a, d) * d <= a
         /\ d * Quotient(a, d) <= a
<1>1. a \div d \in Nat /\ d * (a \div d) <= a
  OBVIOUS
<1>2. Quotient(a, d) = a \div d
  BY DEF Quotient
<1>3. (a \div d) * d = d * (a \div d)
  BY <1>1
<1> QED
  BY <1>1, <1>2, <1>3

\* The product of numbers that are not negative is not negative, and grows with
\* its factors.
LEMMA ProductGrows ==
  ASSUME NEW a \in Nat, NEW b \in Nat, NEW c \in Nat, a <= b
  PROVE  /\ a * c \in Nat /\ b * c \in Nat /\ c * a \in Nat /\ c * b \in Nat
         /\ a * c <= b * c /\ c * a <= c * b
<1>1. PICK d \in Nat : b = a + d
  <2>1. b - a \in Nat /\ b = a + (b - a)
    OBVIOUS
  <2> QED
    BY <2>1
<1>2. d * c \in Nat /\ a * c \in Nat /\ c * d \in Nat /\ c * a \in Nat
  OBVIOUS
<1>3. (a + d) * c = a * c + d * c /\ c * (a + d) = c * a + c * d
  OBVIOUS
<1> QED
  BY <1>1, <1>2, <1>3

\* Interest that is not negative and at most half of the capital leaves between
\* half and all of the capital to quote with.
LEMMA ToleranceRange ==
  ASSUME NEW cap \in Nat, cap > 0, NEW x \in Nat, NEW y \in Nat,
         2 * (x + y) <= Widen(cap)
  PROVE  /\ Times(One - Divide(Narrow(x) + Narrow(y), cap), cap) \in Nat
         /\ Times(One - Divide(Narrow(x) + Narrow(y), cap), cap) <= cap
<1>1. PICK z \in Nat : z = Narrow(x) + Narrow(y)
  BY QuotientNat DEF Narrow, Multiplier
<1>2. 2 * z <= cap
  <2>1. Narrow(x) * 100 <= x /\ Narrow(y) * 100 <= y /\ Narrow(x) \in Nat /\ Narrow(y) \in Nat
    BY QuotientNat DEF Narrow, Multiplier
  <2> QED
    BY <1>1, <2>1 DEF Widen, Multiplier
<1>3. PICK u \in Nat : u = Divide(z, cap) /\ u * cap <= z * 100
  BY QuotientNat DEF Divide, Multiplier
<1>4. u <= 50
  <2> SUFFICES ASSUME u >= 51 PROVE FALSE
    OBVIOUS
  <2>1. 51 * cap <= u * cap /\ u * cap \in Nat
    BY ProductGrows
  <2> QED
    BY <1>2, <1>3, <2>1
<1>5. PICK k \in Nat : k = 100 - u /\ k <= 100
  BY <1>4
<1>6. k * cap <= 100 * cap /\ k * cap \in Nat
  BY <1>5, ProductGrows
<1>7. PICK p \in Nat : p = k * cap
  BY <1>6
<1>8. Quotient(p, 100) \in Nat /\ Quotient(p, 100) * 100 <= p
  BY QuotientNat
<1>9. Times(One - Divide(z, cap), cap) = Quotient(p, 100)
  BY <1>3, <1>5, <1>7 DEF Times, One, Multiplier
<1> QED
  BY <1>1, <1>6, <1>7, <1>8, <1>9

\* Four times what is quoted is worth no more than the capital; at a price below
\* zero nothing is quoted.
LEMMA QuantityRange ==
  ASSUME NEW tol \in Nat, NEW theo \in Int, theo # 0
  PROVE  LET q == Divide(Divide(tol, theo), 4 * One)
         IN /\ q \in Int
            /\ q > 0 => theo > 0 /\ 4 * (theo * q) <= 100 * tol
<1>1. CASE theo > 0
  <2>1. PICK d \in Nat : d = Divide(tol, theo) /\ theo * d <= tol * 100
    BY <1>1, QuotientNat DEF Divide, Multiplier
  <2>2. PICK q \in Nat : q = Divide(d, 4 * One) /\ q * 400 <= d * 100
    BY QuotientNat DEF Divide, Multiplier, One
  <2>3. 4 * q <= d
    BY <2>2
  <2>4. theo * (4 * q) <= theo * d
    BY <1>1, <2>3, ProductGrows
  <2>5. theo * (4 * q) = 4 * (theo * q) /\ theo * q \in Nat
    BY <1>1
  <2> QED
    BY <1>1, <2>1, <2>2, <2>4, <2>5
<1>2. CASE theo < 0
  <2>1. PICK t \in Nat : t = -theo /\ t > 0
    BY <1>2
  <2>2. PICK d \in Int : d = Divide(tol, theo) /\ d <= 0
    <3>1. Divide(tol, theo) = Quotient(-tol * 100, t)
      BY <1>2, <2>1 DEF Divide, Multiplier
    <3>2. Quotient(tol * 100, t) \in Nat
      BY <2>1, QuotientNat
    <3>3. Quotient(-tol * 100, t) = -Quotient(tol * 100, t)
      BY <2>1 DEF Quotient
    <3> QED
      BY <3>1, <3>2, <3>3
  <2>3. Divide(d, 4 * One) \in Int /\ Divide(d, 4 * One) <= 0
    BY <2>2 DEF Divide, Quotient, Multiplier, One
  <2> QED
    BY <2>2, <2>3
<1> QED
  BY <1>1, <1>2

-----------------------------------------------------------------------------
(***************************************************************************)
(* What the quotes of one batch may be worth.  z has the quantities of its *)
(* four levels, w what rests of its buys, and v what rests of its sells.   *)
(***************************************************************************)
\* The two quotes of a level, where the buy's price is not below zero.
Pair(theo, d, z, w, v) ==
    /\ theo \in Nat /\ d \in Nat /\ z \in Nat /\ w \in Nat /\ v \in Nat
    /\ w <= z /\ v <= z
    /\ d <= theo \/ z = 0

LEMMA PairValue ==
  ASSUME NEW theo, NEW d, NEW z, NEW w, NEW v, Pair(theo, d, z, w, v)
  PROVE  w * (theo - d) + v * (theo + d) <= 2 * (theo * z)
<1>0. /\ theo \in Nat /\ d \in Nat /\ z \in Nat /\ w \in Nat /\ v \in Nat
      /\ w <= z /\ v <= z
      /\ d <= theo \/ z = 0
  BY DEF Pair
<1>1. CASE z = 0
  BY <1>0, <1>1
<1>2. CASE d <= theo
  <2>1. PICK e \in Nat : theo = d + e
    <3>1. theo - d \in Nat /\ theo = d + (theo - d)
      BY <1>0, <1>2
    <3> QED
      BY <3>1
  <2>2. w * e <= z * e /\ v * (theo + d) <= z * (theo + d)
    BY <1>0, <2>1, ProductGrows
  <2>3. /\ w * (theo - d) = w * e
        /\ z * e + z * (theo + d) = z * (e + (theo + d))
        /\ z * (2 * theo) = 2 * (theo * z)
    BY <1>0, <2>1
  <2>4. e + (theo + d) = 2 * theo
    BY <1>0, <2>1
  <2>5. w * e \in Int /\ v * (theo + d) \in Int /\ z * e \in Int /\ z * (theo + d) \in Int
    BY <1>0, <2>1
  <2> QED
    BY <2>2, <2>3, <2>4, <2>5
<1> QED
  BY <1>0, <1>1, <1>2

Value(theo, w, v) ==
    w[1] * (theo - 16) + w[2] * (theo - 21) + w[3] * (theo - 26) + w[4] * (theo - 31)
      + v[1] * (theo + 16) + v[2] * (theo + 21) + v[3] * (theo + 26) + v[4] * (theo + 31)

Four(f) == f[1] + f[2] + f[3] + f[4]

\* The quantities of the levels are parts of q, and what rests is part of them.
Portions(q, z, w, v) ==
    /\ z \in [1 .. 4 -> Nat] /\ w \in [1 .. 4 -> Nat] /\ v \in [1 .. 4 -> Nat]
    /\ 100 * z[1] <= 50 * q /\ 100 * z[2] <= 33 * q
    /\ 100 * z[3] <= 12 * q /\ 100 * z[4] <= 4 * q
    /\ \A i \in 1 .. 4 : w[i] <= z[i] /\ v[i] <= z[i]

\* The value of a batch in the terms of theo.
LEMMA ValueExpanded ==
  ASSUME NEW theo \in Int, NEW w \in [1 .. 4 -> Nat], NEW v \in [1 .. 4 -> Nat]
  PROVE  /\ Four(w) \in Nat /\ Four(v) \in Nat
         /\ Value(theo, w, v) \in Int
         /\ Value(theo, w, v) =
               theo * (Four(w) + Four(v))
                 + (16 * (v[1] - w[1]) + 21 * (v[2] - w[2])
                      + 26 * (v[3] - w[3]) + 31 * (v[4] - w[4]))
<1> DEFINE a == w[1]   b == w[2]   c == w[3]   d == w[4]
           e == v[1]   f == v[2]   g == v[3]   h == v[4]
<1>1. /\ a \in Nat /\ b \in Nat /\ c \in Nat /\ d \in Nat
      /\ e \in Nat /\ f \in Nat /\ g \in Nat /\ h \in Nat
  OBVIOUS
<1>0. /\ Four(w) = a + b + c + d /\ Four(v) = e + f + g + h
      /\ Value(theo, w, v) =
           a * (theo - 16) + b * (theo - 21) + c * (theo - 26) + d * (theo - 31)
             + e * (theo + 16) + f * (theo + 21) + g * (theo + 26) + h * (theo + 31)
      /\ 16 * (v[1] - w[1]) + 21 * (v[2] - w[2])
           + 26 * (v[3] - w[3]) + 31 * (v[4] - w[4])
           = 16 * e - 16 * a + 21 * f - 21 * b + 26 * g - 26 * c + 31 * h - 31 * d
  BY <1>1 DEF Four, Value
<1> HIDE DEF a, b, c, d, e, f, g, h
<1>2. theo * (a + b + c + d + (e + f + g + h))
        = theo * a + theo * b + theo * c + theo * d
            + theo * e + theo * f + theo * g + theo * h
  BY <1>1
<1>3. /\ a * (theo - 16) = theo * a - 16 * a /\ b * (theo - 21) = theo * b - 21 * b
      /\ c * (theo - 26) = theo * c - 26 * c /\ d * (theo - 31) = theo * d - 31 * d
      /\ e * (theo + 16) = theo * e + 16 * e /\ f * (theo + 21) = theo * f + 21 * f
      /\ g * (theo + 26) = theo * g + 26 * g /\ h * (theo + 31) = theo * h + 31 * h
  BY <1>1
<1>4. /\ theo * a \in Int /\ theo * b \in Int /\ theo * c \in Int /\ theo * d \in Int
      /\ theo * e \in Int /\ theo * f \in Int /\ theo * g \in Int /\ theo * h \in Int
  BY <1>1
<1>5. /\ Four(w) \in Nat /\ Four(v) \in Nat
      /\ theo * (Four(w) + Four(v))
           = theo * a + theo * b + theo * c + theo * d
               + theo * e + theo * f + theo * g + theo * h
  BY <1>0, <1>1, <1>2
<1>6. 16 * (v[1] - w[1]) + 21 * (v[2] - w[2])
           + 26 * (v[3] - w[3]) + 31 * (v[4] - w[4]) \in Int
  BY <1>0, <1>1
<1> QED
  BY <1>0, <1>1, <1>3, <1>4, <1>5

\* Without sells, or where no buy has a price below zero, a batch is worth no
\* more than twice q at the price it was made for.
LEMMA WholeDepth ==
  ASSUME NEW theo \in Nat, NEW q \in Nat, NEW z, NEW w, NEW v, Portions(q, z, w, v),
         \/ Four(v) = 0
         \/ /\ z[1] > 0 => 16 <= theo
            /\ z[2] > 0 => 21 <= theo
            /\ z[3] > 0 => 26 <= theo
            /\ z[4] > 0 => 31 <= theo
  PROVE  Value(theo, w, v) <= 2 * (theo * q)
<1>0. /\ z \in [1 .. 4 -> Nat] /\ w \in [1 .. 4 -> Nat] /\ v \in [1 .. 4 -> Nat]
      /\ Four(z) \in Nat /\ Four(z) <= q
      /\ \A i \in 1 .. 4 : z[i] \in Nat /\ w[i] \in Nat /\ v[i] \in Nat
      /\ w[1] <= z[1] /\ w[2] <= z[2] /\ w[3] <= z[3] /\ w[4] <= z[4]
      /\ v[1] <= z[1] /\ v[2] <= z[2] /\ v[3] <= z[3] /\ v[4] <= z[4]
  BY DEF Portions, Four
<1>9. theo * Four(z) <= theo * q /\ theo * Four(z) \in Nat /\ theo * q \in Nat
  BY <1>0, ProductGrows
<1>1. CASE Four(v) = 0
  <2>1. /\ Value(theo, w, v) = theo * (Four(w) + Four(v))
              + (16 * (v[1] - w[1]) + 21 * (v[2] - w[2])
                   + 26 * (v[3] - w[3]) + 31 * (v[4] - w[4]))
        /\ Four(w) \in Nat /\ Four(v) \in Nat
    BY <1>0, ValueExpanded
  <2>2. /\ v[1] = 0 /\ v[2] = 0 /\ v[3] = 0 /\ v[4] = 0
    BY <1>0, <1>1 DEF Four
  <2>3. 16 * (v[1] - w[1]) + 21 * (v[2] - w[2])
                   + 26 * (v[3] - w[3]) + 31 * (v[4] - w[4]) <= 0
        /\ 16 * (v[1] - w[1]) + 21 * (v[2] - w[2])
                   + 26 * (v[3] - w[3]) + 31 * (v[4] - w[4]) \in Int
    BY <1>0, <2>2
  <2>4. Four(w) <= q
    BY <1>0 DEF Four
  <2>5. theo * (Four(w) + Four(v)) <= theo * q /\ theo * (Four(w) + Four(v)) \in Nat
    <3>1. Four(w) + Four(v) \in Nat /\ Four(w) + Four(v) <= q
      BY <1>1, <2>1, <2>4
    <3> QED
      BY <3>1, ProductGrows
  <2> QED
    BY <1>9, <2>1, <2>3, <2>5
<1>2. CASE /\ z[1] > 0 => 16 <= theo
           /\ z[2] > 0 => 21 <= theo
           /\ z[3] > 0 => 26 <= theo
           /\ z[4] > 0 => 31 <= theo
  <2>1. /\ w[1] * (theo - 16) + v[1] * (theo + 16) <= 2 * (theo * z[1])
        /\ w[2] * (theo - 21) + v[2] * (theo + 21) <= 2 * (theo * z[2])
        /\ w[3] * (theo - 26) + v[3] * (theo + 26) <= 2 * (theo * z[3])
        /\ w[4] * (theo - 31) + v[4] * (theo + 31) <= 2 * (theo * z[4])
    <3>1. w[1] * (theo - 16) + v[1] * (theo + 16) <= 2 * (theo * z[1])
      <4>1. Pair(theo, 16, z[1], w[1], v[1])
        BY <1>0, <1>2 DEF Pair
      <4> QED
        BY <4>1, PairValue
    <3>2. w[2] * (theo - 21) + v[2] * (theo + 21) <= 2 * (theo * z[2])
      <4>1. Pair(theo, 21, z[2], w[2], v[2])
        BY <1>0, <1>2 DEF Pair
      <4> QED
        BY <4>1, PairValue
    <3>3. w[3] * (theo - 26) + v[3] * (theo + 26) <= 2 * (theo * z[3])
      <4>1. Pair(theo, 26, z[3], w[3], v[3])
        BY <1>0, <1>2 DEF Pair
      <4> QED
        BY <4>1, PairValue
    <3>4. w[4] * (theo - 31) + v[4] * (theo + 31) <= 2 * (theo * z[4])
      <4>1. Pair(theo, 31, z[4], w[4], v[4])
        BY <1>0, <1>2 DEF Pair
      <4> QED
        BY <4>1, PairValue
    <3> QED
      BY <3>1, <3>2, <3>3, <3>4
  <2>2. /\ theo * Four(z) = theo * z[1] + theo * z[2] + theo * z[3] + theo * z[4]
        /\ theo * z[1] \in Int /\ theo * z[2] \in Int
        /\ theo * z[3] \in Int /\ theo * z[4] \in Int
    BY <1>0 DEF Four
  <2>3. /\ w[1] * (theo - 16) \in Int /\ v[1] * (theo + 16) \in Int
        /\ w[2] * (theo - 21) \in Int /\ v[2] * (theo + 21) \in Int
        /\ w[3] * (theo - 26) \in Int /\ v[3] * (theo + 26) \in Int
        /\ w[4] * (theo - 31) \in Int /\ v[4] * (theo + 31) \in Int
    BY <1>0
  <2> DEFINE a == w[1] * (theo - 16)   e == v[1] * (theo + 16)
             b == w[2] * (theo - 21)   f == v[2] * (theo + 21)
             c == w[3] * (theo - 26)   g == v[3] * (theo + 26)
             d == w[4] * (theo - 31)   h == v[4] * (theo + 31)
             z1 == theo * z[1]   z2 == theo * z[2]
             z3 == theo * z[3]   z4 == theo * z[4]
  <2>4. /\ a + e <= 2 * z1 /\ b + f <= 2 * z2 /\ c + g <= 2 * z3 /\ d + h <= 2 * z4
        /\ a \in Int /\ b \in Int /\ c \in Int /\ d \in Int
        /\ e \in Int /\ f \in Int /\ g \in Int /\ h \in Int
        /\ z1 \in Int /\ z2 \in Int /\ z3 \in Int /\ z4 \in Int
        /\ theo * Four(z) = z1 + z2 + z3 + z4
    BY <2>1, <2>2, <2>3
  <2>5. Value(theo, w, v) = a + b + c + d + e + f + g + h
    BY DEF Value
  <2> HIDE DEF a, b, c, d, e, f, g, h, z1, z2, z3, z4
  <2>6. a + b + c + d + e + f + g + h <= 2 * (theo * Four(z))
    BY <2>4
  <2>7. 2 * (theo * Four(z)) <= 2 * (theo * q)
    BY <1>9
  <2>8. a + b + c + d + e + f + g + h \in Int
    BY <2>4
  <2> QED
    BY <1>9, <2>5, <2>6, <2>7, <2>8
<1> QED
  BY <1>1, <1>2

\* Where the volume in the book falls short of q, the worth of a batch does too,
\* although no buy makes up for the sells above theo.
LEMMA LimitedDepth ==
  ASSUME NEW theo \in Nat, NEW q \in Nat, NEW z, NEW w, NEW v, Portions(q, z, w, v),
         \/ 16 <= theo /\ 100 * (Four(w) + Four(v)) <= 83 * q
         \/ 21 <= theo /\ 100 * (Four(w) + Four(v)) <= 99 * q
  PROVE  Value(theo, w, v) <= 2 * (theo * q)
<1>0. /\ z \in [1 .. 4 -> Nat] /\ w \in [1 .. 4 -> Nat] /\ v \in [1 .. 4 -> Nat]
      /\ \A i \in 1 .. 4 : z[i] \in Nat /\ w[i] \in Nat /\ v[i] \in Nat
      /\ v[1] <= z[1] /\ v[2] <= z[2] /\ v[3] <= z[3] /\ v[4] <= z[4]
      /\ 100 * z[2] <= 33 * q /\ 100 * z[3] <= 12 * q /\ 100 * z[4] <= 4 * q
  BY DEF Portions
<1>1. PICK t \in Nat : t = Four(w) + Four(v)
  BY <1>0, ValueExpanded
<1>2. PICK x \in Int :
        x = 16 * (v[1] - w[1]) + 21 * (v[2] - w[2])
              + 26 * (v[3] - w[3]) + 31 * (v[4] - w[4])
  BY <1>0
<1>3. Value(theo, w, v) = theo * t + x
  BY <1>0, <1>1, <1>2, ValueExpanded
<1>4. 100 * x <= 1600 * t + 345 * q
  <2>1. x <= 16 * t + 5 * v[2] + 10 * v[3] + 15 * v[4]
    BY <1>0, <1>1, <1>2 DEF Four
  <2>2. 100 * v[2] <= 33 * q /\ 100 * v[3] <= 12 * q /\ 100 * v[4] <= 4 * q
    BY <1>0
  <2> QED
    BY <1>0, <2>1, <2>2
<1>5. PICK r \in Nat, p \in Nat : r = theo * t /\ p = theo * q
  BY <1>1
<1>6. CASE 16 <= theo /\ 100 * t <= 83 * q
  <2>1. theo * (100 * t) <= theo * (83 * q) /\ 16 * q <= theo * q
    BY <1>1, <1>6, ProductGrows
  <2>2. theo * (100 * t) = 100 * r /\ theo * (83 * q) = 83 * p
    BY <1>1, <1>5
  <2> QED
    BY <1>1, <1>3, <1>4, <1>5, <1>6, <2>1, <2>2
<1>7. CASE 21 <= theo /\ 100 * t <= 99 * q
  <2>1. theo * (100 * t) <= theo * (99 * q) /\ 21 * q <= theo * q
    BY <1>1, <1>7, ProductGrows
  <2>2. theo * (100 * t) = 100 * r /\ theo * (99 * q) = 99 * p
    BY <1>1, <1>5
  <2> QED
    BY <1>1, <1>3, <1>4, <1>5, <1>7, <2>1, <2>2
<1> QED
  BY <1>1, <1>6, <1>7

\* The quantities of a batch's levels.
Depths(q) == [i \in 1 .. 4 |-> Times(q, PriceLevels[i].factor)]

\* The most that can rest of the buys before the k-th: only a price that is not
\* below zero rests.
Standing(theo, z, k) ==
    LET part(i) == IF i < k /\ PriceLevels[i].delta <= theo THEN z[i] ELSE 0
    IN part(1) + part(2) + part(3)

\* The k-th buy, whose price is below zero, cannot have been accepted.
Refused(theo, z, k) ==
    PriceLevels[k].delta > theo /\ z[k] > 0 => MaxVolume < z[k] + Standing(theo, z, k)

\* The levels of the code.
LEMMA LevelFacts ==
  /\ DOMAIN PriceLevels = 1 .. 4
  /\ PriceLevels[1].delta = 16 /\ PriceLevels[1].factor = 50
  /\ PriceLevels[2].delta = 21 /\ PriceLevels[2].factor = 33
  /\ PriceLevels[3].delta = 26 /\ PriceLevels[3].factor = 12
  /\ PriceLevels[4].delta = 31 /\ PriceLevels[4].factor = 4
BY DEF PriceLevels

LEMMA DepthsPortions ==
  ASSUME NEW q \in Int
  PROVE  /\ Depths(q) \in [1 .. 4 -> Int]
         /\ q <= 0 => \A i \in 1 .. 4 : Depths(q)[i] <= 0
         /\ q > 0 => /\ Depths(q) \in [1 .. 4 -> Nat]
                     /\ 100 * Depths(q)[1] <= 50 * q /\ 100 * Depths(q)[2] <= 33 * q
                     /\ 100 * Depths(q)[3] <= 12 * q /\ 100 * Depths(q)[4] <= 4 * q
<1>1. /\ Depths(q)[1] = Quotient(q * 50, 100) /\ Depths(q)[2] = Quotient(q * 33, 100)
      /\ Depths(q)[3] = Quotient(q * 12, 100) /\ Depths(q)[4] = Quotient(q * 4, 100)
      /\ Depths(q) = [i \in 1 .. 4 |-> Depths(q)[i]]
      /\ 1 .. 4 = {1, 2, 3, 4}
  BY LevelFacts DEF Depths, Times, Multiplier
<1>2. \A a \in Int : /\ Quotient(a, 100) \in Int
                     /\ a <= 0 => Quotient(a, 100) <= 0
                     /\ a >= 0 => Quotient(a, 100) \in Nat /\ 100 * Quotient(a, 100) <= a
  BY DEF Quotient
<1>3. /\ q * 50 \in Int /\ q * 33 \in Int /\ q * 12 \in Int /\ q * 4 \in Int
      /\ q * 50 = 50 * q /\ q * 33 = 33 * q /\ q * 12 = 12 * q /\ q * 4 = 4 * q
  OBVIOUS
<1>4. Depths(q) \in [1 .. 4 -> Int]
  BY <1>1, <1>2, <1>3
<1>5. ASSUME q <= 0 PROVE \A i \in 1 .. 4 : Depths(q)[i] <= 0
  BY <1>1, <1>2, <1>3, <1>5
<1>6. ASSUME q > 0
      PROVE  /\ Depths(q) \in [1 .. 4 -> Nat]
             /\ 100 * Depths(q)[1] <= 50 * q /\ 100 * Depths(q)[2] <= 33 * q
             /\ 100 * Depths(q)[3] <= 12 * q /\ 100 * Depths(q)[4] <= 4 * q
  BY <1>1, <1>2, <1>3, <1>6
<1> QED
  BY <1>4, <1>5, <1>6

\* Whatever rests of a batch is worth no more than twice q at the price it was
\* made for: either no buy had a price below zero, or those that had were
\* refused for the volume they would have added.
LEMMA DepthValue ==
  ASSUME NEW theo \in Nat, NEW q \in Nat, NEW z, NEW w, NEW v, Portions(q, z, w, v),
         Four(w) + Four(v) <= MaxVolume,
         \A i \in 1 .. 4 : v[i] > 0 => z[i] <= MaxVolume,
         Four(v) > 0 => \A k \in 1 .. 4 : Refused(theo, z, k)
  PROVE  Value(theo, w, v) <= 2 * (theo * q)
<1>0. /\ z \in [1 .. 4 -> Nat] /\ w \in [1 .. 4 -> Nat] /\ v \in [1 .. 4 -> Nat]
      /\ 100 * z[1] <= 50 * q /\ 100 * z[2] <= 33 * q
      /\ 100 * z[3] <= 12 * q /\ 100 * z[4] <= 4 * q
      /\ z[1] \in Nat /\ z[2] \in Nat /\ z[3] \in Nat /\ z[4] \in Nat
      /\ v[1] \in Nat /\ v[2] \in Nat /\ v[3] \in Nat /\ v[4] \in Nat
      /\ v[1] <= z[1] /\ v[2] <= z[2] /\ v[3] <= z[3] /\ v[4] <= z[4]
      /\ v[1] > 0 => z[1] <= MaxVolume
      /\ v[2] > 0 => z[2] <= MaxVolume
      /\ v[3] > 0 => z[3] <= MaxVolume
      /\ v[4] > 0 => z[4] <= MaxVolume
  BY DEF Portions
<1>1. Four(w) \in Nat /\ Four(v) \in Nat /\ MaxVolume \in Nat
  <2>1. Four(w) \in Nat /\ Four(v) \in Nat
    BY <1>0, ValueExpanded
  <2>2. MaxVolume \in Nat
    BY BoundsAssumption
  <2> QED
    BY <2>1, <2>2
<1>2. CASE Four(v) = 0
  BY <1>2, WholeDepth
<1>3. CASE Four(v) > 0
  <2> DEFINE a == IF 16 <= theo THEN z[1] ELSE 0
             b == IF 21 <= theo THEN z[2] ELSE 0
             c == IF 26 <= theo THEN z[3] ELSE 0
  <2>1. /\ 16 > theo /\ z[1] > 0 => MaxVolume < z[1]
        /\ 21 > theo /\ z[2] > 0 => MaxVolume < z[2] + a
        /\ 26 > theo /\ z[3] > 0 => MaxVolume < z[3] + a + b
        /\ 31 > theo /\ z[4] > 0 => MaxVolume < z[4] + a + b + c
    <3>1. Refused(theo, z, 1) /\ Refused(theo, z, 2) /\ Refused(theo, z, 3) /\ Refused(theo, z, 4)
      BY <1>3
    <3>2. /\ Standing(theo, z, 1) = 0 /\ Standing(theo, z, 2) = a
          /\ Standing(theo, z, 3) = a + b /\ Standing(theo, z, 4) = a + b + c
      BY <1>0, LevelFacts DEF Standing
    <3> QED
      BY <1>0, <1>1, <3>1, <3>2, LevelFacts DEF Refused
  <2>2. /\ a \in Nat /\ b \in Nat /\ c \in Nat
        /\ a <= z[1] /\ b <= z[2] /\ c <= z[3]
        /\ theo < 16 => a = 0
        /\ theo < 21 => b = 0
        /\ theo < 26 => c = 0
    BY <1>0
  <2> HIDE DEF a, b, c
  <2>3. theo >= 16
    <3> SUFFICES ASSUME theo < 16 PROVE FALSE
      OBVIOUS
    <3>1. v[1] > 0 \/ v[2] > 0 \/ v[3] > 0 \/ v[4] > 0
      BY <1>0, <1>3 DEF Four
    <3>2. a = 0 /\ b = 0 /\ c = 0
      BY <2>2
    <3>3. /\ z[1] > 0 => MaxVolume < z[1]
          /\ z[2] > 0 => MaxVolume < z[2]
          /\ z[3] > 0 => MaxVolume < z[3]
          /\ z[4] > 0 => MaxVolume < z[4]
      <4>1. z[2] + a = z[2] /\ z[3] + a + b = z[3] /\ z[4] + a + b + c = z[4]
        BY <1>0, <3>2
      <4>2. 16 > theo /\ 21 > theo /\ 26 > theo /\ 31 > theo
        OBVIOUS
      <4> QED
        BY <2>1, <4>1, <4>2
    <3>4. ASSUME NEW x \in Nat, NEW y \in Nat, x <= y,
                 x > 0 => y <= MaxVolume, y > 0 => MaxVolume < y
          PROVE  x = 0
      BY <1>1, <3>4
    <3>5. v[1] = 0 /\ v[2] = 0 /\ v[3] = 0 /\ v[4] = 0
      BY <1>0, <3>3, <3>4
    <3> QED
      BY <3>1, <3>5
  <2>4. CASE /\ z[1] > 0 => 16 <= theo
             /\ z[2] > 0 => 21 <= theo
             /\ z[3] > 0 => 26 <= theo
             /\ z[4] > 0 => 31 <= theo
    BY <2>4, WholeDepth
  <2>5. CASE \/ z[2] > 0 /\ theo < 21
             \/ z[3] > 0 /\ theo < 26
             \/ z[4] > 0 /\ theo < 31
    <3>1. CASE theo < 21
      <4>1. 100 * MaxVolume <= 83 * q
        BY <1>0, <1>1, <2>1, <2>2, <2>5, <3>1
      <4> QED
        BY <1>1, <2>3, <4>1, LimitedDepth
    <3>2. CASE theo >= 21
      <4>1. 100 * MaxVolume <= 99 * q
        BY <1>0, <1>1, <2>1, <2>2, <2>5, <3>2
      <4> QED
        BY <1>1, <3>2, <4>1, LimitedDepth
    <3> QED
      BY <3>1, <3>2
  <2> QED
    BY <1>0, <2>3, <2>4, <2>5
<1> QED
  BY <1>1, <1>2, <1>3

-----------------------------------------------------------------------------
(***************************************************************************)
(* Sums over at most four orders, one for every level.                     *)
(***************************************************************************)
\* A has at most one element of S, and g is p times f there.
Single(S, f, g, A, p) ==
    /\ IsFiniteSet(S) /\ A \subseteq S /\ p \in Int
    /\ \A x \in S : f[x] \in Int /\ g[x] \in Int
    /\ \A x, y \in A : x = y
    /\ \A x \in A : g[x] = f[x] * p

\* w stands for the element of A in both sums.
Stands(S, f, g, A, p, w) ==
    /\ w \in Int
    /\ w = 0 \/ \E x \in A : w = f[x]
    /\ SumFunctionOnSet(f, S) = w + SumFunctionOnSet(f, S \ A)
    /\ SumFunctionOnSet(g, S) = w * p + SumFunctionOnSet(g, S \ A)

\* It is taken out of both sums.
LEMMA SumSingle ==
  ASSUME NEW S, NEW f, NEW g, NEW A, NEW p, Single(S, f, g, A, p)
  PROVE  \E w : Stands(S, f, g, A, p, w)
<1>0. /\ IsFiniteSet(S) /\ A \subseteq S /\ p \in Int
      /\ \A x \in S : f[x] \in Int
      /\ \A x \in S : g[x] \in Int
      /\ \A x, y \in A : x = y
      /\ \A x \in A : g[x] = f[x] * p
  BY DEF Single
<1>1. SumFunctionOnSet(f, S) \in Int /\ SumFunctionOnSet(g, S) \in Int
  BY <1>0, SumStep
<1>2. CASE A = {}
  <2>1. S \ A = S /\ 0 * p = 0
    BY <1>0, <1>2
  <2>2. /\ SumFunctionOnSet(f, S) = 0 + SumFunctionOnSet(f, S \ A)
        /\ SumFunctionOnSet(g, S) = 0 * p + SumFunctionOnSet(g, S \ A)
    <3>1. PICK T : T = S \ A
      OBVIOUS
    <3>2. T = S
      BY <2>1, <3>1
    <3>3. 0 * p = 0
      BY <1>0
    <3>4. /\ SumFunctionOnSet(f, S) = 0 + SumFunctionOnSet(f, T)
          /\ SumFunctionOnSet(g, S) = 0 + SumFunctionOnSet(g, T)
      BY <1>1, <3>2
    <3> QED
      BY <3>1, <3>3, <3>4
  <2>3. Stands(S, f, g, A, p, 0)
    BY <2>2 DEF Stands
  <2> QED
    BY <2>3
<1>3. CASE A # {}
  <2>1. PICK x : x \in A
    BY <1>3
  <2>2. A = {x} /\ x \in S /\ g[x] = f[x] * p /\ f[x] \in Int
    BY <1>0, <2>1
  <2>3. /\ SumFunctionOnSet(f, S) = f[x] + SumFunctionOnSet(f, S \ {x})
        /\ SumFunctionOnSet(g, S) = g[x] + SumFunctionOnSet(g, S \ {x})
    BY <1>0, <2>2, SumRemove
  <2>4. Stands(S, f, g, A, p, f[x])
    <3>1. S \ A = S \ {x}
      BY <2>2
    <3>2. /\ SumFunctionOnSet(f, S) = f[x] + SumFunctionOnSet(f, S \ A)
          /\ SumFunctionOnSet(g, S) = f[x] * p + SumFunctionOnSet(g, S \ A)
      BY <2>2, <2>3, <3>1
    <3> QED
      BY <2>1, <2>2, <3>2 DEF Stands
  <2> QED
    BY <2>4
<1> QED
  BY <1>2, <1>3

\* Every element of S is in exactly one of four such sets.
Sorted(S, f, g, A, p) ==
    /\ \A i \in 1 .. 4 : Single(S, f, g, A[i], p[i])
    /\ \A x \in S : \E i \in 1 .. 4 : x \in A[i]
    /\ \A i, j \in 1 .. 4 : i # j => A[i] \cap A[j] = {}

LEMMA SumSorted ==
  ASSUME NEW S, NEW f, NEW g, NEW A, NEW p, Sorted(S, f, g, A, p)
  PROVE  \E w \in [1 .. 4 -> Int] :
           /\ \A i \in 1 .. 4 : w[i] = 0 \/ \E x \in A[i] : w[i] = f[x]
           /\ SumFunctionOnSet(f, S) = Four(w)
           /\ SumFunctionOnSet(g, S)
                = w[1] * p[1] + w[2] * p[2] + w[3] * p[3] + w[4] * p[4]
<1>0. /\ \A i \in 1 .. 4 : Single(S, f, g, A[i], p[i])
      /\ \A x \in S : \E i \in 1 .. 4 : x \in A[i]
      /\ \A i, j \in 1 .. 4 : i # j => A[i] \cap A[j] = {}
  BY DEF Sorted
<1> DEFINE S1 == S \ A[1]   S2 == S1 \ A[2]   S3 == S2 \ A[3]   S4 == S3 \ A[4]
<1>1. Single(S, f, g, A[1], p[1])
  BY <1>0
<1>2. IsFiniteSet(S1) /\ IsFiniteSet(S2) /\ IsFiniteSet(S3)
  BY <1>1, FS_Subset DEF Single
<1>3. Single(S1, f, g, A[2], p[2])
  <2>1. Single(S, f, g, A[2], p[2]) /\ A[1] \cap A[2] = {}
    BY <1>0
  <2> QED
    BY <1>2, <2>1 DEF Single
<1>4. Single(S2, f, g, A[3], p[3])
  <2>1. Single(S, f, g, A[3], p[3]) /\ A[1] \cap A[3] = {} /\ A[2] \cap A[3] = {}
    BY <1>0
  <2> QED
    BY <1>2, <2>1 DEF Single
<1>5. Single(S3, f, g, A[4], p[4])
  <2>1. /\ Single(S, f, g, A[4], p[4])
        /\ A[1] \cap A[4] = {} /\ A[2] \cap A[4] = {} /\ A[3] \cap A[4] = {}
    BY <1>0
  <2> QED
    BY <1>2, <2>1 DEF Single
<1>6. S4 = {}
  <2> SUFFICES ASSUME NEW x \in S4 PROVE FALSE
    OBVIOUS
  <2>1. PICK i \in 1 .. 4 : x \in A[i]
    BY <1>0
  <2> QED
    BY <2>1
<1>7. SumFunctionOnSet(f, {}) = 0 /\ SumFunctionOnSet(g, {}) = 0
  <2>1. IsFiniteSet({}) /\ (\A x \in {} : f[x] \in Int) /\ \A x \in {} : g[x] \in Int
    BY FS_EmptySet
  <2> QED
    BY <2>1, SumStep
<1> HIDE DEF S1, S2, S3, S4
<1>8. PICK a : Stands(S, f, g, A[1], p[1], a)
  BY <1>1, SumSingle
<1>9. PICK b : Stands(S1, f, g, A[2], p[2], b)
  BY <1>3, SumSingle
<1>10. PICK c : Stands(S2, f, g, A[3], p[3], c)
  BY <1>4, SumSingle
<1>11. PICK d : Stands(S3, f, g, A[4], p[4], d)
  BY <1>5, SumSingle
<1>12. /\ a \in Int /\ b \in Int /\ c \in Int /\ d \in Int
       /\ a = 0 \/ \E x \in A[1] : a = f[x]
       /\ b = 0 \/ \E x \in A[2] : b = f[x]
       /\ c = 0 \/ \E x \in A[3] : c = f[x]
       /\ d = 0 \/ \E x \in A[4] : d = f[x]
  BY <1>8, <1>9, <1>10, <1>11 DEF Stands
<1>13. /\ SumFunctionOnSet(f, S) = a + b + c + d
       /\ SumFunctionOnSet(g, S) = a * p[1] + b * p[2] + c * p[3] + d * p[4]
  <2>1. /\ SumFunctionOnSet(f, S) = a + SumFunctionOnSet(f, S1)
        /\ SumFunctionOnSet(f, S1) = b + SumFunctionOnSet(f, S2)
        /\ SumFunctionOnSet(f, S2) = c + SumFunctionOnSet(f, S3)
        /\ SumFunctionOnSet(f, S3) = d
        /\ SumFunctionOnSet(g, S) = a * p[1] + SumFunctionOnSet(g, S1)
        /\ SumFunctionOnSet(g, S1) = b * p[2] + SumFunctionOnSet(g, S2)
        /\ SumFunctionOnSet(g, S2) = c * p[3] + SumFunctionOnSet(g, S3)
        /\ SumFunctionOnSet(g, S3) = d * p[4] + 0
    <3>1. /\ SumFunctionOnSet(f, S) = a + SumFunctionOnSet(f, S1)
          /\ SumFunctionOnSet(g, S) = a * p[1] + SumFunctionOnSet(g, S1)
      BY <1>8 DEF Stands, S1
    <3>2. /\ SumFunctionOnSet(f, S1) = b + SumFunctionOnSet(f, S2)
          /\ SumFunctionOnSet(g, S1) = b * p[2] + SumFunctionOnSet(g, S2)
      BY <1>9 DEF Stands, S2
    <3>3. /\ SumFunctionOnSet(f, S2) = c + SumFunctionOnSet(f, S3)
          /\ SumFunctionOnSet(g, S2) = c * p[3] + SumFunctionOnSet(g, S3)
      BY <1>10 DEF Stands, S3
    <3>4. /\ SumFunctionOnSet(f, S3) = d + SumFunctionOnSet(f, S4)
          /\ SumFunctionOnSet(g, S3) = d * p[4] + SumFunctionOnSet(g, S4)
      BY <1>11 DEF Stands, S4
    <3>5. /\ SumFunctionOnSet(f, S3) = d
          /\ SumFunctionOnSet(g, S3) = d * p[4] + 0
      BY <1>6, <1>7, <1>12, <3>4
    <3> QED
      BY <3>1, <3>2, <3>3, <3>5
  <2>2. /\ p[1] \in Int /\ p[2] \in Int /\ p[3] \in Int /\ p[4] \in Int
    BY <1>0 DEF Single
  <2> DEFINE u == a * p[1]   x == b * p[2]   y == c * p[3]   z == d * p[4]
  <2>3. u \in Int /\ x \in Int /\ y \in Int /\ z \in Int
    BY <1>12, <2>2
  <2>4. /\ SumFunctionOnSet(g, S) = u + SumFunctionOnSet(g, S1)
        /\ SumFunctionOnSet(g, S1) = x + SumFunctionOnSet(g, S2)
        /\ SumFunctionOnSet(g, S2) = y + SumFunctionOnSet(g, S3)
        /\ SumFunctionOnSet(g, S3) = z + 0
    BY <2>1
  <2>5. SumFunctionOnSet(f, S) = a + b + c + d
    BY <1>12, <2>1
  <2>6. SumFunctionOnSet(g, S) = u + x + y + z
    <3> HIDE DEF u, x, y, z
    <3> QED
      BY <2>3, <2>4
  <2> QED
    BY <2>5, <2>6
<1> DEFINE w == <<a, b, c, d>>
<1>14. w \in [1 .. 4 -> Int] /\ w[1] = a /\ w[2] = b /\ w[3] = c /\ w[4] = d
  BY <1>12
<1> HIDE DEF w
<1>15. \A i \in 1 .. 4 : w[i] = 0 \/ \E x \in A[i] : w[i] = f[x]
  BY <1>12, <1>14
<1>16. /\ SumFunctionOnSet(f, S) = Four(w)
       /\ SumFunctionOnSet(g, S)
            = w[1] * p[1] + w[2] * p[2] + w[3] * p[3] + w[4] * p[4]
  BY <1>13, <1>14 DEF Four
<1> QED
  BY <1>14, <1>15, <1>16

-----------------------------------------------------------------------------
(***************************************************************************)
(* What the steps of the engine do to the orders that rest, and to the     *)
(* order that is matched.                                                  *)
(***************************************************************************)
\* x is what a step has left of the order o.
Remains(x, o) ==
    /\ x.kind = o.kind /\ x.trader = o.trader /\ x.ticker = o.ticker
    /\ x.side = o.side /\ x.price = o.price /\ x.ioc = o.ioc /\ x.id = o.id
    /\ x.qty <= o.qty

\* Orders leave the book or trade, none comes to it.
Shrinks ==
    /\ DOMAIN book' \subseteq DOMAIN book
    /\ \A n \in DOMAIN book' : Remains(book'[n], book[n])

\* No trader has more at stake than before.
InterestFalls ==
    \A t \in Traders, side \in Sides :
        portfolio'[t].interest[side] <= portfolio[t].interest[side]

\* No order rests at a price below zero: its level would have been refused.
PricesHeld == status = "running" => \A n \in DOMAIN book : book[n].price >= 0

\* A portfolio that is told of a smaller position has less at stake.
LEMMA PositionFalls ==
  ASSUME portfolio \in [Traders -> PortfolioType],
         NEW pf \in [Traders -> PortfolioType], SameOpen(pf),
         NEW o \in OrderType, o.price >= 0, NEW d \in Nat,
         portfolio' = PositionChange(pf, o, -d)
  PROVE  InterestFalls
<1>1. -d \in Int /\ o.price \in Nat
  BY DEF OrderType
<1>2. PICK h \in Nat : h = o.price * d
  BY <1>1
<1>3. HighPrecisionTimes(o.price, -d) = -h
  BY <1>1, <1>2 DEF HighPrecisionTimes
<1> SUFFICES ASSUME NEW t \in Traders, NEW side \in Sides
             PROVE  portfolio'[t].interest[side] <= portfolio[t].interest[side]
  BY DEF InterestFalls
<1>4. portfolio'[t].interest[side]
        = pf[t].interest[side] + (IF o.trader = t /\ o.side = side THEN -h ELSE 0)
  BY <1>1, <1>3, PositionChangeSides
<1>5. pf[t].interest[side] = portfolio[t].interest[side] /\ pf[t].interest[side] \in Int
  BY DEF SameOpen, PortfolioType
<1> QED
  BY <1>4, <1>5

\* An order that is taken out of the book leaves the others as they are.
LEMMA RemoveEffect ==
  ASSUME BookType, portfolio \in [Traders -> PortfolioType],
         NEW pf \in [Traders -> PortfolioType], SameOpen(pf),
         NEW n \in DOMAIN book, book[n].price >= 0, book[n].qty > 0,
         RemoveOrder(n, pf)
  PROVE  Shrinks /\ InterestFalls /\ n \notin DOMAIN book'
<1>1. book' = [m \in DOMAIN book \ {n} |-> book[m]]
  BY DEF RemoveOrder, Erase
<1>2. \A m \in DOMAIN book : book[m].qty \in Int
  BY DEF BookType, OrderType
<1>3. Shrinks /\ n \notin DOMAIN book'
  BY <1>1, <1>2 DEF Shrinks, Remains
<1>4. book[n] \in OrderType /\ book[n].qty \in Nat
  BY <1>2 DEF BookType
<1>5. portfolio' = PositionChange(pf, book[n], -book[n].qty)
  BY DEF RemoveOrder
<1>6. InterestFalls
  BY <1>4, <1>5, PositionFalls
<1> QED
  BY <1>3, <1>6

\* Nor does one that trades.
LEMMA ReduceEffect ==
  ASSUME BookType, portfolio \in [Traders -> PortfolioType],
         NEW pf \in [Traders -> PortfolioType], SameOpen(pf),
         NEW n \in DOMAIN book, book[n].price >= 0, book[n].qty > 0,
         NEW q \in Nat, ReduceOrder(n, q, pf)
  PROVE  Shrinks /\ InterestFalls
<1>0. book[n] \in OrderType /\ \A m \in DOMAIN book : book[m].qty \in Int
  BY DEF BookType, OrderType
<1>1. CASE book[n].qty = q
  BY <1>1, RemoveEffect DEF ReduceOrder
<1>2. CASE book[n].qty # q
  <2> DEFINE rest == [book[n] EXCEPT !.qty = @ - q]
  <2>1. book' = [book EXCEPT ![n] = rest] /\ portfolio' = PositionChange(pf, book[n], -q)
    BY <1>2 DEF ReduceOrder
  <2>2. Remains(rest, book[n])
    BY <1>0 DEF Remains, OrderType
  <2> HIDE DEF rest
  <2>3. Shrinks
    BY <1>0, <2>1, <2>2 DEF Shrinks, Remains
  <2>4. InterestFalls
    BY <1>0, <2>1, PositionFalls
  <2> QED
    BY <2>3, <2>4
<1> QED
  BY <1>1, <1>2

\* A cancel takes out the order it names, if it rests.
LEMMA CancelEffect ==
  ASSUME Inv, PricesHeld, NEW ticker \in Tickers, NEW id \in Nat, Cancel(ticker, id)
  PROVE  /\ Shrinks /\ InterestFalls
         /\ \A n \in DOMAIN book :
              book[n].ticker = ticker /\ book[n].id = id => n \notin DOMAIN book'
<1>1. /\ status = "running" /\ BookType /\ portfolio \in [Traders -> PortfolioType]
      /\ SameOpen(portfolio)
      /\ \A i \in DOMAIN order_map : order_map[i] \in DOMAIN book
      /\ \A n \in DOMAIN book : /\ IdOf(book[n]) \in DOMAIN order_map
                                /\ order_map[IdOf(book[n])] = n
                                /\ book[n].qty > 0 /\ book[n].price >= 0
  BY DEF Cancel, Idle, Inv, TypeInv, TrackerMatchesBook, SameOpen, PricesHeld
<1>2. CASE <<ticker, id>> \in DOMAIN order_map
  <2>1. PICK m \in DOMAIN book : m = order_map[<<ticker, id>>]
    BY <1>1, <1>2
  <2>2. RemoveOrder(m, portfolio)
    BY <1>2, <2>1 DEF Cancel
  <2>3. Shrinks /\ InterestFalls /\ m \notin DOMAIN book'
    BY <1>1, <2>2, RemoveEffect
  <2>4. \A n \in DOMAIN book : book[n].ticker = ticker /\ book[n].id = id => n = m
    BY <1>1, <2>1 DEF IdOf
  <2> QED
    BY <2>3, <2>4
<1>3. CASE <<ticker, id>> \notin DOMAIN order_map
  <2>1. book' = book /\ portfolio' = portfolio
    BY <1>3 DEF Cancel, bookVars
  <2>2. \A n \in DOMAIN book : ~(book[n].ticker = ticker /\ book[n].id = id)
    BY <1>1, <1>3 DEF IdOf
  <2>3. \A m \in DOMAIN book : book[m].qty \in Int
    BY <1>1 DEF BookType, OrderType
  <2>4. \A t \in Traders, side \in Sides : portfolio[t].interest[side] \in Int
    BY <1>1 DEF PortfolioType
  <2> QED
    BY <2>1, <2>2, <2>3, <2>4 DEF Shrinks, Remains, InterestFalls
<1> QED
  BY <1>2, <1>3

\* A match lowers the incoming order, and never that of a buyer who bids less
\* than nothing.
LEMMA MatchEffect ==
  ASSUME Inv, PricesHeld, Match
  PROVE  /\ Shrinks /\ InterestFalls
         /\ incoming' # NoOrder /\ Remains(incoming', incoming)
         /\ incoming.kind = "limit" /\ incoming.side = "buy" => incoming.price >= 0
<1>1. /\ BookType /\ IncomingType /\ TrackerMatchesBook
      /\ portfolio \in [Traders -> PortfolioType]
      /\ incoming # NoOrder /\ incoming.qty > 0
      /\ status = "running" /\ status' = "running"
  BY DEF Inv, TypeInv, IncomingType, NotOverfilled, Match, Matching, OrderType
<1>2. PICK n \in TopOrder(incoming.ticker, Opposite(incoming.side)) :
        LET b == Buyer(book[n])
            s == Seller(book[n])
            price == MatchPrice(b, s)
            quantity == MatchQuantity(b, s)
        IN /\ AttemptMatch(b, s) = "match"
           /\ ReduceOrder(n, quantity, Settle(portfolio, b, s, price, quantity))
           /\ incoming' = [incoming EXCEPT !.qty = @ - quantity]
  BY DEF Match
<1> DEFINE b == Buyer(book[n])
           s == Seller(book[n])
           price == MatchPrice(b, s)
           quantity == MatchQuantity(b, s)
           settled == Settle(portfolio, b, s, price, quantity)
<1>3. /\ n \in DOMAIN book /\ b \in OrderType /\ s \in OrderType
      /\ price \in Int /\ quantity \in Int
  BY <1>1, PairType
<1>4. /\ quantity > 0
      /\ book[n] \in OrderType /\ incoming \in OrderType
      /\ book[n].qty > 0 /\ book[n].price >= 0 /\ book[n].kind = "limit"
  BY <1>1, <1>3 DEF MatchQuantity, Buyer, Seller, OrderType, BookType, IncomingType,
                    TrackerMatchesBook, PricesHeld
<1>5. settled \in [Traders -> PortfolioType] /\ SameOpen(settled)
  BY <1>1, <1>3, SettleType, SettleSides DEF SameOpen
<1>6. /\ ReduceOrder(n, quantity, settled)
      /\ incoming' = [incoming EXCEPT !.qty = @ - quantity]
      /\ AttemptMatch(b, s) = "match"
  BY <1>2
<1>7. incoming.kind = "limit" /\ incoming.side = "buy" => incoming.price >= 0
  <2> SUFFICES ASSUME incoming.kind = "limit", incoming.side = "buy"
               PROVE  incoming.price >= 0
    OBVIOUS
  <2>1. Crosses(incoming, book[n])
    BY <1>6 DEF AttemptMatch, Buyer, Seller
  <2> QED
    BY <1>4, <2>1 DEF Crosses, OrderType
<1> HIDE DEF b, s, price, quantity, settled
<1>8. Shrinks /\ InterestFalls
  BY <1>1, <1>3, <1>4, <1>5, <1>6, ReduceEffect
<1>9. Remains(incoming', incoming) /\ incoming'.kind \in {"limit", "market"}
  BY <1>3, <1>4, <1>6 DEF Remains, OrderType
<1>10. incoming' # NoOrder
  BY <1>9 DEF NoOrder
<1> QED
  BY <1>7, <1>8, <1>9, <1>10

\* A passive order that is removed is one less.
LEMMA RemovePassiveEffect ==
  ASSUME Inv, PricesHeld, RemovePassive
  PROVE  Shrinks /\ InterestFalls
<1>1. /\ BookType /\ IncomingType /\ portfolio \in [Traders -> PortfolioType]
      /\ incoming # NoOrder /\ SameOpen(portfolio)
      /\ \A n \in DOMAIN book : book[n].qty > 0 /\ book[n].price >= 0
  BY DEF Inv, TypeInv, RemovePassive, Matching, TrackerMatchesBook, PricesHeld, SameOpen
<1>2. PICK n \in TopOrder(incoming.ticker, Opposite(incoming.side)) :
        RemoveOrder(n, portfolio)
  BY DEF RemovePassive
<1>3. n \in DOMAIN book
  BY DEF TopOrder, Queue
<1> QED
  BY <1>1, <1>2, <1>3, RemoveEffect

\* An engine that stands still has nothing more at stake.
LEMMA StillEffect ==
  ASSUME Inv, UNCHANGED <<book, portfolio>>
  PROVE  Shrinks /\ InterestFalls
<1>1. \A m \in DOMAIN book : book[m].qty \in Int
  BY DEF Inv, TypeInv, BookType, OrderType
<1>2. \A t \in Traders, side \in Sides : portfolio[t].interest[side] \in Int
  BY DEF Inv, TypeInv, PortfolioType
<1> QED
  BY <1>1, <1>2 DEF Shrinks, Remains, InterestFalls

\* Prices below zero do not come to rest.
LEMMA StepPrices ==
  ASSUME Inv, PricesHeld, Shrinks \/ Rest, status' = "running" => status = "running"
  PROVE  PricesHeld'
<1> SUFFICES ASSUME status' = "running", NEW n \in DOMAIN book'
             PROVE  book'[n].price >= 0
  BY DEF PricesHeld
<1>1. \A m \in DOMAIN book : book[m].price >= 0
  BY DEF PricesHeld
<1>2. CASE Shrinks
  BY <1>1, <1>2 DEF Shrinks, Remains
<1>3. CASE Rest
  <2>1. book' = Put(book, arrivals + 1, incoming) /\ incoming # NoOrder
        /\ (incoming.price < 0 => status' = "terminated")
    BY <1>3 DEF Rest, AddOrder, Matching
  <2>2. incoming \in OrderType
    BY <2>1 DEF Inv, TypeInv, IncomingType
  <2>3. incoming.price >= 0
    BY <2>1, <2>2 DEF OrderType
  <2> QED
    BY <1>1, <2>1, <2>3 DEF Put
<1> QED
  BY <1>2, <1>3

-----------------------------------------------------------------------------
(***************************************************************************)
(* The messages of the bots.  A batch is what a market maker quotes in one *)
(* tick; its k-th quote is the k-th in the queue, the buys before the      *)
(* sells and each from the best price outward.                             *)
(***************************************************************************)
CancelType == [kind : {"cancel"}, ticker : Tickers, id : Nat]
Message == CancelType \cup {o \in OrderType : LevelOf(o) \in Levels}

Rank(k) == IF k <= 4 THEN k ELSE k - 4
SideAt(k) == IF k <= 4 THEN "buy" ELSE "sell"
PriceAt(theo, k) == QuotePrice(SideAt(k), theo, PriceLevels[Rank(k)])

QuoteAt(b, theo, q, first, k) ==
    [kind |-> "limit", trader |-> b, ticker |-> TickerOf[b], side |-> SideAt(k),
     price |-> PriceAt(theo, k), qty |-> Depths(q)[Rank(k)],
     ts |-> 0, ioc |-> FALSE, id |-> BotId(first + k)]

\* The decimals of a bot are integers.
LEMMA DecimalInt ==
  ASSUME NEW a \in Int, NEW b \in Int
  PROVE  /\ Times(a, b) \in Int
         /\ Narrow(a) \in Int
         /\ b # 0 => Divide(a, b) \in Int
<1>1. \A x \in Int, d \in Int : d > 0 => Quotient(x, d) \in Int
  BY DEF Quotient
<1>2. Times(a, b) \in Int
  <2>1. a * b \in Int
    OBVIOUS
  <2> QED
    BY <1>1, <2>1 DEF Times, Multiplier
<1>3. Narrow(a) \in Int
  BY <1>1 DEF Narrow, Multiplier
<1>4. CASE b > 0
  BY <1>1, <1>2, <1>3, <1>4 DEF Divide, Multiplier
<1>5. CASE b < 0
  BY <1>1, <1>2, <1>3, <1>5 DEF Divide, Multiplier
<1> QED
  BY <1>2, <1>3, <1>4, <1>5

\* A leveraged trader is one of the traders, with capital of its own.
LEMMA BotFacts ==
  /\ \A b \in Leveraged : /\ b \in Traders /\ TickerOf[b] \in Tickers
                          /\ InitialCapital[b] \in Nat /\ InitialCapital[b] > 0
  /\ MarketMakers \subseteq Leveraged
  /\ \A theo \in Theos : theo \in Int /\ theo # 0
BY BotsAssumption, LeveragedAssumption, CapitalAssumption

LEMMA ToleranceInt ==
  ASSUME portfolio \in [Traders -> PortfolioType], NEW b \in Leveraged
  PROVE  Tolerance(b) \in Int
<1>1. /\ portfolio[b].interest["buy"] \in Int /\ portfolio[b].interest["sell"] \in Int
      /\ InitialCapital[b] \in Int /\ InitialCapital[b] # 0
  <2>1. b \in Traders /\ InitialCapital[b] \in Nat /\ InitialCapital[b] > 0
    BY BotFacts
  <2>2. portfolio[b] \in PortfolioType
    BY <2>1
  <2> QED
    BY <2>1, <2>2 DEF PortfolioType, Sides
<1>2. Narrow(portfolio[b].interest["buy"]) + Narrow(portfolio[b].interest["sell"]) \in Int
  <2>1. /\ Narrow(portfolio[b].interest["buy"]) \in Int
        /\ Narrow(portfolio[b].interest["sell"]) \in Int
    BY <1>1, DecimalInt
  <2> QED
    BY <2>1
<1>3. Utilization(b) \in Int
  BY <1>1, <1>2, DecimalInt DEF Utilization
<1>4. One - Utilization(b) \in Int
  BY <1>3 DEF One, Multiplier
<1> QED
  BY <1>1, <1>4, DecimalInt DEF Tolerance

LEMMA QuoteQuantityInt ==
  ASSUME portfolio \in [Traders -> PortfolioType], NEW b \in Leveraged, NEW theo \in Theos
  PROVE  QuoteQuantity(b, theo) \in Int
<1>1. Tolerance(b) \in Int /\ theo \in Int /\ theo # 0
  BY ToleranceInt, BotFacts
<1>2. Divide(Tolerance(b), theo) \in Int /\ 4 * One \in Int /\ 4 * One # 0
  BY <1>1, DecimalInt DEF One, Multiplier
<1> QED
  BY <1>2, DecimalInt DEF QuoteQuantity

\* A quote is a message the engine can take.
LEMMA QuoteAtType ==
  ASSUME NEW b \in MarketMakers, NEW theo \in Theos, NEW q \in Int,
         NEW first \in Nat, NEW k \in 1 .. 8
  PROVE  QuoteAt(b, theo, q, first, k) \in Message
<1>1. /\ b \in Traders /\ TickerOf[b] \in Tickers /\ theo \in Int
      /\ Rank(k) \in 1 .. 4 /\ SideAt(k) \in Sides
  BY BotFacts DEF Rank, SideAt, Sides
<1>2. /\ Depths(q)[Rank(k)] \in Int
      /\ PriceLevels[Rank(k)].delta \in Int /\ Rank(k) \in DOMAIN PriceLevels
  <2>1. PICK r \in 1 .. 4 : r = Rank(k)
    BY <1>1
  <2>2. Depths(q)[r] \in Int
    BY DepthsPortions
  <2>3. PriceLevels[r].delta \in Int /\ r \in DOMAIN PriceLevels
    <3>1. r = 1 \/ r = 2 \/ r = 3 \/ r = 4
      OBVIOUS
    <3> QED
      BY <3>1, LevelFacts
  <2> QED
    BY <2>1, <2>2, <2>3
<1>3. PriceAt(theo, k) \in Int
  BY <1>1, <1>2 DEF PriceAt, QuotePrice
<1>4. <<TickerOf[b], SideAt(k), PriceAt(theo, k)>> \in Levels
  BY <1>1, <1>2, LevelsAssumption DEF PriceAt
<1>5. BotId(first + k) \in Nat
  BY DEF BotId
<1> DEFINE o == QuoteAt(b, theo, q, first, k)
<1>6. o \in OrderType
  BY <1>1, <1>2, <1>3, <1>5 DEF QuoteAt, OrderType
<1>7. LevelOf(o) = <<TickerOf[b], SideAt(k), PriceAt(theo, k)>>
  BY DEF QuoteAt, LevelOf
<1> QED
  BY <1>4, <1>6, <1>7 DEF Message

\* A place in a queue of l messages, c cancels and eight quotes is in one of these.
LEMMA Places ==
  ASSUME NEW l \in Nat, NEW c \in Nat, NEW i \in 1 .. l + c + 8
  PROVE  /\ i <= l => i \in 1 .. l
         /\ i > l /\ i <= l + c => /\ i - l \in 1 .. c /\ l + (i - l) = i
                                 /\ i \notin 1 .. l
         /\ i > l + c => /\ i - (l + c) \in 1 .. 8 /\ l + c + (i - (l + c)) = i
                        /\ i + (-(l + c)) = i - (l + c) /\ i \notin 1 .. l
         /\ i <= l \/ (i > l /\ i <= l + c) \/ i > l + c
OBVIOUS

\* What place_orders_ makes of the two sides.
LEMMA QuotesAre ==
  ASSUME NEW b \in MarketMakers, NEW theo \in Theos, QuoteQuantity(b, theo) \in Int,
         NEW first \in Nat
  PROVE  LET q == QuoteQuantity(b, theo)
             buys == Quotes(b, "buy", theo, first)
             sells == Quotes(b, "sell", theo, first + Len(buys))
             quotes == buys \o sells
         IN /\ Len(buys) = 4 /\ Len(quotes) = 8 /\ quotes \in Seq(Message)
            /\ \A k \in 1 .. 8 : quotes[k] = QuoteAt(b, theo, q, first, k)
<1> DEFINE q == QuoteQuantity(b, theo)
           buys == Quotes(b, "buy", theo, first)
           sells == Quotes(b, "sell", theo, first + 4)
           quotes == buys \o sells
<1>1. ASSUME NEW i \in 1 .. 4
      PROVE  /\ buys[i] = QuoteAt(b, theo, q, first, i)
             /\ sells[i] = QuoteAt(b, theo, q, first, 4 + i)
  <2>1. /\ Rank(i) = i /\ Rank(4 + i) = i
        /\ SideAt(i) = "buy" /\ SideAt(4 + i) = "sell"
        /\ first + 4 + i = first + (4 + i)
    BY DEF Rank, SideAt
  <2>2. Depths(q)[i] = Times(QuoteQuantity(b, theo), PriceLevels[i].factor)
    BY DEF Depths
  <2>3. i \in DOMAIN PriceLevels
    BY LevelFacts
  <2> QED
    BY <2>1, <2>2, <2>3 DEF Quotes, QuoteAt, PriceAt
<1>2. DOMAIN buys = 1 .. 4 /\ DOMAIN sells = 1 .. 4
  BY LevelFacts DEF Quotes
<1>3. \A i \in 1 .. 4 : buys[i] \in Message /\ sells[i] \in Message
  <2> SUFFICES ASSUME NEW i \in 1 .. 4 PROVE buys[i] \in Message /\ sells[i] \in Message
    OBVIOUS
  <2>1. i \in 1 .. 8 /\ 4 + i \in 1 .. 8
    OBVIOUS
  <2> HIDE DEF buys, sells
  <2> QED
    BY <1>1, <2>1, QuoteAtType
<1>4. /\ buys = [i \in 1 .. 4 |-> buys[i]]
      /\ sells = [i \in 1 .. 4 |-> sells[i]]
  BY <1>2 DEF Quotes
<1> HIDE DEF buys, sells
<1>5. /\ buys \in Seq(Message) /\ Len(buys) = 4
      /\ sells \in Seq(Message) /\ Len(sells) = 4
  <2>1. buys \in [1 .. 4 -> Message] /\ sells \in [1 .. 4 -> Message]
    BY <1>3, <1>4
  <2>2. buys \in Seq(Message) /\ sells \in Seq(Message)
    <3>1. 4 \in Nat /\ Seq(Message) = UNION {[1 .. n -> Message] : n \in Nat}
      BY SeqDef
    <3> QED
      BY <2>1, <3>1
  <2>3. /\ DOMAIN buys = 1 .. Len(buys) /\ Len(buys) \in Nat
        /\ DOMAIN sells = 1 .. Len(sells) /\ Len(sells) \in Nat
    BY <2>2, LenProperties
  <2> QED
    BY <1>2, <2>2, <2>3
<1>6. /\ quotes \in Seq(Message) /\ Len(quotes) = 8
      /\ \A k \in 1 .. 8 : quotes[k] = IF k <= 4 THEN buys[k] ELSE sells[k - 4]
  <2>1. /\ quotes \in Seq(Message)
        /\ Len(quotes) = Len(buys) + Len(sells)
        /\ \A i \in 1 .. Len(buys) + Len(sells) :
             quotes[i] = IF i <= Len(buys) THEN buys[i] ELSE sells[i - Len(buys)]
    BY <1>5, ConcatProperties
  <2> HIDE DEF quotes
  <2> QED
    BY <1>5, <2>1
<1>7. \A k \in 1 .. 8 : quotes[k] = QuoteAt(b, theo, q, first, k)
  <2> SUFFICES ASSUME NEW k \in 1 .. 8 PROVE quotes[k] = QuoteAt(b, theo, q, first, k)
    OBVIOUS
  <2> HIDE DEF quotes
  <2>1. CASE k <= 4
    BY <1>1, <1>6, <2>1
  <2>2. CASE k > 4
    <3>1. k - 4 \in 1 .. 4 /\ 4 + (k - 4) = k
      BY <2>2
    <3> QED
      BY <1>1, <1>6, <2>2, <3>1
  <2> QED
    BY <2>1, <2>2
<1> QED
  BY <1>5, <1>6, <1>7 DEF buys, sells

-----------------------------------------------------------------------------
(***************************************************************************)
(* Control and types: what a phase allows, and what the engine may be      *)
(* given to do.                                                            *)
(***************************************************************************)
ControlInv ==
    /\ phase \in {"waiting", "acting", "matching"}
    /\ acting \in Seq(Leveraged) /\ IsInjective(acting)
    /\ phase = "acting" => acting # <<>>
    /\ phase = "waiting" => queue = <<>>
    /\ phase # "matching" => incoming = NoOrder /\ status = "running"
    /\ queue \in Seq(Message)
    /\ open_orders \in [MarketMakers -> Seq(Nat)]
    /\ count \in Nat /\ placed \in Nat

CancelOf(b, id) == [kind |-> "cancel", ticker |-> TickerOf[b], id |-> id]

\* A market maker's turn: behind the l messages of the queue it puts the cancels
\* of its c open orders, and behind those a batch at theo.
Requotes(b, theo, q, l, c) ==
    /\ queue' \in Seq(Message) /\ Len(queue') = l + c + 8
    /\ \A i \in 1 .. l : queue'[i] = queue[i]
    /\ \A i \in 1 .. c : queue'[l + i] = CancelOf(b, open_orders[b][i])
    /\ \A k \in 1 .. 8 : queue'[l + c + k] = QuoteAt(b, theo, q, count, k)
    /\ open_orders' = [open_orders EXCEPT ![b] = [k \in 1 .. 8 |-> BotId(count + k)]]
    /\ count' = count + 8

\* Three sequences in a row.
LEMMA ConcatThree ==
  ASSUME NEW S, NEW a \in Seq(S), NEW b \in Seq(S), NEW c \in Seq(S),
         NEW s, s = a \o b \o c
  PROVE  /\ s \in Seq(S) /\ Len(s) = Len(a) + Len(b) + Len(c)
         /\ \A i \in 1 .. Len(a) : s[i] = a[i]
         /\ \A i \in 1 .. Len(b) : s[Len(a) + i] = b[i]
         /\ \A i \in 1 .. Len(c) : s[Len(a) + Len(b) + i] = c[i]
<1>1. PICK d \in Seq(S) : d = a \o b
  BY ConcatProperties
<1>2. /\ Len(d) = Len(a) + Len(b)
      /\ \A i \in 1 .. Len(a) + Len(b) : d[i] = IF i <= Len(a) THEN a[i] ELSE b[i - Len(a)]
  BY <1>1, ConcatProperties
<1>3. /\ s \in Seq(S) /\ Len(s) = Len(d) + Len(c)
      /\ \A i \in 1 .. Len(d) + Len(c) : s[i] = IF i <= Len(d) THEN d[i] ELSE c[i - Len(d)]
  <2>1. s = d \o c
    BY <1>1
  <2> QED
    BY <2>1, ConcatProperties
<1>4. PICK l \in Nat, m \in Nat, n \in Nat : l = Len(a) /\ m = Len(b) /\ n = Len(c)
  BY LenProperties
<1>5. \A i \in 1 .. l : s[i] = a[i]
  BY <1>2, <1>3, <1>4
<1>6. ASSUME NEW i \in 1 .. m PROVE s[l + i] = b[i]
  <2>1. l + i \in 1 .. l + m /\ l + i \in 1 .. l + m + n /\ ~(l + i <= l) /\ (l + i) - l = i
    BY <1>4
  <2> QED
    BY <1>2, <1>3, <1>4, <2>1
<1>7. ASSUME NEW i \in 1 .. n PROVE s[l + m + i] = c[i]
  <2>1. l + m + i \in 1 .. l + m + n /\ ~(l + m + i <= l + m) /\ (l + m + i) - (l + m) = i
    BY <1>4
  <2> QED
    BY <1>2, <1>3, <1>4, <2>1
<1> QED
  BY <1>2, <1>3, <1>4, <1>5, <1>6, <1>7

LEMMA QuoteAnewEffect ==
  ASSUME ControlInv, portfolio \in [Traders -> PortfolioType],
         NEW b \in MarketMakers, QuoteAnew(b)
  PROVE  \E theo \in Theos :
            Requotes(b, theo, QuoteQuantity(b, theo), Len(queue), Len(open_orders[b]))
<1>0. /\ queue \in Seq(Message) /\ open_orders[b] \in Seq(Nat) /\ count \in Nat
      /\ b \in Leveraged /\ TickerOf[b] \in Tickers
  BY BotFacts DEF ControlInv
<1>1. PICK theo \in Theos :
        LET buys   == Quotes(b, "buy", theo, count)
            sells  == Quotes(b, "sell", theo, count + Len(buys))
            quotes == buys \o sells
        IN /\ queue' = queue \o Cancels(b) \o quotes
           /\ open_orders' = [open_orders EXCEPT ![b] =
                                [i \in DOMAIN quotes |-> quotes[i].id]]
           /\ count' = count + Len(quotes)
  BY DEF QuoteAnew
<1> DEFINE q == QuoteQuantity(b, theo)
           buys   == Quotes(b, "buy", theo, count)
           sells  == Quotes(b, "sell", theo, count + Len(buys))
           quotes == buys \o sells
           cancels == Cancels(b)
           l == Len(queue)
           c == Len(open_orders[b])
<1>2. q \in Int
  BY <1>0, QuoteQuantityInt
<1>3. /\ Len(quotes) = 8 /\ quotes \in Seq(Message)
      /\ \A k \in 1 .. 8 : quotes[k] = QuoteAt(b, theo, q, count, k)
  BY <1>0, <1>2, QuotesAre
<1>4. /\ queue' = queue \o cancels \o quotes
      /\ open_orders' = [open_orders EXCEPT ![b] = [i \in DOMAIN quotes |-> quotes[i].id]]
      /\ count' = count + Len(quotes)
  BY <1>1
<1>5. /\ l \in Nat /\ c \in Nat /\ DOMAIN open_orders[b] = 1 .. c
      /\ \A i \in 1 .. c : open_orders[b][i] \in Nat
  BY <1>0, LenProperties
<1>6. /\ cancels = [i \in 1 .. c |-> CancelOf(b, open_orders[b][i])]
      /\ cancels \in Seq(Message) /\ Len(cancels) = c
  <2>1. cancels = [i \in 1 .. c |-> CancelOf(b, open_orders[b][i])]
    BY <1>5 DEF Cancels, CancelOf
  <2>2. \A i \in 1 .. c : CancelOf(b, open_orders[b][i]) \in Message
    BY <1>0, <1>5 DEF CancelOf, Message, CancelType
  <2> HIDE DEF cancels, c
  <2>3. cancels \in [1 .. c -> Message] /\ DOMAIN cancels = 1 .. c
    BY <2>1, <2>2
  <2>4. cancels \in Seq(Message)
    <3>1. Seq(Message) = UNION {[1 .. n -> Message] : n \in Nat}
      BY SeqDef
    <3> QED
      BY <1>5, <2>3, <3>1
  <2>5. DOMAIN cancels = 1 .. Len(cancels) /\ Len(cancels) \in Nat
    BY <2>4, LenProperties
  <2>6. Len(cancels) = c
    BY <1>5, <2>3, <2>5
  <2> QED
    BY <2>1, <2>4, <2>6
<1> HIDE DEF q, quotes, cancels, l, c
<1>7. \A i \in 1 .. c : cancels[i] = CancelOf(b, open_orders[b][i])
  BY <1>6
<1>8. /\ queue' \in Seq(Message)
      /\ Len(queue') = Len(queue) + Len(cancels) + Len(quotes)
      /\ \A i \in 1 .. Len(queue) : queue'[i] = queue[i]
      /\ \A i \in 1 .. Len(cancels) : queue'[Len(queue) + i] = cancels[i]
      /\ \A i \in 1 .. Len(quotes) : queue'[Len(queue) + Len(cancels) + i] = quotes[i]
  <2>1. PICK before \in Seq(Message) : before = queue
    BY <1>0
  <2>2. PICK after : after = queue'
    OBVIOUS
  <2>3. PICK x \in Seq(Message), y \in Seq(Message) : x = cancels /\ y = quotes
    BY <1>3, <1>6
  <2>4. after = before \o x \o y
    BY <1>4, <2>1, <2>2, <2>3
  <2>5. /\ after \in Seq(Message) /\ Len(after) = Len(before) + Len(x) + Len(y)
        /\ \A i \in 1 .. Len(before) : after[i] = before[i]
        /\ \A i \in 1 .. Len(x) : after[Len(before) + i] = x[i]
        /\ \A i \in 1 .. Len(y) : after[Len(before) + Len(x) + i] = y[i]
    BY <2>4, ConcatThree
  <2> QED
    BY <2>1, <2>2, <2>3, <2>5
<1>9. Len(queue) = l /\ Len(cancels) = c /\ Len(quotes) = 8
  BY <1>3, <1>6 DEF l
<1>10. /\ queue' \in Seq(Message) /\ Len(queue') = l + c + 8
       /\ \A i \in 1 .. l : queue'[i] = queue[i]
       /\ \A i \in 1 .. c : queue'[l + i] = cancels[i]
       /\ \A k \in 1 .. 8 : queue'[l + c + k] = quotes[k]
  BY <1>8, <1>9
<1>14. [i \in DOMAIN quotes |-> quotes[i].id] = [k \in 1 .. 8 |-> BotId(count + k)]
  <2>1. DOMAIN quotes = 1 .. 8
    BY <1>3, LenProperties
  <2>2. \A k \in 1 .. 8 : quotes[k].id = BotId(count + k)
    BY <1>3 DEF QuoteAt
  <2> QED
    BY <2>1, <2>2
<1>15. Requotes(b, theo, q, l, c)
  BY <1>3, <1>4, <1>7, <1>10, <1>14 DEF Requotes
<1> QED
  BY <1>15 DEF q, l, c

\* A retail bot's order is one the engine can take, and is not a market maker's.
Retails(b) ==
    \E m \in Message :
        /\ m.kind = "market" /\ m.trader = b /\ m.price = 0
        /\ queue' = Append(queue, m)
        /\ UNCHANGED <<open_orders, count>>

LEMMA TradeAtMarketEffect ==
  ASSUME portfolio \in [Traders -> PortfolioType], NEW b \in Leveraged, TradeAtMarket(b)
  PROVE  Retails(b)
<1> DEFINE mid == Midprice(TickerOf[b])
<1>1. PICK theo \in Theos :
        queue' = Append(queue,
                [kind |-> "market", trader |-> b, ticker |-> TickerOf[b],
                 side |-> IF mid < theo THEN "buy" ELSE "sell", price |-> 0,
                 qty |-> Times(Divide(Tolerance(b), theo), 5),
                 ts |-> 0, ioc |-> FALSE, id |-> 0])
  BY DEF TradeAtMarket
<1>2. UNCHANGED <<open_orders, count>>
  BY DEF TradeAtMarket
<1>3. PICK qty \in Int : qty = Times(Divide(Tolerance(b), theo), 5)
  <2>1. Tolerance(b) \in Int /\ theo \in Int /\ theo # 0
    BY ToleranceInt, BotFacts
  <2>2. Divide(Tolerance(b), theo) \in Int
    BY <2>1, DecimalInt
  <2>3. Times(Divide(Tolerance(b), theo), 5) \in Int
    BY <2>2, DecimalInt
  <2> QED
    BY <2>3
<1>4. PICK side \in Sides : side = IF mid < theo THEN "buy" ELSE "sell"
  BY DEF Sides
<1> DEFINE m == [kind |-> "market", trader |-> b, ticker |-> TickerOf[b],
                 side |-> side, price |-> 0, qty |-> qty,
                 ts |-> 0, ioc |-> FALSE, id |-> 0]
<1>5. m \in OrderType
  BY <1>3, BotFacts DEF OrderType
<1>6. LevelOf(m) \in Levels
  <2>1. <<TickerOf[b], side, 0>> \in Levels
    BY LevelsAssumption
  <2> QED
    BY <2>1 DEF LevelOf
<1>7. queue' = Append(queue, m) /\ m.kind = "market" /\ m.trader = b /\ m.price = 0
  BY <1>1, <1>3, <1>4
<1> HIDE DEF m
<1> QED
  BY <1>2, <1>5, <1>6, <1>7 DEF Retails, Message

\* What the handling of a message leaves in the queue.
LEMMA QueueTail ==
  ASSUME queue \in Seq(Message), queue # <<>>, queue' = Tail(queue)
  PROVE  /\ Head(queue) \in Message /\ Head(queue) = queue[1]
         /\ queue' \in Seq(Message)
         /\ Len(queue) \in Nat /\ Len(queue) > 0 /\ Len(queue') = Len(queue) - 1
         /\ DOMAIN queue = 1 .. Len(queue) /\ DOMAIN queue' = 1 .. Len(queue')
         /\ \A i \in 1 .. Len(queue') : queue'[i] = queue[i + 1]
<1>1. PICK q \in Seq(Message) : q = queue
  OBVIOUS
<1>2. q # <<>>
  BY <1>1
<1>3. /\ Head(q) \in Message /\ Tail(q) \in Seq(Message)
      /\ Len(Tail(q)) = Len(q) - 1
      /\ \A i \in 1 .. Len(Tail(q)) : Tail(q)[i] = q[i + 1]
  BY <1>2, HeadTailProperties
<1>4. Head(q) = q[1]
  BY <1>2
<1>5. Len(q) \in Nat /\ DOMAIN q = 1 .. Len(q) /\ Len(q) > 0
  BY <1>2, LenProperties, EmptySeq
<1>6. DOMAIN Tail(q) = 1 .. Len(Tail(q))
  BY <1>3, LenProperties
<1> QED
  BY <1>1, <1>3, <1>4, <1>5, <1>6

\* A message that is not a cancel is an order.
LEMMA MessageKinds ==
  ASSUME NEW m \in Message
  PROVE  /\ m.kind = "cancel" => m.ticker \in Tickers /\ m.id \in Nat
         /\ m.kind # "cancel" => m \in OrderType /\ LevelOf(m) \in Levels
<1>1. CASE m \in CancelType
  BY <1>1 DEF CancelType
<1>2. CASE m \in OrderType /\ LevelOf(m) \in Levels
  BY <1>2 DEF OrderType
<1> QED
  BY <1>1, <1>2 DEF Message

\* The stamp is all that an order gets on its way.
LEMMA StampedOrder ==
  ASSUME NEW o \in OrderType, submitted \in Nat
  PROVE  /\ Stamped(o) \in OrderType /\ LevelOf(Stamped(o)) = LevelOf(o)
         /\ Remains(Stamped(o), o) /\ Stamped(o).qty = o.qty
<1>1. Stamped(o) \in OrderType
  BY DEF Stamped, OrderType
<1>2. /\ Stamped(o).kind = o.kind /\ Stamped(o).trader = o.trader
      /\ Stamped(o).ticker = o.ticker /\ Stamped(o).side = o.side
      /\ Stamped(o).price = o.price /\ Stamped(o).qty = o.qty
      /\ Stamped(o).ioc = o.ioc /\ Stamped(o).id = o.id /\ o.qty \in Int
  BY DEF Stamped, OrderType
<1>3. Remains(Stamped(o), o)
  BY <1>2 DEF Remains
<1>4. LevelOf(Stamped(o)) = LevelOf(o)
  BY <1>2 DEF LevelOf
<1> QED
  BY <1>1, <1>2, <1>3, <1>4

\* An algorithm's order with the id and the stamp it gets.
LEMMA AlgoOrder ==
  ASSUME NEW o \in Orders, submitted \in Nat, placed \in Nat
  PROVE  LET order == [Stamped(o) EXCEPT !.id = AlgoId(placed)]
         IN order \in OrderType /\ LevelOf(order) \in Levels /\ order.trader = o.trader
<1> DEFINE order == [Stamped(o) EXCEPT !.id = AlgoId(placed)]
<1>1. o \in OrderType /\ LevelOf(o) \in Levels
  BY OrdersAssumption DEF OrderType, LevelOf, Levels
<1>2. Stamped(o) \in OrderType /\ LevelOf(Stamped(o)) \in Levels
  BY <1>1, StampedOrder
<1>3. Stamped(o).trader = o.trader
  BY <1>1 DEF Stamped, OrderType
<1>4. AlgoId(placed) \in Nat
  BY DEF AlgoId
<1>5. PICK p : p = Stamped(o)
  OBVIOUS
<1>6. order = [p EXCEPT !.id = AlgoId(placed)] /\ p \in OrderType
  BY <1>2, <1>5
<1>7. order \in OrderType /\ LevelOf(order) = LevelOf(p) /\ order.trader = p.trader
  BY <1>4, <1>6 DEF OrderType, LevelOf
<1> QED
  BY <1>2, <1>3, <1>5, <1>7

\* Whatever the main thread does is a step of the engine, or none of its business.
LEMMA BotsStepIsEngineStep ==
  ASSUME TypeInv, ControlInv, [BotsNext]_allVars
  PROVE  EngineStep
<1>0. submitted \in Nat /\ placed \in Nat /\ queue \in Seq(Message)
  BY DEF TypeInv, ControlInv
<1>1. CASE Handle
  <2>1. PICK m \in Message : m = Head(queue)
    BY <1>0, <1>1, QueueTail DEF Handle
  <2>2. IF m.kind = "cancel" THEN Cancel(m.ticker, m.id)
        ELSE Accept(Stamped(m)) \/ Drop(Stamped(m))
    BY <1>1, <2>1 DEF Handle
  <2>3. CASE m.kind = "cancel"
    BY <2>2, <2>3, MessageKinds DEF EngineStep
  <2>4. CASE m.kind # "cancel"
    <3>1. m \in OrderType /\ LevelOf(m) \in Levels
      BY <2>4, MessageKinds
    <3>2. PICK o \in OrderType : o = Stamped(m) /\ LevelOf(o) \in Levels
      BY <1>0, <3>1, StampedOrder
    <3>3. Accept(o) \/ Drop(o)
      BY <2>2, <2>4, <3>2
    <3> QED
      BY <3>2, <3>3 DEF EngineStep, TakeIn
  <2> QED
    BY <2>3, <2>4
<1>2. CASE HandleAlgo
  <2>1. PICK o \in Orders : LET order == [Stamped(o) EXCEPT !.id = AlgoId(placed)]
                            IN Accept(order) \/ Drop(order)
    BY <1>2 DEF HandleAlgo
  <2>2. PICK order \in OrderType :
          order = [Stamped(o) EXCEPT !.id = AlgoId(placed)] /\ LevelOf(order) \in Levels
    BY <1>0, AlgoOrder
  <2>3. Accept(order) \/ Drop(order)
    BY <2>1, <2>2
  <2> QED
    BY <2>2, <2>3 DEF EngineStep, TakeIn
<1>3. CASE Step \/ EndTick
  BY <1>3 DEF Step, EndTick, EngineStep
<1>4. CASE StartTick \/ Act \/ Over \/ UNCHANGED allVars
  BY <1>4 DEF StartTick, Act, Over, allVars, EngineStep
<1> QED
  BY <1>1, <1>2, <1>3, <1>4 DEF BotsNext

\* The turn of the bot that acts.
Requoted(b) ==
    \E theo \in Theos :
        Requotes(b, theo, QuoteQuantity(b, theo), Len(queue), Len(open_orders[b]))

BotActs(b) ==
    \/ b \in MarketMakers /\ Requoted(b)
    \/ b \notin MarketMakers /\ Retails(b)
    \/ b \notin MarketMakers /\ UNCHANGED <<queue, open_orders, count>>

LEMMA ActEffect ==
  ASSUME TypeInv, ControlInv, Act
  PROVE  /\ acting # <<>> /\ Head(acting) \in Leveraged /\ BotActs(Head(acting))
<1>1. acting \in Seq(Leveraged) /\ acting # <<>>
  BY DEF ControlInv, Act
<1>2. PICK b \in Leveraged : b = Head(acting)
  BY <1>1, HeadTailProperties
<1>3. IF b \in MarketMakers THEN QuoteAnew(b)
      ELSE TradeAtMarket(b) \/ UNCHANGED <<queue, open_orders, count>>
  BY <1>2 DEF Act
<1>4. portfolio \in [Traders -> PortfolioType]
  BY DEF TypeInv
<1>5. BotActs(b)
  <2>1. CASE b \in MarketMakers
    BY <1>3, <1>4, <2>1, QuoteAnewEffect DEF BotActs, Requoted
  <2>2. CASE b \notin MarketMakers
    BY <1>3, <1>4, <2>2, TradeAtMarketEffect DEF BotActs
  <2> QED
    BY <2>1, <2>2
<1> QED
  BY <1>1, <1>2, <1>5

\* A message more in the queue, and nothing else there.
LEMMA QueueAppend ==
  ASSUME queue \in Seq(Message), NEW m \in Message, queue' = Append(queue, m)
  PROVE  /\ queue' \in Seq(Message) /\ Len(queue) \in Nat /\ Len(queue') = Len(queue) + 1
         /\ DOMAIN queue = 1 .. Len(queue) /\ DOMAIN queue' = 1 .. Len(queue')
         /\ \A i \in DOMAIN queue : queue'[i] = queue[i]
         /\ queue'[Len(queue) + 1] = m
<1>1. PICK q \in Seq(Message) : q = queue
  OBVIOUS
<1>2. /\ Append(q, m) \in Seq(Message) /\ Len(Append(q, m)) = Len(q) + 1
      /\ \A i \in 1 .. Len(q) : Append(q, m)[i] = q[i]
      /\ Append(q, m)[Len(q) + 1] = m
  BY AppendProperties
<1>3. Len(q) \in Nat /\ DOMAIN q = 1 .. Len(q)
  BY LenProperties
<1>4. DOMAIN Append(q, m) = 1 .. Len(Append(q, m))
  BY <1>2, LenProperties
<1> QED
  BY <1>1, <1>2, <1>3, <1>4

LEMMA InitControl == BotsInit => ControlInv
<1> SUFFICES ASSUME BotsInit PROVE ControlInv
  OBVIOUS
<1>1. <<>> \in Seq(Leveraged) /\ <<>> \in Seq(Message) /\ <<>> \in Seq(Nat)
  BY EmptySeq
<1>2. IsInjective(acting)
  BY DEF BotsInit, IsInjective
<1> QED
  BY <1>1, <1>2 DEF BotsInit, Init, ControlInv

LEMMA StepControl ==
  ASSUME TypeInv, ControlInv, [BotsNext]_allVars
  PROVE  ControlInv'
<1>1. CASE StartTick
  <2>1. Bots \in Seq(Leveraged) /\ Bots # <<>> /\ IsInjective(Bots)
    BY BotsAssumption
  <2>2. IsInjective(acting)'
    BY <1>1, <2>1 DEF StartTick, IsInjective
  <2> QED
    BY <1>1, <2>1, <2>2 DEF StartTick, ControlInv, vars
<1>2. CASE Act
  <2>1. PICK b \in Leveraged : b = Head(acting) /\ BotActs(b)
    BY <1>2, ActEffect
  <2>2. PICK a \in Seq(Leveraged) : a = acting /\ a # <<>> /\ IsInjective(a)
    BY <1>2 DEF Act, ControlInv
  <2>3. Tail(a) \in Seq(Leveraged) /\ IsInjective(Tail(a))
    <3>1. /\ Tail(a) \in Seq(Leveraged) /\ Len(Tail(a)) = Len(a) - 1
          /\ \A i \in 1 .. Len(Tail(a)) : Tail(a)[i] = a[i + 1]
      BY <2>2, HeadTailProperties
    <3>2. DOMAIN Tail(a) = 1 .. Len(Tail(a)) /\ DOMAIN a = 1 .. Len(a) /\ Len(a) \in Nat
      BY <3>1, LenProperties
    <3> QED
      BY <2>2, <3>1, <3>2 DEF IsInjective
  <2>4. acting' \in Seq(Leveraged) /\ IsInjective(acting)'
    <3>1. acting' = Tail(a)
      BY <1>2, <2>2 DEF Act
    <3> QED
      BY <2>3, <3>1 DEF IsInjective
  <2>5. /\ phase' \in {"acting", "matching"}
        /\ phase' = "acting" => acting' # <<>>
        /\ incoming' = incoming /\ status' = status /\ placed' = placed
        /\ incoming = NoOrder /\ status = "running"
    BY <1>2 DEF Act, vars, ControlInv
  <2>6. /\ queue' \in Seq(Message)
        /\ open_orders' \in [MarketMakers -> Seq(Nat)] /\ count' \in Nat
    <3>1. CASE Requoted(b) /\ b \in MarketMakers
      <4>1. /\ queue' \in Seq(Message) /\ count' = count + 8
            /\ open_orders' = [open_orders EXCEPT ![b] = [k \in 1 .. 8 |-> BotId(count + k)]]
        BY <3>1 DEF Requoted, Requotes
      <4>2. [k \in 1 .. 8 |-> BotId(count + k)] \in Seq(Nat)
        <5>1. [k \in 1 .. 8 |-> BotId(count + k)] \in [1 .. 8 -> Nat]
          BY DEF BotId, ControlInv
        <5>2. Seq(Nat) = UNION {[1 .. n -> Nat] : n \in Nat} /\ 8 \in Nat
          BY SeqDef
        <5> QED
          BY <5>1, <5>2
      <4>3. PICK ids \in Seq(Nat) : open_orders' = [open_orders EXCEPT ![b] = ids]
        BY <4>1, <4>2
      <4>4. open_orders \in [MarketMakers -> Seq(Nat)] /\ count \in Nat
        BY DEF ControlInv
      <4>5. open_orders' \in [MarketMakers -> Seq(Nat)]
        BY <4>3, <4>4
      <4>6. count' \in Nat
        BY <4>1, <4>4
      <4> QED
        BY <4>1, <4>5, <4>6
    <3>2. CASE Retails(b)
      BY <3>2, QueueAppend DEF Retails, ControlInv
    <3>3. CASE UNCHANGED <<queue, open_orders, count>>
      BY <3>3 DEF ControlInv
    <3> QED
      BY <2>1, <3>1, <3>2, <3>3 DEF BotActs
  <2> QED
    BY <2>4, <2>5, <2>6 DEF ControlInv
<1>3. CASE Handle
  <2>1. queue' \in Seq(Message)
    BY <1>3, QueueTail DEF Handle, ControlInv
  <2> QED
    BY <1>3, <2>1 DEF Handle, ControlInv, IsInjective
<1>4. CASE HandleAlgo
  BY <1>4 DEF HandleAlgo, ControlInv, IsInjective
<1>5. CASE Step
  <2>1. phase = "matching"
    BY <1>5 DEF Step, MatchStep, Match, RemovePassive, Rest, Discard, Matching, ControlInv
  <2> QED
    BY <1>5, <2>1 DEF Step, botVars, ControlInv, IsInjective
<1>6. CASE EndTick
  BY <1>6 DEF EndTick, TakeUpdates, Idle, ControlInv, IsInjective
<1>7. CASE Over \/ UNCHANGED allVars
  BY <1>7 DEF Over, allVars, vars, botVars, ControlInv, IsInjective
<1> QED
  BY <1>1, <1>2, <1>3, <1>4, <1>5, <1>6, <1>7 DEF BotsNext

-----------------------------------------------------------------------------
(***************************************************************************)
(* The engine under the bots.                                              *)
(***************************************************************************)
EngineInv ==
    Inv /\ OpenVolumeBounded /\ InterestMatchesBook /\ LevelsMatchBook /\ PricesHeld

\* Only what is left of the incoming order comes to the book.
LEMMA EngineEffect ==
  ASSUME Inv, PricesHeld, EngineStep
  PROVE  /\ Rest \/ (Shrinks /\ InterestFalls)
         /\ status' = "running" => status = "running"
<1>1. CASE TakeIn
  <2>1. UNCHANGED <<book, portfolio, status>>
    BY <1>1 DEF TakeIn, Accept, Drop, bookVars
  <2> QED
    BY <2>1, StillEffect
<1>2. CASE \E ticker \in Tickers, id \in Nat : Cancel(ticker, id)
  <2>1. status' = status
    BY <1>2 DEF Cancel
  <2> QED
    BY <1>2, <2>1, CancelEffect
<1>3. CASE MatchStep
  <2>1. status = "running"
    BY <1>3 DEF MatchStep, Match, RemovePassive, Rest, Discard, Matching
  <2>2. CASE Discard
    BY <2>1, <2>2, StillEffect DEF Discard, bookVars
  <2> QED
    BY <1>3, <2>1, <2>2, MatchEffect, RemovePassiveEffect DEF MatchStep
<1>4. CASE TakeUpdates \/ UNCHANGED vars
  <2>1. UNCHANGED <<book, portfolio, status>>
    BY <1>4 DEF TakeUpdates, vars
  <2> QED
    BY <2>1, StillEffect
<1> QED
  BY <1>1, <1>2, <1>3, <1>4 DEF EngineStep

LEMMA StepEngineInv ==
  ASSUME EngineInv, ControlInv, [BotsNext]_allVars
  PROVE  EngineInv'
<1>1. /\ Inv /\ TypeInv /\ OpenVolumeBounded /\ InterestMatchesBook
      /\ LevelsMatchBook /\ PricesHeld
  BY DEF EngineInv, Inv
<1>2. EngineStep
  BY <1>1, BotsStepIsEngineStep
<1>3. Inv' /\ OpenVolumeBounded' /\ InterestMatchesBook' /\ LevelsMatchBook'
  BY <1>1, <1>2, StepInv, StepVolume, StepSums
<1>4. PricesHeld'
  BY <1>1, <1>2, EngineEffect, StepPrices
<1> QED
  BY <1>3, <1>4 DEF EngineInv

LEMMA InitEngineInv == BotsInit => EngineInv
<1> SUFFICES ASSUME BotsInit PROVE EngineInv
  OBVIOUS
<1>1. Init
  BY DEF BotsInit
<1>2. PricesHeld
  BY <1>1 DEF Init, PricesHeld
<1> QED
  BY <1>1, <1>2, InitInv, InitVolume, InitSums DEF EngineInv

LEMMA EngineInvariant == BotsSpec => [](EngineInv /\ ControlInv)
<1>1. BotsInit => EngineInv /\ ControlInv
  BY InitEngineInv, InitControl
<1>2. EngineInv /\ ControlInv /\ [BotsNext]_allVars => (EngineInv /\ ControlInv)'
  BY StepEngineInv, StepControl DEF EngineInv, Inv
<1> QED
  BY <1>1, <1>2, PTL DEF BotsSpec

\* The order book, the trackers, the portfolios and the limit of volume are as
\* sound under the bots, whose orders reach the engine with ids and cancels of
\* their own making, as under clients who submit what they like.
THEOREM BotsKeepEngine ==
  BotsSpec => [](/\ TypeOK /\ TrackerMatchesBook /\ OpenVolumeBounded
                 /\ InterestMatchesBook /\ LevelsMatchBook)
<1>1. EngineInv => /\ TypeOK /\ TrackerMatchesBook /\ OpenVolumeBounded
                   /\ InterestMatchesBook /\ LevelsMatchBook
  BY DEF EngineInv, Inv, TypeInv, BookType, IncomingType, TypeOK
<1> QED
  BY <1>1, EngineInvariant, PTL

-----------------------------------------------------------------------------
(***************************************************************************)
(* A market maker's quotes.  QuotesTracked is not inductive: a quote of    *)
(* the last tick is gone before a new one is looked at only because its    *)
(* cancel is in front of them, which the bot could write because it knew   *)
(* the quote's id, which no other order of the bot has.                    *)
(***************************************************************************)
OrderOf(m, b) == m.kind # "cancel" /\ m.trader = b
Handling(b) == incoming # NoOrder /\ incoming.trader = b

\* The order with that id is cancelled before any order of b is looked at.
CancelledFirst(q, b, id) ==
    \E i \in DOMAIN q :
        /\ q[i] = CancelOf(b, id)
        /\ \A j \in 1 .. i : ~OrderOf(q[j], b)

\* Only the latest quotes rest, or else the older ones are about to go.
Tracked(b) ==
    \A n \in Resting(b) \ Latest(b) :
        /\ Latest(b) = {}
        /\ ~Handling(b)
        /\ CancelledFirst(queue, b, book[n].id)

\* Whatever of b is in the book or on its way there has a ticker and an id of b.
Owned(b) ==
    /\ \A n \in Resting(b) : book[n].ticker = TickerOf[b] /\ book[n].id <= BotId(count)
    /\ \A id \in ToSet(open_orders[b]) : id <= BotId(count)
    /\ \A i \in DOMAIN queue : OrderOf(queue[i], b) =>
         queue[i].ticker = TickerOf[b] /\ queue[i].id \in ToSet(open_orders[b])
    /\ Handling(b) =>
         incoming.ticker = TickerOf[b] /\ incoming.id \in ToSet(open_orders[b])

\* A bot that is still to act knows all its quotes and has sent nothing.
Settled(b) ==
    phase = "acting" /\ b \in ToSet(acting) =>
        /\ Resting(b) = Latest(b)
        /\ \A i \in DOMAIN queue : ~OrderOf(queue[i], b)

TrackInv == \A b \in MarketMakers : Tracked(b) /\ Owned(b) /\ Settled(b)

\* Where the first message is not the cancel that is waited for, it is behind it.
LEMMA CancelledFirstTail ==
  ASSUME queue \in Seq(Message), queue # <<>>, queue' = Tail(queue),
         NEW b, NEW id, CancelledFirst(queue, b, id)
  PROVE  /\ ~OrderOf(Head(queue), b)
         /\ Head(queue) = CancelOf(b, id) \/ CancelledFirst(queue', b, id)
<1>1. PICK i \in DOMAIN queue :
        /\ queue[i] = CancelOf(b, id)
        /\ \A j \in 1 .. i : ~OrderOf(queue[j], b)
  BY DEF CancelledFirst
<1>2. /\ Head(queue) = queue[1]
      /\ Len(queue) \in Nat /\ Len(queue) > 0 /\ Len(queue') = Len(queue) - 1
      /\ DOMAIN queue = 1 .. Len(queue) /\ DOMAIN queue' = 1 .. Len(queue')
      /\ \A k \in 1 .. Len(queue') : queue'[k] = queue[k + 1]
  BY QueueTail
<1>3. i \in 1 .. Len(queue) /\ 1 \in 1 .. i
  BY <1>1, <1>2
<1>4. CASE i = 1
  BY <1>1, <1>2, <1>3, <1>4
<1>5. CASE i # 1
  <2>1. i - 1 \in DOMAIN queue' /\ queue'[i - 1] = queue[i]
    BY <1>2, <1>3, <1>5
  <2>2. ASSUME NEW j \in 1 .. i - 1 PROVE ~OrderOf(queue'[j], b)
    <3>1. j \in 1 .. Len(queue') /\ j + 1 \in 1 .. i
      BY <1>2, <1>3
    <3> QED
      BY <1>1, <1>2, <3>1
  <2>3. CancelledFirst(queue', b, id)
    BY <1>1, <2>1, <2>2 DEF CancelledFirst
  <2> QED
    BY <1>1, <1>2, <1>3, <2>3
<1> QED
  BY <1>4, <1>5

\* What is left in the queue is still of the bots it was of.
LEMMA OwnedTail ==
  ASSUME queue \in Seq(Message), queue # <<>>, queue' = Tail(queue),
         NEW i \in DOMAIN queue'
  PROVE  i + 1 \in DOMAIN queue /\ queue'[i] = queue[i + 1]
BY QueueTail

\* A book that shrinks has the quotes it had, as far as they are left.
LEMMA ShrinksResting ==
  ASSUME Shrinks, UNCHANGED open_orders, NEW b, NEW n \in Resting(b)'
  PROVE  /\ n \in Resting(b) /\ book'[n].id = book[n].id
         /\ book'[n].ticker = book[n].ticker
         /\ n \in Latest(b)' <=> n \in Latest(b)
<1>1. n \in DOMAIN book' /\ book'[n].trader = b
  BY DEF Resting
<1>2. n \in DOMAIN book /\ Remains(book'[n], book[n])
  BY <1>1 DEF Shrinks
<1>3. /\ book'[n].trader = book[n].trader /\ book'[n].id = book[n].id
      /\ book'[n].ticker = book[n].ticker
  BY <1>2 DEF Remains
<1>4. n \in Resting(b)
  BY <1>1, <1>2, <1>3 DEF Resting
<1> QED
  BY <1>3, <1>4 DEF Latest

\* A step that sends nothing, quotes nothing and lets the book shrink keeps
\* track, if it handles no new order of b and does not cross the wait for a cancel.
LEMMA ShrinksTracked ==
  ASSUME Shrinks, UNCHANGED open_orders, NEW b, Tracked(b), Handling(b)' => Handling(b),
         \A n \in Resting(b)' \ Latest(b)' :
            CancelledFirst(queue, b, book[n].id) => CancelledFirst(queue', b, book[n].id)
  PROVE  Tracked(b)'
<1> SUFFICES ASSUME NEW n \in Resting(b)' \ Latest(b)'
             PROVE  /\ Latest(b)' = {} /\ ~Handling(b)'
                    /\ CancelledFirst(queue', b, book'[n].id)
  BY DEF Tracked
<1>1. n \in Resting(b) \ Latest(b) /\ book'[n].id = book[n].id
  BY ShrinksResting
<1>2. Latest(b) = {} /\ ~Handling(b) /\ CancelledFirst(queue, b, book[n].id)
  BY <1>1 DEF Tracked
<1>3. Latest(b)' = {}
  <2> SUFFICES ASSUME NEW m \in Latest(b)' PROVE FALSE
    OBVIOUS
  <2>1. m \in Resting(b)'
    BY DEF Latest
  <2> QED
    BY <1>2, <2>1, ShrinksResting
<1>4. CancelledFirst(queue', b, book[n].id)
  BY <1>2
<1> QED
  BY <1>1, <1>2, <1>3, <1>4

LEMMA ShrinksOwned ==
  ASSUME Shrinks, UNCHANGED <<open_orders, count>>, NEW b, Owned(b),
         \A i \in DOMAIN queue' : \E k \in DOMAIN queue : queue'[i] = queue[k],
         Handling(b)' =>
           incoming'.ticker = TickerOf[b] /\ incoming'.id \in ToSet(open_orders[b])
  PROVE  Owned(b)'
<1>1. \A n \in Resting(b)' : book'[n].ticker = TickerOf[b] /\ book'[n].id <= BotId(count)
  BY ShrinksResting DEF Owned
<1>2. ASSUME NEW i \in DOMAIN queue', OrderOf(queue'[i], b)
      PROVE  queue'[i].ticker = TickerOf[b] /\ queue'[i].id \in ToSet(open_orders[b])
  BY <1>2 DEF Owned
<1> QED
  BY <1>1, <1>2 DEF Owned

\* An engine that does not touch the book lets it shrink, too.
LEMMA SameBookShrinks == Inv /\ UNCHANGED book => Shrinks
<1>1. Inv => \A m \in DOMAIN book : book[m].qty \in Int
  BY DEF Inv, TypeInv, BookType, OrderType
<1> QED
  BY <1>1 DEF Shrinks, Remains

\* Outside "acting" no bot is about to act.
LEMMA SettledElsewhere ==
  ASSUME phase' # "acting", NEW b
  PROVE  Settled(b)'
BY DEF Settled

\* A cancel takes the quote that waited for it out of the book.
LEMMA HandleTrack ==
  ASSUME EngineInv, ControlInv, TrackInv, Handle
  PROVE  TrackInv'
<1> SUFFICES ASSUME NEW b \in MarketMakers PROVE Tracked(b)' /\ Owned(b)' /\ Settled(b)'
  BY DEF TrackInv
<1>0. /\ Inv /\ PricesHeld /\ submitted \in Nat
      /\ queue \in Seq(Message) /\ queue # <<>> /\ queue' = Tail(queue)
      /\ UNCHANGED <<open_orders, count>> /\ phase' = "matching"
      /\ Tracked(b) /\ Owned(b)
  BY DEF EngineInv, Inv, TypeInv, ControlInv, Handle, TrackInv
<1>1. PICK m \in Message : m = Head(queue) /\ m = queue[1] /\ 1 \in DOMAIN queue
  BY <1>0, QueueTail
<1>2. \A i \in DOMAIN queue' : \E k \in DOMAIN queue : queue'[i] = queue[k]
  BY <1>0, OwnedTail
<1>3. \A n \in Resting(b) \ Latest(b) :
        /\ ~OrderOf(m, b)
        /\ m = CancelOf(b, book[n].id) \/ CancelledFirst(queue', b, book[n].id)
  BY <1>0, <1>1, CancelledFirstTail DEF Tracked
<1>4. Settled(b)'
  BY <1>0, SettledElsewhere
<1>5. IF m.kind = "cancel" THEN Cancel(m.ticker, m.id)
      ELSE Accept(Stamped(m)) \/ Drop(Stamped(m))
  BY <1>1 DEF Handle
<1>6. CASE m.kind = "cancel"
  <2>1. Cancel(m.ticker, m.id) /\ m.ticker \in Tickers /\ m.id \in Nat
    BY <1>5, <1>6, MessageKinds
  <2>2. /\ Shrinks
        /\ \A n \in DOMAIN book :
             book[n].ticker = m.ticker /\ book[n].id = m.id => n \notin DOMAIN book'
    BY <1>0, <2>1, CancelEffect
  <2>3. incoming' = incoming
    BY <2>1 DEF Cancel
  <2>4. ASSUME NEW n \in Resting(b)' \ Latest(b)'
        PROVE  CancelledFirst(queue', b, book[n].id)
    <3>1. n \in Resting(b) \ Latest(b) /\ n \in DOMAIN book /\ n \in DOMAIN book'
      BY <1>0, <2>2, ShrinksResting DEF Resting
    <3>2. book[n].ticker = TickerOf[b]
      BY <1>0, <3>1 DEF Owned
    <3>3. m # CancelOf(b, book[n].id)
      BY <2>2, <3>1, <3>2 DEF CancelOf
    <3> QED
      BY <1>3, <3>1, <3>3
  <2>5. Tracked(b)'
    BY <1>0, <2>2, <2>3, <2>4, ShrinksTracked DEF Handling
  <2>6. Owned(b)'
    BY <1>0, <1>2, <2>2, <2>3, ShrinksOwned DEF Owned, Handling
  <2> QED
    BY <1>4, <2>5, <2>6
<1>7. CASE m.kind # "cancel"
  <2>1. m \in OrderType
    BY <1>7, MessageKinds
  <2>2. PICK o \in OrderType :
          /\ o = Stamped(m) /\ o.trader = m.trader /\ o.ticker = m.ticker /\ o.id = m.id
    <3>1. Stamped(m) \in OrderType /\ Remains(Stamped(m), m)
      BY <1>0, <2>1, StampedOrder
    <3> QED
      BY <3>1 DEF Remains
  <2>3. Accept(o) \/ Drop(o)
    BY <1>5, <1>7, <2>2
  <2>4. UNCHANGED book /\ (incoming' = o \/ incoming' = NoOrder)
    BY <2>3 DEF Accept, Drop, bookVars, Idle
  <2>5. Shrinks
    BY <1>0, <2>4, SameBookShrinks
  <2>6. \A n \in Resting(b) \ Latest(b) :
          m.trader # b /\ CancelledFirst(queue', b, book[n].id)
    <3>1. \A id : m # CancelOf(b, id)
      BY <1>7 DEF CancelOf
    <3> QED
      BY <1>3, <1>7, <3>1 DEF OrderOf
  <2>7. Tracked(b)'
    <3>1. CASE Resting(b)' \ Latest(b)' = {}
      BY <3>1 DEF Tracked
    <3>2. CASE Resting(b)' \ Latest(b)' # {}
      <4>1. \A n \in Resting(b)' \ Latest(b)' : n \in Resting(b) \ Latest(b)
        BY <1>0, <2>5, ShrinksResting
      <4>2. ~Handling(b)'
        BY <2>2, <2>4, <2>6, <3>2, <4>1 DEF Handling
      <4>3. \A n \in Resting(b)' \ Latest(b)' : CancelledFirst(queue', b, book[n].id)
        BY <2>6, <4>1
      <4> QED
        BY <1>0, <2>5, <4>2, <4>3, ShrinksTracked
    <3> QED
      BY <3>1, <3>2
  <2>8. Owned(b)'
    <3>1. Handling(b)' =>
            incoming'.ticker = TickerOf[b] /\ incoming'.id \in ToSet(open_orders[b])
      <4>1. m.trader = b => m.ticker = TickerOf[b] /\ m.id \in ToSet(open_orders[b])
        BY <1>0, <1>1, <1>7 DEF Owned, OrderOf
      <4> QED
        BY <2>2, <2>4, <4>1 DEF Handling
    <3> QED
      BY <1>0, <1>2, <2>5, <3>1, ShrinksOwned
  <2> QED
    BY <1>4, <2>7, <2>8
<1> QED
  BY <1>6, <1>7

\* What an algorithm sends is no market maker's.
LEMMA HandleAlgoTrack ==
  ASSUME EngineInv, ControlInv, TrackInv, HandleAlgo
  PROVE  TrackInv'
<1> SUFFICES ASSUME NEW b \in MarketMakers PROVE Tracked(b)' /\ Owned(b)' /\ Settled(b)'
  BY DEF TrackInv
<1>0. /\ Inv /\ submitted \in Nat /\ placed \in Nat
      /\ UNCHANGED <<open_orders, count, queue>> /\ phase' = "matching"
      /\ Tracked(b) /\ Owned(b) /\ b \in Leveraged
  BY BotFacts DEF EngineInv, Inv, TypeInv, ControlInv, HandleAlgo, TrackInv
<1>1. PICK o \in Orders : /\ o.trader \notin Leveraged
                          /\ LET order == [Stamped(o) EXCEPT !.id = AlgoId(placed)]
                             IN Accept(order) \/ Drop(order)
  BY DEF HandleAlgo
<1>2. PICK order \in OrderType :
        order.trader = o.trader /\ (Accept(order) \/ Drop(order))
  BY <1>0, <1>1, AlgoOrder
<1>3. UNCHANGED book /\ (incoming' = order \/ incoming' = NoOrder)
  BY <1>2 DEF Accept, Drop, bookVars, Idle
<1>4. Shrinks /\ ~Handling(b)'
  BY <1>0, <1>1, <1>2, <1>3, SameBookShrinks DEF Handling
<1>5. Tracked(b)'
  BY <1>0, <1>4, ShrinksTracked
<1>6. Owned(b)'
  BY <1>0, <1>4, ShrinksOwned
<1> QED
  BY <1>0, <1>5, <1>6, SettledElsewhere

\* What the loop of match_order leaves of an order goes to the book as a latest quote.
LEMMA RestTrack ==
  ASSUME EngineInv, ControlInv, TrackInv, Rest, UNCHANGED botVars,
         NEW b \in MarketMakers
  PROVE  Tracked(b)' /\ Owned(b)'
<1>1. /\ BookType /\ arrivals \in Nat /\ DOMAIN book \subseteq 1 .. arrivals
      /\ incoming # NoOrder /\ incoming' = NoOrder
      /\ book' = Put(book, arrivals + 1, incoming)
      /\ UNCHANGED <<open_orders, count, queue>>
      /\ Tracked(b) /\ Owned(b)
  BY DEF EngineInv, Inv, TypeInv, BookType, Rest, Matching, AddOrder, botVars, TrackInv
<1> DEFINE new == arrivals + 1
<1>2. /\ new \notin DOMAIN book /\ DOMAIN book' = DOMAIN book \cup {new}
      /\ book'[new] = incoming
      /\ \A n \in DOMAIN book : book'[n] = book[n]
  BY <1>1 DEF Put
<1> HIDE DEF new
<1>3. \A n \in Resting(b)' : (n = new /\ Handling(b)) \/ (n # new /\ n \in Resting(b))
  BY <1>1, <1>2 DEF Resting, Handling
<1>4. ~Handling(b)'
  BY <1>1 DEF Handling
<1>5. Owned(b)'
  <2>1. \A n \in Resting(b)' : book'[n].ticker = TickerOf[b] /\ book'[n].id <= BotId(count)
    <3> SUFFICES ASSUME NEW n \in Resting(b)'
                 PROVE  book'[n].ticker = TickerOf[b] /\ book'[n].id <= BotId(count)
      OBVIOUS
    <3>1. CASE n = new /\ Handling(b)
      BY <1>1, <1>2, <3>1 DEF Owned
    <3>2. CASE n # new /\ n \in Resting(b)
      BY <1>1, <1>2, <3>2 DEF Owned, Resting
    <3> QED
      BY <1>3, <3>1, <3>2
  <2> QED
    BY <1>1, <1>4, <2>1 DEF Owned
<1>6. Tracked(b)'
  <2> SUFFICES ASSUME NEW n \in Resting(b)' \ Latest(b)'
               PROVE  Latest(b)' = {} /\ CancelledFirst(queue, b, book'[n].id)
    BY <1>1, <1>4 DEF Tracked
  <2>1. n # new /\ n \in Resting(b)
    <3>1. CASE n = new /\ Handling(b)
      BY <1>1, <1>2, <3>1 DEF Owned, Latest
    <3> QED
      BY <1>3, <3>1
  <2>2. book'[n] = book[n] /\ n \notin Latest(b)
    BY <1>1, <1>2, <2>1 DEF Latest, Resting
  <2>3. Latest(b) = {} /\ ~Handling(b) /\ CancelledFirst(queue, b, book[n].id)
    BY <1>1, <2>1, <2>2 DEF Tracked
  <2>4. Latest(b)' = {}
    <3> SUFFICES ASSUME NEW x \in Latest(b)' PROVE FALSE
      OBVIOUS
    <3>1. x # new /\ x \in Resting(b)
      BY <1>3, <2>3 DEF Latest
    <3>2. x \in Latest(b)
      BY <1>1, <1>2, <3>1 DEF Latest, Resting
    <3> QED
      BY <2>3, <3>2
  <2> QED
    BY <2>2, <2>3, <2>4
<1> QED
  BY <1>5, <1>6

LEMMA StepTrack ==
  ASSUME EngineInv, ControlInv, TrackInv, Step
  PROVE  TrackInv'
<1> SUFFICES ASSUME NEW b \in MarketMakers PROVE Tracked(b)' /\ Owned(b)' /\ Settled(b)'
  BY DEF TrackInv
<1>0. /\ Inv /\ PricesHeld /\ UNCHANGED botVars
      /\ UNCHANGED <<open_orders, count, queue, phase>>
      /\ Tracked(b) /\ Owned(b)
  BY DEF EngineInv, Step, botVars, TrackInv
<1>1. phase = "matching"
  BY DEF Step, MatchStep, Match, RemovePassive, Rest, Discard, Matching, ControlInv
<1>2. Settled(b)'
  BY <1>0, <1>1, SettledElsewhere
<1>3. CASE Rest
  BY <1>0, <1>2, <1>3, RestTrack
<1>4. CASE Match \/ RemovePassive \/ Discard
  <2>1. Shrinks
    BY <1>0, <1>4, MatchEffect, RemovePassiveEffect, SameBookShrinks
       DEF Discard, bookVars
  <2>2. Handling(b)' =>
          /\ Handling(b) /\ incoming'.ticker = incoming.ticker
          /\ incoming'.id = incoming.id
    <3>1. CASE Match
      BY <1>0, <3>1, MatchEffect DEF Remains, Handling, Match, Matching
    <3>2. CASE RemovePassive \/ Discard
      BY <3>2 DEF RemovePassive, Discard, Handling
    <3> QED
      BY <1>4, <3>1, <3>2
  <2>3. Tracked(b)'
    BY <1>0, <2>1, <2>2, ShrinksTracked
  <2>4. Owned(b)'
    BY <1>0, <2>1, <2>2, ShrinksOwned DEF Owned
  <2> QED
    BY <1>2, <2>3, <2>4
<1> QED
  BY <1>3, <1>4 DEF Step, MatchStep

\* Messages that are put behind the others hold up no cancel.
LEMMA CancelledFirstLonger ==
  ASSUME NEW b, NEW id, CancelledFirst(queue, b, id),
         \A i \in DOMAIN queue : i \in DOMAIN queue' /\ queue'[i] = queue[i],
         DOMAIN queue = 1 .. Len(queue), Len(queue) \in Nat
  PROVE  CancelledFirst(queue', b, id)
<1>1. PICK i \in DOMAIN queue :
        /\ queue[i] = CancelOf(b, id)
        /\ \A j \in 1 .. i : ~OrderOf(queue[j], b)
  BY DEF CancelledFirst
<1>2. \A j \in 1 .. i : j \in DOMAIN queue
  BY <1>1
<1>3. \A j \in 1 .. i : ~OrderOf(queue'[j], b)
  BY <1>1, <1>2
<1> QED
  BY <1>1, <1>3 DEF CancelledFirst

\* The bot that acts is not to act again in this tick; the others are as they were.
LEMMA ActingTail ==
  ASSUME ControlInv, Act
  PROVE  /\ Head(acting) \in ToSet(acting)
         /\ \A b \in ToSet(acting') : b \in ToSet(acting) /\ b # Head(acting)
<1>1. PICK a \in Seq(Leveraged) :
        a = acting /\ a # <<>> /\ IsInjective(a) /\ acting' = Tail(a)
  BY DEF ControlInv, Act
<1>2. /\ Tail(a) \in Seq(Leveraged) /\ Len(Tail(a)) = Len(a) - 1
      /\ \A i \in 1 .. Len(Tail(a)) : Tail(a)[i] = a[i + 1]
  BY <1>1, HeadTailProperties
<1>3. /\ DOMAIN Tail(a) = 1 .. Len(Tail(a)) /\ DOMAIN a = 1 .. Len(a)
      /\ Len(a) \in Nat /\ Len(a) > 0
  BY <1>1, <1>2, LenProperties, EmptySeq
<1>4. Head(a) = a[1] /\ 1 \in DOMAIN a
  BY <1>1, <1>3
<1>5. ASSUME NEW b \in ToSet(Tail(a)) PROVE b \in ToSet(a) /\ b # Head(a)
  <2>1. PICK i \in DOMAIN Tail(a) : b = Tail(a)[i]
    BY DEF ToSet
  <2>2. i + 1 \in DOMAIN a /\ b = a[i + 1] /\ i + 1 # 1
    BY <1>2, <1>3, <2>1
  <2> QED
    BY <1>1, <1>4, <2>2 DEF IsInjective, ToSet
<1> QED
  BY <1>1, <1>4, <1>5 DEF ToSet

\* What a bot sends comes behind what is there, and is no other bot's.
LEMMA ActSends ==
  ASSUME TypeInv, ControlInv, Act, NEW b \in MarketMakers, b # Head(acting)
  PROVE  /\ \A i \in DOMAIN queue : i \in DOMAIN queue' /\ queue'[i] = queue[i]
         /\ \A i \in DOMAIN queue' : i \notin DOMAIN queue => ~OrderOf(queue'[i], b)
         /\ open_orders'[b] = open_orders[b]
         /\ count' \in Nat /\ count <= count'
<1>1. PICK x \in Leveraged : x = Head(acting) /\ BotActs(x)
  BY ActEffect
<1>0. /\ queue \in Seq(Message) /\ open_orders \in [MarketMakers -> Seq(Nat)]
      /\ count \in Nat /\ x # b
  BY <1>1 DEF ControlInv
<1>2. DOMAIN queue = 1 .. Len(queue) /\ Len(queue) \in Nat
  BY <1>0, LenProperties
<1>3. CASE x \in MarketMakers /\ Requoted(x)
  <2>1. PICK theo \in Theos :
          Requotes(x, theo, QuoteQuantity(x, theo), Len(queue), Len(open_orders[x]))
    BY <1>3 DEF Requoted
  <2>2. PICK q, l, c : /\ q = QuoteQuantity(x, theo) /\ l = Len(queue)
                       /\ c = Len(open_orders[x])
    OBVIOUS
  <2>3. l \in Nat /\ c \in Nat
    BY <1>0, <1>2, <1>3, <2>2, LenProperties
  <2>4. /\ queue' \in Seq(Message) /\ Len(queue') = l + c + 8
        /\ \A i \in 1 .. l : queue'[i] = queue[i]
        /\ \A i \in 1 .. c : queue'[l + i] = CancelOf(x, open_orders[x][i])
        /\ \A k \in 1 .. 8 : queue'[l + c + k] = QuoteAt(x, theo, q, count, k)
        /\ open_orders' = [open_orders EXCEPT ![x] = [k \in 1 .. 8 |-> BotId(count + k)]]
        /\ count' = count + 8
    BY <2>1, <2>2 DEF Requotes
  <2>5. DOMAIN queue' = 1 .. l + c + 8
    <3>1. PICK q2 \in Seq(Message) : q2 = queue'
      BY <2>4
    <3>2. DOMAIN q2 = 1 .. Len(q2)
      BY LenProperties
    <3> QED
      BY <2>4, <3>1, <3>2
  <2>6. \A i \in DOMAIN queue : i \in DOMAIN queue' /\ queue'[i] = queue[i]
    BY <1>2, <2>2, <2>3, <2>4, <2>5
  <2>7. ASSUME NEW i \in DOMAIN queue', i \notin DOMAIN queue
        PROVE  ~OrderOf(queue'[i], b)
    <3>1. i \in l + 1 .. l + c + 8
      BY <1>2, <2>2, <2>3, <2>5, <2>7
    <3>2. CASE i <= l + c
      <4>1. i - l \in 1 .. c /\ l + (i - l) = i
        BY <2>3, <3>1, <3>2
      <4>2. queue'[i] = CancelOf(x, open_orders[x][i - l])
        BY <2>4, <4>1
      <4> QED
        BY <4>2 DEF CancelOf, OrderOf
    <3>3. CASE i > l + c
      <4>1. i - (l + c) \in 1 .. 8 /\ l + c + (i - (l + c)) = i
        BY <2>3, <3>1, <3>3
      <4>2. queue'[i] = QuoteAt(x, theo, q, count, i - (l + c))
        BY <2>4, <4>1
      <4> QED
        BY <1>0, <4>2 DEF QuoteAt, OrderOf
    <3> QED
      BY <2>3, <3>1, <3>2, <3>3
  <2> QED
    BY <1>0, <2>4, <2>6, <2>7
<1>4. CASE x \notin MarketMakers /\ Retails(x)
  <2>1. PICK m \in Message : /\ m.trader = x /\ queue' = Append(queue, m)
                             /\ UNCHANGED <<open_orders, count>>
    BY <1>4 DEF Retails
  <2>2. /\ \A i \in DOMAIN queue : i \in DOMAIN queue' /\ queue'[i] = queue[i]
        /\ \A i \in DOMAIN queue' : i \notin DOMAIN queue => queue'[i] = m
    BY <1>0, <2>1, QueueAppend
  <2> QED
    BY <1>0, <2>1, <2>2 DEF OrderOf
<1>5. CASE UNCHANGED <<queue, open_orders, count>>
  BY <1>0, <1>5
<1> QED
  BY <1>1, <1>3, <1>4, <1>5 DEF BotActs

\* The turn of another bot changes nothing for b.
LEMMA OthersTrack ==
  ASSUME EngineInv, ControlInv, TrackInv, Act, NEW b \in MarketMakers, b # Head(acting)
  PROVE  Tracked(b)' /\ Owned(b)' /\ Settled(b)'
<1>0. /\ TypeInv /\ count \in Nat /\ queue \in Seq(Message)
      /\ UNCHANGED <<book, incoming>> /\ phase = "acting"
      /\ Tracked(b) /\ Owned(b) /\ Settled(b)
      /\ \A n \in DOMAIN book : book[n].id \in Nat
  BY DEF EngineInv, Inv, TypeInv, BookType, OrderType, ControlInv, TrackInv, Act, vars
<1>1. /\ \A i \in DOMAIN queue : i \in DOMAIN queue' /\ queue'[i] = queue[i]
      /\ \A i \in DOMAIN queue' : i \notin DOMAIN queue => ~OrderOf(queue'[i], b)
      /\ open_orders'[b] = open_orders[b]
      /\ count' \in Nat /\ count <= count'
  BY <1>0, ActSends
<1>2. DOMAIN queue = 1 .. Len(queue) /\ Len(queue) \in Nat
  BY <1>0, LenProperties
<1>3. Resting(b)' = Resting(b) /\ Latest(b)' = Latest(b) /\ (Handling(b)' <=> Handling(b))
  BY <1>0, <1>1 DEF Resting, Latest, Handling
<1>4. Tracked(b)'
  <2> SUFFICES ASSUME NEW n \in Resting(b) \ Latest(b)
               PROVE  /\ Latest(b) = {} /\ ~Handling(b)
                      /\ CancelledFirst(queue', b, book[n].id)
    BY <1>0, <1>3 DEF Tracked
  <2>1. Latest(b) = {} /\ ~Handling(b) /\ CancelledFirst(queue, b, book[n].id)
    BY <1>0 DEF Tracked
  <2> QED
    BY <1>1, <1>2, <2>1, CancelledFirstLonger
<1>5. Owned(b)'
  <2>1. \A id \in Nat : id <= BotId(count) => id <= BotId(count')
    BY <1>0, <1>1 DEF BotId
  <2>2. ASSUME NEW n \in Resting(b)'
        PROVE  book'[n].ticker = TickerOf[b] /\ book'[n].id <= BotId(count')
    <3>1. n \in Resting(b) /\ n \in DOMAIN book /\ book' = book
      BY <1>0, <1>3 DEF Resting
    <3> QED
      BY <1>0, <2>1, <3>1 DEF Owned
  <2>3. ASSUME NEW id \in ToSet(open_orders'[b]) PROVE id <= BotId(count')
    <3>1. id \in ToSet(open_orders[b]) /\ id \in Nat
      <4>1. open_orders[b] \in Seq(Nat)
        BY DEF ControlInv
      <4>2. open_orders[b] \in [1 .. Len(open_orders[b]) -> Nat]
        BY <4>1, LenProperties
      <4> QED
        BY <1>1, <4>2 DEF ToSet
    <3> QED
      BY <1>0, <2>1, <3>1 DEF Owned
  <2>4. ASSUME NEW i \in DOMAIN queue', OrderOf(queue'[i], b)
        PROVE  /\ queue'[i].ticker = TickerOf[b]
               /\ queue'[i].id \in ToSet(open_orders'[b])
    BY <1>0, <1>1, <2>4 DEF Owned
  <2>5. Handling(b)' => /\ incoming'.ticker = TickerOf[b]
                        /\ incoming'.id \in ToSet(open_orders'[b])
    BY <1>0, <1>1, <1>3 DEF Owned
  <2> QED
    BY <2>2, <2>3, <2>4, <2>5 DEF Owned
<1>6. Settled(b)'
  <2> SUFFICES ASSUME b \in ToSet(acting')
               PROVE  Resting(b)' = Latest(b)' /\ \A i \in DOMAIN queue' : ~OrderOf(queue'[i], b)
    BY DEF Settled
  <2>1. b \in ToSet(acting)
    BY ActingTail
  <2>2. Resting(b) = Latest(b) /\ \A i \in DOMAIN queue : ~OrderOf(queue[i], b)
    BY <1>0, <2>1 DEF Settled
  <2> QED
    BY <1>1, <1>3, <2>2
<1> QED
  BY <1>4, <1>5, <1>6

\* The market maker that acts cancels what rests of it, and quotes with ids that
\* nothing in the book has.
LEMMA OwnTrack ==
  ASSUME EngineInv, ControlInv, TrackInv, Act, NEW b \in MarketMakers, b = Head(acting)
  PROVE  /\ Tracked(b)' /\ Owned(b)' /\ Settled(b)'
         /\ Latest(b)' = {} /\ ~Handling(b)'
<1>0. /\ TypeInv /\ count \in Nat /\ queue \in Seq(Message)
      /\ UNCHANGED <<book, incoming>> /\ phase = "acting" /\ incoming = NoOrder
      /\ Owned(b) /\ Settled(b)
      /\ \A n \in DOMAIN book : book[n].id \in Nat
      /\ open_orders \in [MarketMakers -> Seq(Nat)]
  BY DEF EngineInv, Inv, TypeInv, BookType, OrderType, ControlInv, TrackInv, Act, vars
<1>1. PICK theo \in Theos :
        Requotes(b, theo, QuoteQuantity(b, theo), Len(queue), Len(open_orders[b]))
  BY <1>0, ActEffect DEF BotActs, Requoted
<1>2. PICK q, l, c : /\ q = QuoteQuantity(b, theo) /\ l = Len(queue)
                     /\ c = Len(open_orders[b])
  OBVIOUS
<1>3. l \in Nat /\ c \in Nat /\ DOMAIN queue = 1 .. l /\ DOMAIN open_orders[b] = 1 .. c
  <2>1. open_orders[b] \in Seq(Nat)
    BY <1>0
  <2> QED
    BY <1>0, <1>2, <2>1, LenProperties
<1>4. /\ queue' \in Seq(Message) /\ Len(queue') = l + c + 8
      /\ \A i \in 1 .. l : queue'[i] = queue[i]
      /\ \A i \in 1 .. c : queue'[l + i] = CancelOf(b, open_orders[b][i])
      /\ \A k \in 1 .. 8 : queue'[l + c + k] = QuoteAt(b, theo, q, count, k)
      /\ open_orders' = [open_orders EXCEPT ![b] = [k \in 1 .. 8 |-> BotId(count + k)]]
      /\ count' = count + 8
  BY <1>1, <1>2 DEF Requotes
<1>5. DOMAIN queue' = 1 .. l + c + 8
  <2>1. PICK q2 \in Seq(Message) : q2 = queue'
    BY <1>4
  <2>2. DOMAIN q2 = 1 .. Len(q2)
    BY LenProperties
  <2> QED
    BY <1>4, <2>1, <2>2
<1>6. Resting(b) = Latest(b) /\ \A i \in DOMAIN queue : ~OrderOf(queue[i], b)
  BY <1>0, ActingTail DEF Settled
<1>7. \A id : id \in ToSet(open_orders'[b]) <=> \E k \in 1 .. 8 : id = BotId(count + k)
  <2>1. open_orders'[b] = [k \in 1 .. 8 |-> BotId(count + k)]
    BY <1>0, <1>4
  <2> QED
    BY <2>1 DEF ToSet
<1>8. \A id \in ToSet(open_orders'[b]) :
         id \in Nat /\ id <= BotId(count') /\ ~(id <= BotId(count))
  <2>1. count \in Nat /\ count' = count + 8
    BY <1>0, <1>4
  <2>2. ASSUME NEW k \in 1 .. 8
        PROVE  /\ BotId(count + k) \in Nat /\ BotId(count + k) <= BotId(count')
               /\ ~(BotId(count + k) <= BotId(count))
    BY <2>1 DEF BotId
  <2> QED
    BY <1>7, <2>2
<1>9. Resting(b)' = Resting(b) /\ Latest(b)' = {} /\ ~Handling(b)'
  <2>1. Resting(b)' = Resting(b) /\ ~Handling(b)'
    BY <1>0 DEF Resting, Handling
  <2>2. \A n \in Resting(b) : book[n].id <= BotId(count)
    BY <1>0 DEF Owned
  <2>3. Latest(b)' = {}
    BY <1>0, <1>8, <2>1, <2>2 DEF Latest
  <2> QED
    BY <2>1, <2>3
<1>10. Tracked(b)'
  <2> SUFFICES ASSUME NEW n \in Resting(b)
               PROVE  CancelledFirst(queue', b, book[n].id)
    BY <1>0, <1>9 DEF Tracked
  <2>1. PICK i \in 1 .. c : open_orders[b][i] = book[n].id
    <3>1. book[n].id \in ToSet(open_orders[b])
      BY <1>6 DEF Latest
    <3> QED
      BY <1>3, <3>1 DEF ToSet
  <2>2. l + i \in DOMAIN queue' /\ queue'[l + i] = CancelOf(b, book[n].id)
    <3>1. l + i \in 1 .. l + c + 8
      BY <1>3
    <3> QED
      BY <1>4, <1>5, <2>1, <3>1
  <2>3. ASSUME NEW j \in 1 .. l + i PROVE ~OrderOf(queue'[j], b)
    <3>1. CASE j <= l
      <4>1. j \in 1 .. l
        BY <1>3, <2>1, <3>1
      <4>2. queue'[j] = queue[j] /\ ~OrderOf(queue[j], b)
        BY <1>3, <1>4, <1>6, <4>1
      <4> QED
        BY <4>2
    <3>2. CASE j > l
      <4>1. j - l \in 1 .. c /\ l + (j - l) = j
        BY <1>3, <2>1, <3>2
      <4>2. queue'[j] = CancelOf(b, open_orders[b][j - l])
        BY <1>4, <4>1
      <4> QED
        BY <4>2 DEF OrderOf, CancelOf
    <3> QED
      BY <1>3, <2>1, <3>1, <3>2
  <2> QED
    BY <2>2, <2>3 DEF CancelledFirst
<1>11. Owned(b)'
  <2>1. ASSUME NEW n \in Resting(b)'
        PROVE  book'[n].ticker = TickerOf[b] /\ book'[n].id <= BotId(count')
    <3>1. n \in Resting(b) /\ n \in DOMAIN book /\ book' = book
      BY <1>0, <1>9 DEF Resting
    <3>2. book[n].ticker = TickerOf[b] /\ book[n].id <= BotId(count) /\ book[n].id \in Nat
      BY <1>0, <3>1 DEF Owned
    <3>3. count \in Nat /\ count' = count + 8
      BY <1>0, <1>4
    <3>4. book[n].id <= BotId(count')
      BY <3>2, <3>3 DEF BotId
    <3> QED
      BY <3>1, <3>2, <3>4
  <2>2. ASSUME NEW i \in DOMAIN queue', OrderOf(queue'[i], b)
        PROVE  /\ queue'[i].ticker = TickerOf[b]
               /\ queue'[i].id \in ToSet(open_orders'[b])
    <3>0. l \in Nat /\ c \in Nat /\ i \in 1 .. l + c + 8
      BY <1>3, <1>5
    <3>1. CASE i <= l
      <4>1. i \in 1 .. l
        BY <3>0, <3>1, Places
      <4>2. queue'[i] = queue[i] /\ ~OrderOf(queue[i], b)
        BY <1>3, <1>4, <1>6, <4>1
      <4> QED
        BY <2>2, <4>2
    <3>2. CASE i > l /\ i <= l + c
      <4>1. i - l \in 1 .. c /\ l + (i - l) = i
        BY <3>0, <3>2, Places
      <4>2. queue'[i] = CancelOf(b, open_orders[b][i - l])
        BY <1>4, <4>1
      <4> QED
        BY <2>2, <4>2 DEF CancelOf, OrderOf
    <3>3. CASE i > l + c
      <4>1. i - (l + c) \in 1 .. 8 /\ l + c + (i - (l + c)) = i
        BY <3>0, <3>3, Places
      <4>2. queue'[i] = QuoteAt(b, theo, q, count, i - (l + c))
        BY <1>4, <4>1
      <4> QED
        BY <1>7, <4>1, <4>2 DEF QuoteAt
    <3> QED
      BY <3>0, <3>1, <3>2, <3>3, Places
  <2> QED
    BY <1>8, <1>9, <2>1, <2>2 DEF Owned
<1>12. Settled(b)'
  BY ActingTail DEF Settled
<1> QED
  BY <1>9, <1>10, <1>11, <1>12

\* In an empty queue nothing waits: all that rests is known.
LEMMA StartTickTrack ==
  ASSUME ControlInv, TrackInv, StartTick
  PROVE  TrackInv'
<1> SUFFICES ASSUME NEW b \in MarketMakers PROVE Tracked(b)' /\ Owned(b)' /\ Settled(b)'
  BY DEF TrackInv
<1>0. /\ UNCHANGED <<book, incoming, queue, open_orders, count>> /\ queue = <<>>
      /\ Tracked(b) /\ Owned(b)
  BY DEF StartTick, vars, ControlInv, TrackInv
<1>1. Resting(b)' = Resting(b) /\ Latest(b)' = Latest(b) /\ (Handling(b)' <=> Handling(b))
  BY <1>0 DEF Resting, Latest, Handling
<1>2. Tracked(b)'
  BY <1>0, <1>1 DEF Tracked
<1>3. Owned(b)'
  BY <1>0, <1>1 DEF Owned
<1>4. Resting(b) = Latest(b) /\ DOMAIN queue = {}
  <2>1. DOMAIN queue = {}
    BY <1>0
  <2>2. Resting(b) \ Latest(b) = {}
    BY <1>0, <2>1 DEF Tracked, CancelledFirst
  <2> QED
    BY <2>1, <2>2 DEF Latest
<1>5. Settled(b)'
  BY <1>0, <1>1, <1>4 DEF Settled
<1> QED
  BY <1>2, <1>3, <1>5

\* A step that leaves the book and the bots' messages alone keeps track.
LEMMA StillTrack ==
  ASSUME TrackInv, UNCHANGED <<book, incoming, queue, open_orders, count>>,
         UNCHANGED <<phase, acting>> \/ phase' = "waiting"
  PROVE  TrackInv'
<1> SUFFICES ASSUME NEW b \in MarketMakers PROVE Tracked(b)' /\ Owned(b)' /\ Settled(b)'
  BY DEF TrackInv
<1>1. Resting(b)' = Resting(b) /\ Latest(b)' = Latest(b) /\ (Handling(b)' <=> Handling(b))
  BY DEF Resting, Latest, Handling
<1>2. Tracked(b) /\ Owned(b) /\ Settled(b)
  BY DEF TrackInv
<1>3. Tracked(b)'
  BY <1>1, <1>2 DEF Tracked
<1>4. Owned(b)'
  BY <1>1, <1>2 DEF Owned
<1>5. Settled(b)'
  BY <1>1, <1>2 DEF Settled
<1> QED
  BY <1>3, <1>4, <1>5

LEMMA BotsTrack ==
  ASSUME EngineInv, ControlInv, TrackInv, [BotsNext]_allVars
  PROVE  TrackInv'
<1>1. CASE Act
  BY <1>1, OwnTrack, OthersTrack DEF TrackInv
<1>2. CASE EndTick \/ Over \/ UNCHANGED allVars
  <2>1. /\ UNCHANGED <<book, incoming, queue, open_orders, count>>
        /\ UNCHANGED <<phase, acting>> \/ phase' = "waiting"
    BY <1>2 DEF EndTick, TakeUpdates, Over, allVars, vars, botVars
  <2> QED
    BY <2>1, StillTrack
<1> QED
  BY <1>1, <1>2, StartTickTrack, HandleTrack, HandleAlgoTrack, StepTrack DEF BotsNext

LEMMA InitTrack == BotsInit => TrackInv
<1> SUFFICES ASSUME BotsInit, NEW b \in MarketMakers
             PROVE  Tracked(b) /\ Owned(b) /\ Settled(b)
  BY DEF TrackInv
<1>1. Resting(b) = {} /\ ~Handling(b) /\ DOMAIN queue = {} /\ ToSet(open_orders[b]) = {}
  BY DEF BotsInit, Init, Resting, Handling, ToSet
<1> QED
  BY <1>1 DEF Tracked, Owned, Settled, BotsInit

LEMMA TrackInvariant == BotsSpec => [](EngineInv /\ ControlInv /\ TrackInv)
<1>1. BotsInit => EngineInv /\ ControlInv /\ TrackInv
  BY InitEngineInv, InitControl, InitTrack
<1>2. EngineInv /\ ControlInv /\ TrackInv /\ [BotsNext]_allVars
        => (EngineInv /\ ControlInv /\ TrackInv)'
  BY StepEngineInv, StepControl, BotsTrack DEF EngineInv, Inv
<1> QED
  BY <1>1, <1>2, PTL DEF BotsSpec

\* A market maker never loses sight of a quote: what it has not just made is
\* cancelled before the engine looks at any of its new quotes.
THEOREM QuotesNotLost == BotsSpec => []QuotesTracked
<1>1. TrackInv => QuotesTracked
  <2> SUFFICES ASSUME TrackInv, NEW b \in MarketMakers, NEW n \in Resting(b) \ Latest(b)
               PROVE  /\ Latest(b) = {}
                      /\ \E i \in DOMAIN queue :
                          /\ queue[i].kind = "cancel" /\ queue[i].id = book[n].id
                          /\ \A j \in 1 .. i : queue[j].kind = "cancel" \/ queue[j].trader # b
    BY DEF QuotesTracked
  <2>1. Latest(b) = {} /\ CancelledFirst(queue, b, book[n].id)
    BY DEF TrackInv, Tracked
  <2> QED
    BY <2>1 DEF CancelledFirst, CancelOf, OrderOf
<1> QED
  BY <1>1, TrackInvariant, PTL

-----------------------------------------------------------------------------
(***************************************************************************)
(* What a market maker has at stake.  HalfUtilized is not inductive: a bot *)
(* reckons with the interest it has before its cancels are handled, and    *)
(* what it quotes at theo comes to rest at other prices, of which those of *)
(* the buys may be below zero and then end the exchange, unless the limit  *)
(* of volume keeps them out.  Of each market maker's latest batch, first   *)
(* is the counter before its ids, next the quote that comes next, and      *)
(* offset what the places in the queue are short of the quotes' numbers.   *)
(***************************************************************************)
\* The batch is worth at most a quarter of the capital at theo.
Sized(b, theo, q) ==
    q > 0 => theo > 0 /\ 4 * (theo * q) <= 100 * InitialCapital[b]

\* Exactly the quotes from next on are in the queue, in order.
ToCome(b, theo, q, first, next, offset) ==
    /\ \A i \in DOMAIN queue : OrderOf(queue[i], b) =>
         i + offset \in next .. 8 /\ queue[i] = QuoteAt(b, theo, q, first, i + offset)
    /\ \A k \in next .. 8 : k - offset \in DOMAIN queue /\ OrderOf(queue[k - offset], b)

\* o is what is left of the k-th quote, which was not refused.
PartOf(o, b, theo, q, first, k) ==
    /\ Remains(o, QuoteAt(b, theo, q, first, k))
    /\ Depths(q)[Rank(k)] > 0 /\ Depths(q)[Rank(k)] <= MaxVolume

\* The order in hand is of the quote before next, and a bid below zero has not traded.
InHand(b, theo, q, first, next) ==
    Handling(b) =>
        /\ next > 1 /\ PartOf(incoming, b, theo, q, first, next - 1)
        /\ incoming.side = "buy" /\ incoming.price < 0 => incoming.qty > 0

\* What rests of the batch is of quotes before next.
Made(b, theo, q, first, next) ==
    \A n \in Latest(b) : \E k \in 1 .. next - 1 : PartOf(book[n], b, theo, q, first, k)

\* The exchange goes on, so the buys below zero that were handled were refused.
Missing(b, theo, q, next) ==
    \A k \in 1 .. 4 :
        k < next /\ ~(Handling(b) /\ k = next - 1) => Refused(theo, Depths(q), k)

Batch(b, theo, q, first, next, offset) ==
    /\ Sized(b, theo, q)
    /\ ToCome(b, theo, q, first, next, offset)
    /\ InHand(b, theo, q, first, next)
    /\ Made(b, theo, q, first, next)
    /\ Missing(b, theo, q, next)

Batched(b) ==
    \E theo \in Int, q \in Int, first \in Nat, next \in 1 .. 9, offset \in Int :
        Batch(b, theo, q, first, next, offset)

BatchInv == status = "running" => \A b \in MarketMakers : Batched(b)

AtStake(b) == portfolio[b].interest["buy"] + portfolio[b].interest["sell"]
HalfAtMost(b) == 2 * AtStake(b) <= Widen(InitialCapital[b])
HalfInv == status = "running" => \A b \in MarketMakers : HalfAtMost(b)

\* Volume and interest are sums over orders of positive quantity, at prices that
\* are not below zero.
LEMMA StakesNotNegative ==
  ASSUME EngineInv, status = "running", NEW b \in Traders, NEW side \in Sides
  PROVE  portfolio[b].open[side] \in Nat /\ portfolio[b].interest[side] \in Nat
<1>1. /\ BookType /\ arrivals \in Nat /\ DOMAIN book \in SUBSET (1 .. arrivals)
      /\ \A n \in DOMAIN book : /\ book[n].price \in Int /\ book[n].price >= 0
                                /\ book[n].qty \in Int /\ book[n].qty > 0
  BY DEF EngineInv, Inv, TypeInv, BookType, OrderType, PricesHeld, TrackerMatchesBook
<1> DEFINE S == RestingOf[b][side]
<1>2. S \in SUBSET DOMAIN book
  BY DEF RestingOf
<1>3. /\ portfolio[b].open[side] = SumFunctionOnSet(Quantities, S)
      /\ portfolio[b].interest[side] = SumFunctionOnSet(Notionals, S)
  BY DEF EngineInv, InterestMatchesBook
<1> HIDE DEF S
<1>4. IsFiniteSet(S)
  BY <1>1, <1>2, BookFinite
<1>5. \A n \in S : Quantities[n] \in Int /\ Quantities[n] >= 0
  BY <1>1, <1>2 DEF Quantities
<1>6. \A n \in S : Notionals[n] \in Int /\ Notionals[n] >= 0
  <2>1. \A x \in Nat, y \in Nat : x * y \in Nat
    OBVIOUS
  <2>2. \A n \in DOMAIN book : book[n].price \in Nat /\ book[n].qty \in Nat
    BY <1>1
  <2>3. \A n \in DOMAIN book : book[n].price * book[n].qty \in Nat
    BY <2>1, <2>2
  <2> QED
    BY <1>2, <2>3 DEF Notionals, HighPrecisionTimes
<1> QED
  BY <1>3, <1>4, <1>5, <1>6, SumNotNegative

\* The quotes of a side are numbered in a row.
FirstOf(side) == IF side = "buy" THEN 0 ELSE 4

LEMMA QuoteNumbers ==
  ASSUME NEW side \in Sides
  PROVE  /\ \A i \in 1 .. 4 : /\ Rank(FirstOf(side) + i) = i
                              /\ SideAt(FirstOf(side) + i) = side
                              /\ FirstOf(side) + i \in 1 .. 8
         /\ \A k \in 1 .. 8 : SideAt(k) = side => k - FirstOf(side) \in 1 .. 4
BY DEF Sides, Rank, SideAt, FirstOf

\* What a part of a quote has of it.
LEMMA PartFields ==
  ASSUME NEW o, NEW b, NEW theo, NEW q, NEW first, NEW k, PartOf(o, b, theo, q, first, k)
  PROVE  /\ o.kind = "limit" /\ o.trader = b /\ ~o.ioc /\ o.ticker = TickerOf[b]
         /\ o.side = SideAt(k) /\ o.price = PriceAt(theo, k) /\ o.id = BotId(first + k)
         /\ o.qty <= Depths(q)[Rank(k)]
         /\ Depths(q)[Rank(k)] > 0 /\ Depths(q)[Rank(k)] <= MaxVolume
BY DEF PartOf, Remains, QuoteAt

\* w stands for what rests of a side of the batch.
RestsOf(b, theo, q, first, next, side, w) ==
    /\ w \in [1 .. 4 -> Int]
    /\ \A i \in 1 .. 4 : w[i] = 0 \/ \E n \in Resting(b) :
         /\ w[i] = book[n].qty /\ FirstOf(side) + i < next
         /\ PartOf(book[n], b, theo, q, first, FirstOf(side) + i)
    /\ portfolio[b].open[side] = Four(w)
    /\ portfolio[b].interest[side]
         = w[1] * QuotePrice(side, theo, PriceLevels[1])
             + w[2] * QuotePrice(side, theo, PriceLevels[2])
             + w[3] * QuotePrice(side, theo, PriceLevels[3])
             + w[4] * QuotePrice(side, theo, PriceLevels[4])

LEMMA SideSums ==
  ASSUME EngineInv, status = "running", NEW b \in MarketMakers, Resting(b) = Latest(b),
         NEW theo \in Int, NEW q \in Int, NEW first \in Nat, NEW next \in 1 .. 9,
         Made(b, theo, q, first, next), NEW side \in Sides
  PROVE  \E w : RestsOf(b, theo, q, first, next, side, w)
<1>0. /\ BookType /\ arrivals \in Nat /\ DOMAIN book \in SUBSET (1 .. arrivals)
      /\ \A n \in DOMAIN book : /\ book[n].price \in Int /\ book[n].qty \in Int
                                /\ order_map[IdOf(book[n])] = n
      /\ b \in Traders
  BY BotFacts DEF EngineInv, Inv, TypeInv, BookType, OrderType, TrackerMatchesBook
<1> DEFINE S == RestingOf[b][side]
           p == [i \in 1 .. 4 |-> QuotePrice(side, theo, PriceLevels[i])]
           A == [i \in 1 .. 4 |->
                   {n \in S : /\ FirstOf(side) + i < next
                              /\ PartOf(book[n], b, theo, q, first, FirstOf(side) + i)}]
<1>1. /\ S \in SUBSET DOMAIN book
      /\ \A n \in S : n \in Resting(b) /\ book[n].side = side
  BY <1>0 DEF RestingOf, Resting
<1>2. /\ portfolio[b].open[side] = SumFunctionOnSet(Quantities, S)
      /\ portfolio[b].interest[side] = SumFunctionOnSet(Notionals, S)
  BY <1>0 DEF EngineInv, InterestMatchesBook
<1> HIDE DEF S
<1>3. IsFiniteSet(S)
  BY <1>0, <1>1, BookFinite
<1>4. \A n \in S : /\ Quantities[n] = book[n].qty /\ Quantities[n] \in Int
                   /\ Notionals[n] = book[n].price * book[n].qty /\ Notionals[n] \in Int
  <2>1. \A x \in Int, y \in Int : x * y \in Int
    OBVIOUS
  <2>2. ASSUME NEW n \in S
        PROVE  book[n].price * book[n].qty \in Int
    BY <1>0, <1>1, <2>1
  <2> QED
    BY <1>0, <1>1, <2>2 DEF Quantities, Notionals, HighPrecisionTimes
<1>5. ASSUME NEW i \in 1 .. 4
      PROVE  /\ p[i] \in Int /\ p[i] = PriceAt(theo, FirstOf(side) + i)
             /\ p[i] = QuotePrice(side, theo, PriceLevels[i])
  <2>1. PriceLevels[i].delta \in Int
    <3>1. i = 1 \/ i = 2 \/ i = 3 \/ i = 4
      OBVIOUS
    <3> QED
      BY <3>1, LevelFacts
  <2>2. QuotePrice(side, theo, PriceLevels[i]) \in Int
    BY <2>1 DEF QuotePrice
  <2>3. PriceAt(theo, FirstOf(side) + i) = QuotePrice(side, theo, PriceLevels[i])
    BY QuoteNumbers DEF PriceAt
  <2> QED
    BY <2>2, <2>3
<1>6. ASSUME NEW i \in 1 .. 4, NEW n \in A[i]
      PROVE  /\ n \in S /\ FirstOf(side) + i < next
             /\ PartOf(book[n], b, theo, q, first, FirstOf(side) + i)
             /\ book[n].price = p[i] /\ book[n].ticker = TickerOf[b]
             /\ book[n].id = BotId(first + (FirstOf(side) + i))
  <2>1. /\ n \in S /\ FirstOf(side) + i < next
        /\ PartOf(book[n], b, theo, q, first, FirstOf(side) + i)
    BY <1>6
  <2> HIDE DEF A, p
  <2> QED
    BY <1>5, <2>1, PartFields
<1>7. \A i \in 1 .. 4 : \A n \in S :
        /\ FirstOf(side) + i < next
        /\ PartOf(book[n], b, theo, q, first, FirstOf(side) + i)
        => n \in A[i]
  OBVIOUS
<1>8. \A i \in 1 .. 4 : A[i] \subseteq S
  OBVIOUS
<1> HIDE DEF A, p
<1>9. ASSUME NEW i \in 1 .. 4
      PROVE  Single(S, Quantities, Notionals, A[i], p[i])
  <2>1. ASSUME NEW x \in A[i], NEW y \in A[i] PROVE x = y
    <3>1. IdOf(book[x]) = IdOf(book[y]) /\ x \in DOMAIN book /\ y \in DOMAIN book
      BY <1>1, <1>6 DEF IdOf
    <3> QED
      BY <1>0, <3>1
  <2>2. ASSUME NEW x \in A[i] PROVE Notionals[x] = Quantities[x] * p[i]
    <3>1. /\ Notionals[x] = p[i] * Quantities[x] /\ p[i] \in Int
          /\ Quantities[x] \in Int
      BY <1>4, <1>5, <1>6
    <3>2. \A u \in Int, v \in Int : u * v = v * u
      OBVIOUS
    <3> QED
      BY <3>1, <3>2
  <2> QED
    BY <1>3, <1>4, <1>5, <1>8, <2>1, <2>2 DEF Single
<1>10. ASSUME NEW n \in S PROVE \E i \in 1 .. 4 : n \in A[i]
  <2>1. PICK k \in 1 .. next - 1 : PartOf(book[n], b, theo, q, first, k)
    BY <1>1 DEF Made
  <2>2. k \in 1 .. 8 /\ SideAt(k) = side /\ k < next
    BY <1>1, <2>1, PartFields
  <2>3. PICK i \in 1 .. 4 : i = k - FirstOf(side) /\ FirstOf(side) + i = k
    BY <2>2, QuoteNumbers DEF FirstOf
  <2>4. n \in A[i]
    BY <1>7, <2>1, <2>2, <2>3
  <2> QED
    BY <2>4
<1>11. ASSUME NEW i \in 1 .. 4, NEW j \in 1 .. 4, i # j PROVE A[i] \cap A[j] = {}
  <2> SUFFICES ASSUME NEW n \in A[i], n \in A[j] PROVE FALSE
    OBVIOUS
  <2>1. BotId(first + (FirstOf(side) + i)) = BotId(first + (FirstOf(side) + j))
    BY <1>6
  <2> QED
    BY <1>11, <2>1 DEF BotId, FirstOf
<1>12. Sorted(S, Quantities, Notionals, A, p)
  BY <1>9, <1>10, <1>11 DEF Sorted
<1>13. PICK w \in [1 .. 4 -> Int] :
        /\ \A i \in 1 .. 4 : w[i] = 0 \/ \E x \in A[i] : w[i] = Quantities[x]
        /\ SumFunctionOnSet(Quantities, S) = Four(w)
        /\ SumFunctionOnSet(Notionals, S)
             = w[1] * p[1] + w[2] * p[2] + w[3] * p[3] + w[4] * p[4]
  BY <1>12, SumSorted
<1>14. ASSUME NEW i \in 1 .. 4
       PROVE  w[i] = 0 \/ \E n \in Resting(b) :
                /\ w[i] = book[n].qty /\ FirstOf(side) + i < next
                /\ PartOf(book[n], b, theo, q, first, FirstOf(side) + i)
  <2>1. CASE \E x \in A[i] : w[i] = Quantities[x]
    <3>1. PICK x \in A[i] : w[i] = Quantities[x]
      BY <2>1
    <3> QED
      BY <1>1, <1>4, <1>6, <3>1
  <2> QED
    BY <1>13, <2>1
<1>15. /\ p[1] = QuotePrice(side, theo, PriceLevels[1])
       /\ p[2] = QuotePrice(side, theo, PriceLevels[2])
       /\ p[3] = QuotePrice(side, theo, PriceLevels[3])
       /\ p[4] = QuotePrice(side, theo, PriceLevels[4])
  BY <1>5
<1>16. RestsOf(b, theo, q, first, next, side, w)
  BY <1>2, <1>13, <1>14, <1>15 DEF RestsOf
<1> QED
  BY <1>16

\* What rests of a quote is a part of it, at a price that is not below zero.
LEMMA RestsWithin ==
  ASSUME EngineInv, status = "running", NEW b \in MarketMakers,
         NEW theo \in Int, NEW q \in Int, NEW first \in Nat, NEW next \in 1 .. 9,
         NEW side \in Sides, NEW w, RestsOf(b, theo, q, first, next, side, w),
         NEW i \in 1 .. 4
  PROVE  /\ w[i] \in Nat
         /\ w[i] > 0 => /\ FirstOf(side) + i < next
                        /\ w[i] <= Depths(q)[i] /\ Depths(q)[i] <= MaxVolume
                        /\ side = "buy" => PriceLevels[i].delta <= theo
<1>0. /\ \A n \in DOMAIN book : /\ book[n].price \in Int /\ book[n].price >= 0
                                /\ book[n].qty \in Int /\ book[n].qty > 0
  BY DEF EngineInv, Inv, TypeInv, BookType, OrderType, PricesHeld, TrackerMatchesBook
<1>1. CASE w[i] = 0
  BY <1>1
<1>2. CASE w[i] # 0
  <2>1. PICK n \in Resting(b) :
          /\ w[i] = book[n].qty /\ FirstOf(side) + i < next
          /\ PartOf(book[n], b, theo, q, first, FirstOf(side) + i)
    BY <1>2 DEF RestsOf
  <2>2. n \in DOMAIN book
    BY DEF Resting
  <2>3. Rank(FirstOf(side) + i) = i /\ SideAt(FirstOf(side) + i) = side
    BY QuoteNumbers
  <2>4. /\ w[i] <= Depths(q)[i] /\ Depths(q)[i] <= MaxVolume
        /\ book[n].price = QuotePrice(side, theo, PriceLevels[i])
    BY <2>1, <2>3, PartFields DEF PriceAt
  <2>5. side = "buy" => PriceLevels[i].delta <= theo
    <3> SUFFICES ASSUME side = "buy" PROVE PriceLevels[i].delta <= theo
      OBVIOUS
    <3>1. PriceLevels[i].delta \in Int
      <4>1. i = 1 \/ i = 2 \/ i = 3 \/ i = 4
        OBVIOUS
      <4> QED
        BY <4>1, LevelFacts
    <3>2. theo - PriceLevels[i].delta >= 0
      BY <1>0, <2>2, <2>4 DEF QuotePrice
    <3> QED
      BY <3>1, <3>2
  <2> QED
    BY <1>0, <2>1, <2>2, <2>4, <2>5
<1> QED
  BY <1>1, <1>2

\* Nothing of a batch without quantity rests.
LEMMA NothingRests ==
  ASSUME EngineInv, status = "running", NEW b \in MarketMakers, Resting(b) = Latest(b),
         NEW theo \in Int, NEW q \in Int, NEW first \in Nat, NEW next \in 1 .. 9,
         Made(b, theo, q, first, next), q <= 0, NEW side \in Sides
  PROVE  portfolio[b].open[side] = 0 /\ portfolio[b].interest[side] = 0
<1>1. Resting(b) = {}
  <2> SUFFICES ASSUME NEW n \in Resting(b) PROVE FALSE
    OBVIOUS
  <2>1. PICK k \in 1 .. next - 1 : PartOf(book[n], b, theo, q, first, k)
    BY DEF Made
  <2>2. Depths(q)[Rank(k)] > 0 /\ Rank(k) \in 1 .. 4
    BY <2>1, PartFields DEF Rank
  <2>3. Depths(q)[Rank(k)] <= 0 /\ Depths(q)[Rank(k)] \in Int
    BY <2>2, DepthsPortions
  <2> QED
    BY <2>2, <2>3
<1>2. b \in Traders
  BY BotFacts
<1>3. RestingOf[b][side] = {}
  BY <1>1, <1>2 DEF RestingOf, Resting
<1>4. SumFunctionOnSet(Quantities, {}) = 0 /\ SumFunctionOnSet(Notionals, {}) = 0
  <2>1. /\ IsFiniteSet({}) /\ (\A x \in {} : Quantities[x] \in Int)
        /\ \A x \in {} : Notionals[x] \in Int
    BY FS_EmptySet
  <2> QED
    BY <2>1, SumStep
<1>5. /\ portfolio[b].open[side] = SumFunctionOnSet(Quantities, RestingOf[b][side])
      /\ portfolio[b].interest[side] = SumFunctionOnSet(Notionals, RestingOf[b][side])
  BY <1>2 DEF EngineInv, InterestMatchesBook
<1> QED
  BY <1>3, <1>4, <1>5

\* The volume open before the k-th bid is that of the bids before it.
LEMMA BidVolume ==
  ASSUME EngineInv, status = "running", NEW b \in MarketMakers, Resting(b) = Latest(b),
         NEW theo \in Int, NEW q \in Int, q > 0, NEW first \in Nat, NEW k \in 1 .. 4,
         Made(b, theo, q, first, k)
  PROVE  OpenVolume(portfolio[b]) <= Standing(theo, Depths(q), k)
<1>0. k \in 1 .. 9 /\ "buy" \in Sides /\ "sell" \in Sides
  BY DEF Sides
<1>1. PICK w : RestsOf(b, theo, q, first, k, "buy", w)
  BY <1>0, SideSums
<1>2. PICK v : RestsOf(b, theo, q, first, k, "sell", v)
  BY <1>0, SideSums
<1>3. \A i \in 1 .. 4 :
        /\ w[i] \in Nat
        /\ w[i] > 0 => i < k /\ w[i] <= Depths(q)[i] /\ PriceLevels[i].delta <= theo
  <2> SUFFICES ASSUME NEW i \in 1 .. 4
               PROVE  /\ w[i] \in Nat
                      /\ w[i] > 0 => /\ i < k /\ w[i] <= Depths(q)[i]
                                     /\ PriceLevels[i].delta <= theo
    OBVIOUS
  <2>1. FirstOf("buy") + i = i
    BY DEF FirstOf
  <2>2. /\ w[i] \in Nat
        /\ w[i] > 0 => /\ FirstOf("buy") + i < k /\ w[i] <= Depths(q)[i]
                       /\ PriceLevels[i].delta <= theo
    BY <1>0, <1>1, RestsWithin
  <2> QED
    BY <2>1, <2>2
<1>4. \A i \in 1 .. 4 : v[i] = 0
  <2> SUFFICES ASSUME NEW i \in 1 .. 4 PROVE v[i] = 0
    OBVIOUS
  <2>1. ~(FirstOf("sell") + i < k)
    BY DEF FirstOf
  <2>2. v[i] \in Nat /\ (v[i] > 0 => FirstOf("sell") + i < k)
    BY <1>0, <1>2, RestsWithin
  <2> QED
    BY <2>1, <2>2
<1>5. /\ Depths(q) \in [1 .. 4 -> Nat]
      /\ Depths(q)[1] \in Nat /\ Depths(q)[2] \in Nat /\ Depths(q)[3] \in Nat
  BY DepthsPortions
<1>6. /\ w[1] \in Nat /\ w[2] \in Nat /\ w[3] \in Nat /\ w[4] = 0
      /\ v[1] = 0 /\ v[2] = 0 /\ v[3] = 0 /\ v[4] = 0
  BY <1>3, <1>4
<1>7. OpenVolume(portfolio[b]) = w[1] + w[2] + w[3]
  <2>1. portfolio[b].open["buy"] = Four(w) /\ portfolio[b].open["sell"] = Four(v)
    BY <1>1, <1>2 DEF RestsOf
  <2>2. Four(w) = w[1] + w[2] + w[3] /\ Four(v) = 0
    BY <1>6 DEF Four
  <2> QED
    BY <1>6, <2>1, <2>2 DEF OpenVolume
<1> DEFINE part(i) == IF i < k /\ PriceLevels[i].delta <= theo THEN Depths(q)[i] ELSE 0
<1>8. \A i \in 1 .. 3 : w[i] <= part(i) /\ part(i) \in Nat
  <2> SUFFICES ASSUME NEW i \in 1 .. 3 PROVE w[i] <= part(i) /\ part(i) \in Nat
    OBVIOUS
  <2>1. i \in 1 .. 4 /\ Depths(q)[i] \in Nat
    BY <1>5
  <2>2. w[i] \in Nat /\ (w[i] > 0 => /\ i < k /\ w[i] <= Depths(q)[i]
                                     /\ PriceLevels[i].delta <= theo)
    BY <1>3, <2>1
  <2> QED
    BY <2>1, <2>2
<1>9. Standing(theo, Depths(q), k) = part(1) + part(2) + part(3)
  BY DEF Standing
<1>10. /\ w[1] <= part(1) /\ w[2] <= part(2) /\ w[3] <= part(3)
       /\ part(1) \in Nat /\ part(2) \in Nat /\ part(3) \in Nat
  BY <1>8
<1> HIDE DEF part
<1> QED
  BY <1>6, <1>7, <1>9, <1>10

\* The latest batch, alone in the book, is worth at most half of the capital.
LEMMA BatchHalf ==
  ASSUME EngineInv, status = "running", NEW b \in MarketMakers, Resting(b) = Latest(b),
         NEW theo \in Int, NEW q \in Int, NEW first \in Nat, NEW next \in 1 .. 9,
         Sized(b, theo, q), Made(b, theo, q, first, next), Missing(b, theo, q, next)
  PROVE  HalfAtMost(b)
<1>0. /\ "buy" \in Sides /\ "sell" \in Sides
      /\ InitialCapital[b] \in Nat /\ b \in Traders
  BY BotFacts DEF Sides
<1>1. CASE q <= 0
  <2>1. portfolio[b].interest["buy"] = 0 /\ portfolio[b].interest["sell"] = 0
    BY <1>0, <1>1, NothingRests
  <2> QED
    BY <1>0, <2>1 DEF HalfAtMost, AtStake, Widen, Multiplier
<1>2. CASE q > 0
  <2>0. /\ theo \in Nat /\ q \in Nat /\ 4 * (theo * q) <= 100 * InitialCapital[b]
    BY <1>2 DEF Sized
  <2>1. PICK w : RestsOf(b, theo, q, first, next, "buy", w)
    BY <1>0, SideSums
  <2>2. PICK v : RestsOf(b, theo, q, first, next, "sell", v)
    BY <1>0, SideSums
  <2>3. PICK z \in [1 .. 4 -> Nat] :
          /\ z = Depths(q)
          /\ 100 * z[1] <= 50 * q /\ 100 * z[2] <= 33 * q
          /\ 100 * z[3] <= 12 * q /\ 100 * z[4] <= 4 * q
    BY <1>2, DepthsPortions
  <2>4. \A i \in 1 .. 4 : w[i] \in Nat /\ w[i] <= z[i]
    <3> SUFFICES ASSUME NEW i \in 1 .. 4 PROVE w[i] \in Nat /\ w[i] <= z[i]
      OBVIOUS
    <3>1. w[i] \in Nat /\ (w[i] > 0 => w[i] <= z[i])
      BY <1>0, <2>1, <2>3, RestsWithin
    <3>2. z[i] \in Nat
      BY <2>3
    <3> QED
      BY <3>1, <3>2
  <2>5. \A i \in 1 .. 4 :
          /\ v[i] \in Nat /\ v[i] <= z[i]
          /\ v[i] > 0 => z[i] <= MaxVolume /\ 4 + i < next
    <3> SUFFICES ASSUME NEW i \in 1 .. 4
                 PROVE  /\ v[i] \in Nat /\ v[i] <= z[i]
                        /\ v[i] > 0 => z[i] <= MaxVolume /\ 4 + i < next
      OBVIOUS
    <3>1. /\ v[i] \in Nat
          /\ v[i] > 0 => /\ v[i] <= z[i] /\ z[i] <= MaxVolume
                         /\ FirstOf("sell") + i < next
      BY <1>0, <2>2, <2>3, RestsWithin
    <3>2. z[i] \in Nat
      BY <2>3
    <3> QED
      BY <3>1, <3>2 DEF FirstOf
  <2>6. w \in [1 .. 4 -> Nat] /\ v \in [1 .. 4 -> Nat]
    BY <2>1, <2>2, <2>4, <2>5 DEF RestsOf
  <2>7. Portions(q, z, w, v)
    BY <2>3, <2>4, <2>5, <2>6 DEF Portions
  <2>8. Four(w) + Four(v) <= MaxVolume
    <3>1. OpenVolume(portfolio[b]) = Four(w) + Four(v)
      BY <2>1, <2>2 DEF RestsOf, OpenVolume
    <3>2. PICK r \in Nat :
            r = IF incoming # NoOrder /\ incoming.trader = b THEN incoming.qty ELSE 0
      <4>1. incoming # NoOrder => incoming.qty \in Nat
        BY DEF EngineInv, Inv, TypeInv, IncomingType, OrderType, NotOverfilled
      <4> QED
        BY <4>1
    <3>3. OpenVolume(portfolio[b]) + r <= MaxVolume
      BY <1>0, <3>2 DEF EngineInv, OpenVolumeBounded
    <3>4. Four(w) \in Nat /\ Four(v) \in Nat /\ MaxVolume \in Nat
      BY <2>6, BoundsAssumption, ValueExpanded, <2>0
    <3> QED
      BY <3>1, <3>3, <3>4
  <2>9. ASSUME Four(v) > 0 PROVE \A k \in 1 .. 4 : Refused(theo, z, k)
    <3>1. v[1] > 0 \/ v[2] > 0 \/ v[3] > 0 \/ v[4] > 0
      BY <2>5, <2>9 DEF Four
    <3>2. next > 5
      BY <2>5, <3>1
    <3> QED
      BY <2>3, <3>2 DEF Missing
  <2>10. Value(theo, w, v) <= 2 * (theo * q)
    BY <2>0, <2>5, <2>7, <2>8, <2>9, DepthValue
  <2>11. AtStake(b) = Value(theo, w, v)
    <3>1. /\ portfolio[b].interest["buy"]
               = w[1] * (theo - 16) + w[2] * (theo - 21)
                   + w[3] * (theo - 26) + w[4] * (theo - 31)
          /\ portfolio[b].interest["sell"]
               = v[1] * (theo + 16) + v[2] * (theo + 21)
                   + v[3] * (theo + 26) + v[4] * (theo + 31)
      BY <2>1, <2>2, LevelFacts DEF RestsOf, QuotePrice
    <3> DEFINE w1 == w[1] * (theo - 16)   v1 == v[1] * (theo + 16)
               w2 == w[2] * (theo - 21)   v2 == v[2] * (theo + 21)
               w3 == w[3] * (theo - 26)   v3 == v[3] * (theo + 26)
               w4 == w[4] * (theo - 31)   v4 == v[4] * (theo + 31)
    <3>2. /\ w1 \in Int /\ w2 \in Int /\ w3 \in Int /\ w4 \in Int
          /\ v1 \in Int /\ v2 \in Int /\ v3 \in Int /\ v4 \in Int
      BY <2>4, <2>5
    <3>3. /\ portfolio[b].interest["buy"] = w1 + w2 + w3 + w4
          /\ portfolio[b].interest["sell"] = v1 + v2 + v3 + v4
          /\ Value(theo, w, v) = w1 + w2 + w3 + w4 + v1 + v2 + v3 + v4
      BY <3>1 DEF Value
    <3> HIDE DEF w1, w2, w3, w4, v1, v2, v3, v4
    <3> QED
      BY <3>2, <3>3 DEF AtStake
  <2>12. Value(theo, w, v) \in Int
    BY <2>6, ValueExpanded
  <2>13. PICK x \in Int, y \in Int : x = Value(theo, w, v) /\ y = theo * q
    BY <2>12
  <2> QED
    BY <1>0, <2>0, <2>10, <2>11, <2>13 DEF HalfAtMost, Widen, Multiplier
<1> QED
  BY <1>1, <1>2

\* What is left of what was left.
LEMMA RemainsTwice ==
  ASSUME NEW x, NEW o, NEW p, Remains(x, o), Remains(o, p),
         x.qty \in Int, o.qty \in Int, p.qty \in Int
  PROVE  Remains(x, p)
BY DEF Remains

LEMMA PartRemains ==
  ASSUME NEW x, NEW o, NEW b, NEW theo, NEW q \in Int, NEW first, NEW k \in 1 .. 8,
         Remains(x, o), PartOf(o, b, theo, q, first, k), x.qty \in Int, o.qty \in Int
  PROVE  PartOf(x, b, theo, q, first, k)
<1>1. QuoteAt(b, theo, q, first, k).qty = Depths(q)[Rank(k)] /\ Rank(k) \in 1 .. 4
  BY DEF QuoteAt, Rank
<1>2. Depths(q)[Rank(k)] \in Int
  BY <1>1, DepthsPortions
<1> QED
  BY <1>1, <1>2, RemainsTwice DEF PartOf

\* What rests of the batch goes on to rest, or to be less.
LEMMA MadeShrinks ==
  ASSUME Inv, Inv', Shrinks, NEW b, open_orders'[b] = open_orders[b],
         NEW theo, NEW q \in Int, NEW first, NEW next \in 1 .. 9, NEW later \in 1 .. 9,
         next <= later, Made(b, theo, q, first, next)
  PROVE  Made(b, theo, q, first, later)'
<1> SUFFICES ASSUME NEW n \in Latest(b)'
             PROVE  \E k \in 1 .. later - 1 : PartOf(book'[n], b, theo, q, first, k)
  BY DEF Made
<1>1. /\ n \in DOMAIN book' /\ n \in DOMAIN book /\ Remains(book'[n], book[n])
      /\ book'[n].qty \in Int /\ book[n].qty \in Int
  <2>1. n \in DOMAIN book' /\ n \in DOMAIN book /\ Remains(book'[n], book[n])
    BY DEF Latest, Resting, Shrinks
  <2> QED
    BY <2>1 DEF Inv, TypeInv, BookType, OrderType
<1>2. n \in Latest(b)
  BY <1>1 DEF Latest, Resting, Remains
<1>3. PICK k \in 1 .. next - 1 : PartOf(book[n], b, theo, q, first, k)
  BY <1>2 DEF Made
<1>4. k \in 1 .. 8 /\ k \in 1 .. later - 1
  BY <1>3
<1>5. PartOf(book'[n], b, theo, q, first, k)
  BY <1>1, <1>3, <1>4, PartRemains
<1> QED
  BY <1>4, <1>5

\* A step that handles no quote of b keeps its batch.
LEMMA BatchKept ==
  ASSUME Inv, Inv', Shrinks, NEW b, open_orders'[b] = open_orders[b],
         NEW theo, NEW q \in Int, NEW first, NEW next \in 1 .. 9, NEW offset, NEW moved,
         Batch(b, theo, q, first, next, offset),
         ToCome(b, theo, q, first, next, moved)',
         Handling(b)' <=> Handling(b),
         Handling(b) => /\ Remains(incoming', incoming)
                        /\ incoming.side = "buy" /\ incoming.price < 0
                             => incoming'.qty = incoming.qty
  PROVE  Batch(b, theo, q, first, next, moved)'
<1>1. /\ Sized(b, theo, q) /\ InHand(b, theo, q, first, next)
      /\ Made(b, theo, q, first, next) /\ Missing(b, theo, q, next)
  BY DEF Batch
<1>2. Made(b, theo, q, first, next)'
  BY <1>1, MadeShrinks
<1>3. Missing(b, theo, q, next)'
  BY <1>1 DEF Missing
<1>4. InHand(b, theo, q, first, next)'
  <2> SUFFICES ASSUME Handling(b)'
               PROVE  /\ next > 1 /\ PartOf(incoming', b, theo, q, first, next - 1)
                      /\ incoming'.side = "buy" /\ incoming'.price < 0 => incoming'.qty > 0
    BY DEF InHand
  <2>1. /\ next > 1 /\ PartOf(incoming, b, theo, q, first, next - 1)
        /\ incoming.side = "buy" /\ incoming.price < 0 => incoming.qty > 0
    BY <1>1 DEF InHand
  <2>2. /\ Remains(incoming', incoming) /\ incoming'.qty \in Int /\ incoming.qty \in Int
        /\ next - 1 \in 1 .. 8
    BY <2>1 DEF Inv, TypeInv, IncomingType, OrderType, Handling
  <2>3. PartOf(incoming', b, theo, q, first, next - 1)
    BY <2>1, <2>2, PartRemains
  <2>4. incoming'.side = incoming.side /\ incoming'.price = incoming.price
    BY <2>2 DEF Remains
  <2> QED
    BY <2>1, <2>3, <2>4
<1>5. Sized(b, theo, q)'
  BY <1>1 DEF Sized
<1> QED
  BY <1>2, <1>3, <1>4, <1>5 DEF Batch

\* Messages that are not b's orders, behind the others.
LEMMA ToComeLonger ==
  ASSUME NEW b, NEW theo, NEW q, NEW first, NEW next, NEW offset,
         ToCome(b, theo, q, first, next, offset),
         \A i \in DOMAIN queue : i \in DOMAIN queue' /\ queue'[i] = queue[i],
         \A i \in DOMAIN queue' : i \notin DOMAIN queue => ~OrderOf(queue'[i], b)
  PROVE  ToCome(b, theo, q, first, next, offset)'
<1>1. ASSUME NEW i \in DOMAIN queue', OrderOf(queue'[i], b)
      PROVE  i + offset \in next .. 8 /\ queue'[i] = QuoteAt(b, theo, q, first, i + offset)
  BY <1>1 DEF ToCome
<1>2. ASSUME NEW k \in next .. 8
      PROVE  k - offset \in DOMAIN queue' /\ OrderOf(queue'[k - offset], b)
  BY <1>2 DEF ToCome
<1> QED
  BY <1>1, <1>2 DEF ToCome

\* The first message is taken away.
LEMMA ToComeTail ==
  ASSUME queue \in Seq(Message), queue # <<>>, queue' = Tail(queue),
         NEW b, NEW theo, NEW q, NEW first, NEW next \in 1 .. 9, NEW offset \in Int,
         ToCome(b, theo, q, first, next, offset)
  PROVE  /\ ~OrderOf(Head(queue), b) =>
              ToCome(b, theo, q, first, next, offset + 1)'
         /\ OrderOf(Head(queue), b) =>
              /\ next \in 1 .. 8 /\ Head(queue) = QuoteAt(b, theo, q, first, next)
              /\ ToCome(b, theo, q, first, next + 1, offset + 1)'
<1>1. /\ Head(queue) = queue[1]
      /\ Len(queue) \in Nat /\ Len(queue) > 0 /\ Len(queue') = Len(queue) - 1
      /\ DOMAIN queue = 1 .. Len(queue) /\ DOMAIN queue' = 1 .. Len(queue')
      /\ \A i \in 1 .. Len(queue') : queue'[i] = queue[i + 1]
  BY QueueTail
<1>2. ASSUME NEW i \in DOMAIN queue', OrderOf(queue'[i], b)
      PROVE  /\ i + (offset + 1) \in next .. 8
             /\ queue'[i] = QuoteAt(b, theo, q, first, i + (offset + 1))
  <2>1. i \in Int /\ i + 1 \in DOMAIN queue /\ queue'[i] = queue[i + 1]
    BY <1>1
  <2>2. i + 1 + offset = i + (offset + 1)
    BY <2>1
  <2> QED
    BY <1>2, <2>1, <2>2 DEF ToCome
<1>3. ASSUME NEW k \in next .. 8, k - offset # 1
      PROVE  /\ k - (offset + 1) \in DOMAIN queue'
             /\ OrderOf(queue'[k - (offset + 1)], b)
  <2>1. k - offset \in DOMAIN queue /\ OrderOf(queue[k - offset], b)
    BY DEF ToCome
  <2>2. k - (offset + 1) \in DOMAIN queue' /\ k - (offset + 1) + 1 = k - offset
    BY <1>1, <1>3, <2>1
  <2>3. queue'[k - (offset + 1)] = queue[k - offset]
    BY <1>1, <2>2
  <2> QED
    BY <2>1, <2>2, <2>3
<1>4. CASE ~OrderOf(Head(queue), b)
  <2>1. \A k \in next .. 8 : k - offset # 1
    BY <1>1, <1>4 DEF ToCome
  <2> QED
    BY <1>2, <1>3, <1>4, <2>1 DEF ToCome
<1>5. CASE OrderOf(Head(queue), b)
  <2>1. 1 \in DOMAIN queue /\ OrderOf(queue[1], b)
    BY <1>1, <1>5
  <2>2. 1 + offset \in next .. 8 /\ queue[1] = QuoteAt(b, theo, q, first, 1 + offset)
    BY <2>1 DEF ToCome
  <2>3. next \in 1 .. 8 /\ 1 + offset = next
    <3>1. next \in next .. 8
      BY <2>2
    <3>2. next - offset \in DOMAIN queue
      BY <3>1 DEF ToCome
    <3> QED
      BY <1>1, <2>2, <3>2
  <2>4. ASSUME NEW i \in DOMAIN queue', OrderOf(queue'[i], b)
        PROVE  i + (offset + 1) \in next + 1 .. 8
    BY <1>1, <1>2, <2>3, <2>4
  <2>5. ASSUME NEW k \in next + 1 .. 8
        PROVE  /\ k - (offset + 1) \in DOMAIN queue'
               /\ OrderOf(queue'[k - (offset + 1)], b)
    <3>1. k \in next .. 8 /\ k - offset # 1
      BY <2>3
    <3> QED
      BY <1>3, <3>1
  <2>6. ToCome(b, theo, q, first, next + 1, offset + 1)'
    BY <1>2, <2>4, <2>5 DEF ToCome
  <2> QED
    BY <1>1, <1>5, <2>2, <2>3, <2>6
<1> QED
  BY <1>4, <1>5

\* The next quote of b is accepted, and is in hand; or refused, and if it was a bid
\* below zero, for the volume it would have added.
LEMMA QuoteHandled ==
  ASSUME EngineInv, EngineInv', TrackInv, NEW b \in MarketMakers,
         NEW theo \in Int, NEW q \in Int, NEW first \in Nat, NEW next \in 1 .. 8,
         NEW offset \in Int, Batch(b, theo, q, first, next, offset),
         ToCome(b, theo, q, first, next + 1, offset + 1)',
         NEW m, m = QuoteAt(b, theo, q, first, next), Resting(b) = Latest(b),
         Accept(Stamped(m)) \/ Drop(Stamped(m)), UNCHANGED open_orders
  PROVE  Batch(b, theo, q, first, next + 1, offset + 1)'
<1>0. /\ Inv /\ Inv' /\ submitted \in Nat /\ status = "running" /\ ~Handling(b)
      /\ UNCHANGED <<book, portfolio>>
      /\ MaxVolume \in Nat /\ b \in Traders
  BY BoundsAssumption, BotFacts
     DEF EngineInv, Inv, TypeInv, Accept, Drop, Idle, Handling, bookVars
<1>1. /\ Sized(b, theo, q) /\ Made(b, theo, q, first, next) /\ Missing(b, theo, q, next)
  BY DEF Batch
<1>2. Shrinks
  BY <1>0, SameBookShrinks
<1>3. next \in 1 .. 9 /\ next + 1 \in 1 .. 9 /\ next <= next + 1
  OBVIOUS
<1>4. Made(b, theo, q, first, next + 1)'
  BY <1>0, <1>1, <1>2, <1>3, MadeShrinks
<1>5. PICK o : o = Stamped(m)
  OBVIOUS
<1>6. /\ o.kind = "limit" /\ o.trader = b /\ ~o.ioc /\ o.ticker = TickerOf[b]
      /\ o.side = SideAt(next) /\ o.price = PriceAt(theo, next)
      /\ o.id = BotId(first + next) /\ o.qty = Depths(q)[Rank(next)]
  BY <1>5 DEF Stamped, QuoteAt
<1>7. Depths(q)[Rank(next)] \in Int /\ Rank(next) \in 1 .. 4
  <2>1. Rank(next) \in 1 .. 4
    BY DEF Rank
  <2> QED
    BY <2>1, DepthsPortions
<1>8. OpenVolume(portfolio[b]) \in Nat
  <2>1. "buy" \in Sides /\ "sell" \in Sides
    BY DEF Sides
  <2>2. portfolio[b].open["buy"] \in Nat /\ portfolio[b].open["sell"] \in Nat
    BY <1>0, <2>1, StakesNotNegative
  <2> QED
    BY <2>2 DEF OpenVolume
<1>9. CASE Accept(o)
  <2>1. /\ incoming' = o /\ o.qty > 0 /\ o.qty + OpenVolume(portfolio[b]) <= MaxVolume
    BY <1>6, <1>9 DEF Accept, Admissible
  <2>2. PartOf(incoming', b, theo, q, first, next)
    <3>1. /\ m.kind = "limit" /\ m.trader = b /\ ~m.ioc /\ m.ticker = TickerOf[b]
          /\ m.side = SideAt(next) /\ m.price = PriceAt(theo, next)
          /\ m.id = BotId(first + next) /\ m.qty = Depths(q)[Rank(next)]
          /\ m.ioc = FALSE /\ o.ioc = FALSE
      BY <1>5 DEF Stamped, QuoteAt
    <3>2. o.qty <= m.qty
      BY <1>6, <1>7, <3>1
    <3>3. Remains(o, m)
      BY <1>6, <3>1, <3>2 DEF Remains
    <3>4. Remains(o, QuoteAt(b, theo, q, first, next))
      BY <3>3
    <3> QED
      BY <1>0, <1>6, <1>7, <1>8, <2>1, <3>4 DEF PartOf
  <2>3. Handling(b)' /\ next + 1 > 1 /\ (next + 1) - 1 = next
    BY <1>6, <2>1 DEF Handling, NoOrder
  <2>4. InHand(b, theo, q, first, next + 1)'
    BY <2>1, <2>2, <2>3 DEF InHand
  <2>5. Missing(b, theo, q, next + 1)'
    <3>1. ASSUME NEW k \in 1 .. 4, k < next + 1, k # next PROVE Refused(theo, Depths(q), k)
      BY <1>0, <1>1, <3>1 DEF Missing
    <3> QED
      BY <2>3, <3>1 DEF Missing
  <2>6. Sized(b, theo, q)'
    BY <1>1 DEF Sized
  <2> QED
    BY <1>4, <2>4, <2>5, <2>6 DEF Batch
<1>10. CASE Drop(o)
  <2>1. /\ ~Handling(b)'
        /\ ~(o.qty > 0 /\ o.qty + OpenVolume(portfolio[b]) <= MaxVolume)
    BY <1>6, <1>10 DEF Drop, Idle, Handling, Admissible
  <2>2. InHand(b, theo, q, first, next + 1)'
    BY <2>1 DEF InHand
  <2>3. ASSUME next <= 4 PROVE Refused(theo, Depths(q), next)
    <3> SUFFICES ASSUME Depths(q)[next] > 0
                 PROVE  MaxVolume < Depths(q)[next] + Standing(theo, Depths(q), next)
      BY DEF Refused
    <3>1. next \in 1 .. 4 /\ Rank(next) = next /\ q > 0
      <4>1. next \in 1 .. 4 /\ Rank(next) = next
        BY <2>3 DEF Rank
      <4>2. q <= 0 => Depths(q)[next] <= 0
        BY <4>1, DepthsPortions
      <4> QED
        BY <1>7, <4>1, <4>2
    <3>2. OpenVolume(portfolio[b]) <= Standing(theo, Depths(q), next)
      BY <1>0, <1>1, <3>1, BidVolume
    <3>3. PICK x \in Int : x = Standing(theo, Depths(q), next)
      <4>1. Depths(q) \in [1 .. 4 -> Nat]
        BY <3>1, DepthsPortions
      <4>2. Depths(q)[1] \in Nat /\ Depths(q)[2] \in Nat /\ Depths(q)[3] \in Nat
        BY <4>1
      <4> QED
        BY <4>2 DEF Standing
    <3> QED
      BY <1>0, <1>6, <1>7, <1>8, <2>1, <3>1, <3>2, <3>3
  <2>4. Missing(b, theo, q, next + 1)'
    <3>1. ASSUME NEW k \in 1 .. 4, k < next + 1 PROVE Refused(theo, Depths(q), k)
      <4>1. CASE k = next
        BY <2>3, <4>1
      <4>2. CASE k < next
        BY <1>0, <1>1, <4>2 DEF Missing
      <4> QED
        BY <3>1, <4>1, <4>2
    <3> QED
      BY <3>1 DEF Missing
  <2>5. Sized(b, theo, q)'
    BY <1>1 DEF Sized
  <2> QED
    BY <1>4, <2>2, <2>4, <2>5 DEF Batch
<1> QED
  BY <1>5, <1>9, <1>10

\* match_orders_ turns to a message: of b's batch, or any other.
LEMMA HandleBatch ==
  ASSUME EngineInv, EngineInv', ControlInv, TrackInv, Handle, NEW b \in MarketMakers,
         Batched(b)
  PROVE  Batched(b)'
<1>1. PICK theo \in Int, q \in Int, first \in Nat, next \in 1 .. 9, offset \in Int :
        Batch(b, theo, q, first, next, offset)
  BY DEF Batched
<1>0. /\ Inv /\ Inv' /\ PricesHeld /\ submitted \in Nat
      /\ queue \in Seq(Message) /\ queue # <<>> /\ queue' = Tail(queue)
      /\ UNCHANGED open_orders /\ Tracked(b)
      /\ ToCome(b, theo, q, first, next, offset) /\ offset + 1 \in Int
  BY <1>1 DEF EngineInv, Inv, TypeInv, ControlInv, Handle, TrackInv, Batch
<1>2. PICK m \in Message : m = Head(queue)
  BY <1>0, QueueTail
<1>3. IF m.kind = "cancel" THEN Cancel(m.ticker, m.id)
      ELSE Accept(Stamped(m)) \/ Drop(Stamped(m))
  BY <1>2 DEF Handle
<1>4. CASE ~OrderOf(m, b)
  <2>1. ToCome(b, theo, q, first, next, offset + 1)'
    BY <1>0, <1>2, <1>4, ToComeTail
  <2>2. Shrinks /\ ~Handling(b) /\ ~Handling(b)'
    <3>1. CASE m.kind = "cancel"
      <4>1. Cancel(m.ticker, m.id) /\ m.ticker \in Tickers /\ m.id \in Nat
        BY <1>3, <3>1, MessageKinds
      <4>2. Shrinks
        BY <1>0, <4>1, CancelEffect
      <4> QED
        BY <4>1, <4>2 DEF Cancel, Idle, Handling
    <3>2. CASE m.kind # "cancel"
      <4>1. m \in OrderType
        BY <3>2, MessageKinds
      <4>2. PICK o : o = Stamped(m) /\ o.trader = m.trader
        BY <1>0, <4>1, StampedOrder DEF Remains
      <4>3. Accept(o) \/ Drop(o)
        BY <1>3, <3>2, <4>2
      <4>4. /\ UNCHANGED book /\ incoming = NoOrder
            /\ incoming' = o \/ incoming' = NoOrder
        BY <4>3 DEF Accept, Drop, Idle, bookVars
      <4>5. Shrinks
        BY <1>0, <4>4, SameBookShrinks
      <4> QED
        BY <1>4, <3>2, <4>2, <4>4, <4>5 DEF Handling, OrderOf
    <3> QED
      BY <3>1, <3>2
  <2>3. Batch(b, theo, q, first, next, offset + 1)'
    BY <1>0, <1>1, <2>1, <2>2, BatchKept
  <2> QED
    BY <1>0, <2>3 DEF Batched
<1>5. CASE OrderOf(m, b)
  <2>1. /\ next \in 1 .. 8 /\ m = QuoteAt(b, theo, q, first, next)
        /\ ToCome(b, theo, q, first, next + 1, offset + 1)'
    BY <1>0, <1>2, <1>5, ToComeTail
  <2>2. Resting(b) = Latest(b)
    <3>1. \A n \in Resting(b) \ Latest(b) : ~OrderOf(m, b)
      BY <1>0, <1>2, CancelledFirstTail DEF Tracked
    <3> QED
      BY <1>5, <3>1 DEF Latest
  <2>3. Accept(Stamped(m)) \/ Drop(Stamped(m))
    BY <1>3, <1>5 DEF OrderOf
  <2>4. Batch(b, theo, q, first, next + 1, offset + 1)'
    BY <1>0, <1>1, <2>1, <2>2, <2>3, QuoteHandled
  <2>5. next + 1 \in 1 .. 9
    BY <2>1
  <2> QED
    BY <1>0, <2>4, <2>5 DEF Batched
<1> QED
  BY <1>4, <1>5

\* The loop of match_order ends with what is left of an order.
LEMMA EndOfLoopBatch ==
  ASSUME EngineInv, EngineInv', TrackInv, Rest \/ Discard, UNCHANGED botVars,
         status' = "running", NEW b \in MarketMakers, Batched(b)
  PROVE  Batched(b)'
<1>1. PICK theo \in Int, q \in Int, first \in Nat, next \in 1 .. 9, offset \in Int :
        Batch(b, theo, q, first, next, offset)
  BY DEF Batched
<1>0. /\ Inv /\ Inv' /\ incoming # NoOrder /\ incoming' = NoOrder
      /\ UNCHANGED <<queue, open_orders>> /\ incoming \in OrderType
      /\ Owned(b) /\ BookType
      /\ arrivals \in Nat /\ DOMAIN book \subseteq 1 .. arrivals
  BY DEF EngineInv, Inv, TypeInv, IncomingType, BookType, Rest, Discard, Matching,
         botVars, TrackInv
<1>2. /\ Sized(b, theo, q) /\ ToCome(b, theo, q, first, next, offset)
      /\ InHand(b, theo, q, first, next)
      /\ Made(b, theo, q, first, next) /\ Missing(b, theo, q, next)
  BY <1>1 DEF Batch
<1>3. ~Handling(b)' /\ InHand(b, theo, q, first, next)'
  BY <1>0 DEF Handling, InHand
<1>4. ASSUME Handling(b)
      PROVE  /\ next > 1 /\ PartOf(incoming, b, theo, q, first, next - 1)
             /\ incoming.side = "buy" => incoming.price >= 0
  <2>1. /\ next > 1 /\ PartOf(incoming, b, theo, q, first, next - 1)
        /\ incoming.side = "buy" /\ incoming.price < 0 => incoming.qty > 0
    BY <1>2, <1>4 DEF InHand
  <2>2. incoming.kind = "limit" /\ ~incoming.ioc /\ incoming.price \in Int
    BY <1>0, <2>1, PartFields DEF OrderType
  <2>3. ASSUME incoming.side = "buy", incoming.price < 0 PROVE FALSE
    <3>1. Rests
      BY <2>1, <2>2, <2>3 DEF Rests
    <3>2. Rest
      BY <3>1 DEF Discard
    <3> QED
      BY <2>3, <3>2 DEF Rest, AddOrder
  <2> QED
    BY <2>1, <2>2, <2>3
<1>5. Missing(b, theo, q, next)'
  <2>1. ASSUME NEW k \in 1 .. 4, k < next PROVE Refused(theo, Depths(q), k)
    <3>1. CASE Handling(b) /\ k = next - 1
      <4>1. PartOf(incoming, b, theo, q, first, k) /\ Rank(k) = k /\ SideAt(k) = "buy"
        BY <1>4, <3>1 DEF Rank, SideAt
      <4>2. theo - PriceLevels[k].delta >= 0
        BY <1>4, <3>1, <4>1, PartFields DEF PriceAt, QuotePrice
      <4>3. PriceLevels[k].delta \in Int
        <5>1. k = 1 \/ k = 2 \/ k = 3 \/ k = 4
          OBVIOUS
        <5> QED
          BY <5>1, LevelFacts
      <4> QED
        BY <4>2, <4>3 DEF Refused
    <3>2. CASE ~(Handling(b) /\ k = next - 1)
      BY <1>2, <2>1, <3>2 DEF Missing
    <3> QED
      BY <3>1, <3>2
  <2> QED
    BY <2>1 DEF Missing
<1>6. Made(b, theo, q, first, next)'
  <2>1. CASE Discard
    <3>1. Shrinks
      BY <1>0, <2>1, SameBookShrinks DEF Discard, bookVars
    <3> QED
      BY <1>0, <1>2, <3>1, MadeShrinks
  <2>2. CASE Rest
    <3> SUFFICES ASSUME NEW n \in Latest(b)'
                 PROVE  \E k \in 1 .. next - 1 : PartOf(book'[n], b, theo, q, first, k)
      BY DEF Made
    <3>1. book' = Put(book, arrivals + 1, incoming)
      BY <2>2 DEF Rest, AddOrder
    <3>2. /\ arrivals + 1 \notin DOMAIN book /\ book'[arrivals + 1] = incoming
          /\ DOMAIN book' = DOMAIN book \cup {arrivals + 1}
          /\ \A x \in DOMAIN book : book'[x] = book[x]
      BY <1>0, <3>1 DEF Put
    <3>3. /\ n \in DOMAIN book' /\ book'[n].trader = b
          /\ book'[n].id \in ToSet(open_orders[b])
      BY <1>0 DEF Latest, Resting
    <3>4. CASE n = arrivals + 1
      <4>1. Handling(b) /\ book'[n] = incoming
        BY <1>0, <3>2, <3>3, <3>4 DEF Handling
      <4>2. next - 1 \in 1 .. next - 1 /\ PartOf(book'[n], b, theo, q, first, next - 1)
        BY <1>4, <4>1
      <4> QED
        BY <4>2
    <3>5. CASE n # arrivals + 1
      <4>1. n \in Latest(b) /\ book'[n] = book[n]
        BY <3>2, <3>3, <3>5 DEF Latest, Resting
      <4> QED
        BY <1>2, <4>1 DEF Made
    <3> QED
      BY <3>4, <3>5
  <2> QED
    BY <2>1, <2>2
<1>7. ToCome(b, theo, q, first, next, offset)'
  BY <1>0, <1>2 DEF ToCome
<1>8. Batch(b, theo, q, first, next, offset)'
  BY <1>2, <1>3, <1>5, <1>6, <1>7 DEF Batch, Sized
<1> QED
  BY <1>8 DEF Batched

\* The market maker that acts reckons with at most half of its capital at stake,
\* and has all of its batch still to come.
LEMMA OwnBatch ==
  ASSUME EngineInv, ControlInv, TrackInv, HalfInv, Act,
         NEW b \in MarketMakers, b = Head(acting)
  PROVE  Batched(b)'
<1>0. /\ TypeInv /\ count \in Nat /\ queue \in Seq(Message)
      /\ phase = "acting" /\ status = "running"
      /\ Settled(b) /\ open_orders[b] \in Seq(Nat)
      /\ b \in Traders /\ InitialCapital[b] \in Nat /\ InitialCapital[b] > 0
      /\ "buy" \in Sides /\ "sell" \in Sides
  BY BotFacts DEF EngineInv, Inv, ControlInv, TrackInv, Act, Sides
<1>1. PICK theo \in Theos :
        Requotes(b, theo, QuoteQuantity(b, theo), Len(queue), Len(open_orders[b]))
  BY <1>0, ActEffect DEF BotActs, Requoted
<1>2. PICK q, l, c, first : /\ q = QuoteQuantity(b, theo) /\ l = Len(queue)
                            /\ c = Len(open_orders[b]) /\ first = count
  OBVIOUS
<1>3. /\ l \in Nat /\ c \in Nat /\ DOMAIN queue = 1 .. l
      /\ first \in Nat /\ theo \in Int /\ theo # 0
  BY <1>0, <1>2, LenProperties, BotFacts
<1>4. /\ queue' \in Seq(Message) /\ Len(queue') = l + c + 8
      /\ \A i \in 1 .. l : queue'[i] = queue[i]
      /\ \A i \in 1 .. c : queue'[l + i] = CancelOf(b, open_orders[b][i])
      /\ \A k \in 1 .. 8 : queue'[l + c + k] = QuoteAt(b, theo, q, first, k)
  BY <1>1, <1>2 DEF Requotes
<1>5. DOMAIN queue' = 1 .. l + c + 8
  <2>1. PICK q2 \in Seq(Message) : q2 = queue'
    BY <1>4
  <2>2. DOMAIN q2 = 1 .. Len(q2)
    BY LenProperties
  <2> QED
    BY <1>4, <2>1, <2>2
<1>6. \A i \in DOMAIN queue : ~OrderOf(queue[i], b)
  BY <1>0, ActingTail DEF Settled
<1>7. Latest(b)' = {} /\ ~Handling(b)'
  BY OwnTrack
<1>8. ToCome(b, theo, q, first, 1, -(l + c))'
  <2>1. ASSUME NEW i \in DOMAIN queue', OrderOf(queue'[i], b)
        PROVE  /\ i + (-(l + c)) \in 1 .. 8
               /\ queue'[i] = QuoteAt(b, theo, q, first, i + (-(l + c)))
    <3>0. l \in Nat /\ c \in Nat /\ i \in 1 .. l + c + 8
      BY <1>3, <1>5
    <3>1. CASE i <= l
      <4>1. i \in 1 .. l
        BY <3>0, <3>1, Places
      <4>2. queue'[i] = queue[i] /\ ~OrderOf(queue[i], b)
        BY <1>3, <1>4, <1>6, <4>1
      <4> QED
        BY <2>1, <4>2
    <3>2. CASE i > l /\ i <= l + c
      <4>1. i - l \in 1 .. c /\ l + (i - l) = i
        BY <3>0, <3>2, Places
      <4>2. queue'[i] = CancelOf(b, open_orders[b][i - l])
        BY <1>4, <4>1
      <4> QED
        BY <2>1, <4>2 DEF CancelOf, OrderOf
    <3>3. CASE i > l + c
      <4>1. /\ i - (l + c) \in 1 .. 8 /\ l + c + (i - (l + c)) = i
            /\ i + (-(l + c)) = i - (l + c)
        BY <3>0, <3>3, Places
      <4>2. queue'[i] = QuoteAt(b, theo, q, first, i - (l + c))
        BY <1>4, <4>1
      <4> QED
        BY <4>1, <4>2
    <3> QED
      BY <3>0, <3>1, <3>2, <3>3, Places
  <2>2. ASSUME NEW k \in 1 .. 8
        PROVE  k - (-(l + c)) \in DOMAIN queue' /\ OrderOf(queue'[k - (-(l + c))], b)
    <3>1. k - (-(l + c)) = l + c + k /\ l + c + k \in 1 .. l + c + 8
      BY <1>3
    <3>2. queue'[l + c + k] = QuoteAt(b, theo, q, first, k)
      BY <1>4
    <3> QED
      BY <1>5, <3>1, <3>2 DEF QuoteAt, OrderOf
  <2> QED
    BY <2>1, <2>2 DEF ToCome
<1>9. q \in Int /\ Sized(b, theo, q)
  <2>1. PICK x \in Nat, y \in Nat : /\ x = portfolio[b].interest["buy"]
                                    /\ y = portfolio[b].interest["sell"]
    BY <1>0, StakesNotNegative
  <2>2. 2 * (x + y) <= Widen(InitialCapital[b])
    BY <1>0, <2>1 DEF HalfInv, HalfAtMost, AtStake
  <2>3. PICK tol \in Nat : tol = Tolerance(b) /\ tol <= InitialCapital[b]
    BY <1>0, <2>1, <2>2, ToleranceRange DEF Tolerance, Utilization
  <2>4. /\ q \in Int
        /\ q > 0 => theo > 0 /\ 4 * (theo * q) <= 100 * tol
    BY <1>2, <1>3, <2>3, QuantityRange DEF QuoteQuantity
  <2>5. PICK h \in Int : h = theo * q
    BY <1>3, <2>4
  <2> QED
    BY <1>0, <2>3, <2>4, <2>5 DEF Sized
<1>10. Batch(b, theo, q, first, 1, -(l + c))'
  <2>1. Sized(b, theo, q)'
    BY <1>0, <1>9 DEF Sized
  <2>2. InHand(b, theo, q, first, 1)' /\ Made(b, theo, q, first, 1)'
    BY <1>7 DEF InHand, Made
  <2>3. Missing(b, theo, q, 1)'
    BY DEF Missing
  <2> QED
    BY <1>8, <2>1, <2>2, <2>3 DEF Batch
<1>11. -(l + c) \in Int /\ 1 \in 1 .. 9
  BY <1>3
<1> QED
  BY <1>3, <1>9, <1>10, <1>11 DEF Batched

\* The turn of another bot leaves the batch of b where it is.
LEMMA OthersBatch ==
  ASSUME EngineInv, EngineInv', ControlInv, Act,
         NEW b \in MarketMakers, b # Head(acting), Batched(b)
  PROVE  Batched(b)'
<1>1. PICK theo \in Int, q \in Int, first \in Nat, next \in 1 .. 9, offset \in Int :
        Batch(b, theo, q, first, next, offset)
  BY DEF Batched
<1>2. /\ Inv /\ Inv' /\ TypeInv /\ UNCHANGED <<book, incoming>> /\ incoming = NoOrder
      /\ ToCome(b, theo, q, first, next, offset)
  BY <1>1 DEF EngineInv, Inv, Act, ControlInv, vars, Batch
<1>3. /\ \A i \in DOMAIN queue : i \in DOMAIN queue' /\ queue'[i] = queue[i]
      /\ \A i \in DOMAIN queue' : i \notin DOMAIN queue => ~OrderOf(queue'[i], b)
      /\ open_orders'[b] = open_orders[b]
  BY <1>2, ActSends
<1>4. ToCome(b, theo, q, first, next, offset)'
  BY <1>2, <1>3, ToComeLonger
<1>5. Shrinks /\ ~Handling(b) /\ ~Handling(b)'
  BY <1>2, SameBookShrinks DEF Handling
<1>6. Batch(b, theo, q, first, next, offset)'
  BY <1>1, <1>2, <1>3, <1>4, <1>5, BatchKept
<1> QED
  BY <1>6 DEF Batched

\* A step that leaves the messages alone, and of the order of a market maker in
\* hand what it was or less.
LEMMA StillBatch ==
  ASSUME EngineInv, EngineInv', Shrinks, UNCHANGED <<queue, open_orders>>,
         NEW b \in MarketMakers, Batched(b), Handling(b)' <=> Handling(b),
         Handling(b) => /\ Remains(incoming', incoming)
                        /\ incoming.side = "buy" /\ incoming.price < 0
                             => incoming'.qty = incoming.qty
  PROVE  Batched(b)'
<1>1. PICK theo \in Int, q \in Int, first \in Nat, next \in 1 .. 9, offset \in Int :
        Batch(b, theo, q, first, next, offset)
  BY DEF Batched
<1>2. ToCome(b, theo, q, first, next, offset)'
  BY <1>1 DEF Batch, ToCome
<1>3. Inv /\ Inv' /\ open_orders'[b] = open_orders[b]
  BY DEF EngineInv
<1>4. Batch(b, theo, q, first, next, offset)'
  BY <1>1, <1>2, <1>3, BatchKept
<1> QED
  BY <1>4 DEF Batched

\* A match leaves the price as it was, and is none where that is below zero.
LEMMA MatchStepBatch ==
  ASSUME EngineInv, EngineInv', TrackInv, MatchStep, UNCHANGED botVars,
         status' = "running", NEW b \in MarketMakers, Batched(b)
  PROVE  Batched(b)'
<1>0. /\ Inv /\ PricesHeld /\ UNCHANGED <<queue, open_orders>>
  BY DEF EngineInv, botVars
<1>1. CASE Rest \/ Discard
  BY <1>1, EndOfLoopBatch
<1>2. CASE Match
  <2>1. /\ Shrinks /\ incoming' # NoOrder /\ Remains(incoming', incoming)
        /\ incoming.kind = "limit" /\ incoming.side = "buy" => incoming.price >= 0
    BY <1>0, <1>2, MatchEffect
  <2>2. incoming # NoOrder
    BY <1>2 DEF Match, Matching
  <2>3. Handling(b)' <=> Handling(b)
    BY <2>1, <2>2 DEF Handling, Remains
  <2>4. ASSUME Handling(b), incoming.side = "buy" PROVE ~(incoming.price < 0)
    <3>1. incoming.kind = "limit"
      BY <2>4, PartFields DEF Batched, Batch, InHand
    <3>2. incoming.price \in Int
      BY <1>0, <2>2 DEF Inv, TypeInv, IncomingType, OrderType
    <3> QED
      BY <2>1, <2>4, <3>1, <3>2
  <2> QED
    BY <1>0, <2>1, <2>3, <2>4, StillBatch
<1>3. CASE RemovePassive
  <2>1. Shrinks
    BY <1>0, <1>3, RemovePassiveEffect
  <2>2. incoming' = incoming
    BY <1>3 DEF RemovePassive
  <2>3. Handling(b) => Remains(incoming', incoming)
    <3>1. Handling(b) => incoming.qty \in Int
      BY <1>0 DEF Handling, Inv, TypeInv, IncomingType, OrderType
    <3> QED
      BY <2>2, <3>1 DEF Remains
  <2> QED
    BY <1>0, <2>1, <2>2, <2>3, StillBatch DEF Handling
<1> QED
  BY <1>1, <1>2, <1>3 DEF MatchStep

LEMMA StepBatch ==
  ASSUME EngineInv, EngineInv', ControlInv, TrackInv, BatchInv, HalfInv,
         [BotsNext]_allVars
  PROVE  BatchInv'
<1> SUFFICES ASSUME status' = "running", NEW b \in MarketMakers PROVE Batched(b)'
  BY DEF BatchInv
<1>0. /\ Inv /\ PricesHeld /\ TypeInv /\ submitted \in Nat /\ placed \in Nat
      /\ b \in Leveraged
  BY BotFacts DEF EngineInv, Inv, TypeInv, ControlInv
<1>1. Batched(b)
  <2>1. status = "running"
    BY <1>0, BotsStepIsEngineStep, EngineEffect
  <2> QED
    BY <2>1 DEF BatchInv
<1>2. CASE Act
  BY <1>1, <1>2, OwnBatch, OthersBatch
<1>3. CASE Handle
  BY <1>1, <1>3, HandleBatch
<1>4. CASE HandleAlgo
  <2>1. PICK o \in Orders : /\ o.trader \notin Leveraged
                            /\ LET order == [Stamped(o) EXCEPT !.id = AlgoId(placed)]
                               IN Accept(order) \/ Drop(order)
    BY <1>4 DEF HandleAlgo
  <2>2. PICK order \in OrderType :
          order.trader = o.trader /\ (Accept(order) \/ Drop(order))
    BY <1>0, <2>1, AlgoOrder
  <2>3. /\ UNCHANGED book /\ (incoming' = order \/ incoming' = NoOrder)
        /\ incoming = NoOrder
    BY <2>2 DEF Accept, Drop, bookVars, Idle
  <2>4. Shrinks /\ ~Handling(b) /\ ~Handling(b)'
    BY <1>0, <2>1, <2>2, <2>3, SameBookShrinks DEF Handling
  <2>5. UNCHANGED <<queue, open_orders>>
    BY <1>4 DEF HandleAlgo
  <2> QED
    BY <1>1, <2>4, <2>5, StillBatch
<1>5. CASE Step
  BY <1>1, <1>5, MatchStepBatch DEF Step
<1>6. CASE StartTick \/ EndTick \/ Over \/ UNCHANGED allVars
  <2>1. UNCHANGED <<book, incoming, queue, open_orders>>
    BY <1>6 DEF StartTick, EndTick, TakeUpdates, Over, allVars, vars, botVars
  <2>2. Shrinks /\ (Handling(b)' <=> Handling(b))
    BY <1>0, <2>1, SameBookShrinks DEF Handling
  <2>3. Handling(b) => Remains(incoming', incoming) /\ incoming'.qty = incoming.qty
    <3>1. Handling(b) => incoming.qty \in Int
      BY <1>0 DEF Handling, Inv, TypeInv, IncomingType, OrderType
    <3> QED
      BY <2>1, <3>1 DEF Remains
  <2> QED
    BY <1>1, <2>1, <2>2, <2>3, StillBatch
<1> QED
  BY <1>2, <1>3, <1>4, <1>5, <1>6 DEF BotsNext

\* Where nothing but the latest quotes of a market maker rests, its batch says
\* what that may be worth.
AloneHalf ==
    status = "running" =>
        \A b \in MarketMakers : Resting(b) = Latest(b) => HalfAtMost(b)

LEMMA BatchesHalf == EngineInv /\ BatchInv => AloneHalf
<1> SUFFICES ASSUME EngineInv, BatchInv, status = "running",
                    NEW b \in MarketMakers, Resting(b) = Latest(b)
             PROVE  HalfAtMost(b)
  BY DEF AloneHalf
<1>1. PICK theo \in Int, q \in Int, first \in Nat, next \in 1 .. 9, offset \in Int :
        Batch(b, theo, q, first, next, offset)
  BY DEF BatchInv, Batched
<1>2. Sized(b, theo, q) /\ Made(b, theo, q, first, next) /\ Missing(b, theo, q, next)
  BY <1>1 DEF Batch
<1> QED
  BY <1>2, BatchHalf

\* Only an order of its own that comes to rest raises what a market maker has at
\* stake, and then it is one of its latest quotes, which rest alone.
LEMMA StepHalf ==
  ASSUME EngineInv, EngineInv', ControlInv, TrackInv, TrackInv', BatchInv', HalfInv,
         [BotsNext]_allVars
  PROVE  HalfInv'
<1> SUFFICES ASSUME status' = "running", NEW b \in MarketMakers PROVE HalfAtMost(b)'
  BY DEF HalfInv
<1>0. /\ Inv /\ PricesHeld /\ TypeInv /\ b \in Traders
      /\ "buy" \in Sides /\ "sell" \in Sides
      /\ portfolio \in [Traders -> PortfolioType]
      /\ InitialCapital[b] \in Nat
  BY BotFacts DEF EngineInv, Inv, TypeInv, Sides
<1>1. /\ status = "running"
      /\ Rest \/ (Shrinks /\ InterestFalls)
  BY <1>0, BotsStepIsEngineStep, EngineEffect
<1>2. HalfAtMost(b)
  BY <1>1 DEF HalfInv
<1>3. \A side \in Sides :
        portfolio[b].interest[side] \in Int /\ portfolio'[b].interest[side] \in Int
  <2>1. portfolio[b] \in PortfolioType /\ portfolio'[b] \in PortfolioType
    <3>1. portfolio' \in [Traders -> PortfolioType]
      BY DEF EngineInv, Inv, TypeInv
    <3> QED
      BY <1>0, <3>1
  <2> QED
    BY <2>1 DEF PortfolioType
<1>4. CASE InterestFalls
  <2>1. /\ portfolio'[b].interest["buy"] <= portfolio[b].interest["buy"]
        /\ portfolio'[b].interest["sell"] <= portfolio[b].interest["sell"]
    BY <1>0, <1>4 DEF InterestFalls
  <2>2. PICK w \in Int : w = Widen(InitialCapital[b])
    BY <1>0 DEF Widen, Multiplier
  <2> QED
    BY <1>0, <1>2, <1>3, <2>1, <2>2 DEF HalfAtMost, AtStake
<1>5. CASE Rest
  <2>1. /\ incoming # NoOrder /\ incoming \in OrderType
        /\ book' = Put(book, arrivals + 1, incoming)
        /\ portfolio' = PositionChange(portfolio, incoming, incoming.qty)
    BY <1>0, <1>5 DEF Rest, AddOrder, Matching, TypeInv, IncomingType
  <2>2. CASE incoming.trader = b
    <3>1. UNCHANGED open_orders
      <4>1. ~Act
        BY <1>0, <1>5 DEF Act, vars, Rest, AddOrder, TypeInv
      <4> QED
        BY <4>1 DEF BotsNext, StartTick, Handle, HandleAlgo, Step, EndTick, Over,
                    botVars, allVars
    <3>2. incoming.id \in ToSet(open_orders[b])
      BY <2>1, <2>2 DEF TrackInv, Owned, Handling
    <3>3. arrivals + 1 \in Latest(b)'
      BY <2>1, <2>2, <3>1, <3>2 DEF Latest, Resting, Put
    <3>4. Resting(b)' = Latest(b)'
      <4>1. \A n \in Resting(b)' \ Latest(b)' : Latest(b)' = {}
        BY DEF TrackInv, Tracked
      <4>2. Latest(b)' \subseteq Resting(b)'
        BY DEF Latest
      <4> QED
        BY <3>3, <4>1, <4>2
    <3>5. AloneHalf'
      BY BatchesHalf, PTL
    <3> QED
      BY <3>4, <3>5 DEF AloneHalf
  <2>3. CASE incoming.trader # b
    <3>1. portfolio'[b].interest["buy"] = portfolio[b].interest["buy"]
          /\ portfolio'[b].interest["sell"] = portfolio[b].interest["sell"]
      <4>1. incoming.qty \in Int
        BY <2>1 DEF OrderType
      <4>2. \A side \in Sides : portfolio'[b].interest[side]
              = portfolio[b].interest[side]
                  + (IF incoming.trader = b /\ incoming.side = side
                     THEN HighPrecisionTimes(incoming.price, incoming.qty) ELSE 0)
        BY <1>0, <2>1, <4>1, PositionChangeSides
      <4> QED
        BY <1>0, <1>3, <2>3, <4>2
    <3> QED
      BY <1>2, <3>1 DEF HalfAtMost, AtStake
  <2> QED
    BY <2>2, <2>3
<1> QED
  BY <1>1, <1>4, <1>5

LEMMA InitHalf == BotsInit => BatchInv /\ HalfInv
<1> SUFFICES ASSUME BotsInit, NEW b \in MarketMakers PROVE Batched(b) /\ HalfAtMost(b)
  BY DEF BatchInv, HalfInv
<1>1. /\ Latest(b) = {} /\ ~Handling(b) /\ DOMAIN queue = {}
      /\ b \in Traders /\ InitialCapital[b] \in Nat
  BY BotFacts DEF BotsInit, Init, Latest, Resting, Handling
<1>2. Batch(b, 1, 0, 0, 9, 0)
  <2>1. Sized(b, 1, 0) /\ ToCome(b, 1, 0, 0, 9, 0)
    BY <1>1 DEF Sized, ToCome
  <2>2. InHand(b, 1, 0, 0, 9) /\ Made(b, 1, 0, 0, 9)
    BY <1>1 DEF InHand, Made
  <2>3. Missing(b, 1, 0, 9)
    <3>1. ASSUME NEW k \in 1 .. 4 PROVE Refused(1, Depths(0), k)
      <4>1. PICK q \in Int : q = 0
        OBVIOUS
      <4>2. /\ Depths(q) \in [1 .. 4 -> Int]
            /\ q <= 0 => \A i \in 1 .. 4 : Depths(q)[i] <= 0
        BY DepthsPortions
      <4>3. Depths(q)[k] <= 0 /\ Depths(q)[k] \in Int
        BY <4>1, <4>2
      <4> QED
        BY <4>1, <4>3 DEF Refused
    <3> QED
      BY <3>1 DEF Missing
  <2> QED
    BY <2>1, <2>2, <2>3 DEF Batch
<1>3. Batched(b)
  BY <1>2 DEF Batched
<1>4. HalfAtMost(b)
  <2>1. portfolio[b].interest["buy"] = 0 /\ portfolio[b].interest["sell"] = 0
    BY <1>1 DEF BotsInit, Init, EmptyPortfolio, Sides
  <2> QED
    BY <1>1, <2>1 DEF HalfAtMost, AtStake, Widen, Multiplier
<1> QED
  BY <1>3, <1>4

BotsInv == EngineInv /\ ControlInv /\ TrackInv /\ BatchInv /\ HalfInv

LEMMA BotsInvariant == BotsSpec => []BotsInv
<1>1. BotsInit => BotsInv
  BY InitEngineInv, InitControl, InitTrack, InitHalf DEF BotsInv
<1>2. BotsInv /\ [BotsNext]_allVars => BotsInv'
  <2> SUFFICES ASSUME BotsInv, [BotsNext]_allVars PROVE BotsInv'
    OBVIOUS
  <2>1. EngineInv /\ ControlInv /\ TrackInv /\ BatchInv /\ HalfInv /\ TypeInv
    BY DEF BotsInv, EngineInv, Inv
  <2>2. EngineInv' /\ ControlInv' /\ TrackInv'
    BY <2>1, StepEngineInv, StepControl, BotsTrack
  <2>3. BatchInv'
    BY <2>1, <2>2, StepBatch
  <2>4. HalfInv'
    BY <2>1, <2>2, <2>3, StepHalf
  <2> QED
    BY <2>2, <2>3, <2>4 DEF BotsInv
<1> QED
  BY <1>1, <1>2, PTL DEF BotsSpec

\* No market maker ever has more than half of its capital at stake in the book, at
\* any prices it reckons with and under any limit of volume, as long as the
\* exchange runs.
THEOREM HalfOfCapital == BotsSpec => []HalfUtilized
<1>1. BotsInv => HalfUtilized
  <2> SUFFICES ASSUME BotsInv, status = "running", NEW b \in MarketMakers
               PROVE  0 <= AtStake(b) /\ 2 * AtStake(b) <= Widen(InitialCapital[b])
    BY DEF HalfUtilized, AtStake
  <2>1. HalfAtMost(b)
    BY DEF BotsInv, HalfInv
  <2>2. /\ portfolio[b].interest["buy"] \in Nat /\ portfolio[b].interest["sell"] \in Nat
    <3>1. b \in Traders /\ "buy" \in Sides /\ "sell" \in Sides
      BY BotFacts DEF Sides
    <3> QED
      BY <3>1, StakesNotNegative DEF BotsInv
  <2> QED
    BY <2>1, <2>2 DEF HalfAtMost, AtStake
<1> QED
  BY <1>1, BotsInvariant, PTL

-----------------------------------------------------------------------------
(***************************************************************************)
(* What the engine promises its clients, under the bots.                   *)
(***************************************************************************)
LEMMA BotsStep ==
  ASSUME BotsInv, [BotsNext]_allVars
  PROVE  Inv /\ EngineStep
<1>1. Inv /\ TypeInv /\ ControlInv
  BY DEF BotsInv, EngineInv, Inv
<1> QED
  BY <1>1, BotsStepIsEngineStep

\* With bots in the market, too, no trade is priced beyond the limit of either
\* order, and no order is filled while one with priority over it waits.
THEOREM BotsKeepMarket == BotsSpec => TradesWithinLimits /\ PriceTimePriority
<1>1. BotsInv /\ [BotsNext]_allVars => TradeWithinLimits /\ TopFilledFirst
  BY BotsStep, StepTrades
<1> QED
  BY <1>1, BotsInvariant, PTL
     DEF BotsSpec, TradesWithinLimits, TradeWithinLimits, PriceTimePriority, TopFilledFirst

-----------------------------------------------------------------------------
(***************************************************************************)
(* The money of the bots' market.                                          *)
(***************************************************************************)
LEMMA BotsLedgerInvariant == BotsSpec => [](BotsInv /\ LedgerInv)
<1>1. BotsInit => LedgerInv
  BY DEF BotsInit, Init, LedgerInv, EmptyPortfolio, Multiplier
<1>2. BotsInv /\ LedgerInv /\ [BotsNext]_allVars => LedgerInv'
  BY BotsStep, StepLedgerInv
<1> QED
  BY <1>1, <1>2, BotsInvariant, PTL DEF BotsSpec

\* The market of the bots implements the ledger, at whatever prices they and
\* the algorithms trade: quotes and market orders move money and assets only by
\* trades that the buyer can pay and the seller can deliver.
THEOREM BotsImplementLedger == BotsSpec => ImplementsLedger
<1>1. BotsInit => Accounts!Init
  BY InitLedger DEF BotsInit
<1>2. BotsInv /\ LedgerInv /\ [BotsNext]_allVars => [Accounts!Next]_(Accounts!ledger)
  BY BotsStep, StepLedger
<1> QED
  BY <1>1, <1>2, BotsLedgerInvariant, PTL DEF BotsSpec, ImplementsLedger, Accounts!Spec

\* Trading with bots, too, a trader without leverage never sells short, and owes
\* money by nothing but a sell of its own that it has priced below zero.
THEOREM BotsLeaveSolvent == BotsSpec => []HoldingsCovered /\ DebtsAreOwnSales
<1>1. BotsInit => HoldingsCovered
  BY InitCovered DEF BotsInit
<1>2. BotsInv /\ LedgerInv /\ [BotsNext]_allVars
        => DebtIsOwnSale /\ (HoldingsCovered => HoldingsCovered')
  BY BotsStep, StepSolvent
<1> QED
  BY <1>1, <1>2, BotsLedgerInvariant, PTL
  DEF BotsSpec, DebtsAreOwnSales, DebtIsOwnSale

=============================================================================
