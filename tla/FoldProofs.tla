------------------------------ MODULE FoldProofs ------------------------------
(***************************************************************************)
(* Sums over finite sets, as SumFunctionOnSet of the community modules     *)
(* computes them: it chooses one member after another, and what it yields  *)
(* does not depend on the choice.                                          *)
(*                                                                         *)
(* The library's induction theorems take an operator as a parameter.       *)
(* Here a property is a set instead, and induction follows from the least  *)
(* element of a set of naturals (WFMin); that a fold exists follows by     *)
(* building it for larger and larger subsets.                              *)
(***************************************************************************)
EXTENDS Integers, FiniteSets, Functions, FiniteSetTheorems, WellFoundedInduction, TLAPS

-----------------------------------------------------------------------------
(***************************************************************************)
(* Induction over numbers and over the subsets of a finite set.            *)
(***************************************************************************)

\* A set of naturals with a member has a least one.
LEMMA LeastNatural ==
  ASSUME NEW S \in SUBSET Nat, S # {}
  PROVE  \E i \in S : \A j \in S : i <= j
<1>1. PICK i \in S : \A j \in S : <<j, i>> \notin OpToRel(<, Nat)
  BY NatLessThanWellFounded, WFMin, Zenon
<1>2. \A j \in S : ~(j < i)
  BY <1>1 DEF OpToRel
<1> QED
  BY <1>2

\* Induction: a set of naturals that has zero and all successors is Nat.
LEMMA NatSetInduction ==
  ASSUME NEW S \in SUBSET Nat, 0 \in S, \A n \in S : n + 1 \in S
  PROVE  \A n \in Nat : n \in S
<1> SUFFICES ASSUME Nat \ S # {} PROVE FALSE
  OBVIOUS
<1>1. PICK i \in Nat \ S : \A j \in Nat \ S : i <= j
  BY LeastNatural
<1>2. i - 1 \in Nat /\ i - 1 \in S
  BY <1>1
<1>3. (i - 1) + 1 \in S
  BY <1>2
<1> QED
  BY <1>1, <1>3

-----------------------------------------------------------------------------
(***************************************************************************)
(* Folds over the subsets of a finite set.                                 *)
(***************************************************************************)
\* The subsets of S with n elements at most.
Small(S, n) == {T \in SUBSET S : Cardinality(T) <= n}

\* it is the fold of every set in D.
FoldsOn(it, D, base, ch, step) ==
    \A T \in D : it[T] = IF T = {} THEN base
                         ELSE step[<<ch[T], it[T \ {ch[T]}]>>]

\* Removing the chosen element of a set.
LEMMA SmallRemove ==
  ASSUME NEW S, IsFiniteSet(S), NEW n \in Nat, NEW T \in Small(S, n + 1),
         NEW x \in T
  PROVE  T \ {x} \in Small(S, n) /\ x \in S
<1>1. IsFiniteSet(T) /\ Cardinality(T) \in Nat /\ T \in SUBSET S
  BY FS_Subset, FS_CardinalityType DEF Small
<1>2. Cardinality(T \ {x}) = Cardinality(T) - 1
  BY <1>1, FS_RemoveElement
<1> QED
  BY <1>1, <1>2 DEF Small

LEMMA SmallAll ==
  ASSUME NEW S, IsFiniteSet(S)
  PROVE  /\ Cardinality(S) \in Nat
         /\ Small(S, Cardinality(S)) = SUBSET S
         /\ \A T \in Small(S, 0) : T = {}
         /\ \A n \in Nat : {} \in Small(S, n) /\ Small(S, n) \subseteq Small(S, n + 1)
<1>1. \A T \in SUBSET S : IsFiniteSet(T) /\ Cardinality(T) \in Nat
        /\ Cardinality(T) <= Cardinality(S)
  BY FS_Subset, FS_CardinalityType
<1>2. \A T \in SUBSET S : Cardinality(T) = 0 <=> T = {}
  BY <1>1, FS_EmptySet
<1>3. Cardinality(S) \in Nat
  BY FS_CardinalityType
<1> QED
  BY <1>1, <1>2, <1>3 DEF Small

\* A fold over the subsets of a finite set exists.
LEMMA FoldExists ==
  ASSUME NEW S, IsFiniteSet(S), NEW ch, \A T \in SUBSET S : T # {} => ch[T] \in T,
         NEW V, NEW base \in V, NEW step \in [S \X V -> V]
  PROVE  \E it \in [SUBSET S -> V] : FoldsOn(it, SUBSET S, base, ch, step)
<1> DEFINE Good == {n \in Nat : \E it \in [Small(S, n) -> V] :
                        FoldsOn(it, Small(S, n), base, ch, step)}
<1>1. 0 \in Good
  <2> DEFINE it == [T \in Small(S, 0) |-> base]
  <2>1. FoldsOn(it, Small(S, 0), base, ch, step)
    BY SmallAll DEF FoldsOn
  <2>2. it \in [Small(S, 0) -> V]
    OBVIOUS
  <2> QED
    BY <2>1, <2>2
<1>2. ASSUME NEW n \in Good PROVE n + 1 \in Good
  <2>1. PICK it \in [Small(S, n) -> V] : FoldsOn(it, Small(S, n), base, ch, step)
    OBVIOUS
  <2> DEFINE more == [T \in Small(S, n + 1) |->
                        IF T = {} THEN base ELSE step[<<ch[T], it[T \ {ch[T]}]>>]]
  <2>2. ASSUME NEW T \in Small(S, n + 1), T # {}
        PROVE  T \ {ch[T]} \in Small(S, n) /\ ch[T] \in S
    <3>1. T \in SUBSET S
      BY DEF Small
    <3>2. ch[T] \in T
      BY <2>2, <3>1
    <3> QED
      BY <2>2, <3>1, <3>2, SmallRemove
  <2>3. more \in [Small(S, n + 1) -> V]
    BY <2>2
  <2>4. \A T \in Small(S, n) : T \in Small(S, n + 1) /\ more[T] = it[T]
    BY <2>1, SmallAll DEF FoldsOn
  <2>5. FoldsOn(more, Small(S, n + 1), base, ch, step)
    BY <2>2, <2>4 DEF FoldsOn
  <2> HIDE DEF more
  <2>6. n + 1 \in Nat
    OBVIOUS
  <2>7. \E g \in [Small(S, n + 1) -> V] : FoldsOn(g, Small(S, n + 1), base, ch, step)
    BY <2>3, <2>5
  <2> QED
    BY <2>6, <2>7
<1>3. Cardinality(S) \in Good
  <2>1. \A n \in Nat : n \in Good
    <3> HIDE DEF Good
    <3>1. Good \in SUBSET Nat
      BY DEF Good
    <3> QED
      BY <1>1, <1>2, <3>1, NatSetInduction
  <2> QED
    BY <2>1, SmallAll
<1>4. PICK it \in [Small(S, Cardinality(S)) -> V] :
        FoldsOn(it, Small(S, Cardinality(S)), base, ch, step)
  BY <1>3
<1>5. Small(S, Cardinality(S)) = SUBSET S
  BY SmallAll
<1> QED
  BY <1>4, <1>5

\* Induction over the subsets of a finite set.
LEMMA SubsetInduction ==
  ASSUME NEW S, IsFiniteSet(S), NEW G, {} \in G,
         \A T \in SUBSET S : T # {} => \E x \in T : T \ {x} \in G => T \in G
  PROVE  \A T \in SUBSET S : T \in G
<1> DEFINE Good == {n \in Nat : Small(S, n) \subseteq G}
<1>1. 0 \in Good
  BY SmallAll
<1>2. ASSUME NEW n \in Good PROVE n + 1 \in Good
  <2>0. n + 1 \in Nat
    OBVIOUS
  <2> SUFFICES ASSUME NEW T \in Small(S, n + 1), T # {} PROVE T \in G
    BY <2>0
  <2>1. T \in SUBSET S
    BY DEF Small
  <2>2. PICK x \in T : T \ {x} \in G => T \in G
    BY <2>1
  <2>3. T \ {x} \in Small(S, n)
    BY SmallRemove
  <2> QED
    BY <2>2, <2>3
<1>3. \A n \in Nat : n \in Good
  <2> HIDE DEF Good
  <2>1. Good \in SUBSET Nat
    BY DEF Good
  <2> QED
    BY <1>1, <1>2, <2>1, NatSetInduction
<1> QED
  BY <1>3, SmallAll

\* The values of a function on a finite set are finitely many.
LEMMA FiniteImage ==
  ASSUME NEW S, IsFiniteSet(S), NEW f
  PROVE  IsFiniteSet({f[x] : x \in S})
<1> DEFINE T == {f[x] : x \in S}
           g == [x \in S |-> f[x]]
<1>1. g \in Surjection(S, T)
  BY DEF Surjection
<1> HIDE DEF g, T
<1>2. IsFiniteSet(T)
  BY <1>1, FS_Surjection
<1> QED
  BY <1>2 DEF T

-----------------------------------------------------------------------------
(***************************************************************************)
(* Sums.                                                                   *)
(***************************************************************************)
\* The member that is summed first.
Pick(S) == CHOOSE x \in S : TRUE

\* it sums f over every subset of S.
IsSum(it, f, S) ==
    /\ it \in [SUBSET S -> Int]
    /\ \A T \in SUBSET S :
        it[T] = IF T = {} THEN 0 ELSE f[Pick(T)] + it[T \ {Pick(T)}]

\* The equation of a sum, and its type.
LEMMA SumFold ==
  ASSUME NEW S, IsFiniteSet(S), NEW f, \A x \in S : f[x] \in Int
  PROVE  \E it : IsSum(it, f, S) /\ it[S] = SumFunctionOnSet(f, S)
<1> DEFINE ch == [T \in SUBSET S |-> Pick(T)]
           step == [p \in S \X Int |-> f[p[1]] + p[2]]
           body(it) == [T \in SUBSET S |->
                          IF T = {} THEN 0 ELSE f[Pick(T)] + it[T \ {Pick(T)}]]
<1>1. \A T \in SUBSET S : T # {} => Pick(T) \in T
  BY DEF Pick
<1>2. \A T \in SUBSET S : ch[T] = Pick(T)
  OBVIOUS
<1>3. step \in [S \X Int -> Int]
  OBVIOUS
<1>4. \A x \in S, v \in Int : step[<<x, v>>] = f[x] + v
  OBVIOUS
<1> HIDE DEF ch, step
<1>5. PICK it \in [SUBSET S -> Int] : FoldsOn(it, SUBSET S, 0, ch, step)
  <2>1. \A T \in SUBSET S : T # {} => ch[T] \in T
    BY <1>1, <1>2
  <2>2. 0 \in Int
    OBVIOUS
  <2>3. \E it \in [SUBSET S -> Int] : FoldsOn(it, SUBSET S, 0, ch, step)
    BY <1>3, <2>1, <2>2, FoldExists
  <2> QED
    BY <2>3
<1>6. \A T \in SUBSET S :
        it[T] = IF T = {} THEN 0 ELSE f[Pick(T)] + it[T \ {Pick(T)}]
  <2> SUFFICES ASSUME NEW T \in SUBSET S, T # {}
               PROVE  it[T] = f[Pick(T)] + it[T \ {Pick(T)}]
    BY <1>5 DEF FoldsOn
  <2>1. it[T] = step[<<Pick(T), it[T \ {Pick(T)}]>>]
    BY <1>2, <1>5 DEF FoldsOn
  <2>2. Pick(T) \in S /\ it[T \ {Pick(T)}] \in Int
    BY <1>1
  <2> QED
    BY <1>4, <2>1, <2>2
<1>7. it = body(it)
  BY <1>6
<1>8. SumFunctionOnSet(f, S) = (CHOOSE g : g = body(g))[S]
  BY DEF SumFunctionOnSet, FoldFunctionOnSet, MapThenFoldSet, Pick
<1>9. PICK c : c = body(c) /\ SumFunctionOnSet(f, S) = c[S]
  BY <1>7, <1>8
<1>10. \A T \in SUBSET S :
        c[T] = IF T = {} THEN 0 ELSE f[Pick(T)] + c[T \ {Pick(T)}]
  BY <1>9
<1> DEFINE G == {T \in SUBSET S : c[T] = it[T]}
<1>11. \A T \in SUBSET S : T \in G
  <2>1. {} \in G
    BY <1>6, <1>10
  <2>2. ASSUME NEW T \in SUBSET S, T # {}
        PROVE  \E x \in T : T \ {x} \in G => T \in G
    <3>1. Pick(T) \in T
      BY <1>1, <2>2
    <3>2. T \ {Pick(T)} \in G => T \in G
      BY <1>6, <1>10, <2>2
    <3> QED
      BY <3>1, <3>2
  <2> HIDE DEF G
  <2> QED
    BY <2>1, <2>2, SubsetInduction
<1> QED
  BY <1>6, <1>9, <1>11 DEF IsSum

\* The sum over no members is zero; any other sum splits off the chosen member.
LEMMA SumStep ==
  ASSUME NEW S, IsFiniteSet(S), NEW f, \A x \in S : f[x] \in Int
  PROVE  /\ SumFunctionOnSet(f, S) \in Int
         /\ S = {} => SumFunctionOnSet(f, S) = 0
         /\ S # {} => /\ Pick(S) \in S
                      /\ SumFunctionOnSet(f, S)
                           = f[Pick(S)] + SumFunctionOnSet(f, S \ {Pick(S)})
<1>0. PICK it : IsSum(it, f, S) /\ it[S] = SumFunctionOnSet(f, S)
  BY SumFold
<1>1. /\ it \in [SUBSET S -> Int]
      /\ it[S] = SumFunctionOnSet(f, S)
      /\ \A T \in SUBSET S :
           it[T] = IF T = {} THEN 0 ELSE f[Pick(T)] + it[T \ {Pick(T)}]
  BY <1>0 DEF IsSum
<1>2. ASSUME S # {} PROVE SumFunctionOnSet(f, S \ {Pick(S)}) = it[S \ {Pick(S)}]
  <2> DEFINE R == S \ {Pick(S)}
  <2>1. IsFiniteSet(R) /\ R \subseteq S
    BY FS_Subset
  <2>1a. PICK c : IsSum(c, f, R) /\ c[R] = SumFunctionOnSet(f, R)
    BY <2>1, SumFold
  <2>2. /\ c \in [SUBSET R -> Int]
        /\ c[R] = SumFunctionOnSet(f, R)
        /\ \A T \in SUBSET R :
             c[T] = IF T = {} THEN 0 ELSE f[Pick(T)] + c[T \ {Pick(T)}]
    BY <2>1a DEF IsSum
  <2> DEFINE G == {T \in SUBSET R : c[T] = it[T]}
  <2>3. \A T \in SUBSET R : T \in G
    <3>1. {} \in G
      BY <1>1, <2>2
    <3>2. ASSUME NEW T \in SUBSET R, T # {}
          PROVE  \E x \in T : T \ {x} \in G => T \in G
      <4>1. Pick(T) \in T /\ T \in SUBSET S
        BY <2>1, <3>2 DEF Pick
      <4>2. T \ {Pick(T)} \in G => T \in G
        BY <1>1, <2>2, <3>2, <4>1
      <4> QED
        BY <4>1, <4>2
    <3> HIDE DEF G, R
    <3> QED
      BY <2>1, <3>1, <3>2, SubsetInduction
  <2> QED
    BY <2>2, <2>3
<1> QED
  BY <1>1, <1>2 DEF Pick

\* The order of summation does not matter.
LEMMA SumRemove ==
  ASSUME NEW S, IsFiniteSet(S), NEW f, \A x \in S : f[x] \in Int
  PROVE  \A y \in S : SumFunctionOnSet(f, S) = f[y] + SumFunctionOnSet(f, S \ {y})
<1> DEFINE Good == {n \in Nat : \A T \in Small(S, n) : \A y \in T :
            SumFunctionOnSet(f, T) = f[y] + SumFunctionOnSet(f, T \ {y})}
<1>1. 0 \in Good
  BY SmallAll
<1>2. ASSUME NEW n \in Good PROVE n + 1 \in Good
  <2>0. n + 1 \in Nat
    OBVIOUS
  <2> SUFFICES ASSUME NEW T \in Small(S, n + 1), NEW y \in T
               PROVE  SumFunctionOnSet(f, T) = f[y] + SumFunctionOnSet(f, T \ {y})
    BY <2>0
  <2> DEFINE c == Pick(T)
  <2>1. T \in SUBSET S /\ IsFiniteSet(T) /\ T # {}
    BY FS_Subset DEF Small
  <2>2. c \in T /\ SumFunctionOnSet(f, T) = f[c] + SumFunctionOnSet(f, T \ {c})
    BY <2>1, SumStep
  <2>3. CASE y = c
    BY <2>2, <2>3
  <2>4. CASE y # c
    <3> HIDE DEF c
    <3>1. T \ {c} \in Small(S, n) /\ T \ {y} \in Small(S, n)
      BY <2>2, SmallRemove
    <3>2. SumFunctionOnSet(f, T \ {c}) = f[y] + SumFunctionOnSet(f, (T \ {c}) \ {y})
      BY <2>4, <3>1
    <3>3. SumFunctionOnSet(f, T \ {y}) = f[c] + SumFunctionOnSet(f, (T \ {y}) \ {c})
      BY <2>2, <2>4, <3>1
    <3>4. (T \ {c}) \ {y} = (T \ {y}) \ {c}
      OBVIOUS
    <3> DEFINE R == (T \ {y}) \ {c}
    <3>5. IsFiniteSet(R) /\ \A x \in R : f[x] \in Int
      BY <2>1, FS_Subset
    <3>6. SumFunctionOnSet(f, R) \in Int
      BY <3>5, SumStep
    <3>7. PICK s \in Int : s = SumFunctionOnSet(f, R)
      BY <3>6
    <3>8. f[c] \in Int /\ f[y] \in Int
      BY <2>1, <2>2
    <3>9. /\ SumFunctionOnSet(f, T) = f[c] + (f[y] + s)
          /\ SumFunctionOnSet(f, T \ {y}) = f[c] + s
      BY <2>2, <3>2, <3>3, <3>4, <3>7
    <3> QED
      BY <3>7, <3>8, <3>9
  <2> QED
    BY <2>3, <2>4
<1>3. Cardinality(S) \in Good
  <2> HIDE DEF Good
  <2>1. Good \in SUBSET Nat
    BY DEF Good
  <2> QED
    BY <1>1, <1>2, <2>1, NatSetInduction, SmallAll
<1> QED
  BY <1>3, SmallAll

\* Equal summands make equal sums.
LEMMA SumEqual ==
  ASSUME NEW S, IsFiniteSet(S), NEW f, NEW g, \A x \in S : f[x] \in Int /\ f[x] = g[x]
  PROVE  SumFunctionOnSet(f, S) = SumFunctionOnSet(g, S)
<1> DEFINE G == {T \in SUBSET S : SumFunctionOnSet(f, T) = SumFunctionOnSet(g, T)}
<1>1. \A T \in SUBSET S : /\ IsFiniteSet(T)
                          /\ \A x \in T : f[x] \in Int /\ g[x] \in Int /\ f[x] = g[x]
  BY FS_Subset
<1>2. {} \in G
  <2>1. IsFiniteSet({}) /\ {} \in SUBSET S
    BY FS_EmptySet
  <2> QED
    BY <1>1, <2>1, SumStep
<1>3. ASSUME NEW T \in SUBSET S, T # {} PROVE \E x \in T : T \ {x} \in G => T \in G
  <2>1. /\ Pick(T) \in T
        /\ SumFunctionOnSet(f, T) = f[Pick(T)] + SumFunctionOnSet(f, T \ {Pick(T)})
        /\ SumFunctionOnSet(g, T) = g[Pick(T)] + SumFunctionOnSet(g, T \ {Pick(T)})
    BY <1>1, <1>3, SumStep
  <2> QED
    BY <1>1, <2>1
<1>4. \A T \in SUBSET S : T \in G
  <2> HIDE DEF G
  <2> QED
    BY <1>2, <1>3, SubsetInduction
<1> QED
  BY <1>4

\* One more summand.
LEMMA SumAdd ==
  ASSUME NEW S, IsFiniteSet(S), NEW f, NEW y, y \notin S,
         \A x \in S \cup {y} : f[x] \in Int
  PROVE  SumFunctionOnSet(f, S \cup {y}) = f[y] + SumFunctionOnSet(f, S)
<1>1. IsFiniteSet(S \cup {y}) /\ (S \cup {y}) \ {y} = S
  BY FS_AddElement
<1> QED
  BY <1>1, SumRemove

\* The sums of f over S and of g over T have the same summands, but for that of y.
DifferAt(y, f, S, g, T) ==
    /\ IsFiniteSet(S) /\ IsFiniteSet(T) /\ S \ {y} = T \ {y}
    /\ \A x \in S : f[x] \in Int
    /\ \A x \in T : g[x] \in Int
    /\ \A x \in S \ {y} : f[x] = g[x]

\* The summand of y, which a set may have or not.
Part(y, f, S) == IF y \in S THEN f[y] ELSE 0

\* Such sums differ by the summand.
LEMMA SumChange ==
  ASSUME NEW S, NEW T, NEW f, NEW g, NEW y, DifferAt(y, f, S, g, T)
  PROVE  /\ SumFunctionOnSet(f, S) \in Int
         /\ SumFunctionOnSet(g, T)
              = SumFunctionOnSet(f, S) + Part(y, g, T) - Part(y, f, S)
<1>0. /\ IsFiniteSet(S) /\ IsFiniteSet(T) /\ S \ {y} = T \ {y}
      /\ \A x \in S : f[x] \in Int
      /\ \A x \in T : g[x] \in Int
      /\ \A x \in S \ {y} : f[x] = g[x]
  BY DEF DifferAt
<1> DEFINE R == S \ {y}
<1>1. IsFiniteSet(R) /\ \A x \in R : f[x] \in Int /\ f[x] = g[x]
  BY <1>0, FS_Subset
<1>2. SumFunctionOnSet(f, R) = SumFunctionOnSet(g, R)
  BY <1>1, SumEqual
<1>3. SumFunctionOnSet(f, R) \in Int
  BY <1>1, SumStep
<1>4. SumFunctionOnSet(f, S)
        = SumFunctionOnSet(f, R) + (IF y \in S THEN f[y] ELSE 0)
  <2>1. CASE y \in S
    <3>1. SumFunctionOnSet(f, S) = f[y] + SumFunctionOnSet(f, R)
      BY <1>0, <2>1, SumRemove
    <3> QED
      BY <1>0, <1>3, <2>1, <3>1
  <2>2. CASE y \notin S
    <3>1. R = S
      BY <2>2
    <3> HIDE DEF R
    <3>2. SumFunctionOnSet(f, S) = SumFunctionOnSet(f, R)
      BY <3>1
    <3> QED
      BY <1>3, <2>2, <3>2
  <2> QED
    BY <2>1, <2>2
<1>5. SumFunctionOnSet(g, T)
        = SumFunctionOnSet(g, R) + (IF y \in T THEN g[y] ELSE 0)
  <2>1. R = T \ {y}
    BY <1>0
  <2>2. CASE y \in T
    <3>1. SumFunctionOnSet(g, T) = g[y] + SumFunctionOnSet(g, R)
      BY <1>0, <2>1, <2>2, SumRemove
    <3> QED
      BY <1>0, <1>2, <1>3, <2>2, <3>1
  <2>3. CASE y \notin T
    <3>1. R = T
      BY <2>1, <2>3
    <3> HIDE DEF R
    <3>2. SumFunctionOnSet(g, T) = SumFunctionOnSet(g, R)
      BY <3>1
    <3> QED
      BY <1>2, <1>3, <2>3, <3>2
  <2> QED
    BY <2>2, <2>3
<1> HIDE DEF R
<1>6. PICK r \in Int : r = SumFunctionOnSet(f, R) /\ r = SumFunctionOnSet(g, R)
  BY <1>2, <1>3
<1>7. Part(y, f, S) \in Int /\ Part(y, g, T) \in Int
  BY <1>0 DEF Part
<1> QED
  BY <1>4, <1>5, <1>6, <1>7 DEF Part

\* What is never negative does not add up to less than nothing.
LEMMA SumNotNegative ==
  ASSUME NEW S, IsFiniteSet(S), NEW f, \A x \in S : f[x] \in Int /\ f[x] >= 0
  PROVE  SumFunctionOnSet(f, S) \in Int /\ SumFunctionOnSet(f, S) >= 0
<1> DEFINE G == {T \in SUBSET S : SumFunctionOnSet(f, T) >= 0}
<1>1. \A T \in SUBSET S : IsFiniteSet(T) /\ \A x \in T : f[x] \in Int /\ f[x] >= 0
  BY FS_Subset
<1>2. \A T \in SUBSET S : SumFunctionOnSet(f, T) \in Int
  BY <1>1, SumStep
<1>3. {} \in G
  <2>1. {} \in SUBSET S /\ IsFiniteSet({}) /\ \A x \in {} : f[x] \in Int
    BY FS_EmptySet
  <2>2. SumFunctionOnSet(f, {}) = 0
    BY <2>1, SumStep
  <2> QED
    BY <2>1, <2>2
<1>4. ASSUME NEW T \in SUBSET S, T # {} PROVE \E x \in T : T \ {x} \in G => T \in G
  <2>1. /\ Pick(T) \in T
        /\ SumFunctionOnSet(f, T) = f[Pick(T)] + SumFunctionOnSet(f, T \ {Pick(T)})
    BY <1>1, <1>4, SumStep
  <2>2. PICK c \in T : c = Pick(T)
    BY <2>1
  <2>3. PICK r \in Int : r = SumFunctionOnSet(f, T \ {c})
    BY <1>2
  <2>4. f[c] \in Int /\ f[c] >= 0 /\ SumFunctionOnSet(f, T) = f[c] + r
    BY <1>1, <2>1, <2>2, <2>3
  <2>5. r >= 0 => SumFunctionOnSet(f, T) >= 0
    BY <2>4
  <2>6. T \ {c} \in G => T \in G
    BY <2>3, <2>5
  <2> QED
    BY <2>6
<1>5. \A T \in SUBSET S : T \in G
  <2> HIDE DEF G
  <2> QED
    BY <1>3, <1>4, SubsetInduction
<1> QED
  BY <1>2, <1>5

\* Summands that are zero may be left out.
LEMMA SumOfPart ==
  ASSUME NEW T, IsFiniteSet(T), NEW S \in SUBSET T, NEW f, \A x \in T : f[x] \in Int,
         \A x \in T \ S : f[x] = 0
  PROVE  SumFunctionOnSet(f, T) = SumFunctionOnSet(f, S)
<1> DEFINE G == {R \in SUBSET (T \ S) :
                   SumFunctionOnSet(f, S \cup R) = SumFunctionOnSet(f, S)}
<1>1. IsFiniteSet(T \ S) /\ \A U \in SUBSET T : IsFiniteSet(U)
  BY FS_Subset
<1>2. \A U \in SUBSET T : SumFunctionOnSet(f, U) \in Int
  BY <1>1, SumStep
<1>3. {} \in G
  <2>1. S \cup {} = S
    OBVIOUS
  <2> QED
    BY <2>1
<1>4. ASSUME NEW R \in SUBSET (T \ S), R # {}
      PROVE  \E x \in R : R \ {x} \in G => R \in G
  <2>1. PICK x \in R : TRUE
    BY <1>4
  <2>2. PICK U : U = S \cup (R \ {x})
    OBVIOUS
  <2>3. U \in SUBSET T /\ x \notin U /\ U \cup {x} = S \cup R
    BY <2>1, <2>2
  <2>4. IsFiniteSet(U) /\ \A y \in U \cup {x} : f[y] \in Int
    BY <1>1, <2>1, <2>3
  <2>5. SumFunctionOnSet(f, U \cup {x}) = f[x] + SumFunctionOnSet(f, U)
    BY <2>3, <2>4, SumAdd
  <2>6. SumFunctionOnSet(f, U \cup {x}) = SumFunctionOnSet(f, U)
    BY <1>2, <2>1, <2>3, <2>5
  <2> QED
    BY <2>1, <2>2, <2>3, <2>6
<1>5. \A R \in SUBSET (T \ S) : R \in G
  <2> HIDE DEF G
  <2> QED
    BY <1>1, <1>3, <1>4, SubsetInduction, ZenonT(40)
<1>6. (T \ S) \in G /\ S \cup (T \ S) = T
  BY <1>5
<1> QED
  BY <1>6

\* Zeros add up to zero.
LEMMA SumZero ==
  ASSUME NEW S, IsFiniteSet(S), NEW f, \A x \in S : f[x] = 0
  PROVE  SumFunctionOnSet(f, S) = 0
<1>1. IsFiniteSet({}) /\ \A x \in {} : f[x] \in Int
  BY FS_EmptySet
<1>2. SumFunctionOnSet(f, {}) = 0
  BY <1>1, SumStep
<1>3. SumFunctionOnSet(f, S) = SumFunctionOnSet(f, {})
  <2>1. {} \in SUBSET S /\ (\A x \in S : f[x] \in Int) /\ \A x \in S \ {} : f[x] = 0
    OBVIOUS
  <2> QED
    BY <2>1, SumOfPart
<1> QED
  BY <1>2, <1>3

\* h is c times f and g.
Combines(h, c, f, g, S) ==
    \A x \in S : f[x] \in Int /\ g[x] \in Int /\ h[x] = c * f[x] + g[x]

\* A sum is linear in its summands.
LEMMA SumLinear ==
  ASSUME NEW S, IsFiniteSet(S), NEW c \in Int, NEW f, NEW g, NEW h, Combines(h, c, f, g, S)
  PROVE  SumFunctionOnSet(h, S) = c * SumFunctionOnSet(f, S) + SumFunctionOnSet(g, S)
<1>0. \A x \in S : f[x] \in Int /\ g[x] \in Int /\ h[x] = c * f[x] + g[x]
  BY DEF Combines
<1> DEFINE G == {T \in SUBSET S :
        SumFunctionOnSet(h, T) = c * SumFunctionOnSet(f, T) + SumFunctionOnSet(g, T)}
<1>1. \A x \in S : h[x] \in Int
  <2> SUFFICES ASSUME NEW x \in S PROVE h[x] \in Int
    OBVIOUS
  <2>1. PICK a \in Int, b \in Int : a = f[x] /\ b = g[x] /\ h[x] = c * a + b
    BY <1>0
  <2>2. c * a \in Int
    BY <2>1
  <2> QED
    BY <2>1, <2>2
<1>2. \A T \in SUBSET S : /\ IsFiniteSet(T)
                          /\ \A x \in T : f[x] \in Int /\ g[x] \in Int /\ h[x] \in Int
  BY <1>0, <1>1, FS_Subset
<1>3. \A T \in SUBSET S : SumFunctionOnSet(f, T) \in Int /\ SumFunctionOnSet(g, T) \in Int
  BY <1>2, SumStep
<1>4. {} \in G
  <2>1. {} \in SUBSET S
    OBVIOUS
  <2>2. /\ SumFunctionOnSet(f, {}) = 0 /\ SumFunctionOnSet(g, {}) = 0
        /\ SumFunctionOnSet(h, {}) = 0
    BY <1>2, <2>1, SumStep
  <2>3. 0 = c * 0 + 0
    OBVIOUS
  <2> QED
    BY <2>2, <2>3
<1>5. ASSUME NEW T \in SUBSET S, T # {} PROVE \E x \in T : T \ {x} \in G => T \in G
  <2>1. PICK x \in T : TRUE
    BY <1>5
  <2>2. PICK R \in SUBSET S : R = T \ {x}
    OBVIOUS
  <2>3. /\ SumFunctionOnSet(f, T) = f[x] + SumFunctionOnSet(f, R)
        /\ SumFunctionOnSet(g, T) = g[x] + SumFunctionOnSet(g, R)
        /\ SumFunctionOnSet(h, T) = h[x] + SumFunctionOnSet(h, R)
    BY <1>2, <2>2, SumRemove
  <2>4. PICK a \in Int, b \in Int : a = f[x] /\ b = g[x] /\ h[x] = c * a + b
    BY <1>0, <2>1
  <2>5. PICK p \in Int, q \in Int : p = SumFunctionOnSet(f, R) /\ q = SumFunctionOnSet(g, R)
    BY <1>3
  <2>6. c * (a + p) = c * a + c * p /\ c * a \in Int /\ c * p \in Int
    BY <2>4, <2>5
  <2>7. ASSUME R \in G PROVE T \in G
    <3>1. SumFunctionOnSet(h, R) = c * p + q
      BY <2>5, <2>7
    <3>2. SumFunctionOnSet(h, T) = (c * a + b) + (c * p + q)
      BY <2>3, <2>4, <3>1
    <3>3. SumFunctionOnSet(h, T) = c * (a + p) + (b + q)
      BY <2>4, <2>5, <2>6, <3>2
    <3> QED
      BY <2>3, <2>4, <2>5, <3>3
  <2> QED
    BY <2>2, <2>7
<1>6. \A T \in SUBSET S : T \in G
  <2> HIDE DEF G
  <2> QED
    BY <1>4, <1>5, SubsetInduction
<1> QED
  BY <1>6

\* f and g differ in a and b only.
DifferAtTwo(a, b, f, g, S) ==
    /\ a \in S /\ b \in S /\ a # b
    /\ \A x \in S : f[x] \in Int /\ g[x] \in Int
    /\ \A x \in S \ {a, b} : f[x] = g[x]

\* Two summands change.
LEMMA SumTwo ==
  ASSUME NEW S, IsFiniteSet(S), NEW f, NEW g, NEW a, NEW b, DifferAtTwo(a, b, f, g, S)
  PROVE  /\ SumFunctionOnSet(f, S) \in Int
         /\ SumFunctionOnSet(g, S)
              = SumFunctionOnSet(f, S) + (g[a] - f[a]) + (g[b] - f[b])
<1>0. /\ a \in S /\ b \in S /\ a # b
      /\ \A x \in S : f[x] \in Int /\ g[x] \in Int
      /\ \A x \in S \ {a, b} : f[x] = g[x]
  BY DEF DifferAtTwo
<1>1. PICK R, U : R = S \ {a} /\ U = R \ {b}
  OBVIOUS
<1>2. /\ IsFiniteSet(R) /\ IsFiniteSet(U) /\ b \in R
      /\ \A x \in U : f[x] \in Int /\ f[x] = g[x]
      /\ \A x \in R : f[x] \in Int /\ g[x] \in Int
  BY <1>0, <1>1, FS_Subset
<1>3. /\ SumFunctionOnSet(f, S) = f[a] + SumFunctionOnSet(f, R)
      /\ SumFunctionOnSet(g, S) = g[a] + SumFunctionOnSet(g, R)
  BY <1>0, <1>1, SumRemove
<1>4. /\ SumFunctionOnSet(f, R) = f[b] + SumFunctionOnSet(f, U)
      /\ SumFunctionOnSet(g, R) = g[b] + SumFunctionOnSet(g, U)
  BY <1>1, <1>2, SumRemove
<1>5. SumFunctionOnSet(f, U) = SumFunctionOnSet(g, U)
  BY <1>2, SumEqual
<1>6. SumFunctionOnSet(f, U) \in Int
  BY <1>2, SumStep
<1>7. f[a] \in Int /\ f[b] \in Int /\ g[a] \in Int /\ g[b] \in Int
  BY <1>0
<1> QED
  BY <1>3, <1>4, <1>5, <1>6, <1>7

\* A sum over pairs of which the first is fixed is one over the second.
Tagged(f, P, tag, g, S) ==
    /\ P = {tag} \X S
    /\ \A x \in S : g[x] \in Int /\ f[<<tag, x>>] = g[x]

LEMMA SumTagged ==
  ASSUME NEW S, IsFiniteSet(S), NEW P, NEW tag, NEW f, NEW g, Tagged(f, P, tag, g, S)
  PROVE  SumFunctionOnSet(f, P) = SumFunctionOnSet(g, S)
<1>0. /\ P = {tag} \X S
      /\ \A x \in S : g[x] \in Int /\ f[<<tag, x>>] = g[x]
  BY DEF Tagged
<1> DEFINE G == {T \in SUBSET S :
        /\ IsFiniteSet({tag} \X T)
        /\ SumFunctionOnSet(f, {tag} \X T) = SumFunctionOnSet(g, T)}
<1>1. \A T \in SUBSET S : IsFiniteSet(T) /\ \A x \in T : g[x] \in Int
  BY <1>0, FS_Subset
<1>2. \A T \in SUBSET S : \A y \in {tag} \X T : f[y] \in Int
  BY <1>0
<1>3. {} \in G
  <2>1. {tag} \X {} = {} /\ {} \in SUBSET S /\ IsFiniteSet({})
    BY FS_EmptySet
  <2>2. SumFunctionOnSet(g, {}) = 0
    BY <1>1, <2>1, SumStep
  <2>3. SumFunctionOnSet(f, {}) = 0
    <3>1. \A y \in {} : f[y] \in Int
      OBVIOUS
    <3> QED
      BY <2>1, <3>1, SumStep
  <2> QED
    BY <2>1, <2>2, <2>3
<1>4. ASSUME NEW T \in SUBSET S, T # {} PROVE \E x \in T : T \ {x} \in G => T \in G
  <2>1. PICK x \in T : TRUE
    BY <1>4
  <2>2. PICK U, Q, y : U = {tag} \X T /\ Q = {tag} \X (T \ {x}) /\ y = <<tag, x>>
    OBVIOUS
  <2>3. y \notin Q /\ Q \cup {y} = U
    BY <2>1, <2>2
  <2>4. ASSUME T \ {x} \in G PROVE T \in G
    <3>1. IsFiniteSet(Q) /\ SumFunctionOnSet(f, Q) = SumFunctionOnSet(g, T \ {x})
      BY <2>2, <2>4
    <3>2. \A z \in Q \cup {y} : f[z] \in Int
      BY <1>2, <2>2, <2>3
    <3>3. IsFiniteSet(U) /\ SumFunctionOnSet(f, U) = f[y] + SumFunctionOnSet(f, Q)
      BY <2>3, <3>1, <3>2, SumAdd, FS_AddElement
    <3>4. SumFunctionOnSet(g, T) = g[x] + SumFunctionOnSet(g, T \ {x})
      BY <1>1, <2>1, SumRemove
    <3>5. f[y] = g[x]
      BY <1>0, <2>1, <2>2
    <3> QED
      BY <2>2, <3>1, <3>3, <3>4, <3>5
  <2> QED
    BY <2>1, <2>4
<1>5. \A T \in SUBSET S : T \in G
  <2> HIDE DEF G
  <2> QED
    BY <1>3, <1>4, SubsetInduction
<1> QED
  BY <1>0, <1>5
=============================================================================
