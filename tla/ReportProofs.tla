----------------------------- MODULE ReportProofs -----------------------------
(***************************************************************************)
(* What clients and the dashboard are told.  The reporting of DevCycle     *)
(* only watches: all that is shown of a MatchingCycle holds in dev and     *)
(* sandbox mode.  The market updates make a copy of the book, the last     *)
(* account update has the trader's capital, and it follows the market      *)
(* update of its trade.                                                    *)
(***************************************************************************)
EXTENDS DevCycle, MatchingCycleProofs, TLAPS

\* Every step of a DevCycle is one of its MatchingCycle, or reports.
LEMMA DevStepIsCycleStep == [DevNext]_devVars => [CycleNext]_allVars
<1> SUFFICES ASSUME [DevNext]_devVars PROVE [CycleNext]_allVars
  OBVIOUS
<1>1. CASE ReportOrders
  BY <1>1 DEF ReportOrders, CycleNext
<1>2. CASE ReportMatches
  BY <1>2 DEF ReportMatches, CycleNext
<1>3. CASE PostCycle
  BY <1>3 DEF PostCycle
<1>4. CASE BeforeCycle
  BY <1>4 DEF BeforeCycle, CycleNext
<1>5. CASE Clients
  BY <1>5 DEF Clients, CycleNext
<1>6. CASE Handle \/ Step
  BY <1>6 DEF CycleNext
<1>7. CASE UNCHANGED devVars
  BY <1>7 DEF devVars
<1> QED
  BY <1>1, <1>2, <1>3, <1>4, <1>5, <1>6, <1>7 DEF DevNext

\* The cycle of dev and sandbox mode implements the cycle without reports.
THEOREM DevImplementsCycle == DevSpec => CycleSpec
<1>1. DevInit => CycleInit
  BY DEF DevInit
<1> QED
  BY <1>1, DevStepIsCycleStep, PTL DEF DevSpec, CycleSpec

\* So it implements the engine as well, whatever is reported.
THEOREM DevImplementsEngine == DevSpec => ImplementsEngine
BY DevImplementsCycle, CycleImplementsEngine, PTL

\* And no trader has more than the volume limit open.
THEOREM DevVolumeLimit == DevSpec => []OpenVolumeBounded
BY DevImplementsCycle, CycleVolumeLimit, PTL

-----------------------------------------------------------------------------
(***************************************************************************)
(* Sequences of messages.                                                  *)
(***************************************************************************)
\* new is old, the tick, and after it account updates.
Reported(new, old, tick, accounts) ==
    /\ Len(old) \in Nat /\ Len(accounts) \in Nat
    /\ DOMAIN old = 1 .. Len(old)
    /\ DOMAIN new = 1 .. Len(old) + 1 + Len(accounts)
    /\ \A i \in 1 .. Len(old) : new[i] = old[i]
    /\ new[Len(old) + 1] = tick
    /\ \A i \in 1 .. Len(accounts) : new[Len(old) + 1 + i] = accounts[i]
    /\ tick.kind = "tick"
    /\ \A i \in 1 .. Len(accounts) : accounts[i].kind = "account"

\* Concatenation does that.
LEMMA ReportedConcat ==
  ASSUME NEW M, NEW old \in Seq(M), NEW tick, NEW A, NEW accounts \in Seq(A),
         tick.kind = "tick", \A a \in A : a.kind = "account"
  PROVE  Reported(old \o (<<tick>> \o accounts), old, tick, accounts)
<1> DEFINE U == M \cup A \cup {tick}
<1>1. /\ old \in Seq(U) /\ accounts \in Seq(U) /\ <<tick>> \in Seq(U)
      /\ Len(<<tick>>) = 1 /\ <<tick>>[1] = tick
  OBVIOUS
<1>2. PICK n \in Nat, k \in Nat : n = Len(old) /\ k = Len(accounts)
  OBVIOUS
<1> DEFINE rest == <<tick>> \o accounts
<1>3. /\ rest \in Seq(U) /\ Len(rest) = 1 + k
      /\ rest[1] = tick
      /\ \A i \in 1 .. k : rest[1 + i] = accounts[i]
  BY <1>1, <1>2
<1> HIDE DEF rest, U
<1> DEFINE new == old \o rest
<1>4. /\ new \in Seq(U) /\ Len(new) = n + (1 + k)
      /\ \A i \in 1 .. n : new[i] = old[i]
      /\ \A i \in 1 .. 1 + k : new[n + i] = rest[i]
  <2>1. /\ new \in Seq(U) /\ Len(new) = Len(old) + Len(rest)
        /\ \A i \in 1 .. Len(new) :
             new[i] = IF i <= Len(old) THEN old[i] ELSE rest[i - Len(old)]
    <3>1. old \in Seq(U) /\ rest \in Seq(U)
      BY <1>1, <1>3
    <3>2. /\ new \in Seq(U) /\ Len(new) = Len(old) + Len(rest)
          /\ \A i \in 1 .. Len(old) + Len(rest) :
               new[i] = IF i <= Len(old) THEN old[i] ELSE rest[i - Len(old)]
      BY <3>1, ConcatProperties
    <3> QED
      BY <3>2
  <2>2. Len(new) = n + (1 + k)
    BY <1>2, <1>3, <2>1
  <2>3. \A i \in 1 .. n + (1 + k) : new[i] = IF i <= n THEN old[i] ELSE rest[i - n]
    BY <1>2, <2>1, <2>2
  <2> HIDE DEF new
  <2>4. \A i \in 1 .. n : i \in 1 .. n + (1 + k) /\ i <= n
    OBVIOUS
  <2>5. \A i \in 1 .. 1 + k : /\ n + i \in 1 .. n + (1 + k) /\ ~(n + i <= n)
                             /\ (n + i) - n = i
    OBVIOUS
  <2> QED
    BY <2>1, <2>2, <2>3, <2>4, <2>5
<1> HIDE DEF new
<1>5. DOMAIN new = 1 .. n + 1 + k
  BY <1>4
<1>6. new[n + 1] = tick
  BY <1>3, <1>4
<1>7. \A i \in 1 .. k : new[n + 1 + i] = accounts[i]
  <2> SUFFICES ASSUME NEW i \in 1 .. k PROVE new[n + 1 + i] = accounts[i]
    OBVIOUS
  <2>1. 1 + i \in 1 .. 1 + k /\ n + (1 + i) = n + 1 + i
    OBVIOUS
  <2> QED
    BY <1>3, <1>4, <2>1
<1>8. \A i \in 1 .. k : accounts[i].kind = "account"
  BY <1>2
<1>9. DOMAIN old = 1 .. n
  BY <1>2
<1>10. Reported(new, old, tick, accounts)
  BY <1>2, <1>4, <1>5, <1>6, <1>7, <1>8, <1>9 DEF Reported
<1> QED
  BY <1>10 DEF new, rest

\* The greatest member of a set of numbers.
LEMMA Greatest ==
  ASSUME NEW n \in Nat, NEW S \in SUBSET (1 .. n), S # {}
  PROVE  Max(S) \in S /\ \A i \in S : Max(S) >= i
<1> DEFINE R == {n - i : i \in S}
<1>1. R \in SUBSET Nat /\ R # {}
  <2>1. \A i \in S : i \in 1 .. n
    OBVIOUS
  <2>2. \A i \in 1 .. n : n - i \in Nat
    OBVIOUS
  <2> QED
    BY <2>1, <2>2
<1>2. PICK r \in R : \A x \in R : r <= x
  BY <1>1, LeastNatural
<1>3. PICK m \in S : r = n - m
  OBVIOUS
<1>4. ASSUME NEW i \in S PROVE m >= i
  <2>1. n - m <= n - i
    BY <1>2, <1>3
  <2>2. m \in 1 .. n /\ i \in 1 .. n
    OBVIOUS
  <2> QED
    BY <2>1, <2>2
<1>5. \E m1 \in S : \A i \in S : m1 >= i
  BY <1>4
<1> HIDE DEF R
<1> QED
  BY <1>5 DEF Max

LEMMA MaxIs ==
  ASSUME NEW S \in SUBSET Int, NEW m \in S, \A i \in S : m >= i
  PROVE  Max(S) = m
<1>1. \A x \in S : (\A i \in S : x >= i) => x = m
  OBVIOUS
<1>2. \E x \in S : \A i \in S : x >= i
  OBVIOUS
<1> QED
  BY <1>1, <1>2 DEF Max

\* The updates of a level after a report: that of the tick, if it names it.
LEMMA CopyReported ==
  ASSUME NEW new, NEW old, NEW tick, NEW accounts, Reported(new, old, tick, accounts),
         NEW l
  PROVE  Copy(new, l) = IF l \in DOMAIN tick.levels THEN tick.levels[l] ELSE Copy(old, l)
<1> DEFINE n == Len(old)
<1>1. /\ n \in Nat /\ Len(accounts) \in Nat
      /\ DOMAIN old = 1 .. n /\ DOMAIN new = 1 .. n + 1 + Len(accounts)
      /\ \A i \in 1 .. n : new[i] = old[i]
      /\ new[n + 1] = tick /\ tick.kind = "tick"
      /\ \A i \in 1 .. Len(accounts) : new[n + 1 + i].kind = "account"
  BY DEF Reported
<1> HIDE DEF n
<1>2. ASSUME NEW i \in DOMAIN new
      PROVE  i \in 1 .. n \/ i = n + 1 \/ new[i].kind = "account"
  <2>1. PICK k \in Nat : k = Len(accounts)
    BY <1>1
  <2>2. i \in 1 .. n + 1 + k
    BY <1>1, <2>1
  <2>3. i \in 1 .. n \/ i = n + 1 \/ (i - (n + 1) \in 1 .. k /\ i = n + 1 + (i - (n + 1)))
    BY <1>1, <2>2
  <2> QED
    BY <1>1, <2>1, <2>3
<1>3. Naming(old, l) \subseteq 1 .. n /\ n + 1 \in DOMAIN new
      /\ \A i \in 1 .. n : i \in DOMAIN new
  BY <1>1 DEF Naming
<1>4. Naming(new, l) = Naming(old, l) \cup (IF l \in DOMAIN tick.levels THEN {n + 1} ELSE {})
  BY <1>1, <1>2, <1>3 DEF Naming
<1>5. CASE l \in DOMAIN tick.levels
  <2>1. /\ Naming(new, l) \in SUBSET Int /\ n + 1 \in Naming(new, l)
        /\ \A i \in Naming(new, l) : n + 1 >= i
    BY <1>1, <1>3, <1>4, <1>5
  <2>2. Max(Naming(new, l)) = n + 1
    BY <2>1, MaxIs
  <2> QED
    BY <1>1, <1>5, <2>1, <2>2 DEF Copy
<1>6. CASE l \notin DOMAIN tick.levels
  <2>1. Naming(new, l) = Naming(old, l)
    BY <1>4, <1>6
  <2>2. CASE Naming(old, l) = {}
    BY <1>6, <2>1, <2>2 DEF Copy
  <2>3. CASE Naming(old, l) # {}
    <3>1. Max(Naming(old, l)) \in Naming(old, l)
      BY <1>1, <1>3, <2>3, Greatest
    <3> QED
      BY <1>1, <1>3, <1>6, <2>1, <2>3, <3>1 DEF Copy
  <2> QED
    BY <2>2, <2>3
<1> QED
  BY <1>5, <1>6

\* The capital told last is that of the last account update.
LEMMA CapitalReported ==
  ASSUME NEW new, NEW old, NEW tick, NEW accounts, Reported(new, old, tick, accounts),
         NEW initial
  PROVE  LastCapital(new, initial) =
            IF Len(accounts) > 0 THEN accounts[Len(accounts)].capital
                                 ELSE LastCapital(old, initial)
<1> DEFINE n == Len(old)
           k == Len(accounts)
<1>1. /\ n \in Nat /\ k \in Nat
      /\ DOMAIN old = 1 .. n /\ DOMAIN new = 1 .. n + 1 + k
      /\ \A i \in 1 .. n : new[i] = old[i]
      /\ new[n + 1] = tick /\ tick.kind = "tick"
      /\ \A i \in 1 .. k : /\ new[n + 1 + i] = accounts[i]
                          /\ accounts[i].kind = "account"
  BY DEF Reported
<1> HIDE DEF n, k
<1>2. /\ AccountsAmong(old) \subseteq 1 .. n
      /\ AccountsAmong(new) \subseteq 1 .. n + 1 + k
      /\ \A i \in 1 .. n : i \in DOMAIN new
  BY <1>1 DEF AccountsAmong
<1>3. CASE k > 0
  <2>1. n + 1 + k \in DOMAIN new /\ new[n + 1 + k] = accounts[k]
        /\ accounts[k].kind = "account"
    BY <1>1, <1>3
  <2>2. n + 1 + k \in AccountsAmong(new)
    BY <2>1 DEF AccountsAmong
  <2>3. AccountsAmong(new) \in SUBSET Int /\ \A i \in AccountsAmong(new) : n + 1 + k >= i
    BY <1>1, <1>2
  <2>4. Max(AccountsAmong(new)) = n + 1 + k
    BY <2>2, <2>3, MaxIs
  <2> QED
    BY <1>3, <2>1, <2>2, <2>4 DEF LastCapital, k
<1>4. CASE k = 0
  <2>1. \A i \in DOMAIN new : i \in 1 .. n \/ i = n + 1
    BY <1>1, <1>4
  <2>2. AccountsAmong(new) = AccountsAmong(old)
    BY <1>1, <1>2, <2>1 DEF AccountsAmong
  <2>3. CASE AccountsAmong(old) = {}
    BY <1>4, <2>2, <2>3 DEF LastCapital, k
  <2>4. CASE AccountsAmong(old) # {}
    <3>1. Max(AccountsAmong(old)) \in AccountsAmong(old)
      BY <1>1, <1>2, <2>4, Greatest
    <3> QED
      BY <1>1, <1>2, <1>4, <2>2, <2>4, <3>1 DEF LastCapital, k
  <2> QED
    BY <2>3, <2>4
<1> QED
  BY <1>1, <1>3, <1>4 DEF k

\* Every account update follows the tick of its trade after the report, if it
\* did before and the new updates are of trades of the new tick.
LEMMA FollowsReported ==
  ASSUME NEW new, NEW old, NEW tick, NEW accounts, Reported(new, old, tick, accounts),
         NEW t,
         \A i \in AccountsAmong(old) : FollowsMarket(old, i, t),
         \A i \in 1 .. Len(accounts) : \E match \in ToSet(tick.trades) :
            t \in {match.buyer, match.seller} /\ IsAbout(accounts[i], match)
  PROVE  \A i \in AccountsAmong(new) : FollowsMarket(new, i, t)
<1> DEFINE n == Len(old)
           k == Len(accounts)
<1>1. /\ n \in Nat /\ k \in Nat
      /\ DOMAIN old = 1 .. n /\ DOMAIN new = 1 .. n + 1 + k
      /\ \A i \in 1 .. n : new[i] = old[i]
      /\ new[n + 1] = tick /\ tick.kind = "tick"
      /\ \A i \in 1 .. k : /\ new[n + 1 + i] = accounts[i]
                          /\ accounts[i].kind = "account"
  BY DEF Reported
<1>2. \A i \in 1 .. k : \E match \in ToSet(tick.trades) :
            t \in {match.buyer, match.seller} /\ IsAbout(accounts[i], match)
  OBVIOUS
<1> HIDE DEF n, k
<1> SUFFICES ASSUME NEW i \in AccountsAmong(new) PROVE FollowsMarket(new, i, t)
  OBVIOUS
<1>3. i \in 1 .. n + 1 + k /\ new[i].kind = "account"
  BY <1>1 DEF AccountsAmong
<1>4. CASE i \in 1 .. n
  <2>1. FollowsMarket(old, i, t)
    BY <1>1, <1>3, <1>4 DEF AccountsAmong
  <2>2. PICK j \in 1 .. i - 1 :
          /\ old[j].kind = "tick"
          /\ \A m \in j + 1 .. i : old[m].kind = "account"
          /\ \E match \in ToSet(old[j].trades) :
              t \in {match.buyer, match.seller} /\ IsAbout(old[i], match)
    BY <2>1 DEF FollowsMarket
  <2>3. j \in 1 .. n /\ \A m \in j + 1 .. i : m \in 1 .. n
    BY <1>1, <1>4
  <2>4. new[j] = old[j] /\ new[i] = old[i] /\ \A m \in j + 1 .. i : new[m] = old[m]
    BY <1>1, <1>4, <2>3
  <2> QED
    BY <2>2, <2>4 DEF FollowsMarket
<1>5. CASE i \notin 1 .. n
  <2>1. i # n + 1
    BY <1>1, <1>3
  <2>2. PICK x \in 1 .. k : i = n + 1 + x
    <3>1. i - (n + 1) \in 1 .. k /\ i = n + 1 + (i - (n + 1))
      BY <1>1, <1>3, <1>5, <2>1
    <3> QED
      BY <3>1
  <2>3. n + 1 \in 1 .. i - 1
    BY <1>1, <2>2
  <2>4. ASSUME NEW m \in (n + 1) + 1 .. i PROVE new[m].kind = "account"
    <3>1. m - (n + 1) \in 1 .. k /\ m = n + 1 + (m - (n + 1))
      BY <1>1, <2>2
    <3>2. PICK y \in 1 .. k : m = n + 1 + y
      BY <3>1
    <3> QED
      BY <1>1, <3>2
  <2>5. new[i] = accounts[x]
    BY <1>1, <2>2
  <2>6. new[n + 1] = tick /\ tick.kind = "tick"
    BY <1>1
  <2>7. \E match \in ToSet(new[n + 1].trades) :
            t \in {match.buyer, match.seller} /\ IsAbout(new[i], match)
    BY <1>2, <2>5, <2>6
  <2> HIDE DEF n
  <2>8. \E j \in 1 .. i - 1 :
            /\ new[j].kind = "tick"
            /\ \A m \in j + 1 .. i : new[m].kind = "account"
            /\ \E match \in ToSet(new[j].trades) :
                t \in {match.buyer, match.seller} /\ IsAbout(new[i], match)
    BY <2>3, <2>4, <2>6, <2>7
  <2> QED
    BY <2>8 DEF FollowsMarket
<1> QED
  BY <1>4, <1>5

-----------------------------------------------------------------------------
(***************************************************************************)
(* What a trader is sent.                                                  *)
(***************************************************************************)
\* The trades of the tick that a trader is part of, and the updates of them.
TradesOf(t) == {i \in DOMAIN matches : t \in {matches[i].buyer, matches[i].seller}}
UpdatesOf(t) == {AccountUpdate(matches[i], t) : i \in TradesOf(t)}

\* A trader is told of its trades, of them only, and of none only if it has none.
LEMMA AccountUpdatesFacts ==
  ASSUME matches \in Seq(MatchType), NEW t
  PROVE  /\ AccountUpdates(t) \in Seq(UpdatesOf(t))
         /\ TradesOf(t) # {} => AccountUpdates(t) # <<>>
<1> DEFINE D == DOMAIN matches
           V == Seq(UpdatesOf(t))
           next(i, sofar) == IF t \in {matches[i].buyer, matches[i].seller}
                             THEN Append(sofar, AccountUpdate(matches[i], t)) ELSE sofar
           body(it) == [T \in SUBSET D |->
                          IF T = {} THEN <<>> ELSE next(Max(T), it[T \ {Max(T)}])]
           ch == [T \in SUBSET D |-> Max(T)]
           step == [p \in D \X V |-> next(p[1], p[2])]
<1>1. IsFiniteSet(D) /\ \A T \in SUBSET D : T # {} => Max(T) \in T
  <2>1. PICK n \in Nat : D = 1 .. n
    <3>1. Len(matches) \in Nat /\ D = 1 .. Len(matches)
      OBVIOUS
    <3> QED
      BY <3>1
  <2> HIDE DEF D
  <2>2. IsFiniteSet(D)
    BY <2>1, FS_Interval
  <2>3. \A T \in SUBSET D : T # {} => Max(T) \in T
    BY <2>1, Greatest
  <2> QED
    BY <2>2, <2>3
<1>2. AccountUpdates(t) = (CHOOSE g : g = body(g))[D]
  BY DEF AccountUpdates, FoldLeft, MapThenFoldSet
<1>3. \A i \in D, v \in V : next(i, v) \in V
  <2> SUFFICES ASSUME NEW i \in D, NEW v \in V PROVE next(i, v) \in V
    OBVIOUS
  <2>1. i \in TradesOf(t) => AccountUpdate(matches[i], t) \in UpdatesOf(t)
    BY DEF UpdatesOf
  <2>2. i \in TradesOf(t) <=> t \in {matches[i].buyer, matches[i].seller}
    BY DEF TradesOf
  <2> QED
    BY <2>1, <2>2
<1>4. step \in [D \X V -> V] /\ \A i \in D, v \in V : step[<<i, v>>] = next(i, v)
  <2> HIDE DEF next, V, D
  <2> QED
    BY <1>3
<1>5. \A T \in SUBSET D : T # {} => ch[T] \in T /\ ch[T] = Max(T)
  BY <1>1
<1>6. <<>> \in V
  OBVIOUS
<1> HIDE DEF D, V, next, ch, step
<1>7. PICK it \in [SUBSET D -> V] : FoldsOn(it, SUBSET D, <<>>, ch, step)
  BY <1>1, <1>4, <1>5, <1>6, FoldExists
<1>8. it = body(it)
  <2> SUFFICES ASSUME NEW T \in SUBSET D, T # {}
               PROVE  it[T] = next(Max(T), it[T \ {Max(T)}])
    BY <1>7 DEF FoldsOn
  <2>1. it[T] = step[<<Max(T), it[T \ {Max(T)}]>>]
    BY <1>5, <1>7 DEF FoldsOn
  <2>2. Max(T) \in D /\ it[T \ {Max(T)}] \in V
    BY <1>1
  <2> QED
    BY <1>4, <2>1, <2>2
<1>9. PICK c : c = body(c) /\ AccountUpdates(t) = c[D]
  BY <1>2, <1>8
<1>10. \A T \in SUBSET D : c[T] = IF T = {} THEN <<>> ELSE next(Max(T), c[T \ {Max(T)}])
  BY <1>9
<1> DEFINE G == {T \in SUBSET D : c[T] \in V /\ (T \cap TradesOf(t) # {} => c[T] # <<>>)}
<1>11. {} \in G
  BY <1>6, <1>10
<1>12. ASSUME NEW T \in SUBSET D, T # {} PROVE \E x \in T : T \ {x} \in G => T \in G
  <2> DEFINE x == Max(T)
  <2>1. x \in T /\ x \in D /\ c[T] = next(x, c[T \ {x}])
    BY <1>1, <1>10, <1>12
  <2> HIDE DEF x
  <2>2. ASSUME T \ {x} \in G PROVE T \in G
    <3>1. c[T \ {x}] \in V /\ ((T \ {x}) \cap TradesOf(t) # {} => c[T \ {x}] # <<>>)
      BY <2>2
    <3>2. c[T] \in V
      BY <1>3, <2>1, <3>1
    <3>3. CASE x \in TradesOf(t)
      <4>1. c[T] = Append(c[T \ {x}], AccountUpdate(matches[x], t))
        BY <2>1, <3>3 DEF next, TradesOf
      <4>2. c[T] # <<>>
        BY <3>1, <4>1, SMTT(30) DEF V
      <4> QED
        BY <3>2, <4>2
    <3>4. CASE x \notin TradesOf(t)
      <4>1. c[T] = c[T \ {x}]
        BY <2>1, <3>4 DEF next, TradesOf, D
      <4> QED
        BY <3>1, <3>2, <3>4, <4>1
    <3> QED
      BY <3>3, <3>4
  <2> QED
    BY <2>1, <2>2
<1>13. D \in G
  <2> HIDE DEF G
  <2> QED
    BY <1>1, <1>11, <1>12, SubsetInduction
<1> QED
  BY <1>9, <1>13 DEF TradesOf, D, V

\* What a client may have been told.
Ticks ==
    [kind : {"tick"}, levels : UNION {[S -> Int] : S \in SUBSET Levels},
     trades : Seq(MatchType)]
Accounted ==
    [kind : {"account"}, ticker : Tickers, side : Sides, qty : Int, price : Int,
     capital : Int]
ToldType == told \in [Traders -> Seq(Ticks \cup Accounted)]

\* A report tells those who listen of the market and then of their trades.
LEMMA ReportTells ==
  ASSUME Inv, ToldType, Report
  PROVE  /\ ToldType'
         /\ \A t \in Traders :
                IF t \in Listening
                THEN Reported(told'[t], told[t], TickUpdate, AccountUpdates(t))
                ELSE told'[t] = told[t]
<1>1. /\ levels \in [Levels -> Int] /\ modified \subseteq Levels
      /\ matches \in Seq(MatchType) /\ CapitalOf \in [Traders -> Int]
  BY LedgerType DEF Inv, TypeInv, BookType
<1>2. TickUpdate \in Ticks /\ TickUpdate.kind = "tick"
  <2>1. [l \in modified |-> levels[l]] \in [modified -> Int]
    BY <1>1
  <2>2. [l \in modified |-> levels[l]] \in UNION {[S -> Int] : S \in SUBSET Levels}
    BY <1>1, <2>1
  <2> DEFINE lv == [l \in modified |-> levels[l]]
  <2> HIDE DEF lv
  <2> QED
    BY <1>1, <2>2 DEF TickUpdate, Ticks, lv
<1>3. ASSUME NEW t \in Traders
      PROVE  /\ \A a \in UpdatesOf(t) : a \in Accounted /\ a.kind = "account"
             /\ AccountUpdates(t) \in Seq(UpdatesOf(t))
  <2>1. ASSUME NEW i \in DOMAIN matches PROVE AccountUpdate(matches[i], t) \in Accounted
    <3>1. matches[i] \in MatchType /\ CapitalOf[t] \in Int
      BY <1>1
    <3> QED
      BY <3>1 DEF AccountUpdate, Accounted, MatchType
  <2>2. \A a \in UpdatesOf(t) : a \in Accounted
    BY <2>1 DEF UpdatesOf, TradesOf
  <2>3. \A a \in Accounted : a.kind = "account"
    BY DEF Accounted
  <2> QED
    BY <1>1, <2>2, <2>3, AccountUpdatesFacts
<1>4. told' = [t \in Traders |->
                  IF t \in Listening
                  THEN told[t] \o (<<TickUpdate>> \o AccountUpdates(t)) ELSE told[t]]
  BY DEF Report, Messages
<1>5. ASSUME NEW t \in Traders
      PROVE  /\ Reported(told[t] \o (<<TickUpdate>> \o AccountUpdates(t)),
                         told[t], TickUpdate, AccountUpdates(t))
             /\ told[t] \o (<<TickUpdate>> \o AccountUpdates(t)) \in Seq(Ticks \cup Accounted)
  <2>1. told[t] \in Seq(Ticks \cup Accounted)
    BY DEF ToldType
  <2>2. Reported(told[t] \o (<<TickUpdate>> \o AccountUpdates(t)),
                 told[t], TickUpdate, AccountUpdates(t))
    BY <1>2, <1>3, <2>1, ReportedConcat
  <2>3. <<TickUpdate>> \in Seq(Ticks \cup Accounted)
    BY <1>2
  <2>4. AccountUpdates(t) \in Seq(Ticks \cup Accounted)
    BY <1>3
  <2>5. <<TickUpdate>> \o AccountUpdates(t) \in Seq(Ticks \cup Accounted)
    BY <2>3, <2>4, ConcatProperties
  <2>6. told[t] \o (<<TickUpdate>> \o AccountUpdates(t)) \in Seq(Ticks \cup Accounted)
    BY <2>1, <2>5, ConcatProperties
  <2> QED
    BY <2>2, <2>6
<1>6. ToldType'
  BY <1>4, <1>5 DEF ToldType
<1> QED
  BY <1>4, <1>5, <1>6

\* A step of the engine while a tick is in progress.
TickStep ==
    \/ Submit
    \/ \E ticker \in Tickers, id \in CancelIds : Cancel(ticker, id)
    \/ MatchStep
    \/ UNCHANGED vars

\* Every step of the cycle but a report is one, and tells nobody anything.
LEMMA CycleTickStep ==
  ASSUME CycleInv, [CycleNext]_allVars, ~Report
  PROVE  TickStep /\ told' = told
<1>1. CASE Handle
  BY <1>1, HandleStep DEF TickStep, Handle
<1>2. CASE Step
  BY <1>2 DEF Step, TickStep, cycleVars
<1>3. CASE Collect \/ EmptyTick \/ UNCHANGED allVars
  BY <1>3 DEF Collect, EmptyTick, allVars, cycleVars, TickStep
<1>4. ASSUME NEW o \in Orders, Place(o) PROVE TickStep /\ told' = told
  BY <1>4 DEF Place, TickStep
<1>5. ASSUME NEW t \in Traders, NEW ticker \in Tickers, NEW n \in 1 .. MaxOrders,
             NEW ts \in 1 .. MaxOrders + MaxCancels, PlaceCancel(t, ticker, n, ts)
      PROVE  TickStep /\ told' = told
  BY <1>5 DEF PlaceCancel, TickStep
<1>6. ASSUME NEW t \in Traders, AddTrader(t) \/ Disable(t) PROVE TickStep /\ told' = told
  BY <1>6 DEF AddTrader, Disable, TickStep
<1> QED
  BY <1>1, <1>2, <1>3, <1>4, <1>5, <1>6 DEF CycleNext

-----------------------------------------------------------------------------
(***************************************************************************)
(* The copy of the book.                                                   *)
(***************************************************************************)
\* A level that has changed is among the modified ones until the report.
LevelsKept ==
    /\ modified \subseteq modified'
    /\ \A l \in Levels \ modified' : levels'[l] = levels[l]

LEMMA LevelsModified == Inv /\ TickStep => LevelsKept
<1> SUFFICES ASSUME Inv, TickStep PROVE LevelsKept
  OBVIOUS
<1>1. levels \in [Levels -> Int]
  BY DEF Inv, TypeInv, BookType
<1>2. \A o, d : RecordLevelChange(o, d) => LevelsKept
  BY <1>1 DEF RecordLevelChange, LevelsKept
<1>3. levels' = levels /\ modified' = modified => LevelsKept
  BY DEF LevelsKept
<1>4. \A n, pf : RemoveOrder(n, pf) => LevelsKept
  BY <1>2 DEF RemoveOrder
<1>5. \A n, q, pf : ReduceOrder(n, q, pf) => LevelsKept
  BY <1>2, <1>4 DEF ReduceOrder
<1>6. \A o : AddOrder(o) => LevelsKept
  BY <1>2, <1>3 DEF AddOrder
<1>7. ASSUME NEW ticker, NEW id, Cancel(ticker, id) PROVE LevelsKept
  <2>1. RemoveOrder(order_map[<<ticker, id>>], portfolio) \/ UNCHANGED bookVars
    BY <1>7 DEF Cancel
  <2> QED
    BY <1>3, <1>4, <2>1 DEF bookVars
<1>8. CASE Match
  <2>1. \E n, q, pf : ReduceOrder(n, q, pf)
    BY <1>8 DEF Match
  <2> QED
    BY <1>5, <2>1
<1>9. CASE RemovePassive
  BY <1>4, <1>9 DEF RemovePassive
<1>10. CASE Rest
  BY <1>6, <1>10 DEF Rest
<1>11. CASE Submit \/ Discard \/ UNCHANGED vars
  BY <1>3, <1>11 DEF Submit, Accept, Drop, Discard, bookVars, vars
<1> QED
  BY <1>7, <1>8, <1>9, <1>10, <1>11 DEF TickStep, MatchStep

\* The strengthening: outside the modified levels, the copy of a client that was
\* there from the start is right at any time.
CopyInv ==
    /\ Present \subseteq traders_ \cap enabled
    /\ \A t \in Present \ Leveraged : \A l \in Levels \ modified :
        Copy(told[t], l) = levels[l]

\* Who is there from the start stays.
LEMMA PresentStay ==
  ASSUME [CycleNext]_allVars, Present \subseteq traders_ \cap enabled
  PROVE  Present \subseteq traders_' \cap enabled'
<1>1. ASSUME NEW o \in Orders, Place(o) PROVE UNCHANGED <<traders_, enabled>>
  BY <1>1 DEF Place
<1>2. ASSUME NEW t \in Traders, NEW ticker \in Tickers, NEW n \in 1 .. MaxOrders,
             NEW ts \in 1 .. MaxOrders + MaxCancels, PlaceCancel(t, ticker, n, ts)
      PROVE  UNCHANGED <<traders_, enabled>>
  BY <1>2 DEF PlaceCancel
<1>3. CASE Collect \/ Handle \/ Step \/ Report \/ EmptyTick \/ UNCHANGED allVars
  BY <1>3 DEF Collect, Handle, Step, Report, EmptyTick, allVars, cycleVars
<1>4. CASE \E t \in Traders : AddTrader(t) \/ Disable(t)
  BY <1>4 DEF AddTrader, Disable
<1> QED
  BY <1>1, <1>2, <1>3, <1>4 DEF CycleNext

LEMMA CopyStep ==
  ASSUME Inv, CycleInv, ToldType, CopyInv, [CycleNext]_allVars
  PROVE  ToldType' /\ CopyInv'
<1>1. Present \subseteq traders_' \cap enabled'
  BY PresentStay DEF CopyInv
<1>2. CASE ~Report
  <2>1. TickStep /\ told' = told
    BY <1>2, CycleTickStep
  <2>2. /\ modified \subseteq modified'
        /\ \A l \in Levels \ modified' : levels'[l] = levels[l]
    BY <2>1, LevelsModified DEF LevelsKept
  <2>3. ASSUME NEW t \in Present \ Leveraged, NEW l \in Levels \ modified'
        PROVE  Copy(told'[t], l) = levels'[l]
    BY <2>1, <2>2 DEF CopyInv
  <2> QED
    BY <1>1, <2>1, <2>3 DEF CopyInv, ToldType
<1>3. CASE Report
  <2>1. levels' = levels
    BY <1>3 DEF Report, TakeUpdates
  <2>2. ASSUME NEW t \in Present \ Leveraged, NEW l \in Levels
        PROVE  Copy(told'[t], l) = levels'[l]
    <3>1. t \in Traders /\ t \in Listening
      BY PresentAssumption DEF CopyInv, Listening
    <3>2. Reported(told'[t], told[t], TickUpdate, AccountUpdates(t))
      BY <1>3, <3>1, ReportTells
    <3>3. Copy(told'[t], l) = IF l \in DOMAIN TickUpdate.levels
                              THEN TickUpdate.levels[l] ELSE Copy(told[t], l)
      BY <3>2, CopyReported
    <3>4. /\ DOMAIN TickUpdate.levels = modified
          /\ \A x \in modified : TickUpdate.levels[x] = levels[x]
      BY DEF TickUpdate
    <3> QED
      BY <2>1, <3>3, <3>4 DEF CopyInv
  <2> QED
    BY <1>1, <1>3, <2>2, ReportTells DEF CopyInv
<1> QED
  BY <1>2, <1>3

\* A client that was there from the start and applies every update has the
\* book's total quantity at every level after every tick (base_cycle.cpp:117).
THEOREM ClientsCopyBook == CycleSpec => []CopiesMatchLevels
<1>1. CycleInit => ToldType /\ CopyInv
  <2> SUFFICES ASSUME CycleInit PROVE ToldType /\ CopyInv
    OBVIOUS
  <2>1. \A t \in Traders : told[t] = <<>>
    BY DEF CycleInit
  <2>2. \A l : Copy(<<>>, l) = 0
    BY DEF Copy, Naming
  <2>3. \A l \in Levels : levels[l] = 0
    BY DEF CycleInit, Init
  <2> QED
    BY <2>1, <2>2, <2>3, PresentAssumption DEF CopyInv, ToldType, CycleInit
<1>2. Inv /\ CycleInv /\ ToldType /\ CopyInv /\ [CycleNext]_allVars
        => ToldType' /\ CopyInv'
  BY CopyStep
<1>3. CopyInv => CopiesMatchLevels
  <2> SUFFICES ASSUME CopyInv, BetweenTicks,
                      NEW t \in Present \cap Listening, NEW l \in Levels
               PROVE  Copy(told[t], l) = levels[l]
    BY DEF CopiesMatchLevels, HasCopy
  <2>1. modified = {} /\ t \notin Leveraged
    BY DEF BetweenTicks, Untold, Listening
  <2> QED
    BY <2>1 DEF CopyInv
<1>4. CycleInit => CycleInv
  BY DEF CycleInit, CycleInv
<1>5. CycleSpec => []Inv
  BY CycleImplementsEngine, InvInvariant, PTL DEF ImplementsEngine
<1> QED
  BY <1>1, <1>2, <1>3, <1>4, <1>5, CycleNextInv, PTL DEF CycleSpec

-----------------------------------------------------------------------------
(***************************************************************************)
(* The account updates.                                                    *)
(***************************************************************************)
\* A report adds account updates of trades of its own tick.
LEMMA AfterMarketStep ==
  ASSUME Inv, CycleInv, ToldType, AccountAfterMarket, [CycleNext]_allVars
  PROVE  ToldType' /\ AccountAfterMarket'
<1>1. CASE ~Report
  BY <1>1, CycleTickStep DEF AccountAfterMarket, ToldType
<1>2. CASE Report
  <2> SUFFICES ASSUME NEW t \in Traders
               PROVE  \A i \in AccountsAmong(told'[t]) : FollowsMarket(told'[t], i, t)
    BY <1>2, ReportTells DEF AccountAfterMarket
  <2>1. \A i \in AccountsAmong(told[t]) : FollowsMarket(told[t], i, t)
    BY DEF AccountAfterMarket
  <2>2. CASE t \notin Listening
    <3>1. told'[t] = told[t]
      BY <1>2, <2>2, ReportTells
    <3> QED
      BY <2>1, <3>1
  <2>3. CASE t \in Listening
    <3>1. Reported(told'[t], told[t], TickUpdate, AccountUpdates(t))
      BY <1>2, <2>3, ReportTells
    <3>2. matches \in Seq(MatchType)
      BY DEF Inv, TypeInv
    <3>3. AccountUpdates(t) \in Seq(UpdatesOf(t))
      BY <3>2, AccountUpdatesFacts
    <3>4. ASSUME NEW i \in 1 .. Len(AccountUpdates(t))
          PROVE  \E match \in ToSet(TickUpdate.trades) :
                    t \in {match.buyer, match.seller}
                    /\ IsAbout(AccountUpdates(t)[i], match)
      <4>1. AccountUpdates(t)[i] \in UpdatesOf(t)
        BY <3>3
      <4>2. PICK x \in TradesOf(t) : AccountUpdates(t)[i] = AccountUpdate(matches[x], t)
        BY <4>1 DEF UpdatesOf
      <4>3. /\ x \in DOMAIN matches /\ matches[x] \in ToSet(matches)
            /\ t \in {matches[x].buyer, matches[x].seller}
        BY DEF TradesOf, ToSet
      <4>4. IsAbout(AccountUpdates(t)[i], matches[x])
        BY <4>2 DEF IsAbout, AccountUpdate
      <4>5. ToSet(TickUpdate.trades) = ToSet(matches)
        BY DEF TickUpdate
      <4> QED
        BY <4>3, <4>4, <4>5
    <3> QED
      BY <2>1, <3>1, <3>4, FollowsReported
  <2> QED
    BY <2>2, <2>3
<1> QED
  BY <1>1, <1>2

\* A client hears of its own trade after the update of the book that the trade
\* is part of, and before that of the next tick (base_cycle.cpp:130).
THEOREM AccountsFollowMarket == CycleSpec => []AccountAfterMarket
<1>1. CycleInit => ToldType /\ AccountAfterMarket
  <2> SUFFICES ASSUME CycleInit PROVE ToldType /\ AccountAfterMarket
    OBVIOUS
  <2>1. told = [t \in Traders |-> <<>>]
    BY DEF CycleInit
  <2>2. AccountsAmong(<<>>) = {}
    BY DEF AccountsAmong
  <2>3. \A t \in Traders : told[t] = <<>>
    BY <2>1
  <2> QED
    BY <2>1, <2>2, <2>3 DEF ToldType, AccountAfterMarket
<1>2. Inv /\ CycleInv /\ ToldType /\ AccountAfterMarket /\ [CycleNext]_allVars
        => ToldType' /\ AccountAfterMarket'
  BY AfterMarketStep
<1>3. CycleInit => CycleInv
  BY DEF CycleInit, CycleInv
<1>4. CycleSpec => []Inv
  BY CycleImplementsEngine, InvInvariant, PTL DEF ImplementsEngine
<1> QED
  BY <1>1, <1>2, <1>3, <1>4, CycleNextInv, PTL DEF CycleSpec

\* Whose messages a pipe has.
PipesOwn == \A t \in Traders : \A i \in 1 .. Len(pipe[t]) : pipe[t][i].trader = t

\* Only a trader that has been added has an order in a tick, in the book or in
\* the engine's hands, or a trade to be told.
WhoInv ==
    /\ PipesOwn
    /\ \A m \in orders : m.trader \in traders_
    /\ \A n \in DOMAIN book : book[n].trader \in traders_
    /\ incoming # NoOrder => incoming.trader \in traders_
    /\ \A i \in DOMAIN matches :
        matches[i].buyer \in traders_ /\ matches[i].seller \in traders_

\* Where the engine's orders and matches come from in one step.
LEMMA EngineTraders ==
  ASSUME Inv, NEW W,
         \A n \in DOMAIN book : book[n].trader \in W,
         incoming # NoOrder => incoming.trader \in W,
         \A i \in DOMAIN matches : matches[i].buyer \in W /\ matches[i].seller \in W,
         MatchStep \/ TakeUpdates \/ UNCHANGED vars
            \/ (\E ticker \in Tickers, id \in CancelIds : Cancel(ticker, id))
            \/ (\E o \in OrderType : o.trader \in W /\ (Accept(o) \/ Drop(o)))
  PROVE  /\ \A n \in DOMAIN book' : book'[n].trader \in W
         /\ incoming' # NoOrder => incoming'.trader \in W
         /\ \A i \in DOMAIN matches' :
                matches'[i].buyer \in W /\ matches'[i].seller \in W
<1>1. /\ BookType /\ IncomingType /\ matches \in Seq(MatchType)
      /\ status = "running" => \A i \in DOMAIN order_map : order_map[i] \in DOMAIN book
  BY DEF Inv, TypeInv, TrackerMatchesBook
<1> DEFINE BookIn == \A n \in DOMAIN book' : book'[n].trader \in W
<1>2. \A n \in DOMAIN book : \A pf : RemoveOrder(n, pf) => BookIn
  BY DEF RemoveOrder, Erase
<1>3. ASSUME NEW n \in DOMAIN book, NEW q, NEW pf, ReduceOrder(n, q, pf) PROVE BookIn
  <2>1. CASE book[n].qty = q
    BY <1>2, <1>3, <2>1 DEF ReduceOrder
  <2>2. CASE book[n].qty # q
    <3>1. book' = [book EXCEPT ![n] = [book[n] EXCEPT !.qty = book[n].qty - q]]
      BY <1>3, <2>2 DEF ReduceOrder
    <3>2. book[n] \in OrderType
      BY <1>1 DEF BookType
    <3>3. [book[n] EXCEPT !.qty = book[n].qty - q].trader = book[n].trader
      BY <3>2 DEF OrderType
    <3>4. \A m \in DOMAIN book' : m \in DOMAIN book /\ book'[m].trader = book[m].trader
      BY <1>1, <3>1, <3>3 DEF BookType
    <3> QED
      BY <3>4
  <2> QED
    BY <2>1, <2>2
<1>4. CASE Match
  <2>1. /\ incoming # NoOrder /\ incoming \in OrderType
    BY <1>1, <1>4 DEF Match, Matching, IncomingType
  <2>2. PICK n \in TopOrder(incoming.ticker, Opposite(incoming.side)) :
          LET b == Buyer(book[n])
              s == Seller(book[n])
              price == MatchPrice(b, s)
              quantity == MatchQuantity(b, s)
          IN /\ matches' = Append(matches,
                  [buyer |-> b.trader, seller |-> s.trader, ticker |-> b.ticker,
                   side |-> incoming.side, qty |-> quantity, price |-> price])
             /\ ReduceOrder(n, quantity, Settle(portfolio, b, s, price, quantity))
             /\ incoming' = [incoming EXCEPT !.qty = @ - quantity]
    BY <1>4 DEF Match
  <2>3. n \in DOMAIN book
    BY DEF TopOrder, Queue
  <2>4. BookIn
    BY <1>3, <2>2, <2>3
  <2>5. incoming'.trader = incoming.trader
    BY <2>1, <2>2 DEF OrderType
  <2>6. Buyer(book[n]).trader \in W /\ Seller(book[n]).trader \in W
    BY <2>1, <2>3 DEF Buyer, Seller
  <2> DEFINE m == [buyer |-> Buyer(book[n]).trader, seller |-> Seller(book[n]).trader,
                   ticker |-> Buyer(book[n]).ticker, side |-> incoming.side,
                   qty |-> MatchQuantity(Buyer(book[n]), Seller(book[n])),
                   price |-> MatchPrice(Buyer(book[n]), Seller(book[n]))]
  <2>7. m.buyer \in W /\ m.seller \in W /\ matches' = Append(matches, m)
    BY <2>2, <2>6
  <2> HIDE DEF m
  <2>8. \A i \in DOMAIN matches' : matches'[i].buyer \in W /\ matches'[i].seller \in W
    <3>1. PICK k \in Nat : k = Len(matches)
      BY <1>1
    <3>2. /\ DOMAIN matches = 1 .. k /\ DOMAIN matches' = 1 .. k + 1
          /\ matches'[k + 1] = m
          /\ \A i \in 1 .. k : matches'[i] = matches[i]
      BY <1>1, <2>7, <3>1
    <3>3. \A i \in 1 .. k + 1 : i \in 1 .. k \/ i = k + 1
      OBVIOUS
    <3> QED
      BY <2>7, <3>2, <3>3
  <2> QED
    BY <2>1, <2>4, <2>5, <2>8
<1>5. CASE RemovePassive
  <2>1. PICK n \in DOMAIN book : RemoveOrder(n, portfolio)
    BY <1>5 DEF RemovePassive, TopOrder, Queue
  <2> QED
    BY <1>2, <1>5, <2>1 DEF RemovePassive
<1>6. CASE Rest
  <2>1. incoming.trader \in W
    BY <1>6 DEF Rest, Matching
  <2>2. book' = Put(book, arrivals + 1, incoming)
    BY <1>6 DEF Rest, AddOrder
  <2>3. BookIn
    BY <2>1, <2>2 DEF Put
  <2> QED
    BY <1>6, <2>3 DEF Rest
<1>7. CASE \E ticker \in Tickers, id \in CancelIds : Cancel(ticker, id)
  <2>1. PICK ticker \in Tickers, id \in CancelIds : Cancel(ticker, id)
    BY <1>7
  <2>2. BookIn
    BY <1>1, <1>2, <2>1 DEF Cancel, Idle, bookVars
  <2> QED
    BY <2>1, <2>2 DEF Cancel
<1>8. CASE \E o \in OrderType : o.trader \in W /\ (Accept(o) \/ Drop(o))
  BY <1>8 DEF Accept, Drop, bookVars
<1>9. CASE Discard \/ UNCHANGED vars
  BY <1>9 DEF Discard, bookVars, vars
<1>10. CASE TakeUpdates
  BY <1>10 DEF TakeUpdates
<1> QED
  BY <1>4, <1>5, <1>6, <1>7, <1>8, <1>9, <1>10 DEF MatchStep

\* What match_orders_ is given, by its kind.
LEMMA MessageKinds ==
  ASSUME NEW m \in ClientMessages
  PROVE  IF m.kind = "cancel" THEN m.ticker \in Tickers /\ m.id \in CancelIds
                              ELSE m \in OrderType /\ LevelOf(m) \in Levels
<1>1. CASE m \in OrderMessages
  <2>1. PICK o \in Orders, i \in RecycledIds : m = [o EXCEPT !.id = i]
    BY <1>1 DEF OrderMessages
  <2>2. i \in Nat
    BY BoundsAssumption
  <2>3. m \in OrderType /\ LevelOf(m) \in Levels
    BY <2>1, <2>2, SubmittedType
  <2>4. m.kind # "cancel"
    BY <2>3 DEF OrderType
  <2> QED
    BY <2>3, <2>4
<1>2. CASE m \in CancelMessages
  BY <1>2 DEF CancelMessages, CancelIds
<1> QED
  BY <1>1, <1>2 DEF ClientMessages

\* A message written is its trader's.
LEMMA WriteOwn ==
  ASSUME CycleInv, PipesOwn, NEW t \in Traders, NEW m \in ClientMessages,
         m.trader = t, Write(t, m), orders' = orders
  PROVE  PipesOwn'
<1>1. PICK n \in Nat : n = Len(pipe[t])
  BY DEF CycleInv
<1>2. /\ Len(pipe'[t]) = n + 1
      /\ \A i \in 1 .. n : pipe'[t][i] = pipe[t][i]
      /\ pipe'[t][n + 1] = m
      /\ \A u \in Traders \ {t} : pipe'[u] = pipe[u]
  BY <1>1, WriteEffect
<1> SUFFICES ASSUME NEW u \in Traders, NEW i \in 1 .. Len(pipe'[u])
             PROVE  pipe'[u][i].trader = u
  BY DEF PipesOwn
<1>3. CASE u # t
  BY <1>2, <1>3 DEF PipesOwn
<1>4. CASE u = t
  <2>1. i \in 1 .. n \/ i = n + 1
    BY <1>2, <1>4
  <2> QED
    BY <1>1, <1>2, <1>4, <2>1 DEF PipesOwn
<1> QED
  BY <1>3, <1>4

\* Only what those who have been added have written is taken.
LEMMA CollectOwn ==
  ASSUME CycleInv, PipesOwn, Collect
  PROVE  PipesOwn' /\ \A m \in orders' : m.trader \in traders_
<1>1. PICK taken \in [Traders -> 0 .. MaxOrders + MaxCancels] :
        /\ \A t \in Traders : /\ taken[t] <= Len(pipe[t])
                              /\ t \notin traders_ \cap enabled => taken[t] = 0
        /\ orders' = UNION {ToSet(SubSeq(pipe[t], 1, taken[t])) : t \in Traders}
        /\ pipe' = [t \in Traders |->
                        SubSeq(pipe[t], taken[t] + 1, Len(pipe[t]))]
  BY DEF Collect
<1>2. ASSUME NEW t \in Traders
      PROVE  /\ pipe[t] \in Seq(ClientMessages) /\ taken[t] \in 0 .. Len(pipe[t])
             /\ ToSet(SubSeq(pipe[t], 1, taken[t])) = {pipe[t][i] : i \in 1 .. taken[t]}
             /\ Len(pipe'[t]) = Len(pipe[t]) - taken[t]
             /\ \A i \in 1 .. Len(pipe[t]) - taken[t] : pipe'[t][i] = pipe[t][taken[t] + i]
  <2>1. pipe[t] \in Seq(ClientMessages) /\ taken[t] \in 0 .. Len(pipe[t])
    BY <1>1, BoundsAssumption, CancelsAssumption DEF CycleInv
  <2>2. pipe'[t] = SubSeq(pipe[t], taken[t] + 1, Len(pipe[t]))
    BY <1>1
  <2>3. /\ ToSet(SubSeq(pipe[t], 1, taken[t])) = {pipe[t][i] : i \in 1 .. taken[t]}
        /\ Len(SubSeq(pipe[t], taken[t] + 1, Len(pipe[t]))) = Len(pipe[t]) - taken[t]
        /\ \A i \in 1 .. Len(pipe[t]) - taken[t] :
             SubSeq(pipe[t], taken[t] + 1, Len(pipe[t]))[i] = pipe[t][taken[t] + i]
    <3>1. PICK s, k : /\ s = pipe[t] /\ k = taken[t]
                      /\ s \in Seq(ClientMessages) /\ k \in 0 .. Len(s)
      BY <2>1
    <3>2. /\ ToSet(SubSeq(s, 1, k)) = {s[i] : i \in 1 .. k}
          /\ Len(SubSeq(s, k + 1, Len(s))) = Len(s) - k
          /\ \A i \in 1 .. Len(s) - k : SubSeq(s, k + 1, Len(s))[i] = s[k + i]
      BY <3>1, SplitAt, SMTT(30)
    <3> QED
      BY <3>1, <3>2
  <2>4. Len(pipe'[t]) = Len(pipe[t]) - taken[t]
    BY <2>2, <2>3
  <2>5. \A i \in 1 .. Len(pipe[t]) - taken[t] : pipe'[t][i] = pipe[t][taken[t] + i]
    BY <2>2, <2>3
  <2> QED
    BY <2>1, <2>3, <2>4, <2>5
<1>3. ASSUME NEW t \in Traders, NEW i \in 1 .. Len(pipe'[t])
      PROVE  pipe'[t][i].trader = t
  <2>1. PICK n \in Nat, k \in Nat : n = Len(pipe[t]) /\ k = taken[t] /\ k <= n
    BY <1>2
  <2>2. Len(pipe'[t]) = n - k
    BY <1>2, <2>1
  <2>3. i \in 1 .. n - k
    BY <1>3, <2>2
  <2>4. k + i \in 1 .. n
    BY <2>1, <2>3
  <2>5. pipe'[t][i] = pipe[t][k + i]
    BY <1>2, <2>1, <2>3
  <2> QED
    BY <2>1, <2>4, <2>5 DEF PipesOwn
<1>4. ASSUME NEW m \in orders' PROVE m.trader \in traders_
  <2>1. PICK t \in Traders : m \in ToSet(SubSeq(pipe[t], 1, taken[t]))
    BY <1>1
  <2>2. m \in {pipe[t][i] : i \in 1 .. taken[t]}
    BY <1>2, <2>1
  <2>3. PICK i \in 1 .. taken[t] : m = pipe[t][i]
    BY <2>2
  <2>4. i \in 1 .. Len(pipe[t]) /\ taken[t] # 0
    BY <1>2
  <2> QED
    BY <1>1, <2>3, <2>4 DEF PipesOwn
<1> QED
  BY <1>3, <1>4 DEF PipesOwn

\* Every step keeps WhoInv.
LEMMA WhoStep == Inv /\ CycleInv /\ WhoInv /\ [CycleNext]_allVars => WhoInv'
<1> SUFFICES ASSUME Inv, CycleInv, WhoInv, [CycleNext]_allVars PROVE WhoInv'
  OBVIOUS
<1>1. /\ PipesOwn /\ \A m \in orders : m.trader \in traders_
      /\ \A n \in DOMAIN book : book[n].trader \in traders_
      /\ incoming # NoOrder => incoming.trader \in traders_
      /\ \A i \in DOMAIN matches :
            matches[i].buyer \in traders_ /\ matches[i].seller \in traders_
  BY DEF WhoInv
<1>2. ASSUME UNCHANGED vars, PipesOwn', orders' = orders, traders_ \subseteq traders_'
      PROVE  WhoInv'
  BY <1>1, <1>2 DEF WhoInv, vars
<1>3. ASSUME MatchStep \/ TakeUpdates \/ UNCHANGED vars
                \/ (\E ticker \in Tickers, id \in CancelIds : Cancel(ticker, id))
                \/ (\E o \in OrderType : o.trader \in traders_ /\ (Accept(o) \/ Drop(o))),
             UNCHANGED <<traders_, pipe>>, orders' \subseteq orders
      PROVE  WhoInv'
  <2>1. /\ \A n \in DOMAIN book' : book'[n].trader \in traders_
        /\ incoming' # NoOrder => incoming'.trader \in traders_
        /\ \A i \in DOMAIN matches' :
                matches'[i].buyer \in traders_ /\ matches'[i].seller \in traders_
    BY <1>1, <1>3, EngineTraders
  <2>2. PipesOwn'
    BY <1>1, <1>3 DEF PipesOwn
  <2> QED
    BY <1>1, <1>3, <2>1, <2>2 DEF WhoInv
<1>4. ASSUME NEW o \in Orders, Place(o) PROVE WhoInv'
  <2> DEFINE t == o.trader
             i == IF o.kind = "limit" THEN OrderId(Pid[t], count[Pid[t]] + 1) ELSE 0
             m == [o EXCEPT !.id = i]
  <2>1. o \in OrderType /\ t \in Traders /\ Pid[t] \in Processes
    BY OrdersAssumption DEF OrderType, Processes
  <2>2. i \in RecycledIds
    <3>1. count[Pid[t]] + 1 \in Nat
      BY <2>1 DEF CycleInv
    <3>2. 0 \in RecycledIds
      BY WidthAssumption, IdsAssumption
    <3> QED
      BY <2>1, <3>1, <3>2, OrderIdRange
  <2>3. Write(t, m) /\ orders' = orders /\ traders_' = traders_ /\ UNCHANGED vars
    BY <1>4 DEF Place
  <2> HIDE DEF i
  <2>4. m \in ClientMessages /\ m.trader = t
    BY <2>1, <2>2 DEF ClientMessages, OrderMessages, OrderType
  <2> HIDE DEF m
  <2>5. PipesOwn'
    BY <1>1, <2>1, <2>3, <2>4, WriteOwn
  <2> QED
    BY <1>2, <2>3, <2>5
<1>5. ASSUME NEW t \in Traders, NEW ticker \in Tickers, NEW n \in 1 .. MaxOrders,
             NEW ts \in 1 .. MaxOrders + MaxCancels, PlaceCancel(t, ticker, n, ts)
      PROVE  WhoInv'
  <2>1. OrderId(Pid[t], n) \in RecycledIds
    BY BoundsAssumption, OrderIdRange DEF Processes
  <2>2. PICK i \in RecycledIds : i = OrderId(Pid[t], n)
    BY <2>1
  <2> DEFINE m == [kind |-> "cancel", trader |-> t, ticker |-> ticker,
                   id |-> i, ts |-> ts]
  <2>3. m \in ClientMessages /\ m.trader = t
    BY BoundsAssumption, CancelsAssumption DEF ClientMessages, CancelMessages
  <2>4. Write(t, m) /\ orders' = orders /\ traders_' = traders_ /\ UNCHANGED vars
    BY <1>5, <2>2 DEF PlaceCancel
  <2> HIDE DEF m
  <2>5. PipesOwn'
    BY <1>1, <2>3, <2>4, WriteOwn
  <2> QED
    BY <1>2, <2>4, <2>5
<1>6. CASE \E t \in Traders : AddTrader(t)
  BY <1>1, <1>2, <1>6 DEF AddTrader, PipesOwn
<1>7. CASE \E t \in Traders : Disable(t)
  <2>1. PICK t \in Traders : Disable(t)
    BY <1>7
  <2>2. PipesOwn'
    BY <1>1, <2>1 DEF Disable, PipesOwn, CycleInv
  <2> QED
    BY <1>2, <2>1, <2>2 DEF Disable
<1>8. CASE Collect
  <2>1. PipesOwn' /\ \A m \in orders' : m.trader \in traders_
    BY <1>1, <1>8, CollectOwn
  <2>2. UNCHANGED vars /\ traders_' = traders_
    BY <1>8 DEF Collect
  <2> QED
    BY <1>1, <2>1, <2>2 DEF WhoInv, vars
<1>9. CASE Handle
  <2>1. PICK m \in orders :
          /\ IF m.kind = "cancel" THEN Cancel(m.ticker, m.id) ELSE Accept(m) \/ Drop(m)
          /\ orders' = orders \ {m}
    BY <1>9 DEF Handle, First
  <2>2. m \in ClientMessages /\ m.trader \in traders_
    BY <1>1 DEF CycleInv
  <2>3. UNCHANGED <<traders_, pipe>>
    BY <1>9 DEF Handle, clientVars
  <2> QED
    BY <1>3, <2>1, <2>2, <2>3, MessageKinds
<1>10. CASE Step \/ Report \/ EmptyTick \/ UNCHANGED allVars
  BY <1>3, <1>10 DEF Step, Report, EmptyTick, allVars, cycleVars, clientVars
<1> QED
  BY <1>4, <1>5, <1>6, <1>7, <1>8, <1>9, <1>10 DEF CycleNext

\* A trade moves the money and the holdings of its buyer and its seller only.
LEMMA MatchCapital ==
  ASSUME Inv, Match
  PROVE  \A t \in Traders :
            \/ /\ portfolio'[t].capital_delta = portfolio[t].capital_delta
               /\ portfolio'[t].holdings = portfolio[t].holdings
            \/ \E i \in DOMAIN matches' : t \in {matches'[i].buyer, matches'[i].seller}
<1>1. /\ BookType /\ IncomingType /\ portfolio \in [Traders -> PortfolioType]
      /\ incoming # NoOrder /\ matches \in Seq(MatchType)
  BY DEF Inv, TypeInv, Match, Matching
<1>2. PICK n \in TopOrder(incoming.ticker, Opposite(incoming.side)) :
        LET b == Buyer(book[n])
            s == Seller(book[n])
            price == MatchPrice(b, s)
            quantity == MatchQuantity(b, s)
        IN /\ matches' = Append(matches,
                [buyer |-> b.trader, seller |-> s.trader, ticker |-> b.ticker,
                 side |-> incoming.side, qty |-> quantity, price |-> price])
           /\ ReduceOrder(n, quantity, Settle(portfolio, b, s, price, quantity))
  BY DEF Match
<1> DEFINE b == Buyer(book[n])
           s == Seller(book[n])
           price == MatchPrice(b, s)
           quantity == MatchQuantity(b, s)
           settled == Settle(portfolio, b, s, price, quantity)
           m == [buyer |-> b.trader, seller |-> s.trader, ticker |-> b.ticker,
                 side |-> incoming.side, qty |-> quantity, price |-> price]
<1>3. /\ n \in DOMAIN book /\ b \in OrderType /\ s \in OrderType
      /\ price \in Int /\ quantity \in Int
  BY <1>1, PairType
<1>4. settled \in [Traders -> PortfolioType]
  BY <1>1, <1>3, SettleType
<1>5. SameMoney(settled, portfolio')
  BY <1>1, <1>2, <1>3, <1>4, BookMoney
<1>6. \A t \in Traders \ {b.trader, s.trader} : settled[t] = portfolio[t]
  <2> HIDE DEF b, s, price, quantity
  <2> QED
    BY <1>1, <1>3 DEF Settle
<1>7. PICK i \in DOMAIN matches' : matches'[i].buyer = b.trader /\ matches'[i].seller = s.trader
  <2>1. m.buyer = b.trader /\ m.seller = s.trader /\ matches' = Append(matches, m)
    BY <1>2
  <2> HIDE DEF m
  <2>2. Len(matches) + 1 \in DOMAIN matches' /\ matches'[Len(matches) + 1] = m
    BY <1>1, <2>1
  <2> QED
    BY <2>1, <2>2
<1> HIDE DEF b, s, price, quantity, settled, m
<1> QED
  BY <1>5, <1>6, <1>7 DEF SameMoney

\* A client's capital is what it was told last, if no trade of its is untold.
CapitalInv ==
    \A t \in enabled \ Leveraged :
        TradesOf(t) = {} => CapitalOf[t] = LastCapital(told[t], InitialCapital[t])

\* A step within a tick adds a trade of all whose capital it changes.
LEMMA TickStepCapital ==
  ASSUME Inv, TickStep
  PROVE  \A t \in Traders : TradesOf(t)' = {} =>
            TradesOf(t) = {} /\ CapitalOf'[t] = CapitalOf[t]
<1>0. matches \in Seq(MatchType)
  BY DEF Inv, TypeInv
<1>1. CASE Match
  <2>1. \A t \in Traders :
            \/ portfolio'[t].capital_delta = portfolio[t].capital_delta
            \/ \E i \in DOMAIN matches' : t \in {matches'[i].buyer, matches'[i].seller}
    BY <1>1, MatchCapital
  <2>2. PICK m : matches' = Append(matches, m)
    BY <1>1 DEF Match
  <2>3. \A i \in DOMAIN matches : i \in DOMAIN matches' /\ matches'[i] = matches[i]
    BY <1>0, <2>2
  <2> QED
    BY <2>1, <2>3 DEF TradesOf, CapitalOf, Capital
<1>2. CASE ~Match
  <2>1. matches' = matches
    BY <1>2 DEF TickStep, MatchStep, Submit, Accept, Drop, Cancel, RemovePassive, Rest,
                Discard, vars
  <2>2. [Next]_vars
    BY DEF TickStep, Next
  <2>3. SameMoney(portfolio, portfolio')
    BY <1>2, <2>2, NextIsEngineStep, OtherStepsMoney DEF Inv
  <2> QED
    BY <2>1, <2>3 DEF SameMoney, TradesOf, CapitalOf, Capital
<1> QED
  BY <1>1, <1>2

LEMMA CapitalStep ==
  ASSUME Inv, CycleInv, ToldType, WhoInv, CapitalInv, enabled \subseteq Traders,
         [CycleNext]_allVars
  PROVE  ToldType' /\ CapitalInv' /\ enabled' \subseteq Traders
<1>1. enabled' \subseteq enabled
  <2>1. ASSUME NEW o \in Orders, Place(o) PROVE enabled' = enabled
    BY <2>1 DEF Place
  <2>2. ASSUME NEW t \in Traders, NEW ticker \in Tickers, NEW n \in 1 .. MaxOrders,
               NEW ts \in 1 .. MaxOrders + MaxCancels, PlaceCancel(t, ticker, n, ts)
        PROVE  enabled' = enabled
    BY <2>2 DEF PlaceCancel
  <2>3. CASE Collect \/ Handle \/ Step \/ Report \/ EmptyTick \/ UNCHANGED allVars
    BY <2>3 DEF Collect, Handle, Step, Report, EmptyTick, allVars, cycleVars
  <2>4. CASE \E t \in Traders : AddTrader(t) \/ Disable(t)
    BY <2>4 DEF AddTrader, Disable
  <2> QED
    BY <2>1, <2>2, <2>3, <2>4 DEF CycleNext
<1>2. CASE ~Report
  <2>1. TickStep /\ told' = told
    BY <1>2, CycleTickStep
  <2>2. \A t \in Traders : TradesOf(t)' = {} =>
            TradesOf(t) = {} /\ CapitalOf'[t] = CapitalOf[t]
    BY <2>1, TickStepCapital
  <2>3. CapitalInv'
    BY <1>1, <2>1, <2>2 DEF CapitalInv
  <2> QED
    BY <1>1, <2>1, <2>3 DEF ToldType
<1>3. CASE Report
  <2>1. CapitalOf' = CapitalOf
    BY <1>3 DEF Report, TakeUpdates, CapitalOf, Capital
  <2> SUFFICES ASSUME NEW t \in enabled \ Leveraged
               PROVE  CapitalOf[t] = LastCapital(told'[t], InitialCapital[t])
    BY <1>1, <1>3, <2>1, ReportTells DEF CapitalInv
  <2>2. matches \in Seq(MatchType)
    BY DEF Inv, TypeInv
  <2>3. CASE t \in Listening
    <3>1. Reported(told'[t], told[t], TickUpdate, AccountUpdates(t))
      BY <1>3, <2>3, ReportTells
    <3>2. LastCapital(told'[t], InitialCapital[t]) =
            IF Len(AccountUpdates(t)) > 0
            THEN AccountUpdates(t)[Len(AccountUpdates(t))].capital
            ELSE LastCapital(told[t], InitialCapital[t])
      BY <3>1, CapitalReported
    <3>3. /\ AccountUpdates(t) \in Seq(UpdatesOf(t))
          /\ TradesOf(t) # {} => AccountUpdates(t) # <<>>
      BY <2>2, AccountUpdatesFacts
    <3>4. CASE Len(AccountUpdates(t)) > 0
      <4>1. AccountUpdates(t)[Len(AccountUpdates(t))] \in UpdatesOf(t)
        BY <3>3, <3>4
      <4>2. \A a \in UpdatesOf(t) : a.capital = CapitalOf[t]
        BY DEF UpdatesOf, AccountUpdate
      <4> QED
        BY <3>2, <3>4, <4>1, <4>2
    <3>5. CASE ~(Len(AccountUpdates(t)) > 0)
      <4>1. AccountUpdates(t) = <<>>
        BY <3>3, <3>5
      <4>2. TradesOf(t) = {}
        BY <3>3, <4>1
      <4> QED
        BY <3>2, <3>5, <4>2 DEF CapitalInv
    <3> QED
      BY <3>4, <3>5
  <2>4. CASE t \notin Listening
    <3>1. told'[t] = told[t]
      BY <1>3, <2>4, ReportTells
    <3>2. t \notin traders_
      BY <2>4 DEF Listening
    <3>3. TradesOf(t) = {}
      BY <3>2 DEF WhoInv, TradesOf
    <3> QED
      BY <3>1, <3>3 DEF CapitalInv
  <2> QED
    BY <2>3, <2>4
<1> QED
  BY <1>2, <1>3

\* What a client was told last of its capital is its capital, after every tick
\* (base_cycle.cpp:139).
THEOREM ClientsKnowCapital == CycleSpec => []CapitalTold
<1>1. CycleInit => ToldType /\ WhoInv /\ CapitalInv /\ enabled \subseteq Traders
  <2> SUFFICES ASSUME CycleInit
               PROVE  ToldType /\ WhoInv /\ CapitalInv /\ enabled \subseteq Traders
    OBVIOUS
  <2>1. /\ told = [t \in Traders |-> <<>>] /\ pipe = [t \in Traders |-> <<>>]
        /\ enabled = Traders /\ orders = {}
    BY DEF CycleInit
  <2>2. DOMAIN book = {} /\ incoming = NoOrder /\ matches = <<>>
    BY DEF CycleInit, Init
  <2>3. WhoInv
    BY <2>1, <2>2 DEF WhoInv, PipesOwn
  <2>4. CapitalOf = InitialCapital
    BY InitLedger, CapitalAssumption DEF CycleInit, Accounts!Init
  <2>5. \A initial : LastCapital(<<>>, initial) = initial
    BY DEF LastCapital, AccountsAmong
  <2>6. CapitalInv
    BY <2>1, <2>4, <2>5 DEF CapitalInv
  <2> QED
    BY <2>1, <2>3, <2>6 DEF ToldType
<1>2. Inv /\ CycleInv /\ ToldType /\ WhoInv /\ CapitalInv /\ enabled \subseteq Traders
        /\ [CycleNext]_allVars
        => (ToldType /\ WhoInv /\ CapitalInv /\ enabled \subseteq Traders)'
  BY CapitalStep, WhoStep
<1>3. CapitalInv /\ enabled \subseteq Traders => CapitalTold
  <2> SUFFICES ASSUME CapitalInv, BetweenTicks, NEW t \in Listening
               PROVE  CapitalOf[t] = LastCapital(told[t], InitialCapital[t])
    BY DEF CapitalTold
  <2>1. matches = <<>>
    BY DEF BetweenTicks, Untold
  <2>2. TradesOf(t) = {}
    BY <2>1 DEF TradesOf
  <2> QED
    BY <2>2 DEF CapitalInv, Listening
<1>4. CycleInit => CycleInv
  BY DEF CycleInit, CycleInv
<1>5. CycleSpec => []Inv
  BY CycleImplementsEngine, InvInvariant, PTL DEF ImplementsEngine
<1> QED
  BY <1>1, <1>2, <1>3, <1>4, <1>5, CycleNextInv, PTL DEF CycleSpec

\* All of this holds in dev and sandbox mode, whatever is reported in between.
THEOREM DevClientsInformed ==
  DevSpec => [](CopiesMatchLevels /\ CapitalTold /\ AccountAfterMarket)
BY DevImplementsCycle, ClientsCopyBook, ClientsKnowCapital, AccountsFollowMarket, PTL

-----------------------------------------------------------------------------
(***************************************************************************)
(* The counters.  What has been traded counts twice, once for each of the  *)
(* two orders; what has not is in the book, in the engine's hands or in    *)
(* the vector of the tick.                                                 *)
(***************************************************************************)
\* By ticker: what was traded in this tick, what rests, what is being matched,
\* and what is to be.
Traded == [k \in Tickers |-> MatchesReported(k)]
OfTicker == [k \in Tickers |-> {n \in DOMAIN book : book[n].ticker = k}]
InBook == [k \in Tickers |-> SumFunctionOnSet(Quantities, OfTicker[k])]
InHand ==
    [k \in Tickers |->
        IF incoming # NoOrder /\ incoming.ticker = k THEN incoming.qty ELSE 0]
Waiting == [k \in Tickers |-> OrdersReported(orders, k)]

\* One order's quantity changes what its ticker has in the book by as much.
LEMMA InBookChange ==
  ASSUME BookType, BookType', NEW n, NEW o \in OrderType,
         NEW before \in Int, NEW after \in Int, ChangesAt(n, o, before, after)
  PROVE  \A k \in Tickers :
            /\ InBook[k] \in Int
            /\ InBook'[k] = InBook[k] + (IF o.ticker = k THEN after - before ELSE 0)
<1>1. /\ \A S \in SUBSET DOMAIN book : IsFiniteSet(S)
      /\ \A S \in SUBSET DOMAIN book' : IsFiniteSet(S)
  BY BookFinite DEF BookType
<1>2. /\ \A m \in DOMAIN book : Quantities[m] \in Int /\ Quantities[m] = book[m].qty
      /\ \A m \in DOMAIN book' : Quantities'[m] \in Int /\ Quantities'[m] = book'[m].qty
  BY DEF Quantities, BookType, OrderType
<1>3. /\ DOMAIN book' \ {n} = DOMAIN book \ {n}
      /\ \A m \in DOMAIN book \ {n} : book'[m] = book[m]
      /\ IF n \in DOMAIN book THEN SameButQuantity(book[n], o, before) ELSE before = 0
      /\ IF n \in DOMAIN book' THEN SameButQuantity(book'[n], o, after) ELSE after = 0
  BY DEF ChangesAt
<1> SUFFICES ASSUME NEW k \in Tickers
             PROVE  /\ InBook[k] \in Int
                    /\ InBook'[k] = InBook[k] + (IF o.ticker = k THEN after - before ELSE 0)
  OBVIOUS
<1>4. /\ OfTicker[k] \in SUBSET DOMAIN book /\ OfTicker'[k] \in SUBSET DOMAIN book'
      /\ OfTicker'[k] \ {n} = OfTicker[k] \ {n}
  BY <1>3 DEF OfTicker
<1>5. /\ n \in OfTicker[k] <=> n \in DOMAIN book /\ o.ticker = k
      /\ n \in OfTicker'[k] <=> n \in DOMAIN book' /\ o.ticker = k
  BY <1>3 DEF OfTicker, SameButQuantity
<1>6. \A m \in OfTicker[k] \ {n} : Quantities[m] = Quantities'[m]
  BY <1>2, <1>3, <1>4
<1>7. /\ SumFunctionOnSet(Quantities, OfTicker[k]) \in Int
      /\ SumFunctionOnSet(Quantities', OfTicker'[k])
           = SumFunctionOnSet(Quantities, OfTicker[k])
               + (IF n \in OfTicker'[k] THEN Quantities'[n] ELSE 0)
               - (IF n \in OfTicker[k] THEN Quantities[n] ELSE 0)
  <2>1. PICK S, T, f, g : /\ S = OfTicker[k] /\ T = OfTicker'[k]
                          /\ f = Quantities /\ g = Quantities'
    OBVIOUS
  <2>2. DifferAt(n, f, S, g, T)
    BY <1>1, <1>2, <1>4, <1>6, <2>1 DEF DifferAt
  <2> QED
    BY <2>1, <2>2, SumChange DEF Part
<1>8. /\ InBook[k] = SumFunctionOnSet(Quantities, OfTicker[k])
      /\ InBook'[k] = SumFunctionOnSet(Quantities', OfTicker'[k])
  BY DEF InBook
<1> QED
  BY <1>2, <1>3, <1>5, <1>7, <1>8 DEF SameButQuantity

\* A match adds its quantity to what is traded.
LEMMA TradedAppend ==
  ASSUME matches \in Seq(MatchType)
  PROVE  /\ \A k \in Tickers : Traded[k] \in Int
         /\ matches = <<>> => \A k \in Tickers : Traded[k] = 0
         /\ \A m \in MatchType : matches' = Append(matches, m) =>
                \A k \in Tickers :
                    Traded'[k] = Traded[k] + (IF m.ticker = k THEN m.qty ELSE 0)
<1> DEFINE S(k) == {i \in DOMAIN matches : matches[i].ticker = k}
           f(k) == [i \in S(k) |-> matches[i].qty]
<1>1. ASSUME NEW k \in Tickers PROVE Traded[k] = SumFunctionOnSet(f(k), S(k))
  BY DEF Traded, MatchesReported, SumFunction
<1>2. PICK n \in Nat : n = Len(matches) /\ DOMAIN matches = 1 .. n
  <2>1. Len(matches) \in Nat /\ DOMAIN matches = 1 .. Len(matches)
    OBVIOUS
  <2> QED
    BY <2>1
<1>3. \A i \in 1 .. n : matches[i] \in MatchType /\ matches[i].qty \in Int
  <2>1. \A i \in 1 .. n : matches[i] \in MatchType
    BY <1>2
  <2> QED
    BY <2>1 DEF MatchType
<1>4. ASSUME NEW k \in Tickers
      PROVE  IsFiniteSet(S(k)) /\ \A i \in S(k) : f(k)[i] \in Int
  <2>1. IsFiniteSet(1 .. n) /\ S(k) \in SUBSET (1 .. n)
    BY <1>2, FS_Interval
  <2>2. IsFiniteSet(S(k))
    BY <2>1, FS_Subset
  <2> QED
    BY <1>2, <1>3, <2>2
<1>5. ASSUME NEW k \in Tickers
      PROVE  Traded[k] \in Int /\ (matches = <<>> => Traded[k] = 0)
  <2>1. PICK R, h : R = S(k) /\ h = f(k)
    OBVIOUS
  <2>2. IsFiniteSet(R) /\ (\A x \in R : h[x] \in Int) /\ Traded[k] = SumFunctionOnSet(h, R)
    BY <1>1, <1>4, <2>1
  <2>3. matches = <<>> => R = {}
    BY <2>1
  <2> QED
    BY <2>2, <2>3, SumStep
<1>6. ASSUME NEW m \in MatchType, matches' = Append(matches, m), NEW k \in Tickers
      PROVE  Traded'[k] = Traded[k] + (IF m.ticker = k THEN m.qty ELSE 0)
  <2> DEFINE T == {i \in DOMAIN matches' : matches'[i].ticker = k}
             g == [i \in T |-> matches'[i].qty]
             y == n + 1
  <2>1. /\ DOMAIN matches' = 1 .. n + 1 /\ matches'[y] = m
        /\ \A i \in 1 .. n : matches'[i] = matches[i]
    BY <1>2, <1>6
  <2>2. Traded'[k] = SumFunctionOnSet(g, T)
    BY DEF Traded, MatchesReported, SumFunction
  <2>3. IsFiniteSet(T)
    <3>1. IsFiniteSet(1 .. n + 1) /\ T \in SUBSET (1 .. n + 1)
      BY <2>1, FS_Interval
    <3> QED
      BY <3>1, FS_Subset
  <2>4. \A i \in 1 .. n + 1 : i \in 1 .. n \/ i = y
    OBVIOUS
  <2>5. y \notin S(k) /\ S(k) = T \ {y} /\ (y \in T <=> m.ticker = k)
    BY <1>2, <2>1, <2>4
  <2>6. \A i \in T : g[i] = matches'[i].qty
    OBVIOUS
  <2>7. \A i \in T : g[i] \in Int
    BY <1>2, <1>3, <2>1, <2>4, <2>6 DEF MatchType
  <2>8. \A i \in S(k) : f(k)[i] = g[i]
    BY <1>2, <2>1, <2>5, <2>6
  <2>9. PICK R, U, h, j : R = S(k) /\ U = T /\ h = f(k) /\ j = g
    OBVIOUS
  <2>10. DifferAt(y, h, R, j, U)
    BY <1>4, <2>3, <2>5, <2>7, <2>8, <2>9 DEF DifferAt
  <2>11. /\ SumFunctionOnSet(h, R) \in Int
         /\ SumFunctionOnSet(j, U)
              = SumFunctionOnSet(h, R) + (IF y \in U THEN j[y] ELSE 0)
                                       - (IF y \in R THEN h[y] ELSE 0)
    BY <2>10, SumChange DEF Part
  <2>12. Traded[k] = SumFunctionOnSet(h, R) /\ Traded'[k] = SumFunctionOnSet(j, U)
    BY <1>1, <2>2, <2>9
  <2>13. y \in U => j[y] = m.qty
    BY <2>1, <2>6, <2>9
  <2>14. m.qty \in Int /\ y \notin R /\ (y \in U <=> m.ticker = k)
    BY <2>5, <2>9 DEF MatchType
  <2> HIDE DEF y, T, g, S, f
  <2> QED
    BY <2>11, <2>12, <2>13, <2>14
<1> QED
  BY <1>5, <1>6

\* Nothing rests, and nothing was traded, with a quantity below zero.
QuantitiesKept ==
    /\ \A n \in DOMAIN book : book[n].qty >= 0
    /\ \A i \in DOMAIN matches : matches[i].qty >= 0

LEMMA EngagedNotNegative ==
  ASSUME Inv, QuantitiesKept
  PROVE  \A k \in Tickers : /\ Traded[k] \in Int /\ Traded[k] >= 0
                             /\ InBook[k] \in Int /\ InBook[k] >= 0
                             /\ InHand[k] \in Int /\ InHand[k] >= 0
<1> SUFFICES ASSUME NEW k \in Tickers
             PROVE  /\ Traded[k] \in Int /\ Traded[k] >= 0
                    /\ InBook[k] \in Int /\ InBook[k] >= 0
                    /\ InHand[k] \in Int /\ InHand[k] >= 0
  OBVIOUS
<1>1. BookType /\ IncomingType /\ NotOverfilled /\ matches \in Seq(MatchType)
  BY DEF Inv, TypeInv
<1>2. InHand[k] \in Int /\ InHand[k] >= 0
  BY <1>1 DEF InHand, IncomingType, NotOverfilled, OrderType
<1>3. InBook[k] \in Int /\ InBook[k] >= 0
  <2>1. OfTicker[k] \in SUBSET DOMAIN book /\ IsFiniteSet(OfTicker[k])
    <3>1. OfTicker[k] \in SUBSET DOMAIN book
      BY DEF OfTicker
    <3> QED
      BY <1>1, <3>1, BookFinite DEF BookType
  <2>2. \A n \in OfTicker[k] : Quantities[n] \in Int /\ Quantities[n] >= 0
    BY <1>1, <2>1 DEF Quantities, BookType, OrderType, QuantitiesKept
  <2>3. PICK S, f : S = OfTicker[k] /\ f = Quantities
    OBVIOUS
  <2>4. SumFunctionOnSet(f, S) \in Int /\ SumFunctionOnSet(f, S) >= 0
    BY <2>1, <2>2, <2>3, SumNotNegative
  <2> QED
    BY <2>3, <2>4 DEF InBook
<1>4. Traded[k] \in Int /\ Traded[k] >= 0
  <2> DEFINE S == {i \in DOMAIN matches : matches[i].ticker = k}
             f == [i \in S |-> matches[i].qty]
  <2>1. Traded[k] = SumFunctionOnSet(f, S)
    BY DEF Traded, MatchesReported, SumFunction
  <2>2. PICK n \in Nat : n = Len(matches) /\ DOMAIN matches = 1 .. n
    <3>1. Len(matches) \in Nat /\ DOMAIN matches = 1 .. Len(matches)
      BY <1>1
    <3> QED
      BY <3>1
  <2>3. IsFiniteSet(S)
    <3>1. IsFiniteSet(1 .. n) /\ S \in SUBSET (1 .. n)
      BY <2>2, FS_Interval
    <3> QED
      BY <3>1, FS_Subset
  <2>4. \A i \in 1 .. n : matches[i] \in MatchType
    BY <1>1, <2>2
  <2>5. \A i \in S : f[i] \in Int /\ f[i] >= 0
    BY <2>2, <2>4 DEF MatchType, QuantitiesKept
  <2> HIDE DEF S, f
  <2>6. SumFunctionOnSet(f, S) \in Int /\ SumFunctionOnSet(f, S) >= 0
    BY <2>3, <2>5, SumNotNegative
  <2> QED
    BY <2>1, <2>6
<1> QED
  BY <1>2, <1>3, <1>4

\* The orders of a tick that wait, one after the other.
LEMMA OrdersSum ==
  ASSUME NEW T, IsFiniteSet(T), T \subseteq ClientMessages, NEW k \in Tickers
  PROVE  /\ OrdersReported(T, k) \in Int /\ OrdersReported(T, k) >= 0
         /\ T = {} => OrdersReported(T, k) = 0
         /\ \A m \in T :
              OrdersReported(T \ {m}, k)
                = OrdersReported(T, k)
                    - (IF m.ticker = k /\ m.kind # "cancel" THEN Positive(m.qty) ELSE 0)
<1> DEFINE S == {o \in T : o.ticker = k /\ o.kind # "cancel"}
           f == [o \in S |-> Positive(o.qty)]
<1>1. OrdersReported(T, k) = SumFunctionOnSet(f, S)
  BY DEF OrdersReported, SumFunction
<1>2. IsFiniteSet(S) /\ \A o \in S : f[o] \in Int /\ f[o] >= 0
  <2>1. IsFiniteSet(S)
    BY FS_Subset
  <2>2. \A o \in S : o \in OrderType
    BY MessageKinds
  <2> QED
    BY <2>1, <2>2 DEF Positive, OrderType
<1>3. /\ OrdersReported(T, k) \in Int /\ OrdersReported(T, k) >= 0
      /\ T = {} => OrdersReported(T, k) = 0
  <2>1. PICK R, h : R = S /\ h = f
    OBVIOUS
  <2>2. SumFunctionOnSet(h, R) \in Int /\ SumFunctionOnSet(h, R) >= 0
    BY <1>2, <2>1, SumNotNegative
  <2>3. R = {} => SumFunctionOnSet(h, R) = 0
    BY <1>2, <2>1, SumStep
  <2> QED
    BY <1>1, <2>1, <2>2, <2>3
<1>4. ASSUME NEW m \in T
      PROVE  OrdersReported(T \ {m}, k)
               = OrdersReported(T, k)
                   - (IF m.ticker = k /\ m.kind # "cancel" THEN Positive(m.qty) ELSE 0)
  <2> DEFINE U == {o \in T \ {m} : o.ticker = k /\ o.kind # "cancel"}
             g == [o \in U |-> Positive(o.qty)]
  <2>1. OrdersReported(T \ {m}, k) = SumFunctionOnSet(g, U)
    BY DEF OrdersReported, SumFunction
  <2>2. U = S \ {m} /\ IsFiniteSet(U) /\ \A o \in U : g[o] = f[o]
    BY <1>2, FS_Subset
  <2>3. PICK R, h, Q, j : R = S /\ h = f /\ Q = U /\ j = g
    OBVIOUS
  <2>4. DifferAt(m, h, R, j, Q)
    BY <1>2, <2>2, <2>3 DEF DifferAt
  <2>5. SumFunctionOnSet(h, R) \in Int
        /\ SumFunctionOnSet(j, Q)
             = SumFunctionOnSet(h, R) + Part(m, j, Q) - Part(m, h, R)
    BY <2>4, SumChange
  <2>6. /\ Part(m, j, Q) = 0
        /\ Part(m, h, R) = (IF m.ticker = k /\ m.kind # "cancel" THEN Positive(m.qty) ELSE 0)
    BY <2>2, <2>3 DEF Part
  <2>7. Part(m, h, R) \in Int
    <3> HIDE DEF U, g, S, f
    <3> QED
      BY <1>2, <2>3 DEF Part
  <2>8. OrdersReported(T, k) = SumFunctionOnSet(h, R)
        /\ OrdersReported(T \ {m}, k) = SumFunctionOnSet(j, Q)
    BY <1>1, <2>1, <2>3
  <2> HIDE DEF U, g, S, f
  <2> QED
    BY <2>5, <2>6, <2>7, <2>8
<1> QED
  BY <1>3, <1>4

\* What the engine has of a ticker's orders: a trade counts for two of them.
Engaged == [k \in Tickers |-> 2 * Traded[k] + InBook[k] + InHand[k]]

\* A match trades what it takes from the two orders.
LEMMA MatchEngaged ==
  ASSUME Inv, QuantitiesKept, Match
  PROVE  QuantitiesKept' /\ \A k \in Tickers : Engaged'[k] \in Int /\ Engaged'[k] <= Engaged[k]
<1>1. /\ BookType /\ IncomingType /\ BookType' /\ IncomingType'
      /\ incoming # NoOrder /\ incoming \in OrderType /\ incoming.qty > 0
      /\ status = "running" /\ matches \in Seq(MatchType)
  BY MatchInv, SMTT(30) DEF Inv, TypeInv, IncomingType, NotOverfilled, Match, Matching, OrderType
<1>2. PICK n \in TopOrder(incoming.ticker, Opposite(incoming.side)) :
        LET b == Buyer(book[n])
            s == Seller(book[n])
            price == MatchPrice(b, s)
            quantity == MatchQuantity(b, s)
        IN /\ matches' = Append(matches,
                [buyer |-> b.trader, seller |-> s.trader, ticker |-> b.ticker,
                 side |-> incoming.side, qty |-> quantity, price |-> price])
           /\ ReduceOrder(n, quantity, Settle(portfolio, b, s, price, quantity))
           /\ incoming' = [incoming EXCEPT !.qty = @ - quantity]
  BY DEF Match
<1> DEFINE b == Buyer(book[n])
           s == Seller(book[n])
           m == [buyer |-> b.trader, seller |-> s.trader, ticker |-> b.ticker,
                 side |-> incoming.side, qty |-> MatchQuantity(b, s),
                 price |-> MatchPrice(b, s)]
<1>3. /\ n \in DOMAIN book /\ b \in OrderType /\ s \in OrderType
      /\ MatchPrice(b, s) \in Int /\ MatchQuantity(b, s) \in Int
  BY <1>1, PairType
<1>4. /\ book[n] \in OrderType /\ book[n].qty > 0
      /\ book[n].ticker = incoming.ticker
  BY <1>1, <1>3 DEF Inv, TrackerMatchesBook, BookType, TopOrder, Queue
<1>5. /\ b.ticker = incoming.ticker
      /\ MatchQuantity(b, s) >= 0 /\ MatchQuantity(b, s) <= book[n].qty
  BY <1>1, <1>4 DEF Buyer, Seller, MatchQuantity, OrderType
<1>6. PICK q \in Int : q = MatchQuantity(b, s) /\ q >= 0 /\ q <= book[n].qty
  BY <1>3, <1>5
<1>7. /\ m \in MatchType /\ m.ticker = incoming.ticker /\ m.qty = q
      /\ matches' = Append(matches, m)
  BY <1>1, <1>2, <1>3, <1>5, <1>6 DEF MatchType, OrderType
<1>8. /\ incoming' \in OrderType /\ incoming'.ticker = incoming.ticker
      /\ incoming'.qty = incoming.qty - q
  <2>1. incoming' = [incoming EXCEPT !.qty = @ - q]
    BY <1>2, <1>6
  <2>2. incoming \in OrderType /\ q \in Int
    BY <1>1, <1>6
  <2> QED
    BY <2>1, <2>2 DEF OrderType
<1>9. PICK pf : ReduceOrder(n, q, pf)
  BY <1>2, <1>6
<1> HIDE DEF b, s, m
<1>10. ChangesAt(n, book[n], book[n].qty, book[n].qty - q)
  BY <1>1, <1>3, <1>9, ReduceOrderChanges
<1>11. QuantitiesKept'
  <2>1. \A i \in DOMAIN book' : book'[i].qty >= 0
    BY <1>1, <1>4, <1>6, <1>10 DEF ChangesAt, SameButQuantity, QuantitiesKept, OrderType
  <2>2. PICK k \in Nat : k = Len(matches) /\ DOMAIN matches = 1 .. k
    <3>1. Len(matches) \in Nat /\ DOMAIN matches = 1 .. Len(matches)
      BY <1>1
    <3> QED
      BY <3>1
  <2>3. /\ DOMAIN matches' = 1 .. k + 1 /\ matches'[k + 1] = m
        /\ \A i \in 1 .. k : matches'[i] = matches[i]
    BY <1>1, <1>7, <2>2
  <2>4. \A i \in 1 .. k + 1 : i \in 1 .. k \/ i = k + 1
    OBVIOUS
  <2>5. \A i \in DOMAIN matches' : matches'[i].qty >= 0
    BY <1>6, <1>7, <2>2, <2>3, <2>4 DEF QuantitiesKept
  <2> QED
    BY <2>1, <2>5 DEF QuantitiesKept
<1>12. ASSUME NEW k \in Tickers PROVE Engaged'[k] \in Int /\ Engaged'[k] <= Engaged[k]
  <2> DEFINE mine == incoming.ticker = k
  <2>1. InBook'[k] = InBook[k] + (IF mine THEN (book[n].qty - q) - book[n].qty ELSE 0)
    <3>1. book[n].qty \in Int /\ book[n].qty - q \in Int
      BY <1>4 DEF OrderType
    <3> QED
      BY <1>1, <1>4, <1>10, <3>1, InBookChange
  <2>2. Traded'[k] = Traded[k] + (IF mine THEN q ELSE 0)
    BY <1>1, <1>7, TradedAppend
  <2>3. InHand'[k] = InHand[k] + (IF mine THEN -q ELSE 0)
    <3>1. incoming.qty \in Int /\ NoOrder \notin OrderType
      BY <1>1 DEF OrderType, NoOrder
    <3> QED
      BY <1>1, <1>6, <1>8, <3>1 DEF InHand
  <2>4. /\ Traded[k] \in Int /\ InBook[k] \in Int /\ InHand[k] \in Int
        /\ book[n].qty \in Int
    BY <1>4, EngagedNotNegative DEF OrderType
  <2>5. /\ Engaged[k] = 2 * Traded[k] + InBook[k] + InHand[k]
        /\ Engaged'[k] = 2 * Traded'[k] + InBook'[k] + InHand'[k]
    BY DEF Engaged
  <2> HIDE DEF mine
  <2>6. CASE mine
    <3>1. /\ InBook'[k] = InBook[k] - q /\ Traded'[k] = Traded[k] + q
          /\ InHand'[k] = InHand[k] - q
      BY <1>6, <2>1, <2>2, <2>3, <2>4, <2>6
    <3> QED
      BY <1>6, <2>4, <2>5, <3>1
  <2>7. CASE ~mine
    <3>1. InBook'[k] = InBook[k] /\ Traded'[k] = Traded[k] /\ InHand'[k] = InHand[k]
      BY <2>1, <2>2, <2>3, <2>4, <2>7
    <3> QED
      BY <2>4, <2>5, <3>1
  <2> QED
    BY <2>6, <2>7
<1> QED
  BY <1>11, <1>12

\* What leaves the book, and what is taken in or given up, moves nothing else.
LEMMA StepEngaged ==
  ASSUME Inv, QuantitiesKept,
         MatchStep \/ UNCHANGED vars
            \/ (\E ticker \in Tickers, id \in CancelIds : Cancel(ticker, id))
  PROVE  QuantitiesKept' /\ \A k \in Tickers : Engaged'[k] \in Int /\ Engaged'[k] <= Engaged[k]
<1>1. /\ BookType /\ IncomingType /\ NotOverfilled /\ TrackerMatchesBook
      /\ portfolio \in [Traders -> PortfolioType]
  BY DEF Inv, TypeInv
<1>2. /\ \A k \in Tickers : /\ Traded[k] \in Int /\ InBook[k] \in Int /\ InHand[k] \in Int
                            /\ InHand[k] >= 0
      /\ \A k \in Tickers : Engaged[k] = 2 * Traded[k] + InBook[k] + InHand[k]
      /\ \A k \in Tickers : Engaged'[k] = 2 * Traded'[k] + InBook'[k] + InHand'[k]
  BY EngagedNotNegative DEF Engaged
<1>3. matches' = matches => Traded' = Traded
  BY DEF Traded, MatchesReported
<1>4. book' = book => InBook' = InBook
  BY DEF InBook, OfTicker, Quantities
<1>5. incoming' = incoming => InHand' = InHand
  BY DEF InHand
<1>6. ASSUME NEW n \in DOMAIN book, RemoveOrder(n, portfolio), status = "running",
             UNCHANGED <<matches, incoming>>
      PROVE  QuantitiesKept' /\ \A k \in Tickers : Engaged'[k] \in Int /\ Engaged'[k] <= Engaged[k]
  <2>1. ChangesAt(n, book[n], book[n].qty, 0)
    BY <1>1, <1>6, RemoveOrderChanges
  <2>2. BookType' /\ book[n] \in OrderType /\ book[n].qty \in Int /\ book[n].qty > 0
    BY <1>1, <1>6, RemoveOrderType DEF TrackerMatchesBook, BookType, OrderType
  <2>3. \A k \in Tickers :
          InBook'[k] = InBook[k] + (IF book[n].ticker = k THEN 0 - book[n].qty ELSE 0)
    BY <1>1, <2>1, <2>2, InBookChange
  <2>4. QuantitiesKept'
    BY <1>6, <2>1, <2>2 DEF QuantitiesKept, ChangesAt, SameButQuantity
  <2>5. \A k \in Tickers : Traded'[k] = Traded[k] /\ InHand'[k] = InHand[k]
    BY <1>3, <1>5, <1>6
  <2>6. \A k \in Tickers : InBook'[k] \in Int /\ InBook'[k] <= InBook[k]
    BY <1>2, <2>2, <2>3
  <2> QED
    BY <1>2, <2>4, <2>5, <2>6
<1>7. CASE Match
  BY <1>7, MatchEngaged
<1>8. CASE RemovePassive
  <2>1. PICK n \in DOMAIN book : RemoveOrder(n, portfolio)
    BY <1>8 DEF RemovePassive, TopOrder, Queue
  <2> QED
    BY <1>6, <1>8, <2>1 DEF RemovePassive, Matching
<1>9. CASE Rest
  <2>1. /\ incoming \in OrderType /\ LevelOf(incoming) \in Levels
        /\ incoming.qty \in Int /\ incoming.qty > 0
        /\ AddOrder(incoming) /\ incoming # NoOrder
        /\ incoming' = NoOrder /\ matches' = matches
    BY <1>1, <1>9 DEF Rest, Rests, Matching, IncomingType, OrderType
  <2>2. ChangesAt(arrivals + 1, incoming, 0, incoming.qty)
    BY <1>1, <2>1, AddOrderChanges
  <2>3. BookType'
    BY <1>1, <1>9, RestInv DEF Inv, TypeInv
  <2>4. \A k \in Tickers :
          InBook'[k] = InBook[k] + (IF incoming.ticker = k THEN incoming.qty - 0 ELSE 0)
    BY <1>1, <2>1, <2>2, <2>3, InBookChange
  <2>5. QuantitiesKept'
    BY <2>1, <2>2 DEF QuantitiesKept, ChangesAt, SameButQuantity
  <2>6. \A k \in Tickers : /\ Traded'[k] = Traded[k] /\ InHand'[k] = 0
                           /\ InHand[k] = (IF incoming.ticker = k THEN incoming.qty ELSE 0)
    BY <1>3, <2>1 DEF InHand
  <2>7. \A k \in Tickers : InBook'[k] + InHand'[k] = InBook[k] + InHand[k]
    BY <1>2, <2>1, <2>4, <2>6
  <2>8. \A k \in Tickers : InBook'[k] \in Int /\ InHand'[k] \in Int
    BY <1>2, <2>1, <2>4, <2>6
  <2> QED
    BY <1>2, <2>5, <2>6, <2>7, <2>8
<1>10. CASE Discard
  <2>1. UNCHANGED <<book, matches>> /\ incoming' = NoOrder
    BY <1>10 DEF Discard, bookVars
  <2>2. \A k \in Tickers : /\ InHand'[k] = 0
                           /\ Traded'[k] = Traded[k] /\ InBook'[k] = InBook[k]
    BY <1>3, <1>4, <2>1 DEF InHand
  <2>3. QuantitiesKept'
    BY <2>1 DEF QuantitiesKept
  <2> QED
    BY <1>2, <2>2, <2>3
<1>11. ASSUME UNCHANGED <<book, matches, incoming>>
       PROVE  QuantitiesKept' /\ \A k \in Tickers : Engaged'[k] \in Int /\ Engaged'[k] <= Engaged[k]
  <2>1. \A k \in Tickers : /\ InHand'[k] = InHand[k]
                           /\ Traded'[k] = Traded[k] /\ InBook'[k] = InBook[k]
    BY <1>3, <1>4, <1>5, <1>11
  <2>2. QuantitiesKept'
    BY <1>11 DEF QuantitiesKept
  <2> QED
    BY <1>2, <2>1, <2>2
<1>12. CASE \E ticker \in Tickers, id \in CancelIds : Cancel(ticker, id)
  <2>1. PICK ticker \in Tickers, id \in CancelIds : Cancel(ticker, id)
    BY <1>12
  <2>2. CASE <<ticker, id>> \in DOMAIN order_map
    <3>1. PICK n \in DOMAIN book : RemoveOrder(n, portfolio)
      BY <1>1, <2>1, <2>2 DEF Cancel, Idle, TrackerMatchesBook
    <3> QED
      BY <1>6, <2>1, <3>1 DEF Cancel, Idle
  <2>3. CASE <<ticker, id>> \notin DOMAIN order_map
    BY <1>11, <2>1, <2>3 DEF Cancel, bookVars
  <2> QED
    BY <2>2, <2>3
<1>13. CASE UNCHANGED vars
  BY <1>11, <1>13 DEF vars
<1> QED
  BY <1>7, <1>8, <1>9, <1>10, <1>12, <1>13 DEF MatchStep

\* What the engine accepts it has in its hands; what it drops it never had.
LEMMA AcceptEngaged ==
  ASSUME Inv, QuantitiesKept, NEW o \in OrderType, Accept(o) \/ Drop(o)
  PROVE  /\ QuantitiesKept'
         /\ \A k \in Tickers :
              /\ Engaged'[k] \in Int
              /\ Engaged'[k] <= Engaged[k] + (IF o.ticker = k THEN Positive(o.qty) ELSE 0)
<1>1. /\ \A k \in Tickers : Traded[k] \in Int /\ InBook[k] \in Int /\ InHand[k] \in Int
      /\ \A k \in Tickers : Engaged[k] = 2 * Traded[k] + InBook[k] + InHand[k]
      /\ \A k \in Tickers : Engaged'[k] = 2 * Traded'[k] + InBook'[k] + InHand'[k]
  BY EngagedNotNegative DEF Engaged
<1>2. UNCHANGED <<book, matches>> /\ incoming = NoOrder
  BY DEF Accept, Drop, bookVars, Idle
<1>3. Traded' = Traded /\ InBook' = InBook /\ QuantitiesKept'
  BY <1>2 DEF Traded, MatchesReported, InBook, OfTicker, Quantities, QuantitiesKept
<1>4. o.qty \in Int /\ o # NoOrder
  BY DEF OrderType, NoOrder
<1>5. ASSUME NEW k \in Tickers
      PROVE  InHand[k] = 0
               /\ (\/ InHand'[k] = 0
                   \/ o.qty > 0 /\ InHand'[k] = (IF o.ticker = k THEN o.qty ELSE 0))
  <2>1. InHand[k] = 0
    BY <1>2 DEF InHand
  <2>2. CASE Accept(o)
    BY <1>4, <2>1, <2>2 DEF InHand, Accept, Admissible
  <2>3. CASE Drop(o)
    BY <1>2, <2>1, <2>3 DEF InHand, Drop
  <2> QED
    BY <2>2, <2>3
<1> QED
  BY <1>1, <1>3, <1>4, <1>5 DEF Positive

\* A tick takes finitely many messages.
LEMMA CollectFinite ==
  ASSUME CycleInv, Collect
  PROVE  IsFiniteSet(orders')
<1>1. PICK taken \in [Traders -> 0 .. MaxOrders + MaxCancels] :
        /\ \A t \in Traders : taken[t] <= Len(pipe[t])
        /\ orders' = UNION {ToSet(SubSeq(pipe[t], 1, taken[t])) : t \in Traders}
  BY DEF Collect
<1> DEFINE part == [t \in Traders |-> ToSet(SubSeq(pipe[t], 1, taken[t]))]
<1>2. ASSUME NEW t \in Traders PROVE IsFiniteSet(part[t])
  <2>1. pipe[t] \in Seq(ClientMessages) /\ taken[t] \in 0 .. Len(pipe[t])
    BY <1>1, BoundsAssumption, CancelsAssumption DEF CycleInv
  <2>2. PICK s \in Seq(ClientMessages), n \in Nat : s = pipe[t] /\ n = taken[t]
    BY <1>1, <2>1, BoundsAssumption, CancelsAssumption
  <2>3. part[t] = {s[i] : i \in 1 .. n}
    BY <2>1, <2>2, SplitAt
  <2>4. IsFiniteSet({s[i] : i \in 1 .. n})
    <3>1. PICK I : I = 1 .. n /\ IsFiniteSet(I)
      BY FS_Interval
    <3>2. IsFiniteSet({s[i] : i \in I})
      BY <3>1, FiniteImage
    <3> QED
      BY <3>1, <3>2
  <2> QED
    BY <2>3, <2>4
<1>3. orders' = UNION {part[t] : t \in Traders}
  BY <1>1
<1> HIDE DEF part
<1>4. IsFiniteSet({part[t] : t \in Traders})
  BY FiniteAssumption, FiniteImage
<1>5. \A T \in {part[t] : t \in Traders} : IsFiniteSet(T)
  BY <1>2
<1> QED
  BY <1>3, <1>4, <1>5, FS_UNION

\* The strengthening: every order that a counter has counted is traded, in the
\* engine's hands or still to be handled, or it is gone.
CountedInv ==
    /\ counter \in [{"orders", "cancellations", "matches"} \X Tickers -> Int]
    /\ IsFiniteSet(orders)
    /\ QuantitiesKept
    /\ \A k \in Tickers :
        2 * counter[<<"matches", k>>] + Engaged[k] + Waiting[k]
            <= counter[<<"orders", k>>]

\* What can be added is a number.
LEMMA CountedType ==
  ASSUME Inv, CycleInv, CountedInv
  PROVE  \A k \in Tickers :
            /\ Traded[k] \in Int /\ Engaged[k] \in Int /\ Engaged[k] >= 2 * Traded[k]
            /\ Waiting[k] \in Int /\ Waiting[k] >= 0
            /\ counter[<<"matches", k>>] \in Int /\ counter[<<"orders", k>>] \in Int
<1> SUFFICES ASSUME NEW k \in Tickers
             PROVE  /\ Traded[k] \in Int /\ Engaged[k] \in Int /\ Engaged[k] >= 2 * Traded[k]
                    /\ Waiting[k] \in Int /\ Waiting[k] >= 0
                    /\ counter[<<"matches", k>>] \in Int
                    /\ counter[<<"orders", k>>] \in Int
  OBVIOUS
<1>1. /\ Traded[k] \in Int /\ InBook[k] \in Int /\ InBook[k] >= 0
      /\ InHand[k] \in Int /\ InHand[k] >= 0
  BY EngagedNotNegative DEF CountedInv
<1>2. Engaged[k] = 2 * Traded[k] + InBook[k] + InHand[k]
  BY DEF Engaged
<1>3. Waiting[k] \in Int /\ Waiting[k] >= 0
  BY OrdersSum DEF Waiting, CountedInv, CycleInv
<1>4. counter[<<"matches", k>>] \in Int /\ counter[<<"orders", k>>] \in Int
  BY DEF CountedInv
<1> QED
  BY <1>1, <1>2, <1>3, <1>4

\* The orders of a tick are counted before they are handled.
LEMMA ReportOrdersCounts ==
  ASSUME Inv, CycleInv, CountedInv, ReportOrders
  PROVE  CountedInv'
<1>1. /\ Collect /\ orders = {} /\ UNCHANGED vars
      /\ counter' = [key \in DOMAIN counter |->
           counter[key] + CASE key[1] = "orders"        -> OrdersReported(orders', key[2])
                            [] key[1] = "cancellations" -> CancelsReported(orders', key[2])
                            [] key[1] = "matches"       -> 0]
  BY DEF ReportOrders, Collect, BetweenTicks
<1>2. CycleInv' /\ IsFiniteSet(orders')
  BY <1>1, CollectInv, CollectFinite
<1>3. \A k \in Tickers : OrdersReported(orders', k) \in Int /\ CancelsReported(orders', k) \in Int
  <2> SUFFICES ASSUME NEW k \in Tickers
               PROVE  OrdersReported(orders', k) \in Int /\ CancelsReported(orders', k) \in Int
    OBVIOUS
  <2>1. OrdersReported(orders', k) \in Int
    BY <1>2, OrdersSum DEF CycleInv
  <2>2. IsFiniteSet({o \in orders' : o.ticker = k /\ o.kind = "cancel"})
    BY <1>2, FS_Subset
  <2>3. CancelsReported(orders', k) \in Nat
    BY <2>2, FS_CardinalityType DEF CancelsReported
  <2> QED
    BY <2>1, <2>3
<1>4. counter' \in [{"orders", "cancellations", "matches"} \X Tickers -> Int]
  BY <1>1, <1>3 DEF CountedInv
<1>5. \A k \in Tickers :
        /\ counter'[<<"matches", k>>] = counter[<<"matches", k>>] + 0
        /\ counter'[<<"orders", k>>] = counter[<<"orders", k>>] + OrdersReported(orders', k)
  BY <1>1 DEF CountedInv
<1>6. QuantitiesKept' /\ Engaged' = Engaged
  BY <1>1 DEF vars, CountedInv, QuantitiesKept, Engaged, Traded, MatchesReported, InBook,
              OfTicker, Quantities, InHand
<1>7. \A k \in Tickers : Waiting[k] = 0 /\ Waiting'[k] = OrdersReported(orders', k)
  BY <1>1, OrdersSum DEF CountedInv, CycleInv, Waiting
<1>8. ASSUME NEW k \in Tickers
      PROVE  2 * counter'[<<"matches", k>>] + Engaged'[k] + Waiting'[k]
               <= counter'[<<"orders", k>>]
  <2>1. PICK new \in Int : new = OrdersReported(orders', k)
    BY <1>3
  <2>2. 2 * counter[<<"matches", k>>] + Engaged[k] + 0 <= counter[<<"orders", k>>]
    BY <1>7 DEF CountedInv
  <2> QED
    BY <1>5, <1>6, <1>7, <2>1, <2>2, CountedType
<1> QED
  BY <1>2, <1>4, <1>6, <1>8 DEF CountedInv

\* The matches of a tick are counted when they are told.
LEMMA ReportMatchesCounts ==
  ASSUME Inv, CycleInv, CountedInv, ReportMatches
  PROVE  CountedInv'
<1>1. /\ UNCHANGED <<book, incoming, orders>> /\ matches' = <<>>
      /\ counter' = [key \in DOMAIN counter |->
           IF key[1] = "matches" THEN counter[key] + MatchesReported(key[2])
                                 ELSE counter[key]]
  BY DEF ReportMatches, Report, TakeUpdates
<1>2. \A k \in Tickers : MatchesReported(k) \in Int /\ MatchesReported(k) = Traded[k]
  BY CountedType DEF Traded
<1>3. counter' \in [{"orders", "cancellations", "matches"} \X Tickers -> Int]
  BY <1>1, <1>2 DEF CountedInv
<1>4. \A k \in Tickers :
        /\ counter'[<<"matches", k>>] = counter[<<"matches", k>>] + Traded[k]
        /\ counter'[<<"orders", k>>] = counter[<<"orders", k>>]
  BY <1>1, <1>2 DEF CountedInv
<1>5. QuantitiesKept' /\ Waiting' = Waiting /\ InBook' = InBook /\ InHand' = InHand
  BY <1>1 DEF CountedInv, QuantitiesKept, Waiting, InBook, OfTicker, Quantities, InHand
<1>6. \A k \in Tickers : Traded'[k] = 0
  <2>1. IsFiniteSet({}) /\ \A f : SumFunctionOnSet(f, {}) = 0
    <3>1. IsFiniteSet({}) /\ \A f : \A x \in {} : f[x] \in Int
      BY FS_EmptySet
    <3> QED
      BY <3>1, SumStep
  <2> SUFFICES ASSUME NEW k \in Tickers PROVE Traded'[k] = 0
    OBVIOUS
  <2> DEFINE S == {i \in DOMAIN matches' : matches'[i].ticker = k}
             f == [i \in S |-> matches'[i].qty]
  <2>2. Traded'[k] = SumFunctionOnSet(f, S)
    BY DEF Traded, MatchesReported, SumFunction
  <2>3. S = {}
    BY <1>1
  <2> QED
    BY <2>1, <2>2, <2>3
<1>7. ASSUME NEW k \in Tickers
      PROVE  2 * counter'[<<"matches", k>>] + Engaged'[k] + Waiting'[k]
               <= counter'[<<"orders", k>>]
  <2>1. /\ Engaged[k] = 2 * Traded[k] + InBook[k] + InHand[k]
        /\ Engaged'[k] = 2 * Traded'[k] + InBook'[k] + InHand'[k]
    BY DEF Engaged
  <2>2. InBook[k] \in Int /\ InHand[k] \in Int
    BY EngagedNotNegative DEF CountedInv
  <2>3. 2 * counter[<<"matches", k>>] + Engaged[k] + Waiting[k] <= counter[<<"orders", k>>]
    BY DEF CountedInv
  <2> QED
    BY <1>4, <1>5, <1>6, <2>1, <2>2, <2>3, CountedType
<1> QED
  BY <1>1, <1>3, <1>5, <1>7 DEF CountedInv

\* In all other steps nothing is counted.
LEMMA HandledCounts ==
  ASSUME Inv, CycleInv, CountedInv, UNCHANGED counter,
         QuantitiesKept', IsFiniteSet(orders'),
         \A k \in Tickers : Engaged'[k] \in Int,
         \A k \in Tickers : \E d \in Int :
            Engaged'[k] <= Engaged[k] + d /\ Waiting'[k] = Waiting[k] - d
  PROVE  CountedInv'
<1>1. ASSUME NEW k \in Tickers
      PROVE  2 * counter'[<<"matches", k>>] + Engaged'[k] + Waiting'[k]
               <= counter'[<<"orders", k>>]
  <2>1. PICK d \in Int : Engaged'[k] <= Engaged[k] + d /\ Waiting'[k] = Waiting[k] - d
    OBVIOUS
  <2>2. /\ counter'[<<"matches", k>>] = counter[<<"matches", k>>]
        /\ counter'[<<"orders", k>>] = counter[<<"orders", k>>]
        /\ 2 * counter[<<"matches", k>>] + Engaged[k] + Waiting[k] <= counter[<<"orders", k>>]
    BY DEF CountedInv
  <2> QED
    BY <2>1, <2>2, CountedType
<1> QED
  BY <1>1 DEF CountedInv

\* Every step of the cycle of dev and sandbox mode keeps CountedInv.
LEMMA CountedStep ==
  Inv /\ CycleInv /\ CountedInv /\ [DevNext]_devVars => CountedInv'
<1> SUFFICES ASSUME Inv, CycleInv, CountedInv, [DevNext]_devVars PROVE CountedInv'
  OBVIOUS
<1>1. QuantitiesKept /\ IsFiniteSet(orders) /\ orders \subseteq ClientMessages
  BY DEF CountedInv, CycleInv
<1>2. \A k \in Tickers : Engaged[k] \in Int /\ Waiting[k] \in Int
  BY CountedType
<1>3. ASSUME UNCHANGED <<orders, counter>>,
             MatchStep \/ UNCHANGED vars
      PROVE  CountedInv'
  <2>1. QuantitiesKept' /\ \A k \in Tickers : Engaged'[k] \in Int /\ Engaged'[k] <= Engaged[k]
    BY <1>1, <1>3, StepEngaged
  <2>2. Waiting' = Waiting
    BY <1>3 DEF Waiting
  <2>3. \A k \in Tickers : Engaged'[k] <= Engaged[k] + 0 /\ Waiting'[k] = Waiting[k] - 0
    BY <1>2, <2>1, <2>2
  <2> QED
    BY <1>1, <1>3, <2>1, <2>3, HandledCounts
<1>4. CASE ReportOrders
  BY <1>4, ReportOrdersCounts
<1>5. CASE ReportMatches
  BY <1>5, ReportMatchesCounts
<1>6. CASE PostCycle \/ UNCHANGED devVars
  BY <1>3, <1>6 DEF PostCycle, devVars, allVars, cycleVars
<1>7. CASE Handle /\ UNCHANGED counter
  <2>1. PICK m \in orders :
          /\ \/ m.kind = "cancel" /\ Cancel(m.ticker, m.id)
             \/ m.kind # "cancel" /\ (Accept(m) \/ Drop(m))
          /\ orders' = orders \ {m}
    BY <1>7 DEF Handle, First
  <2>2. m \in ClientMessages /\ IsFiniteSet(orders')
    BY <1>1, <2>1, FS_Subset
  <2>3. \A k \in Tickers :
          Waiting'[k] = Waiting[k]
            - (IF m.ticker = k /\ m.kind # "cancel" THEN Positive(m.qty) ELSE 0)
    BY <1>1, <2>1, OrdersSum DEF Waiting
  <2>4. CASE m.kind = "cancel"
    <3>1. m.ticker \in Tickers /\ m.id \in CancelIds
      BY <2>2, <2>4, MessageKinds
    <3>2. QuantitiesKept' /\ \A k \in Tickers : Engaged'[k] \in Int /\ Engaged'[k] <= Engaged[k]
      BY <1>1, <2>1, <2>4, <3>1, StepEngaged
    <3>3. \A k \in Tickers : Engaged'[k] <= Engaged[k] + 0 /\ Waiting'[k] = Waiting[k] - 0
      BY <1>2, <2>3, <2>4, <3>2
    <3> QED
      BY <1>7, <2>2, <3>2, <3>3, HandledCounts
  <2>5. CASE m.kind # "cancel"
    <3>1. m \in OrderType /\ m.qty \in Int
      BY <2>2, <2>5, MessageKinds DEF OrderType
    <3>2. /\ QuantitiesKept'
          /\ \A k \in Tickers :
               /\ Engaged'[k] \in Int
               /\ Engaged'[k] <= Engaged[k] + (IF m.ticker = k THEN Positive(m.qty) ELSE 0)
      BY <1>1, <2>1, <2>5, <3>1, AcceptEngaged
    <3>3. \A k \in Tickers : \E d \in Int :
            Engaged'[k] <= Engaged[k] + d /\ Waiting'[k] = Waiting[k] - d
      <4> SUFFICES ASSUME NEW k \in Tickers
                   PROVE  \E d \in Int :
                     Engaged'[k] <= Engaged[k] + d /\ Waiting'[k] = Waiting[k] - d
        OBVIOUS
      <4>1. PICK d \in Int : d = (IF m.ticker = k THEN Positive(m.qty) ELSE 0)
        BY <3>1 DEF Positive
      <4> QED
        BY <2>3, <2>5, <3>2, <4>1
    <3> QED
      BY <1>7, <2>2, <3>2, <3>3, HandledCounts
  <2> QED
    BY <2>4, <2>5
<1>8. CASE Step /\ UNCHANGED counter
  BY <1>3, <1>8 DEF Step, cycleVars
<1>9. CASE (BeforeCycle \/ Clients) /\ UNCHANGED counter
  <2>1. UNCHANGED <<vars, orders>>
    BY <1>9 DEF BeforeCycle, Clients, Place, PlaceCancel, AddTrader, Disable
  <2> QED
    BY <1>3, <1>9, <2>1
<1> QED
  BY <1>4, <1>5, <1>6, <1>7, <1>8, <1>9 DEF DevNext

\* What the counters of the dashboard say has been traded in a ticker never takes
\* more than the quantity that they say was ordered in it: the orders of a tick
\* are counted before the first is matched, and every match, counted later,
\* takes its quantity from two of them.
THEOREM TradesWereOrdered == DevSpec => []TradedWasOrdered
<1>1. DevInit => CountedInv /\ CycleInv
  <2> SUFFICES ASSUME DevInit PROVE CountedInv /\ CycleInv
    OBVIOUS
  <2>1. /\ CycleInv /\ orders = {} /\ matches = <<>> /\ incoming = NoOrder
        /\ DOMAIN book = {}
        /\ counter = [key \in {"orders", "cancellations", "matches"} \X Tickers |-> 0]
    BY DEF DevInit, CycleInit, Init, CycleInv
  <2>2. QuantitiesKept
    BY <2>1 DEF QuantitiesKept
  <2>3. /\ IsFiniteSet({}) /\ \A f : \A x \in {} : f[x] \in Int
    BY FS_EmptySet
  <2>4. \A f : SumFunctionOnSet(f, {}) = 0
    BY <2>3, SumStep
  <2>5. ASSUME NEW k \in Tickers PROVE Engaged[k] = 0 /\ Waiting[k] = 0
    <3>1. InHand[k] = 0
      BY <2>1 DEF InHand
    <3>2. InBook[k] = 0
      <4>1. OfTicker[k] = {}
        BY <2>1 DEF OfTicker
      <4> QED
        BY <2>4, <4>1 DEF InBook
    <3>3. Traded[k] = 0
      <4>1. matches \in Seq(MatchType)
        BY <2>1
      <4> QED
        BY <2>1, <4>1, TradedAppend
    <3>4. Waiting[k] = 0
      BY <2>1, <2>3, OrdersSum DEF Waiting
    <3> QED
      BY <3>1, <3>2, <3>3, <3>4 DEF Engaged
  <2> QED
    BY <2>1, <2>2, <2>3, <2>5 DEF CountedInv
<1>2. Inv /\ CycleInv /\ CountedInv => TradedWasOrdered
  <2> SUFFICES ASSUME Inv, CycleInv, CountedInv, NEW k \in Tickers
               PROVE  2 * counter[<<"matches", k>>] <= counter[<<"orders", k>>]
    BY DEF TradedWasOrdered
  <2>1. 2 * counter[<<"matches", k>>] + Engaged[k] + Waiting[k] <= counter[<<"orders", k>>]
    BY DEF CountedInv
  <2>2. Traded[k] >= 0
    BY EngagedNotNegative DEF CountedInv
  <2> QED
    BY <2>1, <2>2, CountedType
<1>3. CycleInv /\ [DevNext]_devVars => CycleInv'
  BY DevStepIsCycleStep, CycleNextInv
<1>4. DevSpec => []Inv
  BY DevImplementsEngine, InvInvariant, PTL DEF ImplementsEngine
<1> QED
  BY <1>1, <1>2, <1>3, <1>4, CountedStep, PTL DEF DevSpec

-----------------------------------------------------------------------------
(***************************************************************************)
(* The gauges.                                                             *)
(***************************************************************************)
\* A side that has orders has one at its front.
LEMMA TopExists ==
  ASSUME BookType, NEW ticker \in Tickers, NEW side \in Sides, Queue(ticker, side) # {}
  PROVE  TopOrder(ticker, side) # {}
<1> DEFINE Q == Queue(ticker, side)
           G == {T \in SUBSET Q : T = {} \/ \E n \in T : \A m \in T \ {n} : Before(n, m)}
<1>1. Q \in SUBSET DOMAIN book /\ IsFiniteSet(Q)
  <2>1. Q \in SUBSET DOMAIN book
    BY DEF Queue
  <2> QED
    BY <2>1, BookFinite DEF BookType
<1>2. \A n \in Q : n \in Nat /\ book[n].price \in Int /\ book[n].side = side
  BY <1>1 DEF BookType, OrderType, Queue
<1>3. \A n, m, x \in Q : Before(n, m) /\ Before(m, x) => Before(n, x)
  BY <1>2 DEF Before, Sides
<1>4. \A n, m \in Q : n = m \/ Before(n, m) \/ Before(m, n)
  BY <1>2 DEF Before, Sides
<1>5. {} \in G
  OBVIOUS
<1>6. ASSUME NEW T \in SUBSET Q, T # {} PROVE \E x \in T : T \ {x} \in G => T \in G
  <2>1. PICK x \in T : TRUE
    BY <1>6
  <2>2. ASSUME T \ {x} \in G PROVE T \in G
    <3>1. CASE T \ {x} = {}
      BY <3>1
    <3>2. CASE T \ {x} # {}
      <4>1. PICK n \in T \ {x} : \A m \in (T \ {x}) \ {n} : Before(n, m)
        BY <2>2, <3>2
      <4>2. CASE Before(n, x)
        <5>1. \A m \in T \ {n} : Before(n, m)
          BY <4>1, <4>2
        <5> QED
          BY <4>1, <5>1
      <4>3. CASE Before(x, n)
        <5>1. \A m \in T \ {x} : Before(x, m)
          BY <1>3, <4>1, <4>3
        <5> QED
          BY <5>1
      <4> QED
        BY <1>4, <4>1, <4>2, <4>3
    <3> QED
      BY <3>1, <3>2
  <2> QED
    BY <2>1, <2>2
<1>7. Q \in G
  <2> HIDE DEF G, Q
  <2>1. \A T \in SUBSET Q : T \in G
    BY <1>1, <1>5, <1>6, SubsetInduction
  <2> QED
    BY <2>1
<1> QED
  BY <1>7 DEF TopOrder

\* What post_cycle_ sets of a ticker.
GaugesSet(k) ==
    /\ <<"ticker_midprice", k>> \in DOMAIN gauge'
    /\ gauge'[<<"ticker_midprice", k>>] = Midprice(k)
    /\ \A side \in Sides : TopOrder(k, side) # {} =>
        /\ <<"best_ba", k, side>> \in DOMAIN gauge'
        /\ gauge'[<<"best_ba", k, side>>]
             = CHOOSE price \in {book[n].price : n \in TopOrder(k, side)} : TRUE

LEMMA PostCycleSets ==
  ASSUME PostCycle, NEW k \in Tickers
  PROVE  GaugesSet(k)
<1> DEFINE mid == <<"ticker_midprice", k>>
<1>1. PICK up \in SUBSET Halfway :
        gauge' = Over(MidpriceGauges, Over(BestGaugesSet,
                 Over(CapitalGauges, Over(PnlGauges(up), Over(HoldingsGauges, gauge)))))
  BY DEF PostCycle
<1>2. /\ DOMAIN MidpriceGauges \cup DOMAIN BestGaugesSet \subseteq DOMAIN gauge'
      /\ \A key \in DOMAIN MidpriceGauges : gauge'[key] = MidpriceGauges[key]
      /\ \A key \in DOMAIN BestGaugesSet \ DOMAIN MidpriceGauges :
            gauge'[key] = BestGaugesSet[key]
  BY <1>1 DEF Over
<1>3. mid \in DOMAIN MidpriceGauges /\ MidpriceGauges[mid] = Midprice(k)
  BY DEF MidpriceGauges
<1>4. ASSUME NEW side \in Sides, TopOrder(k, side) # {}
      PROVE  /\ <<"best_ba", k, side>> \in DOMAIN gauge'
             /\ gauge'[<<"best_ba", k, side>>]
                  = CHOOSE price \in {book[n].price : n \in TopOrder(k, side)} : TRUE
  <2> DEFINE best == <<"best_ba", k, side>>
             prices == {book[n].price : n \in TopOrder(k, side)}
  <2>1. best \in DOMAIN BestGauges /\ BestGauges[best] = prices
    BY DEF BestGauges
  <2>2. prices # {}
    BY <1>4
  <2>3. best \in DOMAIN BestGaugesSet
    BY <2>1, <2>2 DEF BestGaugesSet
  <2>4. BestGaugesSet[best] = CHOOSE price \in prices : TRUE
    BY <2>1, <2>3 DEF BestGaugesSet
  <2>5. best \notin DOMAIN MidpriceGauges
    BY DEF MidpriceGauges
  <2> QED
    BY <1>2, <2>3, <2>4, <2>5
<1> QED
  BY <1>2, <1>3, <1>4 DEF GaugesSet

\* Only post_cycle_ sets a gauge.
LEMMA GaugesKept ==
  ASSUME [DevNext]_devVars, ~PostCycle
  PROVE  gauge' = gauge
BY DEF DevNext, ReportOrders, ReportMatches, devVars

\* The gauges of one tick agree with each other: where the dashboard shows a
\* midprice it shows the best bid and the best ask of the same tick, though a best
\* price on its own may be of a tick long past.
THEOREM DashboardAgrees == DevSpec => []GaugesAgree
<1>1. DevInit => GaugesAgree
  BY DEF DevInit, GaugesAgree
<1>2. Inv /\ GaugesAgree /\ [DevNext]_devVars => GaugesAgree'
  <2> SUFFICES ASSUME Inv, GaugesAgree, [DevNext]_devVars PROVE GaugesAgree'
    OBVIOUS
  <2>1. CASE PostCycle
    <3> SUFFICES ASSUME NEW k \in Tickers, gauge'[<<"ticker_midprice", k>>] # 0
                 PROVE  /\ \A side \in Sides : <<"best_ba", k, side>> \in DOMAIN gauge'
                        /\ gauge'[<<"ticker_midprice", k>>]
                             = Divide(gauge'[<<"best_ba", k, "buy">>]
                                        + gauge'[<<"best_ba", k, "sell">>], 2 * One)
      BY DEF GaugesAgree
    <3>1. GaugesSet(k)
      BY <2>1, PostCycleSets
    <3> DEFINE best(side) ==
                 CHOOSE price \in {book[n].price : n \in TopOrder(k, side)} : TRUE
    <3>2. /\ Queue(k, "buy") # {} /\ Queue(k, "sell") # {}
          /\ Midprice(k) = Divide(best("buy") + best("sell"), 2 * One)
      BY <3>1 DEF GaugesSet, Midprice
    <3>3. \A side \in Sides : TopOrder(k, side) # {}
      BY <3>2, TopExists DEF Inv, TypeInv, Sides
    <3>4. \A side \in Sides : /\ <<"best_ba", k, side>> \in DOMAIN gauge'
                              /\ gauge'[<<"best_ba", k, side>>] = best(side)
      BY <3>1, <3>3 DEF GaugesSet
    <3>5. /\ gauge'[<<"best_ba", k, "buy">>] = best("buy")
          /\ gauge'[<<"best_ba", k, "sell">>] = best("sell")
      BY <3>4 DEF Sides
    <3>6. gauge'[<<"ticker_midprice", k>>] = Midprice(k)
      BY <3>1 DEF GaugesSet
    <3> HIDE DEF best
    <3> QED
      BY <3>2, <3>4, <3>5, <3>6
  <2>2. CASE ~PostCycle
    BY <2>2, GaugesKept DEF GaugesAgree
  <2> QED
    BY <2>1, <2>2
<1>3. DevSpec => []Inv
  BY DevImplementsEngine, InvInvariant, PTL DEF ImplementsEngine
<1> QED
  BY <1>1, <1>2, <1>3, PTL DEF DevSpec

-----------------------------------------------------------------------------
(***************************************************************************)
(* The profits and losses.  They add up to no gain because the trades do:  *)
(* what is bought is sold, so that the holdings cancel at any midprice,    *)
(* and at a price that is not below zero the seller never receives more    *)
(* than the buyer pays.                                                    *)
(***************************************************************************)
\* What a trader has gained, in money and in holdings by ticker.
Gained == [t \in Traders |-> CapitalOf[t] - InitialCapital[t]]
Held == [k \in Tickers |-> [t \in Traders |-> HoldingsOf[t][k]]]

Balanced ==
    /\ SumFunctionOnSet(Gained, Traders) <= 0
    /\ \A k \in Tickers : SumFunctionOnSet(Held[k], Traders) = 0

\* What the ledger keeps are numbers.
LedgerTyped ==
    /\ CapitalOf \in [Traders -> Int]
    /\ HoldingsOf \in [Traders -> [Tickers -> Int]]

\* No match of the tick is priced below zero.
NoneBelowZero == \A i \in DOMAIN matches : matches[i].price >= 0

\* A trade that is not below zero keeps the balance.
LEMMA TradeBalanced ==
  /\ Inv /\ LedgerInv /\ LedgerTyped /\ LedgerTyped' /\ Balanced
  /\ NoneBelowZero' /\ EngineStep
  => Balanced'
<1> SUFFICES ASSUME Inv, LedgerInv, LedgerTyped, LedgerTyped', Balanced,
                    NoneBelowZero', EngineStep
             PROVE  Balanced'
  OBVIOUS
<1>1. /\ CapitalOf \in [Traders -> Int] /\ CapitalOf' \in [Traders -> Int]
      /\ HoldingsOf \in [Traders -> [Tickers -> Int]]
      /\ HoldingsOf' \in [Traders -> [Tickers -> Int]]
      /\ InitialCapital \in [Traders -> Int] /\ IsFiniteSet(Traders)
  BY CapitalAssumption, FiniteAssumption DEF LedgerTyped
<1>2. /\ \A t \in Traders : /\ Gained[t] = CapitalOf[t] - InitialCapital[t]
                            /\ Gained'[t] = CapitalOf'[t] - InitialCapital[t]
      /\ \A k \in Tickers, t \in Traders : /\ Held[k][t] = HoldingsOf[t][k]
                                           /\ Held'[k][t] = HoldingsOf'[t][k]
  BY DEF Gained, Held
<1>3. CASE Match
  <2>1. PICK b \in Traders, s \in Traders, j \in Tickers,
             q \in Nat, paid \in Int, received \in Int :
          /\ b # s
          /\ \/ 0 <= received /\ received <= paid
             \/ \E i \in DOMAIN matches' : matches'[i].price < 0
          /\ CapitalOf' = [CapitalOf EXCEPT ![b] = @ - paid, ![s] = @ + received]
          /\ HoldingsOf' = [HoldingsOf EXCEPT
                              ![b] = [HoldingsOf[b] EXCEPT ![j] = @ + q],
                              ![s] = [HoldingsOf[s] EXCEPT ![j] = @ - q]]
    BY <1>3, MatchTrades
  <2>2. \A i \in DOMAIN matches' : matches'[i].price \in Int /\ matches'[i].price >= 0
    <3>1. matches' \in Seq(MatchType)
      BY StepInv DEF Inv, TypeInv
    <3>2. ASSUME NEW i \in DOMAIN matches'
          PROVE  matches'[i].price \in Int /\ matches'[i].price >= 0
      <4>1. matches'[i] \in MatchType
        BY <3>1
      <4>2. matches'[i].price >= 0
        BY DEF NoneBelowZero
      <4> QED
        BY <4>1, <4>2 DEF MatchType
    <3> QED
      BY <3>2
  <2>3. /\ b # s /\ received <= paid
        /\ CapitalOf' = [CapitalOf EXCEPT ![b] = @ - paid, ![s] = @ + received]
        /\ HoldingsOf' = [HoldingsOf EXCEPT
                            ![b] = [HoldingsOf[b] EXCEPT ![j] = @ + q],
                            ![s] = [HoldingsOf[s] EXCEPT ![j] = @ - q]]
    BY <2>1, <2>2
  <2>4. q \in Int /\ paid \in Int /\ received \in Int
    OBVIOUS
  <2>5. /\ Gained'[b] = Gained[b] - paid /\ Gained'[s] = Gained[s] + received
        /\ \A t \in Traders \ {b, s} : Gained'[t] = Gained[t]
        /\ \A t \in Traders : Gained[t] \in Int /\ Gained'[t] \in Int
    <3>1. /\ CapitalOf'[b] = CapitalOf[b] - paid /\ CapitalOf'[s] = CapitalOf[s] + received
          /\ \A t \in Traders \ {b, s} : CapitalOf'[t] = CapitalOf[t]
      BY <1>1, <2>3
    <3> QED
      BY <1>1, <1>2, <2>4, <3>1
  <2>6. SumFunctionOnSet(Gained', Traders) <= 0
    <3>1. PICK f, g : f = Gained /\ g = Gained'
      OBVIOUS
    <3>2. /\ SumFunctionOnSet(f, Traders) \in Int
          /\ SumFunctionOnSet(g, Traders)
               = SumFunctionOnSet(f, Traders) + (g[b] - f[b]) + (g[s] - f[s])
      <4>1. DifferAtTwo(b, s, f, g, Traders)
        BY <2>3, <2>5, <3>1 DEF DifferAtTwo
      <4> QED
        BY <1>1, <4>1, SumTwo
    <3>3. (g[b] - f[b]) + (g[s] - f[s]) <= 0
      BY <2>3, <2>4, <2>5, <3>1
    <3>4. f[b] \in Int /\ g[b] \in Int /\ f[s] \in Int /\ g[s] \in Int
      BY <2>5, <3>1
    <3> QED
      BY <3>1, <3>2, <3>3, <3>4 DEF Balanced
  <2>7. ASSUME NEW k \in Tickers PROVE SumFunctionOnSet(Held'[k], Traders) = 0
    <3>1. PICK f, g : f = Held[k] /\ g = Held'[k]
      OBVIOUS
    <3>2. /\ \A t \in Traders : f[t] \in Int /\ g[t] \in Int
          /\ \A t \in Traders \ {b, s} : f[t] = g[t]
          /\ (g[b] - f[b]) + (g[s] - f[s]) = 0
      <4>1. /\ HoldingsOf'[b] = [HoldingsOf[b] EXCEPT ![j] = @ + q]
            /\ HoldingsOf'[s] = [HoldingsOf[s] EXCEPT ![j] = @ - q]
            /\ \A t \in Traders \ {b, s} : HoldingsOf'[t] = HoldingsOf[t]
        BY <1>1, <2>3
      <4>2. /\ HoldingsOf'[b][k] = HoldingsOf[b][k] + (IF k = j THEN q ELSE 0)
            /\ HoldingsOf'[s][k] = HoldingsOf[s][k] - (IF k = j THEN q ELSE 0)
        BY <1>1, <2>4, <4>1
      <4> QED
        BY <1>1, <1>2, <2>4, <3>1, <4>1, <4>2
    <3>3. /\ SumFunctionOnSet(f, Traders) \in Int
          /\ SumFunctionOnSet(g, Traders)
               = SumFunctionOnSet(f, Traders) + (g[b] - f[b]) + (g[s] - f[s])
      <4>1. DifferAtTwo(b, s, f, g, Traders)
        BY <2>3, <3>2 DEF DifferAtTwo
      <4> QED
        BY <1>1, <4>1, SumTwo
    <3>4. f[b] \in Int /\ g[b] \in Int /\ f[s] \in Int /\ g[s] \in Int
      BY <3>2
    <3> QED
      BY <3>1, <3>2, <3>3, <3>4 DEF Balanced
  <2> QED
    BY <2>6, <2>7 DEF Balanced
<1>4. CASE ~Match
  <2>1. CapitalOf' = CapitalOf /\ HoldingsOf' = HoldingsOf
    <3>1. SameMoney(portfolio, portfolio')
      BY <1>4, OtherStepsMoney
    <3> QED
      BY <3>1 DEF SameMoney, Capital, CapitalOf, HoldingsOf
  <2>2. Gained' = Gained /\ Held' = Held
    BY <2>1 DEF Gained, Held
  <2> QED
    BY <2>2 DEF Balanced
<1> QED
  BY <1>3, <1>4

\* value is what each holding is worth at its price, total what each holder has.
Valued(value, total, price, held, T, K) ==
    /\ held \in [K -> [T -> Int]] /\ price \in [K -> Int]
    /\ value \in [T -> [K -> Int]] /\ total \in [T -> Int]
    /\ \A t \in T, k \in K : value[t][k] = price[k] * held[k][t]
    /\ \A t \in T : total[t] = SumFunctionOnSet(value[t], K)

\* At any prices, holdings that cancel in every ticker are together worth nothing.
LEMMA ValuesCancel ==
  ASSUME NEW T, IsFiniteSet(T), NEW K, IsFiniteSet(K),
         NEW held, NEW price, NEW value, NEW total,
         Valued(value, total, price, held, T, K),
         \A k \in K : SumFunctionOnSet(held[k], T) = 0
  PROVE  SumFunctionOnSet(total, T) = 0
<1>0. /\ held \in [K -> [T -> Int]] /\ price \in [K -> Int]
      /\ value \in [T -> [K -> Int]] /\ total \in [T -> Int]
      /\ \A t \in T, k \in K : value[t][k] = price[k] * held[k][t]
      /\ \A t \in T : total[t] = SumFunctionOnSet(value[t], K)
  BY DEF Valued
<1> DEFINE worth(S) == [t \in T |-> SumFunctionOnSet(value[t], S)]
           G == {S \in SUBSET K : SumFunctionOnSet(worth(S), T) = 0}
<1>1. \A S \in SUBSET K : IsFiniteSet(S) /\ \A t \in T : \A k \in S : value[t][k] \in Int
  BY <1>0, FS_Subset
<1>2. ASSUME NEW S \in SUBSET K, NEW t \in T
      PROVE  worth(S)[t] \in Int /\ worth(S)[t] = SumFunctionOnSet(value[t], S)
  <2>1. PICK f : f = value[t]
    OBVIOUS
  <2>2. SumFunctionOnSet(f, S) \in Int
    BY <1>1, <2>1, SumStep
  <2> QED
    BY <2>1, <2>2
<1>3. {} \in G
  <2>1. ASSUME NEW t \in T PROVE SumFunctionOnSet(value[t], {}) = 0
    <3>1. PICK f : f = value[t]
      OBVIOUS
    <3>2. IsFiniteSet({}) /\ \A k \in {} : f[k] \in Int
      BY FS_EmptySet
    <3> QED
      BY <3>1, <3>2, SumStep
  <2>2. PICK w : w = worth({})
    OBVIOUS
  <2>3. \A t \in T : w[t] = 0
    BY <2>1, <2>2
  <2>4. SumFunctionOnSet(w, T) = 0
    BY <2>3, SumZero
  <2> QED
    BY <2>2, <2>4
<1>4. ASSUME NEW S \in SUBSET K, S # {} PROVE \E k \in S : S \ {k} \in G => S \in G
  <2>1. PICK k \in S : TRUE
    BY <1>4
  <2>2. PICK R \in SUBSET K : R = S \ {k}
    OBVIOUS
  <2>3. ASSUME R \in G PROVE S \in G
    <3>1. PICK f, g, h, c : f = held[k] /\ g = worth(R) /\ h = worth(S) /\ c = price[k]
      OBVIOUS
    <3>2. ASSUME NEW t \in T
          PROVE  f[t] \in Int /\ g[t] \in Int /\ h[t] = c * f[t] + g[t]
      <4>1. PICK v : v = value[t]
        OBVIOUS
      <4>2. SumFunctionOnSet(v, S) = v[k] + SumFunctionOnSet(v, R)
        BY <1>1, <2>2, <4>1, SumRemove
      <4>3. v[k] = c * f[t]
        BY <1>0, <3>1, <4>1
      <4>4. h[t] = SumFunctionOnSet(v, S) /\ g[t] = SumFunctionOnSet(v, R) /\ g[t] \in Int
        BY <1>2, <3>1, <4>1
      <4>5. f[t] \in Int
        BY <1>0, <3>1
      <4> QED
        BY <4>2, <4>3, <4>4, <4>5
    <3>3. c \in Int /\ SumFunctionOnSet(f, T) = 0 /\ SumFunctionOnSet(g, T) = 0
      BY <1>0, <2>3, <3>1
    <3> HIDE DEF worth
    <3>4. SumFunctionOnSet(h, T) = c * SumFunctionOnSet(f, T) + SumFunctionOnSet(g, T)
      <4>1. Combines(h, c, f, g, T)
        BY <3>2 DEF Combines
      <4> QED
        BY <3>3, <4>1, SumLinear
    <3>5. SumFunctionOnSet(h, T) = 0
      BY <3>3, <3>4
    <3> QED
      BY <3>1, <3>5
  <2> QED
    BY <2>2, <2>3
<1>5. K \in G
  <2> HIDE DEF G
  <2>1. \A S \in SUBSET K : S \in G
    BY <1>3, <1>4, SubsetInduction
  <2> QED
    BY <2>1
<1>6. total = worth(K)
  BY <1>0
<1> QED
  BY <1>5, <1>6

\* The engine keeps it until something is traded below zero.
LEMMA EngineBalanced ==
  Spec /\ []NoneBelowZero => [](Inv /\ LedgerTyped /\ Balanced)
<1>1. Init => Balanced
  <2> SUFFICES ASSUME Init PROVE Balanced
    OBVIOUS
  <2>1. /\ CapitalOf = InitialCapital
        /\ HoldingsOf = [t \in Traders |-> [k \in Tickers |-> 0]]
    BY InitLedger DEF Accounts!Init
  <2>2. /\ \A t \in Traders : Gained[t] = 0
        /\ \A k \in Tickers, t \in Traders : Held[k][t] = 0
    BY <2>1, CapitalAssumption DEF Gained, Held
  <2>3. SumFunctionOnSet(Gained, Traders) = 0
    BY <2>2, FiniteAssumption, SumZero
  <2>4. ASSUME NEW k \in Tickers PROVE SumFunctionOnSet(Held[k], Traders) = 0
    BY <2>2, FiniteAssumption, SumZero
  <2> QED
    BY <2>3, <2>4 DEF Balanced
<1>2. Inv => LedgerTyped
  BY LedgerType DEF LedgerTyped
<1>3. Spec => [](Inv /\ LedgerInv)
  BY LedgerInvInvariant
<1>4. Inv /\ [Next]_vars => EngineStep
  BY NextIsEngineStep DEF Inv
<1> QED
  BY <1>1, <1>2, <1>3, <1>4, TradeBalanced, PTL DEF Spec

\* Who has not been added has neither won nor lost, and holds nothing.
StrangersInv ==
    /\ traders_ \subseteq Traders
    /\ \A t \in Traders \ traders_ :
        /\ portfolio[t].capital_delta = 0
        /\ portfolio[t].holdings = [k \in Tickers |-> 0]

LEMMA StrangersStep ==
  Inv /\ CycleInv /\ WhoInv' /\ StrangersInv /\ [CycleNext]_allVars => StrangersInv'
<1> SUFFICES ASSUME Inv, CycleInv, WhoInv', StrangersInv, [CycleNext]_allVars
             PROVE  StrangersInv'
  OBVIOUS
<1>1. traders_ \subseteq traders_' /\ traders_' \subseteq Traders
  BY DEF CycleNext, Place, PlaceCancel, AddTrader, Disable, Collect, Handle, Step, Report,
         EmptyTick, allVars, cycleVars, StrangersInv
<1>2. ASSUME NEW t \in Traders \ traders_'
      PROVE  /\ portfolio'[t].capital_delta = portfolio[t].capital_delta
             /\ portfolio'[t].holdings = portfolio[t].holdings
  <2>1. CASE Match
    <3>1. \A i \in DOMAIN matches' : t \notin {matches'[i].buyer, matches'[i].seller}
      BY <1>2 DEF WhoInv
    <3> QED
      BY <2>1, <3>1, MatchCapital
  <2>2. CASE ~Match
    <3>1. [Next]_vars
      BY CycleStep
    <3> QED
      BY <2>2, <3>1, NextIsEngineStep, OtherStepsMoney DEF SameMoney, Inv
  <2> QED
    BY <2>1, <2>2
<1> QED
  BY <1>1, <1>2 DEF StrangersInv

\* A midprice is a number.
LEMMA MidpriceType ==
  ASSUME BookType, NEW k \in Tickers
  PROVE  Midprice(k) \in Int
<1> DEFINE best(side) ==
             CHOOSE price \in {book[n].price : n \in TopOrder(k, side)} : TRUE
<1>1. CASE Queue(k, "buy") = {} \/ Queue(k, "sell") = {}
  BY <1>1 DEF Midprice
<1>2. CASE Queue(k, "buy") # {} /\ Queue(k, "sell") # {}
  <2>1. \A side \in Sides : TopOrder(k, side) # {}
    BY <1>2, TopExists DEF Sides
  <2>2. \A side \in Sides : \A n \in TopOrder(k, side) : book[n].price \in Int
    BY DEF TopOrder, Queue, BookType, OrderType
  <2>3. \A side \in Sides : best(side) \in Int
    BY <2>1, <2>2
  <2>4. Midprice(k) = Divide(best("buy") + best("sell"), 2 * One)
    BY <1>2 DEF Midprice
  <2> HIDE DEF best
  <2>5. PICK sum \in Int : sum = best("buy") + best("sell")
    <3>1. best("buy") \in Int /\ best("sell") \in Int
      BY <2>3 DEF Sides
    <3>2. best("buy") + best("sell") \in Int
      BY <3>1
    <3> QED
      BY <3>2
  <2>6. Divide(sum, 2 * One) \in Int
    BY DEF Divide, Quotient, One, Multiplier
  <2> QED
    BY <2>4, <2>5, <2>6
<1> QED
  BY <1>1, <1>2

\* What a trader has gained, its holdings at the midprice.
Worth ==
    [t \in Traders |->
        Widen(Narrow(portfolio[t].capital_delta)) + HoldingsValue(t)]

\* The state part of NobodyGainsOverall.
NobodyGains == 2 * SumFunctionOnSet(gauge, PnlKeys) <= Cardinality(PnlKeys)

\* What a gauge shows of a worth is too much by half a hundredth at most.
Shows(shown, worth) == 2 * Multiplier * shown <= 2 * worth + Multiplier

LEMMA WorthSum ==
  ASSUME Inv, LedgerTyped, Balanced, StrangersInv
  PROVE  /\ \A t \in Traders : /\ Worth[t] \in Int /\ HoldingsValue(t) \in Int
                               /\ Narrow(portfolio[t].capital_delta) \in Int
         /\ SumFunctionOnSet(Worth, traders_) <= 0
<1> DEFINE price == [k \in Tickers |-> Midprice(k)]
           value == [t \in Traders |-> [k \in Tickers |-> price[k] * Held[k][t]]]
           valued == [t \in Traders |-> SumFunctionOnSet(value[t], Tickers)]
<1>1. /\ IsFiniteSet(Traders) /\ IsFiniteSet(Tickers)
      /\ Held \in [Tickers -> [Traders -> Int]] /\ price \in [Tickers -> Int]
      /\ \A k \in Tickers : SumFunctionOnSet(Held[k], Traders) = 0
  BY FiniteAssumption, MidpriceType DEF LedgerTyped, Held, Balanced, Inv, TypeInv
<1>2. /\ value \in [Traders -> [Tickers -> Int]]
      /\ \A t \in Traders, k \in Tickers : value[t][k] = price[k] * Held[k][t]
  <2> HIDE DEF price
  <2>1. ASSUME NEW t \in Traders, NEW k \in Tickers PROVE price[k] * Held[k][t] \in Int
    <3>1. PICK a \in Int, b \in Int : a = price[k] /\ b = Held[k][t]
      BY <1>1
    <3>2. a * b \in Int
      OBVIOUS
    <3> QED
      BY <3>1, <3>2
  <2> QED
    BY <2>1
<1>3. SumFunctionOnSet(valued, Traders) = 0
  <2> HIDE DEF price, value
  <2>1. PICK p, v, h : p = price /\ v = value /\ h = Held
    OBVIOUS
  <2>2. /\ p \in [Tickers -> Int] /\ v \in [Traders -> [Tickers -> Int]]
        /\ h \in [Tickers -> [Traders -> Int]]
    BY <1>1, <1>2, <2>1
  <2>3. /\ \A t \in Traders, k \in Tickers : v[t][k] = p[k] * h[k][t]
        /\ \A k \in Tickers : SumFunctionOnSet(h[k], Traders) = 0
    <3>1. \A t \in Traders, k \in Tickers : v[t][k] = p[k] * h[k][t]
      BY <1>2, <2>1
    <3>2. \A k \in Tickers : SumFunctionOnSet(h[k], Traders) = 0
      BY <1>1, <2>1
    <3> QED
      BY <3>1, <3>2
  <2>4. IsFiniteSet(Traders) /\ IsFiniteSet(Tickers)
    BY <1>1
  <2>5. /\ valued \in [Traders -> Int]
        /\ \A t \in Traders : valued[t] = SumFunctionOnSet(v[t], Tickers)
    <3>1. \A t \in Traders : valued[t] = SumFunctionOnSet(v[t], Tickers)
      BY <2>1
    <3>2. ASSUME NEW t \in Traders PROVE SumFunctionOnSet(v[t], Tickers) \in Int
      <4>1. PICK f : f = v[t]
        OBVIOUS
      <4>2. \A k \in Tickers : f[k] \in Int
        BY <2>2, <4>1
      <4> QED
        BY <2>4, <4>1, <4>2, SumStep
    <3> QED
      BY <3>1, <3>2
  <2> HIDE DEF valued
  <2>6. Valued(v, valued, p, h, Traders, Tickers)
    BY <2>2, <2>3, <2>5 DEF Valued
  <2>7. \A k \in Tickers : SumFunctionOnSet(h[k], Traders) = 0
    BY <2>3
  <2> QED
    BY <2>4, <2>6, <2>7, ValuesCancel
<1>4. \A t \in Traders : HoldingsValue(t) = valued[t]
  <2> SUFFICES ASSUME NEW t \in Traders PROVE HoldingsValue(t) = valued[t]
    OBVIOUS
  <2>1. \A k \in Tickers :
          HighPrecisionTimes(portfolio[t].holdings[k], Midprice(k)) = value[t][k]
    <3> SUFFICES ASSUME NEW k \in Tickers
                 PROVE  HighPrecisionTimes(portfolio[t].holdings[k], Midprice(k))
                          = value[t][k]
      OBVIOUS
    <3>1. PICK a \in Int, b \in Int : a = price[k] /\ b = Held[k][t]
      BY <1>1
    <3>2. portfolio[t].holdings[k] = b /\ Midprice(k) = a
      BY <3>1 DEF Held, HoldingsOf
    <3>3. value[t][k] = a * b
      BY <3>1
    <3> QED
      BY <3>2, <3>3 DEF HighPrecisionTimes
  <2>2. value[t] = [k \in Tickers |->
                      HighPrecisionTimes(portfolio[t].holdings[k], Midprice(k))]
    BY <2>1
  <2>3. HoldingsValue(t) = SumFunctionOnSet(value[t], Tickers)
    <3> HIDE DEF value
    <3>1. DOMAIN value[t] = Tickers
      BY <2>2
    <3> QED
      BY <2>2, <3>1 DEF HoldingsValue, SumFunction
  <2> QED
    BY <2>3
<1>5. \A t \in Traders : valued[t] \in Int
  <2> SUFFICES ASSUME NEW t \in Traders PROVE valued[t] \in Int
    OBVIOUS
  <2>1. PICK f : f = value[t]
    OBVIOUS
  <2>2. \A k \in Tickers : f[k] \in Int
    BY <1>2, <2>1
  <2>3. SumFunctionOnSet(f, Tickers) \in Int
    BY <1>1, <2>2, SumStep
  <2> QED
    BY <2>1, <2>3
<1> HIDE DEF price, value, valued
<1>6. \A t \in Traders : /\ Gained[t] \in Int
                         /\ Gained[t] = Narrow(portfolio[t].capital_delta)
  <2> SUFFICES ASSUME NEW t \in Traders
               PROVE  Gained[t] \in Int /\ Gained[t] = Narrow(portfolio[t].capital_delta)
    OBVIOUS
  <2>1. portfolio[t].capital_delta \in Int /\ InitialCapital[t] \in Int
    BY CapitalAssumption DEF Inv, TypeInv, PortfolioType
  <2>2. Narrow(portfolio[t].capital_delta) \in Int
    BY <2>1 DEF Narrow, Quotient, Multiplier
  <2>3. Gained[t] = (InitialCapital[t] + Narrow(portfolio[t].capital_delta))
                      - InitialCapital[t]
    BY DEF Gained, CapitalOf, Capital
  <2> QED
    BY <2>1, <2>2, <2>3
<1>7. \A t \in Traders : Worth[t] = Multiplier * Gained[t] + valued[t] /\ Worth[t] \in Int
  BY <1>4, <1>5, <1>6 DEF Worth, Widen, Multiplier
<1>8. SumFunctionOnSet(Worth, Traders) <= 0
  <2>1. Combines(Worth, Multiplier, Gained, valued, Traders)
    BY <1>5, <1>6, <1>7 DEF Combines
  <2>2. SumFunctionOnSet(Worth, Traders)
          = Multiplier * SumFunctionOnSet(Gained, Traders) + SumFunctionOnSet(valued, Traders)
    BY <1>1, <2>1, SumLinear DEF Multiplier
  <2>3. SumFunctionOnSet(Gained, Traders) \in Int
    BY <1>1, <1>6, SumStep
  <2> QED
    BY <1>3, <2>2, <2>3 DEF Balanced, Multiplier
<1>9. SumFunctionOnSet(Worth, Traders) = SumFunctionOnSet(Worth, traders_)
  <2>1. ASSUME NEW t \in Traders \ traders_ PROVE Worth[t] = 0
    <3>1. portfolio[t].capital_delta = 0 /\ \A k \in Tickers : portfolio[t].holdings[k] = 0
      BY DEF StrangersInv
    <3>2. \A k \in Tickers : value[t][k] = 0
      <4> SUFFICES ASSUME NEW k \in Tickers PROVE value[t][k] = 0
        OBVIOUS
      <4>1. PICK a \in Int : a = price[k]
        BY <1>1
      <4>2. Held[k][t] = 0 /\ a * 0 = 0
        BY <3>1 DEF Held, HoldingsOf
      <4> QED
        BY <1>2, <4>1, <4>2
    <3>3. valued[t] = 0
      <4>1. PICK f : f = value[t]
        OBVIOUS
      <4>2. SumFunctionOnSet(f, Tickers) = 0
        BY <1>1, <3>2, <4>1, SumZero
      <4> QED
        BY <4>1, <4>2 DEF valued
    <3>4. Gained[t] = 0
      BY <1>6, <3>1 DEF Narrow, Quotient, Multiplier
    <3> QED
      BY <1>7, <3>3, <3>4 DEF Multiplier
  <2>2. traders_ \in SUBSET Traders /\ \A t \in Traders : Worth[t] \in Int
    BY <1>7 DEF StrangersInv
  <2> QED
    BY <1>1, <2>1, <2>2, SumOfPart
<1>10. \A t \in Traders : /\ HoldingsValue(t) \in Int
                           /\ Narrow(portfolio[t].capital_delta) \in Int
  BY <1>4, <1>5, <1>6
<1> QED
  BY <1>7, <1>8, <1>9, <1>10

\* Rounding to hundredths adds at most a half.
LEMMA RoundedShows ==
  ASSUME NEW v \in Int, NEW up
  PROVE  Rounded(v, up) \in Int /\ 2 * Multiplier * Rounded(v, up) <= 2 * v + Multiplier
<1>1. PICK half \in {Multiplier, Multiplier - 1} :
        Rounded(v, up) = (2 * v + half) \div (2 * Multiplier)
  BY DEF Rounded
<1> QED
  BY <1>1 DEF Multiplier

\* So do sums, by a half for each of the terms.
LEMMA SumShows ==
  ASSUME NEW S, IsFiniteSet(S), NEW f, NEW g,
         \A x \in S : f[x] \in Int /\ g[x] \in Int /\ Shows(f[x], g[x])
  PROVE  2 * Multiplier * SumFunctionOnSet(f, S)
           <= 2 * SumFunctionOnSet(g, S) + Multiplier * Cardinality(S)
<1> DEFINE G == {T \in SUBSET S :
        2 * Multiplier * SumFunctionOnSet(f, T)
          <= 2 * SumFunctionOnSet(g, T) + Multiplier * Cardinality(T)}
<1>1. \A T \in SUBSET S : IsFiniteSet(T) /\ \A x \in T : f[x] \in Int /\ g[x] \in Int
  BY FS_Subset
<1>2. ASSUME NEW T \in SUBSET S
      PROVE  /\ SumFunctionOnSet(f, T) \in Int /\ SumFunctionOnSet(g, T) \in Int
             /\ Cardinality(T) \in Nat
  <2>1. IsFiniteSet(T) /\ (\A x \in T : f[x] \in Int) /\ (\A x \in T : g[x] \in Int)
    BY <1>1
  <2>2. SumFunctionOnSet(f, T) \in Int
    BY <2>1, SumStep
  <2>3. SumFunctionOnSet(g, T) \in Int
    BY <2>1, SumStep
  <2> QED
    BY <2>1, <2>2, <2>3, FS_CardinalityType
<1>3. {} \in G
  <2>1. IsFiniteSet({}) /\ \A x \in {} : f[x] = 0 /\ g[x] = 0
    BY FS_EmptySet
  <2>2. SumFunctionOnSet(f, {}) = 0 /\ SumFunctionOnSet(g, {}) = 0
    BY <2>1, SumZero
  <2> QED
    BY <2>2, FS_EmptySet DEF Multiplier
<1>4. ASSUME NEW T \in SUBSET S, T # {} PROVE \E x \in T : T \ {x} \in G => T \in G
  <2>1. PICK x \in T : TRUE
    BY <1>4
  <2>2. PICK R \in SUBSET S : R = T \ {x}
    OBVIOUS
  <2>3. ASSUME R \in G PROVE T \in G
    <3>1. /\ SumFunctionOnSet(f, T) = f[x] + SumFunctionOnSet(f, R)
          /\ SumFunctionOnSet(g, T) = g[x] + SumFunctionOnSet(g, R)
      <4>1. IsFiniteSet(T) /\ (\A y \in T : f[y] \in Int) /\ (\A y \in T : g[y] \in Int)
        BY <1>1
      <4>2. SumFunctionOnSet(f, T) = f[x] + SumFunctionOnSet(f, R)
        BY <2>2, <4>1, SumRemove
      <4>3. SumFunctionOnSet(g, T) = g[x] + SumFunctionOnSet(g, R)
        BY <2>2, <4>1, SumRemove
      <4> QED
        BY <4>2, <4>3
    <3>2. Cardinality(T) = Cardinality(R) + 1
      <4>1. IsFiniteSet(T) /\ Cardinality(T) \in Nat
        BY <1>1, FS_CardinalityType
      <4>2. Cardinality(T \ {x}) = Cardinality(T) - 1
        BY <4>1, FS_RemoveElement
      <4> QED
        BY <2>2, <4>1, <4>2
    <3>3. PICK a \in Int, b \in Int, sf \in Int, sg \in Int, n \in Nat :
            /\ a = f[x] /\ b = g[x] /\ n = Cardinality(R)
            /\ sf = SumFunctionOnSet(f, R) /\ sg = SumFunctionOnSet(g, R)
      BY <1>2
    <3>4. /\ 2 * Multiplier * a <= 2 * b + Multiplier
          /\ 2 * Multiplier * sf <= 2 * sg + Multiplier * n
      BY <2>3, <3>3 DEF Shows
    <3>5. 2 * Multiplier * (a + sf) <= 2 * (b + sg) + Multiplier * (n + 1)
      BY <3>4 DEF Multiplier
    <3> QED
      BY <3>1, <3>2, <3>3, <3>5
  <2> QED
    BY <2>2, <2>3
<1> HIDE DEF G
<1>5. \A T \in SUBSET S : T \in G
  BY <1>3, <1>4, SubsetInduction
<1> QED
  BY <1>5 DEF G

\* The gauges of the profits are of traders that have been added.
PnlInv == PnlKeys \subseteq {"pnl"} \X traders_

\* post_cycle_ sets them all, to what each trader is worth but for the rounding.
LEMMA PostCyclePnl ==
  ASSUME PostCycle, PnlInv, traders_ \subseteq Traders,
         \A t \in traders_ : /\ HoldingsValue(t) \in Int
                             /\ Narrow(portfolio[t].capital_delta) \in Int
  PROVE  /\ PnlKeys' = {"pnl"} \X traders_
         /\ \A t \in traders_ : /\ gauge'[<<"pnl", t>>] \in Int
                                /\ Shows(gauge'[<<"pnl", t>>], Worth[t])
<1>0. PICK up \in SUBSET Halfway :
        gauge' = Over(MidpriceGauges, Over(BestGaugesSet,
                 Over(CapitalGauges, Over(PnlGauges(up), Over(HoldingsGauges, gauge)))))
  BY DEF PostCycle
<1> DEFINE shown == PnlGauges(up)
<1>1. PICK rest : rest = Over(shown, Over(HoldingsGauges, gauge))
  OBVIOUS
<1>2. PICK later : later = Over(CapitalGauges, rest)
  OBVIOUS
<1>3. gauge' = Over(MidpriceGauges, Over(BestGaugesSet, later))
  BY <1>0, <1>1, <1>2
<1>4. /\ DOMAIN shown = {"pnl"} \X traders_
      /\ \A t \in traders_ : /\ shown[<<"pnl", t>>] \in Int
                             /\ Shows(shown[<<"pnl", t>>], Worth[t])
  <2>1. DOMAIN shown = {"pnl"} \X traders_
    BY DEF PnlGauges
  <2>2. ASSUME NEW t \in traders_
        PROVE  /\ shown[<<"pnl", t>>] \in Int
               /\ Shows(shown[<<"pnl", t>>], Worth[t])
    <3>1. PICK won \in Int, v \in Int :
            won = Narrow(portfolio[t].capital_delta) /\ v = HoldingsValue(t)
      OBVIOUS
    <3>2. PICK r : r = Rounded(v, t \in up)
      OBVIOUS
    <3>3. r \in Int /\ 2 * Multiplier * r <= 2 * v + Multiplier
      BY <3>2, RoundedShows
    <3>4. shown[<<"pnl", t>>] = won + r
      BY <3>1, <3>2 DEF PnlGauges
    <3>5. Worth[t] = won * Multiplier + v
      BY <3>1 DEF Worth, Widen
    <3>6. 2 * Multiplier * (won + r) <= 2 * (won * Multiplier + v) + Multiplier
      BY <3>3 DEF Multiplier
    <3> QED
      BY <3>3, <3>4, <3>5, <3>6 DEF Shows
  <2> QED
    BY <2>1, <2>2
<1> HIDE DEF shown
<1>5. /\ \A key \in DOMAIN MidpriceGauges : key[1] # "pnl"
      /\ \A key \in DOMAIN BestGaugesSet : key[1] # "pnl"
      /\ \A key \in DOMAIN CapitalGauges : key[1] # "pnl"
      /\ \A key \in DOMAIN HoldingsGauges : key[1] # "pnl"
  <2>1. \A key \in DOMAIN MidpriceGauges : key[1] # "pnl"
    BY DEF MidpriceGauges
  <2>2. \A key \in DOMAIN BestGaugesSet : key[1] # "pnl"
    BY DEF BestGaugesSet, BestGauges
  <2>3. \A key \in DOMAIN CapitalGauges : key[1] # "pnl"
    BY DEF CapitalGauges
  <2>4. \A key \in DOMAIN HoldingsGauges : key[1] # "pnl"
    BY DEF HoldingsGauges
  <2> QED
    BY <2>1, <2>2, <2>3, <2>4
<1>6. \A key \in {"pnl"} \X traders_ : key[1] = "pnl"
  OBVIOUS
<1>7. /\ \A key \in {"pnl"} \X traders_ :
            key \in DOMAIN rest /\ rest[key] = shown[key]
      /\ \A key \in DOMAIN rest : key[1] = "pnl" => key \in {"pnl"} \X traders_
  <2>1. PICK had : had = Over(HoldingsGauges, gauge)
    OBVIOUS
  <2>2. \A key \in DOMAIN had : key[1] = "pnl" => key \in {"pnl"} \X traders_
    BY <1>5, <2>1 DEF Over, PnlInv, PnlKeys
  <2>3. rest = Over(shown, had)
    BY <1>1, <2>1
  <2> QED
    BY <1>4, <2>2, <2>3 DEF Over
<1>8. /\ \A key \in {"pnl"} \X traders_ :
            key \in DOMAIN later /\ later[key] = shown[key]
      /\ \A key \in DOMAIN later : key[1] = "pnl" => key \in {"pnl"} \X traders_
  BY <1>2, <1>5, <1>6, <1>7 DEF Over
<1>9. /\ \A key \in {"pnl"} \X traders_ :
            key \in DOMAIN gauge' /\ gauge'[key] = shown[key]
      /\ \A key \in DOMAIN gauge' : key[1] = "pnl" => key \in {"pnl"} \X traders_
  <2>1. PICK best : best = Over(BestGaugesSet, later)
    OBVIOUS
  <2>2. /\ \A key \in {"pnl"} \X traders_ :
              key \in DOMAIN best /\ best[key] = shown[key]
        /\ \A key \in DOMAIN best : key[1] = "pnl" => key \in {"pnl"} \X traders_
    BY <1>5, <1>6, <1>8, <2>1 DEF Over
  <2>3. gauge' = Over(MidpriceGauges, best)
    BY <1>3, <2>1
  <2> QED
    BY <1>5, <1>6, <2>2, <2>3 DEF Over
<1> QED
  BY <1>4, <1>6, <1>9 DEF PnlKeys

\* A step keeps the sum, which post_cycle_ makes from what the traders have.
LEMMA PnlStep ==
  /\ Inv /\ LedgerTyped /\ Balanced /\ StrangersInv /\ StrangersInv'
  /\ traders_ \subseteq traders_' /\ PnlInv /\ NobodyGains
  /\ [DevNext]_devVars
  => PnlInv' /\ NobodyGains'
<1> SUFFICES ASSUME Inv, LedgerTyped, Balanced, StrangersInv, StrangersInv',
                    traders_ \subseteq traders_', PnlInv, NobodyGains,
                    [DevNext]_devVars
             PROVE  PnlInv' /\ NobodyGains'
  OBVIOUS
<1>1. CASE PostCycle
  <2>1. /\ traders_ \subseteq Traders /\ IsFiniteSet(traders_) /\ traders_' = traders_
    <3>1. traders_ \subseteq Traders /\ IsFiniteSet(Traders)
      BY FiniteAssumption DEF StrangersInv
    <3>2. IsFiniteSet(traders_)
      BY <3>1, FS_Subset
    <3>3. traders_' = traders_
      BY <1>1 DEF PostCycle, allVars, cycleVars
    <3> QED
      BY <3>1, <3>2, <3>3
  <2>2. /\ \A t \in Traders : /\ Worth[t] \in Int /\ HoldingsValue(t) \in Int
                              /\ Narrow(portfolio[t].capital_delta) \in Int
        /\ SumFunctionOnSet(Worth, traders_) <= 0
    BY WorthSum
  <2>3. /\ PnlKeys' = {"pnl"} \X traders_
        /\ \A t \in traders_ : /\ gauge'[<<"pnl", t>>] \in Int
                               /\ Shows(gauge'[<<"pnl", t>>], Worth[t])
    <3>1. \A t \in traders_ : /\ HoldingsValue(t) \in Int
                              /\ Narrow(portfolio[t].capital_delta) \in Int
      BY <2>1, <2>2
    <3> QED
      BY <1>1, <2>1, <3>1, PostCyclePnl
  <2>4. PICK g, w, S, P : /\ g = gauge' /\ w = Worth /\ S = traders_
                         /\ P = {key \in DOMAIN g : key[1] = "pnl"}
    OBVIOUS
  <2>5. P = PnlKeys' /\ P = {"pnl"} \X S
    BY <2>3, <2>4 DEF PnlKeys
  <2>6. PICK h : h = [key \in P |-> w[key[2]]]
    OBVIOUS
  <2>7. \A t \in S : /\ w[t] \in Int /\ h[<<"pnl", t>>] = w[t]
                     /\ g[<<"pnl", t>>] \in Int /\ Shows(g[<<"pnl", t>>], w[t])
    BY <2>1, <2>2, <2>3, <2>4, <2>5, <2>6
  <2>8. Tagged(h, P, "pnl", w, S)
    BY <2>5, <2>7 DEF Tagged
  <2>9. SumFunctionOnSet(h, P) = SumFunctionOnSet(w, S)
    BY <2>1, <2>4, <2>8, SumTagged
  <2>10. IsFiniteSet(P)
    <3>1. IsFiniteSet({"pnl"}) /\ IsFiniteSet(S)
      BY <2>1, <2>4, FS_Singleton
    <3> QED
      BY <2>5, <3>1, FS_Product
  <2>11. \A key \in P : g[key] \in Int /\ h[key] \in Int /\ Shows(g[key], h[key])
    BY <2>5, <2>7
  <2>12. 2 * Multiplier * SumFunctionOnSet(g, P)
           <= 2 * SumFunctionOnSet(h, P) + Multiplier * Cardinality(P)
    BY <2>10, <2>11, SumShows
  <2>13. /\ SumFunctionOnSet(g, P) \in Int /\ SumFunctionOnSet(w, S) \in Int
         /\ Cardinality(P) \in Nat /\ SumFunctionOnSet(w, S) <= 0
    <3>1. \A key \in P : g[key] \in Int
      BY <2>11
    <3>2. SumFunctionOnSet(g, P) \in Int
      BY <2>10, <3>1, SumStep
    <3>3. IsFiniteSet(S) /\ \A t \in S : w[t] \in Int
      BY <2>1, <2>4, <2>7
    <3>4. SumFunctionOnSet(w, S) \in Int
      BY <3>3, SumStep
    <3> QED
      BY <2>2, <2>4, <2>10, <3>2, <3>4, FS_CardinalityType
  <2>14. 2 * SumFunctionOnSet(g, P) <= Cardinality(P)
    BY <2>9, <2>12, <2>13 DEF Multiplier
  <2>15. NobodyGains'
    BY <2>4, <2>5, <2>14 DEF NobodyGains
  <2> QED
    BY <2>1, <2>3, <2>15 DEF PnlInv
<1>2. CASE ~PostCycle
  <2>1. gauge' = gauge
    BY <1>2, GaugesKept
  <2> QED
    BY <2>1 DEF PnlInv, PnlKeys, NobodyGains
<1> QED
  BY <1>1, <1>2

LEMMA TradersStay == [CycleNext]_allVars => traders_ \subseteq traders_'
BY DEF CycleNext, Place, PlaceCancel, AddTrader, Disable, Collect, Handle, Step, Report,
       EmptyTick, allVars, cycleVars

\* By the profit and loss gauges of metrics/ the traders together never show a
\* gain beyond half a hundredth each, at whatever midprice their holdings are
\* valued and though every number is rounded, until something is sold at a price
\* below zero.
THEOREM DashboardBalances == DevSpec => NobodyGainsOverall
<1>1. DevInit => CycleInv /\ WhoInv /\ StrangersInv /\ PnlInv /\ NobodyGains
  <2> SUFFICES ASSUME DevInit
               PROVE  CycleInv /\ WhoInv /\ StrangersInv /\ PnlInv /\ NobodyGains
    OBVIOUS
  <2>1. /\ CycleInit /\ CycleInv /\ pipe = [t \in Traders |-> <<>>] /\ orders = {}
        /\ DOMAIN book = {} /\ incoming = NoOrder /\ matches = <<>>
        /\ traders_ = Present /\ portfolio = [t \in Traders |-> EmptyPortfolio]
    BY DEF DevInit, CycleInit, Init, CycleInv
  <2>2. WhoInv
    BY <2>1 DEF WhoInv, PipesOwn
  <2>3. StrangersInv
    BY <2>1, PresentAssumption DEF StrangersInv, EmptyPortfolio
  <2>4. PICK S : S = PnlKeys
    OBVIOUS
  <2>5. S = {} /\ PnlKeys = {}
    BY <2>4 DEF PnlKeys, DevInit
  <2>6. SumFunctionOnSet(gauge, S) = 0 /\ Cardinality(S) = 0
    <3>1. IsFiniteSet(S) /\ \A x \in S : gauge[x] = 0
      BY <2>5, FS_EmptySet
    <3> QED
      BY <2>5, <3>1, SumZero, FS_EmptySet
  <2> QED
    BY <2>1, <2>2, <2>3, <2>4, <2>5, <2>6 DEF PnlInv, NobodyGains
<1>2. DevSpec /\ []NoneBelowZero => [](Inv /\ LedgerTyped /\ Balanced)
  BY DevImplementsEngine, EngineBalanced, PTL DEF ImplementsEngine
<1>3. DevSpec /\ []NoneBelowZero => []NobodyGains
  BY <1>1, <1>2, DevStepIsCycleStep, CycleNextInv, WhoStep, StrangersStep, TradersStay,
     PnlStep, PTL DEF DevSpec
<1>4. /\ NobodyGains <=> 2 * SumFunctionOnSet(gauge, PnlKeys) <= Cardinality(PnlKeys)
      /\ NoneBelowZero <=> \A i \in DOMAIN matches : matches[i].price >= 0
  BY DEF NobodyGains, NoneBelowZero
<1> QED
  BY <1>3, <1>4, PTL DEF NobodyGainsOverall
=============================================================================
