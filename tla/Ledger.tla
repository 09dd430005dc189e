------------------------------- MODULE Ledger -------------------------------
(***************************************************************************)
(* What the exchange owes its traders, whatever the books do: the capital  *)
(* and the holdings of every trader change by trades only.  In a trade a   *)
(* buyer receives exactly the quantity the seller gives up; a trader that  *)
(* may not borrow buys with capital and sells from holdings it has.        *)
(*                                                                         *)
(* At a price that is not below zero the seller never receives more than   *)
(* the buyer pays, and the difference is the fee.  At a price below zero   *)
(* the seller pays the buyer.  Nobody asks whether it can, and the fee     *)
(* turns around: the buyer receives at least what the seller pays, and     *)
(* what is missing comes from nowhere.                                     *)
(***************************************************************************)
EXTENDS Integers

CONSTANTS Traders, Leveraged, Tickers, InitialCapital

VARIABLES capital, holdings

ledger == <<capital, holdings>>

Init ==
    /\ capital = InitialCapital
    /\ holdings = [t \in Traders |-> [k \in Tickers |-> 0]]

Paid(b) == capital[b] - capital'[b]
Received(s) == capital'[s] - capital[s]

\* b buys some quantity of k from s.
Deliver(b, s, k) ==
    LET quantity == holdings'[b][k] - holdings[b][k]
    IN /\ b # s
       /\ quantity > 0
       /\ b \notin Leveraged => Paid(b) <= capital[b]
       /\ s \notin Leveraged => quantity <= holdings[s][k]
       /\ capital' = [capital EXCEPT ![b] = @ - Paid(b), ![s] = @ + Received(s)]
       /\ holdings' = [holdings EXCEPT
                          ![b] = [holdings[b] EXCEPT ![k] = @ + quantity],
                          ![s] = [holdings[s] EXCEPT ![k] = @ - quantity]]

Trade(b, s, k) ==
    /\ Deliver(b, s, k)
    /\ 0 <= Received(s)
    /\ Received(s) <= Paid(b)

TradeBelowZero(b, s, k) ==
    /\ Deliver(b, s, k)
    /\ Paid(b) <= Received(s)
    /\ Received(s) <= 0

Next == \E b, s \in Traders, k \in Tickers :
            Trade(b, s, k) \/ TradeBelowZero(b, s, k)

Spec == Init /\ [][Next]_ledger

-----------------------------------------------------------------------------
TypeOK ==
    /\ capital \in [Traders -> Int]
    /\ holdings \in [Traders -> [Tickers -> Int]]

\* A trader that may not borrow never sells short.
HoldingsCovered ==
    \A t \in Traders \ Leveraged : \A k \in Tickers : holdings[t][k] >= 0

=============================================================================
