---------------------------- MODULE MCPortfolio -----------------------------
(* A small instance of Portfolio: one portfolio, two symbols, quantities   *)
(* of one and two.                                                         *)
EXTENDS Portfolio, TLC
CONSTANTS s1, s2

MCKinds == {"SUGGEST", "REBALANCE", "REFUND", "ADMIN"}
MCOwner == [p \in Portfolios |-> CHOOSE u \in Users : TRUE]

Change(action, symbol, qty) == [action |-> action, symbol |-> symbol, qty |-> qty]
MCEditLists ==
    { <<Change("insert", s2, 1)>>,
      <<Change("drop", s1, 1)>>,
      <<Change("replace", s1, 2)>>,
      <<Change("INCREASE", s1, 1)>>,
      <<Change("ADD", s2, 1), Change("DECREASE", s1, 1)>> }
Decreases == { <<Change("DECREASE", s2, 1)>> }

Move(type, amount) == [type |-> type, amount |-> amount]
MCCashMoves == {Move("DEPOSIT_CASH", 1), Move("WITHDRAW_CASH", 1), Move("SELL", 1)}

One == {s1 :> 1}
RequestSymmetry == Permutations(Requests)
=============================================================================
