------------------------------- MODULE TopUp --------------------------------
(***************************************************************************)
(* What the wallet promises about prepaid money, with no requests, no      *)
(* transactions and no gateway protocol: money for a payment is taken at   *)
(* most once, only taken money is credited, to the payer's account and at  *)
(* most once, and an account is never overdrawn.                           *)
(***************************************************************************)
EXTENDS Integers

CONSTANTS Users, Payments

VARIABLES
    funds,      \* what each account holds
    order,      \* the payer and the credit each payment was ordered for
    taken,      \* payments whose money the gateway has settled
    credited    \* payments that reached an account

topUpVars == <<funds, order, taken, credited>>

Unordered == [user |-> "nobody", amount |-> 0]

Init ==
    /\ funds \in [Users -> Nat]
    /\ order = [p \in Payments |-> Unordered]
    /\ taken = {}
    /\ credited = {}

(* The shop records who ordered what, once.                                *)
Order(p) ==
    /\ order[p] = Unordered
    /\ order'[p] \in [user: Users, amount: Nat]
    /\ order' = [order EXCEPT ![p] = order'[p]]
    /\ UNCHANGED <<funds, taken, credited>>

(* The gateway settles a payment that was ordered.                         *)
Take(p) ==
    /\ order[p] # Unordered
    /\ p \notin taken
    /\ taken' = taken \cup {p}
    /\ UNCHANGED <<funds, order, credited>>

Deliver(p) ==
    /\ p \in taken \ credited
    /\ credited' = credited \cup {p}
    /\ funds' = [funds EXCEPT ![order[p].user] = funds[order[p].user] + order[p].amount]
    /\ UNCHANGED <<order, taken>>

(* Fees, refunds and an admin's gift move money without a payment.         *)
Move(u) ==
    /\ funds'[u] \in Nat
    /\ funds' = [funds EXCEPT ![u] = funds'[u]]
    /\ UNCHANGED <<order, taken, credited>>

Next ==
    \/ \E p \in Payments : Order(p) \/ Take(p) \/ Deliver(p)
    \/ \E u \in Users : Move(u)

Spec == Init /\ [][Next]_topUpVars
=============================================================================
