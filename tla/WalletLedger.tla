---------------------------- MODULE WalletLedger ----------------------------
(***************************************************************************)
(* The two things every wallet movement touches: the balance column of the *)
(* user row and the append-only table of wallet transactions.  A movement  *)
(* is one UPDATE of the balance followed by one INSERT of a transaction    *)
(* row in the same database transaction; the UPDATE locks the user row     *)
(* until the commit, so the pair is atomic for every other writer.         *)
(***************************************************************************)
EXTENDS Integers, Sequences

CONSTANTS
    Users,        \* owners of a wallet
    MaxBalance,   \* MAX_BALANCE_RIAL
    IntMax,       \* largest value of the INT column that holds the balance
    Kinds,        \* the WalletTxKind values
    Refs,         \* what a row is about: a payment, or the request that wrote it
    NoRef

ASSUME LedgerAssumption ==
    /\ MaxBalance \in Nat
    /\ IntMax \in Nat
    /\ MaxBalance <= IntMax
    /\ NoRef \notin Refs

VARIABLES
    balance,   \* users.walletBalanceRial
    ledger     \* the rows of wallet_transactions of each user, in commit order

ledgerVars == <<balance, ledger>>

TransactionRow ==
    [kind: Kinds, amount: Int, after: Nat, ref: Refs \cup {NoRef}]

LedgerTypeOK ==
    /\ balance \in [Users -> 0..IntMax]
    /\ ledger \in [Users -> Seq(TransactionRow)]

(* The cap check reads a balance that may have moved before the update.    *)
UnderCap(read, amount) == read <= MaxBalance - amount

(* UPDATE ... increment, then INSERT with the balance the update returned. *)
Post(u, kind, amount, ref) ==
    /\ balance' = [balance EXCEPT ![u] = balance[u] + amount]
    /\ ledger' = [ledger EXCEPT ![u] =
                    Append(ledger[u], [kind   |-> kind,
                                       amount |-> amount,
                                       after  |-> balance[u] + amount,
                                       ref    |-> ref])]

(* Mutant: the decrement without its WHERE clause.                         *)
DebitUnguarded(u, kind, price, ref) == Post(u, kind, -price, ref)

(* The WHERE balance >= price of a debit is re-evaluated on the locked row. *)
Debit(u, kind, price, ref) ==
    /\ balance[u] >= price
    /\ Post(u, kind, -price, ref)

(* An increment past the width of the column makes the UPDATE fail.        *)
Credit(u, kind, amount, ref) ==
    /\ balance[u] + amount <= IntMax
    /\ Post(u, kind, amount, ref)

(* An account opened with money holds the row that put it there.           *)
OpeningRows(kind, amount) ==
    IF amount = 0 THEN << >>
    ELSE << [kind |-> kind, amount |-> amount, after |-> amount, ref |-> NoRef] >>

----------------------------------------------------------------------------
(* The balance a statement starts from when row i is the next one.         *)
Before(u, i) == IF i = 1 THEN 0 ELSE ledger[u][i - 1].after

(* The table explains the column: each row's balanceAfterRial is the one   *)
(* before it plus its own amount, and the last row carries the balance of  *)
(* the user row (credit, charge and handleCallback of the wallet).         *)
LedgerExplainsBalance ==
    \A u \in Users :
        /\ \A i \in DOMAIN ledger[u] :
              ledger[u][i].after = Before(u, i) + ledger[u][i].amount
        /\ balance[u] = Before(u, Len(ledger[u]) + 1)
=============================================================================
