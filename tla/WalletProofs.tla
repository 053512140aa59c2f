---------------------------- MODULE WalletProofs ----------------------------
(* Proofs about Wallet for any users, requests, payments and settings:     *)
(* its types, the chain of the ledger, the protocol between callbacks and  *)
(* the payment row, and from it that a payment is credited exactly once,   *)
(* only for settled money, and that a decided payment stays decided; that  *)
(* a refund undoes one charge; and that the wallet implements TopUp.       *)
EXTENDS Wallet, TLAPS

USE DEF ledgerVars, walletVars, requestVars, vars

(* A discount of at most 100% of a price leaves a price.                   *)
LEMMA DiscountedNat ==
    ASSUME NEW amount \in Nat, NEW pct \in 0..90
    PROVE  Discounted(amount, pct) \in Nat
<1>1. 100 - pct \in Nat
  OBVIOUS
<1>2. amount * (100 - pct) \in Nat
  BY <1>1
<1> QED
  BY <1>2 DEF Discounted

(* Posting a movement that fits the column keeps balance and ledger typed. *)
LEMMA PostTyped ==
    ASSUME LedgerTypeOK, NEW u \in Users, NEW kind \in Kinds, NEW amount \in Int,
           NEW ref \in Refs \cup {NoRef}, balance[u] + amount \in 0..IntMax,
           Post(u, kind, amount, ref)
    PROVE  LedgerTypeOK'
<1>1. balance' \in [Users -> 0..IntMax]
  BY DEF LedgerTypeOK, Post
<1> DEFINE row == [kind |-> kind, amount |-> amount, after |-> balance[u] + amount, ref |-> ref]
<1>2. row \in TransactionRow
  BY DEF TransactionRow
<1>3. Append(ledger[u], row) \in Seq(TransactionRow)
  BY <1>2 DEF LedgerTypeOK
<1>4. ledger' \in [Users -> Seq(TransactionRow)]
  BY <1>3 DEF LedgerTypeOK, Post
<1> QED
  BY <1>1, <1>4 DEF LedgerTypeOK

LEMMA DebitTyped ==
    ASSUME LedgerTypeOK, NEW u \in Users, NEW kind \in Kinds, NEW price \in Nat,
           NEW ref \in Refs \cup {NoRef}, Debit(u, kind, price, ref)
    PROVE  LedgerTypeOK'
<1>1. balance[u] \in 0..IntMax
  BY DEF LedgerTypeOK
<1>2. -price \in Int /\ balance[u] + -price \in 0..IntMax
  BY <1>1, LedgerAssumption DEF Debit
<1>3. Post(u, kind, -price, ref)
  BY DEF Debit
<1> QED
  BY <1>2, <1>3, PostTyped

LEMMA CreditTyped ==
    ASSUME LedgerTypeOK, NEW u \in Users, NEW kind \in Kinds, NEW amount \in Nat,
           NEW ref \in Refs \cup {NoRef}, Credit(u, kind, amount, ref)
    PROVE  LedgerTypeOK'
<1>1. balance[u] \in 0..IntMax
  BY DEF LedgerTypeOK
<1>2. amount \in Int /\ balance[u] + amount \in 0..IntMax
  BY <1>1, LedgerAssumption DEF Credit
<1>3. Post(u, kind, amount, ref)
  BY DEF Credit
<1> QED
  BY <1>2, <1>3, PostTyped

(* The initial rows satisfy their types.                                   *)
LEMMA InitTyped == Init => TypeOK
<1> SUFFICES ASSUME Init PROVE TypeOK
  OBVIOUS
<1>1. LedgerTypeOK
  <2>1. Opening \subseteq 0..IntMax
    BY LedgerAssumption, WalletAssumption
  <2>2. balance \in [Users -> 0..IntMax]
    BY <2>1 DEF Init
  <2>3. ASSUME NEW u \in Users PROVE OpeningRows("ADMIN", balance[u]) \in Seq(TransactionRow)
    <3> DEFINE row == [kind |-> "ADMIN", amount |-> balance[u],
                       after |-> balance[u], ref |-> NoRef]
    <3>1. balance[u] \in Nat
      BY <2>2
    <3>2. row \in TransactionRow
      BY <3>1, WalletAssumption DEF TransactionRow
    <3>3. << row >> \in Seq(TransactionRow) /\ << >> \in Seq(TransactionRow)
      BY <3>2
    <3> QED
      BY <3>3 DEF OpeningRows
  <2> QED
    BY <2>2, <2>3 DEF Init, LedgerTypeOK
<1>2. cfg \in Config
  BY WalletAssumption DEF Init, Config
<1>3. PICK u \in Users, p \in Authorities :
        /\ payment = [q \in Authorities |->
                        [status |-> "none", user |-> u, amount |-> 0, paid |-> 0]]
        /\ job = [r \in Requests |-> [user |-> u, amount |-> 0, paid |-> 0,
                                      pay |-> p, kind |-> "ADMIN"]]
  BY DEF Init
<1>4. payment \in [Authorities -> Payment] /\ job \in [Requests -> Job]
  BY <1>3, WalletAssumption DEF Payment, Job
<1>5. gateway \in [Authorities -> Session]
  BY DEF Init, Session
<1>6. at \in [Requests -> Places]
  BY DEF Init, Places
<1>7. seen \in [Requests -> 0..IntMax]
  BY LedgerAssumption DEF Init
<1> QED
  BY <1>1, <1>2, <1>4, <1>5, <1>6, <1>7 DEF Init, TypeOK

(* What a request binds, where it goes and what it shows stay typed.       *)
LEMMA GotoTyped ==
    ASSUME TypeOK, NEW r \in Requests, NEW place \in Places, Goto(r, place)
    PROVE  at' \in [Requests -> Places]
  BY DEF TypeOK, Goto

LEMMA ShowTyped ==
    ASSUME TypeOK, NEW r \in Requests, NEW result \in {"ok", "fail"}, Show(r, result)
    PROVE  /\ at' \in [Requests -> Places]
           /\ page' \in [Requests -> {"none", "ok", "fail"}]
  BY DEF TypeOK, Show, Goto, Places

(* Rebinding some fields of a job leaves it a job.                         *)
LEMMA FeeJobTyped ==
    ASSUME job \in [Requests -> Job], NEW r \in Requests,
           NEW u \in Users, NEW amount \in Nat, NEW kind \in Kinds
    PROVE  [job EXCEPT ![r].user = u, ![r].amount = amount, ![r].kind = kind]
              \in [Requests -> Job]
<1>1. [[[job[r] EXCEPT !.user = u] EXCEPT !.amount = amount] EXCEPT !.kind = kind] \in Job
  BY DEF Job
<1> QED
  BY <1>1

LEMMA ChargeJobTyped ==
    ASSUME job \in [Requests -> Job], NEW r \in Requests,
           NEW u \in Users, NEW amount \in Nat, NEW paid \in Nat
    PROVE  [job EXCEPT ![r].user = u, ![r].amount = amount, ![r].paid = paid]
              \in [Requests -> Job]
<1>1. [[[job[r] EXCEPT !.user = u] EXCEPT !.amount = amount] EXCEPT !.paid = paid] \in Job
  BY DEF Job
<1> QED
  BY <1>1

(* Every step keeps every variable in its type.                            *)
LEMMA StepTyped == TypeOK /\ [Next]_vars => TypeOK'
<1> SUFFICES ASSUME TypeOK, [Next]_vars PROVE TypeOK'
  OBVIOUS
<1>1. ASSUME NEW r \in Requests, NEW u \in Users, NEW amount \in Amounts,
             NEW pct \in Discounts, StartCharge(r, u, amount, pct)
      PROVE  TypeOK'
  <2>1. amount \in Nat /\ Discounted(amount, pct) \in Nat
    BY DiscountedNat, WalletAssumption
  <2>2. job' \in [Requests -> Job]
    BY <1>1, <2>1, ChargeJobTyped DEF StartCharge, TypeOK
  <2>3. at' \in [Requests -> Places]
    BY <1>1, GotoTyped DEF StartCharge, Places
  <2> QED
    BY <1>1, <2>2, <2>3 DEF StartCharge, TypeOK, LedgerTypeOK
<1>2. ASSUME NEW r \in Requests, NEW p \in Authorities, GatewayOpens(r, p) PROVE TypeOK'
  <2>1. job' \in [Requests -> Job]
    BY <1>2 DEF GatewayOpens, TypeOK, Job
  <2>2. job[r].paid \in Nat /\ draft[r].sandbox \in BOOLEAN
    BY DEF TypeOK, Job, Config
  <2>3. gateway' \in [Authorities -> Session]
    BY <1>2, <2>2 DEF GatewayOpens, TypeOK, Session
  <2>4. at' \in [Requests -> Places]
    BY <1>2, GotoTyped DEF GatewayOpens, Places
  <2> QED
    BY <1>2, <2>1, <2>3, <2>4 DEF GatewayOpens, TypeOK, LedgerTypeOK
<1>3. ASSUME NEW r \in Requests, CreatePayment(r) PROVE TypeOK'
  <2>1. job[r] \in Job
    BY DEF TypeOK
  <2>2. payment' \in [Authorities -> Payment]
    BY <1>3, <2>1 DEF CreatePayment, TypeOK, Job, Payment
  <2>3. at' \in [Requests -> Places]
    BY <1>3, GotoTyped DEF CreatePayment, Places
  <2> QED
    BY <1>3, <2>2, <2>3 DEF CreatePayment, TypeOK, LedgerTypeOK
<1>4. ASSUME NEW r \in Requests, NEW p \in Authorities, NEW status \in {"OK", "NOK"},
             Callback(r, p, status)
      PROVE  TypeOK'
  <2>1. at' \in [Requests -> Places] /\ page' \in [Requests -> {"none", "ok", "fail"}]
    BY <1>4, GotoTyped, ShowTyped DEF Callback, TypeOK, Places
  <2>2. payment[p] \in Payment
    BY DEF TypeOK
  <2>3. job' \in [Requests -> Job]
    BY <1>4, <2>2, WalletAssumption DEF Callback, TypeOK, Payment, Job
  <2> QED
    BY <1>4, <2>1, <2>3 DEF Callback, TypeOK, LedgerTypeOK
<1>5. ASSUME NEW r \in Requests, MarkFailed(r) PROVE TypeOK'
  <2>1. payment' \in [Authorities -> Payment]
    <3>1. CASE payment' = [payment EXCEPT ![job[r].pay].status = "FAILED"]
      BY <3>1 DEF TypeOK, Payment
    <3>2. CASE payment' = payment
      BY <3>2 DEF TypeOK
    <3> QED
      BY <1>5, <3>1, <3>2 DEF MarkFailed
  <2>2. at' \in [Requests -> Places] /\ page' \in [Requests -> {"none", "ok", "fail"}]
    BY <1>5, ShowTyped DEF MarkFailed
  <2> QED
    BY <1>5, <2>1, <2>2 DEF MarkFailed, TypeOK, LedgerTypeOK
<1>6. ASSUME NEW r \in Requests, ReadConfig(r) PROVE TypeOK'
  <2>1. at' \in [Requests -> Places] /\ page' \in [Requests -> {"none", "ok", "fail"}]
    BY <1>6, GotoTyped, ShowTyped DEF ReadConfig, TypeOK, Places
  <2> QED
    BY <1>6, <2>1 DEF ReadConfig, TypeOK, LedgerTypeOK
<1>7. ASSUME NEW r \in Requests, Verify(r) PROVE TypeOK'
  <2>1. at' \in [Requests -> Places] /\ page' \in [Requests -> {"none", "ok", "fail"}]
    BY <1>7, GotoTyped, ShowTyped DEF Verify, TypeOK, Places
  <2>2. gateway' \in [Authorities -> Session]
    <3>1. CASE gateway' = [gateway EXCEPT ![job[r].pay].state = "settled"]
      BY <3>1 DEF TypeOK, Session
    <3>2. CASE UNCHANGED gateway
      BY <3>2 DEF TypeOK
    <3> QED
      BY <1>7, <3>1, <3>2 DEF Verify
  <2> QED
    BY <1>7, <2>1, <2>2 DEF Verify, TypeOK, LedgerTypeOK
<1>8. ASSUME NEW r \in Requests, GatewayTimesOut(r) PROVE TypeOK'
  <2>1. at' \in [Requests -> Places] /\ page' \in [Requests -> {"none", "ok", "fail"}]
    BY <1>8, GotoTyped, ShowTyped DEF GatewayTimesOut, TypeOK, Places
  <2> QED
    BY <1>8, <2>1 DEF GatewayTimesOut, TypeOK, LedgerTypeOK
<1>9. ASSUME NEW r \in Requests, TakePayment(r) PROVE TypeOK'
  <2>1. at' \in [Requests -> Places] /\ page' \in [Requests -> {"none", "ok", "fail"}]
    BY <1>9, GotoTyped, ShowTyped DEF TakePayment, TypeOK, Places
  <2>2. balance[job[r].user] \in 0..IntMax
    BY DEF TypeOK, LedgerTypeOK, Job
  <2>3. /\ seen' \in [Requests -> 0..IntMax]
        /\ holder' \in [Authorities -> Requests \cup {NoRequest}]
    BY <1>9, <2>2 DEF TakePayment, TypeOK
  <2> QED
    BY <1>9, <2>1, <2>3 DEF TakePayment, TypeOK, LedgerTypeOK
<1>10. ASSUME NEW r \in Requests, CommitPayment(r) PROVE TypeOK'
  <2>1. /\ job[r].user \in Users /\ job[r].amount \in Nat
        /\ job[r].pay \in Refs /\ "GATEWAY" \in Kinds
    BY WalletAssumption DEF TypeOK, Job
  <2>2. LedgerTypeOK'
    BY <1>10, <2>1, CreditTyped DEF CommitPayment, TypeOK
  <2>3. payment' \in [Authorities -> Payment]
    <3>1. payment' = [payment EXCEPT ![job[r].pay].status = "PAID"]
      BY <1>10 DEF CommitPayment
    <3>2. payment \in [Authorities -> Payment]
      BY DEF TypeOK
    <3> QED
      BY <3>1, <3>2 DEF Payment
  <2>4. at' \in [Requests -> Places] /\ page' \in [Requests -> {"none", "ok", "fail"}]
    BY <1>10, ShowTyped DEF CommitPayment
  <2> QED
    BY <1>10, <2>2, <2>3, <2>4 DEF CommitPayment, TypeOK
<1>11. ASSUME NEW r \in Requests, RollbackPayment(r) PROVE TypeOK'
  <2>1. at' \in [Requests -> Places] /\ page' \in [Requests -> {"none", "ok", "fail"}]
    BY <1>11, ShowTyped DEF RollbackPayment
  <2> QED
    BY <1>11, <2>1 DEF RollbackPayment, TypeOK, LedgerTypeOK
<1>12. ASSUME NEW r \in Requests, NEW u \in Users, NEW amount \in Amounts,
              AdminCredit(r, u, amount)
       PROVE  TypeOK'
  <2>1. amount \in Nat /\ "ADMIN" \in Kinds
    BY WalletAssumption
  <2>2. job' \in [Requests -> Job]
    BY <1>12, <2>1, FeeJobTyped DEF AdminCredit, TypeOK
  <2>3. at' \in [Requests -> Places]
    BY <1>12, GotoTyped DEF AdminCredit, Places
  <2> QED
    BY <1>12, <2>2, <2>3 DEF AdminCredit, TypeOK, LedgerTypeOK
<1>13. ASSUME NEW r \in Requests, CreditRead(r) PROVE TypeOK'
  <2>1. at' \in [Requests -> Places]
    BY <1>13, GotoTyped DEF CreditRead, Places
  <2>2. balance[job[r].user] \in 0..IntMax
    BY DEF TypeOK, LedgerTypeOK, Job
  <2> QED
    BY <1>13, <2>1, <2>2 DEF CreditRead, TypeOK, LedgerTypeOK
<1>14. ASSUME NEW r \in Requests, CreditApply(r) PROVE TypeOK'
  <2>1. /\ job[r].user \in Users /\ job[r].amount \in Nat
        /\ job[r].kind \in Kinds /\ r \in Refs
    BY WalletAssumption DEF TypeOK, Job
  <2>2. LedgerTypeOK'
    <3>1. CASE Credit(job[r].user, job[r].kind, job[r].amount, r)
      BY <2>1, <3>1, CreditTyped DEF TypeOK
    <3>2. CASE UNCHANGED ledgerVars
      BY <3>2 DEF TypeOK, LedgerTypeOK
    <3> QED
      BY <1>14, <3>1, <3>2 DEF CreditApply
  <2>3. at' \in [Requests -> Places]
    BY <1>14, GotoTyped DEF CreditApply, Places
  <2> QED
    BY <1>14, <2>2, <2>3 DEF CreditApply, TypeOK
<1>15. ASSUME NEW r \in Requests, NEW u \in Users, NEW feature \in Features,
              Charge(r, u, feature)
       PROVE  TypeOK'
  <2>1. at' \in [Requests -> Places]
    BY <1>15, GotoTyped DEF Charge, Places
  <2>2. Price(feature) \in Nat /\ feature \in Kinds
    BY WalletAssumption DEF Price, TypeOK, Config
  <2>3. job' \in [Requests -> Job]
    BY <1>15, <2>2, FeeJobTyped DEF Charge, TypeOK
  <2> QED
    BY <1>15, <2>1, <2>3 DEF Charge, TypeOK, LedgerTypeOK
<1>16. ASSUME NEW r \in Requests, ChargeDebit(r) PROVE TypeOK'
  <2>1. /\ job[r].user \in Users /\ job[r].amount \in Nat
        /\ job[r].kind \in Kinds /\ r \in Refs
    BY WalletAssumption DEF TypeOK, Job
  <2>2. LedgerTypeOK'
    <3>1. CASE Debit(job[r].user, job[r].kind, job[r].amount, r)
      BY <2>1, <3>1, DebitTyped DEF TypeOK
    <3>2. CASE UNCHANGED ledgerVars
      BY <3>2 DEF TypeOK, LedgerTypeOK
    <3> QED
      BY <1>16, <3>1, <3>2 DEF ChargeDebit
  <2>3. at' \in [Requests -> Places]
    BY <1>16, GotoTyped DEF ChargeDebit, Places
  <2> QED
    BY <1>16, <2>2, <2>3 DEF ChargeDebit, TypeOK
<1>17. ASSUME NEW r \in Requests, KeepFee(r) PROVE TypeOK'
  <2>1. at' \in [Requests -> Places]
    BY <1>17, GotoTyped DEF KeepFee, Places
  <2> QED
    BY <1>17, <2>1 DEF KeepFee, TypeOK, LedgerTypeOK
<1>18. ASSUME NEW r \in Requests, Refund(r) PROVE TypeOK'
  <2>1. at' \in [Requests -> Places]
    BY <1>18, GotoTyped DEF Refund, Places
  <2>2. "REFUND" \in Kinds
    BY WalletAssumption
  <2>3. job' \in [Requests -> Job]
    BY <1>18, <2>2 DEF Refund, TypeOK, Job
  <2> QED
    BY <1>18, <2>1, <2>3 DEF Refund, TypeOK, LedgerTypeOK
<1>19. ASSUME NEW r \in Requests, NEW new \in Settings, SaveSettings(r, new) PROVE TypeOK'
  <2>1. new \in Config
    BY WalletAssumption DEF Config
  <2>2. [new EXCEPT !.merchant = new.merchant \/ cfg.merchant] \in Config
    BY <2>1 DEF Config
  <2>3. at' \in [Requests -> Places]
    BY <1>19, GotoTyped DEF SaveSettings, Places
  <2> QED
    BY <1>19, <2>2, <2>3 DEF SaveSettings, TypeOK, LedgerTypeOK
<1>20. ASSUME NEW r \in Requests, WriteSettings(r) PROVE TypeOK'
  <2>1. at' \in [Requests -> Places]
    BY <1>20, GotoTyped DEF WriteSettings, Places
  <2> QED
    BY <1>20, <2>1 DEF WriteSettings, TypeOK, LedgerTypeOK
<1>21. ASSUME NEW r \in Requests, RequestFails(r) PROVE TypeOK'
  <2>1. at' \in [Requests -> Places] /\ page' \in [Requests -> {"none", "ok", "fail"}]
    BY <1>21, GotoTyped, ShowTyped DEF RequestFails, TypeOK, Places
  <2> QED
    BY <1>21, <2>1 DEF RequestFails, TypeOK, LedgerTypeOK
<1>22. CASE Crash
  BY <1>22 DEF Crash, TypeOK, LedgerTypeOK, Places
<1>23. ASSUME NEW p \in Authorities, UserCancels(p) \/ UserPays(p) PROVE TypeOK'
  <2>1. gateway' \in [Authorities -> Session]
    BY <1>23 DEF UserCancels, UserPays, TypeOK, Session
  <2>2. redirects' \in [Authorities -> SUBSET {"OK", "NOK"}]
    BY <1>23 DEF UserCancels, UserPays, TypeOK
  <2> QED
    BY <1>23, <2>1, <2>2 DEF UserCancels, UserPays, TypeOK, LedgerTypeOK
<1>24. CASE UNCHANGED vars
  BY <1>24 DEF TypeOK, LedgerTypeOK
<1>25. ASSUME NEW r \in Requests, Begin(r) PROVE TypeOK'
  BY <1>25, <1>1, <1>4, <1>12, <1>15, <1>19 DEF Begin
<1>26. ASSUME NEW r \in Requests, Continue(r) PROVE TypeOK'
  BY <1>26, <1>2, <1>3, <1>5, <1>6, <1>7, <1>8, <1>9, <1>10, <1>11, <1>13, <1>14,
     <1>16, <1>17, <1>18, <1>20 DEF Continue
<1> QED
  BY <1>21, <1>22, <1>23, <1>24, <1>25, <1>26 DEF Next, Gateway

(* Type correctness of the wallet: in particular a balance is never        *)
(* negative and never leaves the width of its column, whatever requests    *)
(* race, fail or are lost.                                                 *)
THEOREM WalletTypeOK == Spec => []TypeOK
  BY InitTyped, StepTyped, PTL DEF Spec

----------------------------------------------------------------------------
(* A movement appends one row that continues the statement.                *)
LEMMA PostExplains ==
    ASSUME LedgerTypeOK, LedgerExplainsBalance,
           NEW u \in Users, NEW kind \in Kinds, NEW amount \in Int,
           NEW ref \in Refs \cup {NoRef}, Post(u, kind, amount, ref)
    PROVE  LedgerExplainsBalance'
<1> DEFINE row == [kind |-> kind, amount |-> amount, after |-> balance[u] + amount, ref |-> ref]
<1>1. ledger[u] \in Seq(TransactionRow) /\ Len(ledger[u]) \in Nat
  BY DEF LedgerTypeOK
<1>2. ledger'[u] = Append(ledger[u], row) /\ balance'[u] = balance[u] + amount
  BY DEF Post, LedgerTypeOK
<1>3. /\ Len(ledger'[u]) = Len(ledger[u]) + 1
      /\ DOMAIN ledger[u] = 1..Len(ledger[u])
      /\ DOMAIN ledger'[u] = 1..(Len(ledger[u]) + 1)
      /\ \A i \in 1..Len(ledger[u]) : ledger'[u][i] = ledger[u][i]
      /\ ledger'[u][Len(ledger[u]) + 1] = row
  BY <1>1, <1>2
<1>4. ASSUME NEW i \in 1..(Len(ledger[u]) + 1)
      PROVE  Before(u, i)' = Before(u, i)
  BY <1>1, <1>3, <1>4 DEF Before
<1>5. ASSUME NEW i \in DOMAIN ledger'[u]
      PROVE  ledger'[u][i].after = Before(u, i)' + ledger'[u][i].amount
  <2>1. CASE i \in 1..Len(ledger[u])
    BY <1>3, <1>4, <2>1 DEF LedgerExplainsBalance
  <2>2. CASE i = Len(ledger[u]) + 1
    BY <1>1, <1>3, <1>4, <2>2 DEF LedgerExplainsBalance
  <2> QED
    BY <1>1, <1>3, <1>5, <2>1, <2>2
<1>6. balance'[u] = Before(u, Len(ledger[u]) + 1)'
  BY <1>1, <1>2, <1>3 DEF Before
<1>7. ASSUME NEW v \in Users, v # u
      PROVE  ledger'[v] = ledger[v] /\ balance'[v] = balance[v]
  BY <1>7 DEF Post, LedgerTypeOK
<1>8. ASSUME NEW v \in Users
      PROVE  /\ \A i \in DOMAIN ledger'[v] :
                   ledger'[v][i].after = Before(v, i)' + ledger'[v][i].amount
             /\ balance'[v] = Before(v, Len(ledger[v]) + 1)'
  <2>1. CASE v = u
    BY <1>3, <1>5, <1>6, <2>1
  <2>2. CASE v # u
    BY <1>7, <2>2 DEF LedgerExplainsBalance, Before
  <2> QED
    BY <2>1, <2>2
<1> QED
  BY <1>8 DEF LedgerExplainsBalance

(* The initial rows of an account explain its opening balance.             *)
LEMMA InitExplains == Init => LedgerExplainsBalance
<1> SUFFICES ASSUME Init, NEW u \in Users
             PROVE  /\ \A i \in DOMAIN ledger[u] :
                          ledger[u][i].after = Before(u, i) + ledger[u][i].amount
                    /\ balance[u] = Before(u, Len(ledger[u]) + 1)
  BY DEF LedgerExplainsBalance
<1>1. ledger[u] = OpeningRows("ADMIN", balance[u]) /\ balance[u] \in Nat
  <2>1. Opening \subseteq Nat
    BY WalletAssumption, LedgerAssumption
  <2> QED
    BY <2>1 DEF Init
<1>2. CASE balance[u] = 0
  BY <1>1, <1>2 DEF OpeningRows, Before
<1>3. CASE balance[u] # 0
  <2> DEFINE row == [kind |-> "ADMIN", amount |-> balance[u],
                     after |-> balance[u], ref |-> NoRef]
  <2>1. ledger[u] = << row >>
    BY <1>1, <1>3 DEF OpeningRows
  <2>2. Len(ledger[u]) = 1 /\ DOMAIN ledger[u] = {1} /\ ledger[u][1] = row
    BY <2>1
  <2> QED
    BY <1>1, <2>2 DEF Before
<1> QED
  BY <1>2, <1>3

(* A step of the wallet posts one movement or leaves the money alone.      *)
LEMMA StepPosts ==
    ASSUME TypeOK, [Next]_vars
    PROVE  \/ UNCHANGED ledgerVars
           \/ \E u \in Users, kind \in Kinds, amount \in Int, ref \in Refs \cup {NoRef} :
                 Post(u, kind, amount, ref)
<1> DEFINE Posts == \E u \in Users, kind \in Kinds, amount \in Int, ref \in Refs \cup {NoRef} :
                      Post(u, kind, amount, ref)
<1>1. ASSUME NEW r \in Requests
      PROVE  /\ job[r].user \in Users /\ job[r].kind \in Kinds /\ "GATEWAY" \in Kinds
             /\ job[r].amount \in Int /\ -job[r].amount \in Int
             /\ r \in Refs /\ job[r].pay \in Refs
  <2>1. job[r] \in Job
    BY DEF TypeOK
  <2> QED
    BY <2>1, WalletAssumption DEF Job
<1>2. ASSUME NEW r \in Requests, CommitPayment(r) PROVE Posts
  BY <1>1, <1>2 DEF CommitPayment, Credit
<1>3. ASSUME NEW r \in Requests, CreditApply(r) PROVE Posts \/ UNCHANGED ledgerVars
  BY <1>1, <1>3 DEF CreditApply, Credit
<1>4. ASSUME NEW r \in Requests, ChargeDebit(r) PROVE Posts \/ UNCHANGED ledgerVars
  BY <1>1, <1>4 DEF ChargeDebit, Debit
<1>5. ASSUME NEW r \in Requests, Continue(r), ~CommitPayment(r), ~CreditApply(r), ~ChargeDebit(r)
      PROVE  UNCHANGED ledgerVars
  BY <1>5 DEF Continue, GatewayOpens, CreatePayment, MarkFailed, ReadConfig, Verify,
     GatewayTimesOut, TakePayment, RollbackPayment, CreditRead, KeepFee, Refund, WriteSettings
<1>6. ASSUME NEW r \in Requests, Begin(r) PROVE UNCHANGED ledgerVars
  BY <1>6 DEF Begin, StartCharge, Callback, AdminCredit, Charge, SaveSettings
<1>7. ASSUME NEW r \in Requests, RequestFails(r) PROVE UNCHANGED ledgerVars
  BY <1>7 DEF RequestFails
<1>8. CASE Gateway \/ Crash
  BY <1>8 DEF Gateway, UserCancels, UserPays, Crash
<1> QED
  BY <1>2, <1>3, <1>4, <1>5, <1>6, <1>7, <1>8 DEF Next

(* The audit property of the wallet: at any moment the transactions of a   *)
(* user chain up, row by row, to exactly the balance of the user row.      *)
THEOREM WalletLedgerExplains == Spec => []LedgerExplainsBalance
<1>1. TypeOK /\ LedgerExplainsBalance /\ [Next]_vars => LedgerExplainsBalance'
  <2> SUFFICES ASSUME TypeOK, LedgerExplainsBalance, [Next]_vars
               PROVE  LedgerExplainsBalance'
    OBVIOUS
  <2>1. CASE UNCHANGED ledgerVars
    BY <2>1 DEF LedgerExplainsBalance, Before
  <2>2. ASSUME NEW u \in Users, NEW kind \in Kinds, NEW amount \in Int,
               NEW ref \in Refs \cup {NoRef}, Post(u, kind, amount, ref)
        PROVE  LedgerExplainsBalance'
    BY <2>2, PostExplains DEF TypeOK
  <2> QED
    BY <2>1, <2>2, StepPosts
<1> QED
  BY <1>1, InitExplains, WalletTypeOK, PTL DEF Spec

----------------------------------------------------------------------------
(* What a step of request r leaves to the other requests.                  *)
Elsewhere(r) ==
    \A q \in Requests \ {r} : at'[q] = at[q] /\ job'[q] = job[q]

(* What the gateway does to an open session.                               *)
GatewayAdvances ==
    \A p \in Authorities :
        /\ gateway'[p].state = "none" <=> gateway[p].state = "none"
        /\ gateway'[p].amount = gateway[p].amount
        /\ gateway[p].state = "settled" => gateway'[p].state = "settled"

LEMMA SessionFrame ==
    ASSUME OneRowPerSession, NEW r \in Requests, Elsewhere(r),
           GatewayAdvances, at'[r] # "create",
           \A p \in Authorities : payment'[p].status = "none" <=> payment[p].status = "none",
           \A q \in Requests : job[q].pay \in Authorities
    PROVE  OneRowPerSession'
  BY DEF OneRowPerSession, Elsewhere, GatewayAdvances

LEMMA PriceFrame ==
    ASSUME PriceIsAgreed, NEW r \in Requests, Elsewhere(r),
           GatewayAdvances, at'[r] \notin {"request", "create"},
           \A q \in Requests : job[q].pay \in Authorities,
           Verified(r)' => gateway'[job'[r].pay].state = "settled",
           \A p \in Authorities :
              /\ payment'[p].status = "none" <=> payment[p].status = "none"
              /\ payment'[p].paid = payment[p].paid
              /\ payment'[p].amount = payment[p].amount
    PROVE  PriceIsAgreed'
<1>1. ASSUME NEW p \in Authorities, payment'[p].status # "none"
      PROVE  /\ gateway'[p].amount = payment'[p].paid
             /\ \E pct \in Discounts : payment'[p].paid = Discounted(payment'[p].amount, pct)
  BY <1>1 DEF PriceIsAgreed, GatewayAdvances
<1>2. ASSUME NEW q \in Requests, at'[q] \in {"request", "create"}
      PROVE  \E pct \in Discounts : job'[q].paid = Discounted(job'[q].amount, pct)
  BY <1>2 DEF PriceIsAgreed, Elsewhere
<1>3. ASSUME NEW q \in Requests, at'[q] = "create"
      PROVE  gateway'[job'[q].pay].amount = job'[q].paid
  BY <1>3 DEF PriceIsAgreed, Elsewhere, GatewayAdvances
<1>4. ASSUME NEW q \in Requests, Verified(q)'
      PROVE  gateway'[job'[q].pay].state = "settled"
  BY <1>4 DEF PriceIsAgreed, Elsewhere, Verified, GatewayAdvances
<1> QED
  BY <1>1, <1>2, <1>3, <1>4 DEF PriceIsAgreed

LEMMA InitProtocol == Init => PaymentProtocol
<1> SUFFICES ASSUME Init PROVE PaymentProtocol
  OBVIOUS
<1>1. \A p \in Authorities : payment[p].status = "none" /\ holder[p] = NoRequest
  BY DEF Init
<1>2. \A r \in Requests : at[r] = "idle"
  BY DEF Init
<1> QED
  BY <1>1, <1>2 DEF PaymentProtocol, LockDiscipline, ReadingIsCurrent, OneRowPerSession,
     PriceIsAgreed, InTransaction, PastReading, Verified

(* Steps of a request between the statements that write a payment row.     *)
LEMMA StepProtocol ==
    ASSUME TypeOK, PaymentProtocol, [Next]_vars
    PROVE  PaymentProtocol'
<1> USE DEF PaymentProtocol, InTransaction, PastReading, Goto, Show, Starts
<1>0. /\ at \in [Requests -> Places] /\ job \in [Requests -> Job]
      /\ payment \in [Authorities -> Payment] /\ gateway \in [Authorities -> Session]
      /\ holder \in [Authorities -> Requests \cup {NoRequest}]
      /\ \A r \in Requests : job[r].pay \in Authorities
  BY DEF TypeOK, Job
<1>1. ASSUME NEW r \in Requests, NEW u \in Users, NEW amount \in Amounts,
             NEW pct \in Discounts, StartCharge(r, u, amount, pct)
      PROVE  PaymentProtocol'
  <2>1. LockDiscipline'
    BY <1>0, <1>1 DEF StartCharge, LockDiscipline, Verified, Job, Payment, Session
  <2>2. ReadingIsCurrent'
    BY <1>0, <1>1 DEF StartCharge, ReadingIsCurrent, Verified, Job, Payment, Session
  <2>3. OneRowPerSession'
    BY <1>0, <1>1 DEF StartCharge, OneRowPerSession, Verified, Job, Payment, Session
  <2>4. PriceIsAgreed'
    BY <1>0, <1>1 DEF StartCharge, PriceIsAgreed, Verified, Job, Payment, Session
  <2> QED
    BY <2>1, <2>2, <2>3, <2>4
<1>2. ASSUME NEW r \in Requests, NEW p \in Authorities, GatewayOpens(r, p)
      PROVE  PaymentProtocol'
  <2>1. LockDiscipline'
    BY <1>0, <1>2 DEF GatewayOpens, LockDiscipline, OneRowPerSession, Verified, Job, Payment, Session
  <2>2. ReadingIsCurrent'
    BY <1>0, <1>2 DEF GatewayOpens, ReadingIsCurrent, OneRowPerSession, Verified, Job, Payment, Session
  <2>3. OneRowPerSession'
    BY <1>0, <1>2 DEF GatewayOpens, OneRowPerSession, Verified, Job, Payment, Session
  <2>4. PriceIsAgreed'
    BY <1>0, <1>2 DEF GatewayOpens, PriceIsAgreed, OneRowPerSession, Verified, Job, Payment, Session
  <2> QED
    BY <2>1, <2>2, <2>3, <2>4
<1>3. ASSUME NEW r \in Requests, CreatePayment(r)
      PROVE  PaymentProtocol'
  <2>1. LockDiscipline'
    BY <1>0, <1>3 DEF CreatePayment, LockDiscipline, OneRowPerSession, Verified, Job, Payment, Session
  <2>2. ReadingIsCurrent'
    BY <1>0, <1>3 DEF CreatePayment, ReadingIsCurrent, OneRowPerSession, Verified, Job, Payment, Session
  <2>3. OneRowPerSession'
    BY <1>0, <1>3 DEF CreatePayment, OneRowPerSession, Verified, Job, Payment, Session
  <2>4. PriceIsAgreed'
    BY <1>0, <1>3 DEF CreatePayment, PriceIsAgreed, OneRowPerSession, Verified, Job, Payment, Session
  <2> QED
    BY <2>1, <2>2, <2>3, <2>4
<1>4. ASSUME NEW r \in Requests, NEW p \in Authorities, NEW status \in {"OK", "NOK"},
             Callback(r, p, status)
      PROVE  PaymentProtocol'
  <2>0. /\ Elsewhere(r) /\ at'[r] \notin {"request", "create"}
        /\ GatewayAdvances
    BY <1>0, <1>4 DEF Callback, Elsewhere, GatewayAdvances
  <2>5. \A q \in Authorities : /\ payment'[q].status = "none" <=> payment[q].status = "none"
                              /\ payment'[q].paid = payment[q].paid
                              /\ payment'[q].amount = payment[q].amount
    BY <1>0, <1>4 DEF Callback, LockDiscipline, ReadingIsCurrent, Payment
  <2>6. Verified(r)' => gateway'[job'[r].pay].state = "settled"
    BY <1>0, <1>4 DEF Callback, Verified, PriceIsAgreed
  <2>1. LockDiscipline'
    BY <1>0, <1>4 DEF Callback, LockDiscipline, Payment
  <2>2. ReadingIsCurrent'
    BY <1>0, <1>4 DEF Callback, ReadingIsCurrent, Payment, Job
  <2>3. OneRowPerSession'
    BY <1>0, <2>0, <2>5, SessionFrame
  <2>4. PriceIsAgreed'
    BY <1>0, <2>0, <2>5, <2>6, PriceFrame
  <2> QED
    BY <2>1, <2>2, <2>3, <2>4
<1>5. ASSUME NEW r \in Requests, MarkFailed(r)
      PROVE  PaymentProtocol'
  <2>1. LockDiscipline'
    BY <1>0, <1>5 DEF MarkFailed, LockDiscipline, Verified, Job, Payment, Session
  <2>2. ReadingIsCurrent'
    BY <1>0, <1>5 DEF MarkFailed, ReadingIsCurrent, Verified, Job, Payment, Session
  <2>3. OneRowPerSession'
    BY <1>0, <1>5 DEF MarkFailed, OneRowPerSession, Verified, Job, Payment, Session
  <2>4. PriceIsAgreed'
    BY <1>0, <1>5 DEF MarkFailed, PriceIsAgreed, Verified, Job, Payment, Session
  <2> QED
    BY <2>1, <2>2, <2>3, <2>4
<1>6. ASSUME NEW r \in Requests, ReadConfig(r)
      PROVE  PaymentProtocol'
  <2>0. /\ Elsewhere(r) /\ at'[r] \notin {"request", "create"}
        /\ GatewayAdvances
    BY <1>0, <1>6 DEF ReadConfig, Elsewhere, GatewayAdvances
  <2>5. \A p \in Authorities : /\ payment'[p].status = "none" <=> payment[p].status = "none"
                              /\ payment'[p].paid = payment[p].paid
                              /\ payment'[p].amount = payment[p].amount
    BY <1>0, <1>6 DEF ReadConfig, LockDiscipline, ReadingIsCurrent, Payment
  <2>6. Verified(r)' => gateway'[job'[r].pay].state = "settled"
    BY <1>0, <1>6 DEF ReadConfig, Verified, PriceIsAgreed
  <2>1. LockDiscipline'
    BY <1>0, <1>6 DEF ReadConfig, LockDiscipline, Payment
  <2>2. ReadingIsCurrent'
    BY <1>0, <1>6 DEF ReadConfig, ReadingIsCurrent, Payment, Job
  <2>3. OneRowPerSession'
    BY <1>0, <2>0, <2>5, SessionFrame
  <2>4. PriceIsAgreed'
    BY <1>0, <2>0, <2>5, <2>6, PriceFrame
  <2> QED
    BY <2>1, <2>2, <2>3, <2>4
<1>7. ASSUME NEW r \in Requests, Verify(r)
      PROVE  PaymentProtocol'
  <2>0. Elsewhere(r) /\ at'[r] \notin {"request", "create"}
    BY <1>0, <1>7 DEF Verify, Elsewhere
  <2>5. /\ GatewayAdvances
        /\ Verified(r)' => gateway'[job'[r].pay].state = "settled"
    <3>1. CASE Acceptable(r, gateway[job[r].pay])
      BY <1>0, <1>7, <3>1 DEF Verify, Acceptable, GatewayAdvances, Verified, Session
    <3>2. CASE ~Acceptable(r, gateway[job[r].pay])
      BY <1>0, <1>7, <3>2 DEF Verify, GatewayAdvances, Verified
    <3> QED
      BY <3>1, <3>2
  <2>6. UNCHANGED <<payment, job, holder>>
    BY <1>7 DEF Verify
  <2>1. LockDiscipline'
    BY <1>0, <1>7 DEF Verify, LockDiscipline
  <2>2. ReadingIsCurrent'
    BY <1>0, <1>7 DEF Verify, ReadingIsCurrent, Job
  <2>3. OneRowPerSession'
    BY <1>0, <2>0, <2>5, <2>6, SessionFrame
  <2>4. PriceIsAgreed'
    BY <1>0, <2>0, <2>5, <2>6, PriceFrame
  <2> QED
    BY <2>1, <2>2, <2>3, <2>4
<1>8. ASSUME NEW r \in Requests, GatewayTimesOut(r)
      PROVE  PaymentProtocol'
  <2>0. /\ Elsewhere(r) /\ at'[r] \notin {"request", "create"}
        /\ GatewayAdvances
    BY <1>0, <1>8 DEF GatewayTimesOut, Elsewhere, GatewayAdvances
  <2>5. \A p \in Authorities : /\ payment'[p].status = "none" <=> payment[p].status = "none"
                              /\ payment'[p].paid = payment[p].paid
                              /\ payment'[p].amount = payment[p].amount
    BY <1>0, <1>8 DEF GatewayTimesOut, LockDiscipline, ReadingIsCurrent, Payment
  <2>6. Verified(r)' => gateway'[job'[r].pay].state = "settled"
    BY <1>0, <1>8 DEF GatewayTimesOut, Verified, PriceIsAgreed
  <2>1. LockDiscipline'
    BY <1>0, <1>8 DEF GatewayTimesOut, LockDiscipline, Payment
  <2>2. ReadingIsCurrent'
    BY <1>0, <1>8 DEF GatewayTimesOut, ReadingIsCurrent, Payment, Job
  <2>3. OneRowPerSession'
    BY <1>0, <2>0, <2>5, SessionFrame
  <2>4. PriceIsAgreed'
    BY <1>0, <2>0, <2>5, <2>6, PriceFrame
  <2> QED
    BY <2>1, <2>2, <2>3, <2>4
<1>9. ASSUME NEW r \in Requests, TakePayment(r)
      PROVE  PaymentProtocol'
  <2>0. /\ Elsewhere(r) /\ at'[r] \notin {"request", "create"}
        /\ GatewayAdvances
    BY <1>0, <1>9 DEF TakePayment, Elsewhere, GatewayAdvances
  <2>5. \A p \in Authorities : /\ payment'[p].status = "none" <=> payment[p].status = "none"
                              /\ payment'[p].paid = payment[p].paid
                              /\ payment'[p].amount = payment[p].amount
    BY <1>0, <1>9 DEF TakePayment, LockDiscipline, ReadingIsCurrent, Payment
  <2>6. Verified(r)' => gateway'[job'[r].pay].state = "settled"
    BY <1>0, <1>9 DEF TakePayment, Verified, PriceIsAgreed
  <2>1. LockDiscipline'
    <3>1. CASE payment[job[r].pay].status = "PENDING"
      <4>1. /\ holder[job[r].pay] = NoRequest
            /\ holder' = [holder EXCEPT ![job[r].pay] = r]
            /\ UNCHANGED <<payment, job>>
            /\ at' = [at EXCEPT ![r] = "commit"]
        BY <1>9, <3>1 DEF TakePayment
      <4>2. ASSUME NEW q \in Requests, at'[q] = "commit" PROVE holder'[job'[q].pay] = q
        <5>1. CASE q = r
          BY <1>0, <4>1, <5>1
        <5>2. CASE q # r
          <6>1. holder[job[q].pay] = q /\ q # NoRequest
            BY <1>0, <4>1, <4>2, <5>2, WalletAssumption DEF LockDiscipline
          <6> QED
            BY <1>0, <4>1, <6>1
        <5> QED
          BY <5>1, <5>2
      <4>3. ASSUME NEW p \in Authorities, holder'[p] # NoRequest
            PROVE  payment'[p].status = "PENDING"
        BY <1>0, <3>1, <4>1, <4>3 DEF LockDiscipline
      <4> QED
        BY <4>2, <4>3 DEF LockDiscipline
    <3>2. CASE payment[job[r].pay].status # "PENDING"
      BY <1>0, <1>9, <3>2 DEF TakePayment, LockDiscipline
    <3> QED
      BY <3>1, <3>2
  <2>2. ReadingIsCurrent'
    BY <1>0, <1>9 DEF TakePayment, ReadingIsCurrent, Payment, Job
  <2>3. OneRowPerSession'
    BY <1>0, <2>0, <2>5, SessionFrame
  <2>4. PriceIsAgreed'
    BY <1>0, <2>0, <2>5, <2>6, PriceFrame
  <2> QED
    BY <2>1, <2>2, <2>3, <2>4
<1>10. ASSUME NEW r \in Requests, CommitPayment(r)
      PROVE  PaymentProtocol'
  <2>0. /\ Elsewhere(r) /\ at'[r] \notin {"request", "create"}
        /\ GatewayAdvances
    BY <1>0, <1>10 DEF CommitPayment, Elsewhere, GatewayAdvances
  <2>5. \A p \in Authorities : /\ payment'[p].status = "none" <=> payment[p].status = "none"
                              /\ payment'[p].paid = payment[p].paid
                              /\ payment'[p].amount = payment[p].amount
    BY <1>0, <1>10 DEF CommitPayment, LockDiscipline, ReadingIsCurrent, Payment
  <2>6. Verified(r)' => gateway'[job'[r].pay].state = "settled"
    BY <1>0, <1>10 DEF CommitPayment, Verified, PriceIsAgreed
  <2>1. LockDiscipline'
    BY <1>0, <1>10 DEF CommitPayment, LockDiscipline, Payment
  <2>2. ReadingIsCurrent'
    BY <1>0, <1>10 DEF CommitPayment, ReadingIsCurrent, Payment, Job
  <2>3. OneRowPerSession'
    BY <1>0, <2>0, <2>5, SessionFrame
  <2>4. PriceIsAgreed'
    BY <1>0, <2>0, <2>5, <2>6, PriceFrame
  <2> QED
    BY <2>1, <2>2, <2>3, <2>4
<1>11. ASSUME NEW r \in Requests, RollbackPayment(r)
      PROVE  PaymentProtocol'
  <2>0. /\ Elsewhere(r) /\ at'[r] \notin {"request", "create"}
        /\ GatewayAdvances
    BY <1>0, <1>11 DEF RollbackPayment, Elsewhere, GatewayAdvances
  <2>5. \A p \in Authorities : /\ payment'[p].status = "none" <=> payment[p].status = "none"
                              /\ payment'[p].paid = payment[p].paid
                              /\ payment'[p].amount = payment[p].amount
    BY <1>0, <1>11 DEF RollbackPayment, LockDiscipline, ReadingIsCurrent, Payment
  <2>6. Verified(r)' => gateway'[job'[r].pay].state = "settled"
    BY <1>0, <1>11 DEF RollbackPayment, Verified, PriceIsAgreed
  <2>1. LockDiscipline'
    BY <1>0, <1>11 DEF RollbackPayment, LockDiscipline, Payment
  <2>2. ReadingIsCurrent'
    BY <1>0, <1>11 DEF RollbackPayment, ReadingIsCurrent, Payment, Job
  <2>3. OneRowPerSession'
    BY <1>0, <2>0, <2>5, SessionFrame
  <2>4. PriceIsAgreed'
    BY <1>0, <2>0, <2>5, <2>6, PriceFrame
  <2> QED
    BY <2>1, <2>2, <2>3, <2>4
<1>12. ASSUME NEW r \in Requests, NEW u \in Users, NEW amount \in Amounts,
             AdminCredit(r, u, amount)
      PROVE  PaymentProtocol'
  <2>0. /\ Elsewhere(r) /\ at'[r] \notin {"request", "create"}
        /\ GatewayAdvances
    BY <1>0, <1>12 DEF AdminCredit, Elsewhere, GatewayAdvances
  <2>5. \A p \in Authorities : /\ payment'[p].status = "none" <=> payment[p].status = "none"
                              /\ payment'[p].paid = payment[p].paid
                              /\ payment'[p].amount = payment[p].amount
    BY <1>0, <1>12 DEF AdminCredit, LockDiscipline, ReadingIsCurrent, Payment
  <2>6. Verified(r)' => gateway'[job'[r].pay].state = "settled"
    BY <1>0, <1>12 DEF AdminCredit, Verified, PriceIsAgreed
  <2>1. LockDiscipline'
    BY <1>0, <1>12 DEF AdminCredit, LockDiscipline, Payment
  <2>2. ReadingIsCurrent'
    BY <1>0, <1>12 DEF AdminCredit, ReadingIsCurrent, Payment, Job
  <2>3. OneRowPerSession'
    BY <1>0, <2>0, <2>5, SessionFrame
  <2>4. PriceIsAgreed'
    BY <1>0, <2>0, <2>5, <2>6, PriceFrame
  <2> QED
    BY <2>1, <2>2, <2>3, <2>4
<1>13. ASSUME NEW r \in Requests, CreditRead(r)
      PROVE  PaymentProtocol'
  <2>0. /\ Elsewhere(r) /\ at'[r] \notin {"request", "create"}
        /\ GatewayAdvances
    BY <1>0, <1>13 DEF CreditRead, Elsewhere, GatewayAdvances
  <2>5. \A p \in Authorities : /\ payment'[p].status = "none" <=> payment[p].status = "none"
                              /\ payment'[p].paid = payment[p].paid
                              /\ payment'[p].amount = payment[p].amount
    BY <1>0, <1>13 DEF CreditRead, LockDiscipline, ReadingIsCurrent, Payment
  <2>6. Verified(r)' => gateway'[job'[r].pay].state = "settled"
    BY <1>0, <1>13 DEF CreditRead, Verified, PriceIsAgreed
  <2>1. LockDiscipline'
    BY <1>0, <1>13 DEF CreditRead, LockDiscipline, Payment
  <2>2. ReadingIsCurrent'
    BY <1>0, <1>13 DEF CreditRead, ReadingIsCurrent, Payment, Job
  <2>3. OneRowPerSession'
    BY <1>0, <2>0, <2>5, SessionFrame
  <2>4. PriceIsAgreed'
    BY <1>0, <2>0, <2>5, <2>6, PriceFrame
  <2> QED
    BY <2>1, <2>2, <2>3, <2>4
<1>14. ASSUME NEW r \in Requests, CreditApply(r)
      PROVE  PaymentProtocol'
  <2>0. /\ Elsewhere(r) /\ at'[r] \notin {"request", "create"}
        /\ GatewayAdvances
    BY <1>0, <1>14 DEF CreditApply, Elsewhere, GatewayAdvances
  <2>5. \A p \in Authorities : /\ payment'[p].status = "none" <=> payment[p].status = "none"
                              /\ payment'[p].paid = payment[p].paid
                              /\ payment'[p].amount = payment[p].amount
    BY <1>0, <1>14 DEF CreditApply, LockDiscipline, ReadingIsCurrent, Payment
  <2>6. Verified(r)' => gateway'[job'[r].pay].state = "settled"
    BY <1>0, <1>14 DEF CreditApply, Verified, PriceIsAgreed
  <2>1. LockDiscipline'
    BY <1>0, <1>14 DEF CreditApply, LockDiscipline, Payment
  <2>2. ReadingIsCurrent'
    BY <1>0, <1>14 DEF CreditApply, ReadingIsCurrent, Payment, Job
  <2>3. OneRowPerSession'
    BY <1>0, <2>0, <2>5, SessionFrame
  <2>4. PriceIsAgreed'
    BY <1>0, <2>0, <2>5, <2>6, PriceFrame
  <2> QED
    BY <2>1, <2>2, <2>3, <2>4
<1>15. ASSUME NEW r \in Requests, NEW u \in Users, NEW feature \in Features,
             Charge(r, u, feature)
      PROVE  PaymentProtocol'
  <2>0. /\ Elsewhere(r) /\ at'[r] \notin {"request", "create"}
        /\ GatewayAdvances
    BY <1>0, <1>15 DEF Charge, Elsewhere, GatewayAdvances
  <2>5. \A p \in Authorities : /\ payment'[p].status = "none" <=> payment[p].status = "none"
                              /\ payment'[p].paid = payment[p].paid
                              /\ payment'[p].amount = payment[p].amount
    BY <1>0, <1>15 DEF Charge, LockDiscipline, ReadingIsCurrent, Payment
  <2>6. Verified(r)' => gateway'[job'[r].pay].state = "settled"
    BY <1>0, <1>15 DEF Charge, Verified, PriceIsAgreed
  <2>1. LockDiscipline'
    BY <1>0, <1>15 DEF Charge, LockDiscipline, Payment
  <2>2. ReadingIsCurrent'
    BY <1>0, <1>15 DEF Charge, ReadingIsCurrent, Payment, Job
  <2>3. OneRowPerSession'
    BY <1>0, <2>0, <2>5, SessionFrame
  <2>4. PriceIsAgreed'
    BY <1>0, <2>0, <2>5, <2>6, PriceFrame
  <2> QED
    BY <2>1, <2>2, <2>3, <2>4
<1>16. ASSUME NEW r \in Requests, ChargeDebit(r)
      PROVE  PaymentProtocol'
  <2>0. /\ Elsewhere(r) /\ at'[r] \notin {"request", "create"}
        /\ GatewayAdvances
    BY <1>0, <1>16 DEF ChargeDebit, Elsewhere, GatewayAdvances
  <2>5. \A p \in Authorities : /\ payment'[p].status = "none" <=> payment[p].status = "none"
                              /\ payment'[p].paid = payment[p].paid
                              /\ payment'[p].amount = payment[p].amount
    BY <1>0, <1>16 DEF ChargeDebit, LockDiscipline, ReadingIsCurrent, Payment
  <2>6. Verified(r)' => gateway'[job'[r].pay].state = "settled"
    BY <1>0, <1>16 DEF ChargeDebit, Verified, PriceIsAgreed
  <2>1. LockDiscipline'
    BY <1>0, <1>16 DEF ChargeDebit, LockDiscipline, Payment
  <2>2. ReadingIsCurrent'
    BY <1>0, <1>16 DEF ChargeDebit, ReadingIsCurrent, Payment, Job
  <2>3. OneRowPerSession'
    BY <1>0, <2>0, <2>5, SessionFrame
  <2>4. PriceIsAgreed'
    BY <1>0, <2>0, <2>5, <2>6, PriceFrame
  <2> QED
    BY <2>1, <2>2, <2>3, <2>4
<1>17. ASSUME NEW r \in Requests, KeepFee(r)
      PROVE  PaymentProtocol'
  <2>0. /\ Elsewhere(r) /\ at'[r] \notin {"request", "create"}
        /\ GatewayAdvances
    BY <1>0, <1>17 DEF KeepFee, Elsewhere, GatewayAdvances
  <2>5. \A p \in Authorities : /\ payment'[p].status = "none" <=> payment[p].status = "none"
                              /\ payment'[p].paid = payment[p].paid
                              /\ payment'[p].amount = payment[p].amount
    BY <1>0, <1>17 DEF KeepFee, LockDiscipline, ReadingIsCurrent, Payment
  <2>6. Verified(r)' => gateway'[job'[r].pay].state = "settled"
    BY <1>0, <1>17 DEF KeepFee, Verified, PriceIsAgreed
  <2>1. LockDiscipline'
    BY <1>0, <1>17 DEF KeepFee, LockDiscipline, Payment
  <2>2. ReadingIsCurrent'
    BY <1>0, <1>17 DEF KeepFee, ReadingIsCurrent, Payment, Job
  <2>3. OneRowPerSession'
    BY <1>0, <2>0, <2>5, SessionFrame
  <2>4. PriceIsAgreed'
    BY <1>0, <2>0, <2>5, <2>6, PriceFrame
  <2> QED
    BY <2>1, <2>2, <2>3, <2>4
<1>18. ASSUME NEW r \in Requests, Refund(r)
      PROVE  PaymentProtocol'
  <2>0. /\ Elsewhere(r) /\ at'[r] \notin {"request", "create"}
        /\ GatewayAdvances
    BY <1>0, <1>18 DEF Refund, Elsewhere, GatewayAdvances
  <2>5. \A p \in Authorities : /\ payment'[p].status = "none" <=> payment[p].status = "none"
                              /\ payment'[p].paid = payment[p].paid
                              /\ payment'[p].amount = payment[p].amount
    BY <1>0, <1>18 DEF Refund, LockDiscipline, ReadingIsCurrent, Payment
  <2>6. Verified(r)' => gateway'[job'[r].pay].state = "settled"
    BY <1>0, <1>18 DEF Refund, Verified, PriceIsAgreed
  <2>1. LockDiscipline'
    BY <1>0, <1>18 DEF Refund, LockDiscipline, Payment
  <2>2. ReadingIsCurrent'
    BY <1>0, <1>18 DEF Refund, ReadingIsCurrent, Payment, Job
  <2>3. OneRowPerSession'
    BY <1>0, <2>0, <2>5, SessionFrame
  <2>4. PriceIsAgreed'
    BY <1>0, <2>0, <2>5, <2>6, PriceFrame
  <2> QED
    BY <2>1, <2>2, <2>3, <2>4
<1>19. ASSUME NEW r \in Requests, NEW new \in Settings, SaveSettings(r, new)
      PROVE  PaymentProtocol'
  <2>0. /\ Elsewhere(r) /\ at'[r] \notin {"request", "create"}
        /\ GatewayAdvances
    BY <1>0, <1>19 DEF SaveSettings, Elsewhere, GatewayAdvances
  <2>5. \A p \in Authorities : /\ payment'[p].status = "none" <=> payment[p].status = "none"
                              /\ payment'[p].paid = payment[p].paid
                              /\ payment'[p].amount = payment[p].amount
    BY <1>0, <1>19 DEF SaveSettings, LockDiscipline, ReadingIsCurrent, Payment
  <2>6. Verified(r)' => gateway'[job'[r].pay].state = "settled"
    BY <1>0, <1>19 DEF SaveSettings, Verified, PriceIsAgreed
  <2>1. LockDiscipline'
    BY <1>0, <1>19 DEF SaveSettings, LockDiscipline, Payment
  <2>2. ReadingIsCurrent'
    BY <1>0, <1>19 DEF SaveSettings, ReadingIsCurrent, Payment, Job
  <2>3. OneRowPerSession'
    BY <1>0, <2>0, <2>5, SessionFrame
  <2>4. PriceIsAgreed'
    BY <1>0, <2>0, <2>5, <2>6, PriceFrame
  <2> QED
    BY <2>1, <2>2, <2>3, <2>4
<1>20. ASSUME NEW r \in Requests, WriteSettings(r)
      PROVE  PaymentProtocol'
  <2>0. /\ Elsewhere(r) /\ at'[r] \notin {"request", "create"}
        /\ GatewayAdvances
    BY <1>0, <1>20 DEF WriteSettings, Elsewhere, GatewayAdvances
  <2>5. \A p \in Authorities : /\ payment'[p].status = "none" <=> payment[p].status = "none"
                              /\ payment'[p].paid = payment[p].paid
                              /\ payment'[p].amount = payment[p].amount
    BY <1>0, <1>20 DEF WriteSettings, LockDiscipline, ReadingIsCurrent, Payment
  <2>6. Verified(r)' => gateway'[job'[r].pay].state = "settled"
    BY <1>0, <1>20 DEF WriteSettings, Verified, PriceIsAgreed
  <2>1. LockDiscipline'
    BY <1>0, <1>20 DEF WriteSettings, LockDiscipline, Payment
  <2>2. ReadingIsCurrent'
    BY <1>0, <1>20 DEF WriteSettings, ReadingIsCurrent, Payment, Job
  <2>3. OneRowPerSession'
    BY <1>0, <2>0, <2>5, SessionFrame
  <2>4. PriceIsAgreed'
    BY <1>0, <2>0, <2>5, <2>6, PriceFrame
  <2> QED
    BY <2>1, <2>2, <2>3, <2>4
<1>21. ASSUME NEW r \in Requests, RequestFails(r)
      PROVE  PaymentProtocol'
  <2>0. /\ Elsewhere(r) /\ at'[r] \notin {"request", "create"}
        /\ GatewayAdvances
    BY <1>0, <1>21 DEF RequestFails, Elsewhere, GatewayAdvances
  <2>5. \A p \in Authorities : /\ payment'[p].status = "none" <=> payment[p].status = "none"
                              /\ payment'[p].paid = payment[p].paid
                              /\ payment'[p].amount = payment[p].amount
    BY <1>0, <1>21 DEF RequestFails, LockDiscipline, ReadingIsCurrent, Payment
  <2>6. Verified(r)' => gateway'[job'[r].pay].state = "settled"
    BY <1>0, <1>21 DEF RequestFails, Verified, PriceIsAgreed
  <2>1. LockDiscipline'
    BY <1>0, <1>21 DEF RequestFails, LockDiscipline, Payment
  <2>2. ReadingIsCurrent'
    BY <1>0, <1>21 DEF RequestFails, ReadingIsCurrent, Payment, Job
  <2>3. OneRowPerSession'
    BY <1>0, <2>0, <2>5, SessionFrame
  <2>4. PriceIsAgreed'
    BY <1>0, <2>0, <2>5, <2>6, PriceFrame
  <2> QED
    BY <2>1, <2>2, <2>3, <2>4
<1>22. CASE Crash
  BY <1>0, <1>22 DEF Crash, LockDiscipline, ReadingIsCurrent, OneRowPerSession, PriceIsAgreed, Verified
<1>23. ASSUME NEW p \in Authorities, UserCancels(p) \/ UserPays(p)
       PROVE  PaymentProtocol'
  <2>1. UNCHANGED <<payment, job, holder, at>>
    BY <1>23 DEF UserCancels, UserPays
  <2>2. GatewayAdvances
    BY <1>0, <1>23 DEF UserCancels, UserPays, GatewayAdvances, Session
  <2>3. LockDiscipline' /\ ReadingIsCurrent'
    BY <2>1 DEF LockDiscipline, ReadingIsCurrent
  <2>4. OneRowPerSession'
    BY <1>0, <2>1, <2>2 DEF OneRowPerSession, GatewayAdvances
  <2>5. PriceIsAgreed'
    BY <1>0, <2>1, <2>2 DEF PriceIsAgreed, GatewayAdvances, Verified
  <2> QED
    BY <2>3, <2>4, <2>5
<1>24. CASE UNCHANGED vars
  BY <1>24 DEF LockDiscipline, ReadingIsCurrent, OneRowPerSession, PriceIsAgreed, Verified
<1>25. ASSUME NEW r \in Requests, Begin(r) PROVE PaymentProtocol'
  BY <1>25, <1>1, <1>4, <1>12, <1>15, <1>19 DEF Begin
<1>26. ASSUME NEW r \in Requests, Continue(r) PROVE PaymentProtocol'
  BY <1>26, <1>2, <1>3, <1>5, <1>6, <1>7, <1>8, <1>9, <1>10, <1>11, <1>13, <1>14,
     <1>16, <1>17, <1>18, <1>20 DEF Continue
<1> QED
  BY <1>21, <1>22, <1>23, <1>24, <1>25, <1>26 DEF Next, Gateway

(* The protocol of payments holds for any number of racing callbacks.      *)
THEOREM WalletPaymentProtocol == Spec => []PaymentProtocol
<1>1. TypeOK /\ PaymentProtocol /\ [Next]_vars => PaymentProtocol'
  BY StepProtocol
<1> QED
  BY <1>1, InitProtocol, WalletTypeOK, PTL DEF Spec

----------------------------------------------------------------------------
(* What a movement does to the rows of every ledger.                       *)
LEMMA PostRows ==
    ASSUME LedgerTypeOK, NEW u \in Users, NEW kind, NEW amount, NEW ref,
           Post(u, kind, amount, ref), NEW v \in Users
    PROVE  /\ DOMAIN ledger[v] \subseteq DOMAIN ledger'[v]
           /\ \A i \in DOMAIN ledger[v] : ledger'[v][i] = ledger[v][i]
           /\ \A i \in DOMAIN ledger'[v] \ DOMAIN ledger[v] :
                 /\ v = u
                 /\ i = Len(ledger[u]) + 1
                 /\ ledger'[v][i].ref = ref
                 /\ ledger'[v][i].amount = amount
                 /\ ledger'[v][i].kind = kind
           /\ v = u => /\ Len(ledger[u]) + 1 \in DOMAIN ledger'[u]
                       /\ ledger'[u][Len(ledger[u]) + 1].ref = ref
<1> DEFINE row == [kind |-> kind, amount |-> amount, after |-> balance[u] + amount, ref |-> ref]
<1>1. ledger[v] \in Seq(TransactionRow) /\ Len(ledger[v]) \in Nat
  BY DEF LedgerTypeOK
<1>2. CASE v = u
  <2>1. ledger'[u] = Append(ledger[u], row)
    BY DEF Post, LedgerTypeOK
  <2>2. /\ DOMAIN ledger[u] = 1..Len(ledger[u])
        /\ DOMAIN ledger'[u] = 1..(Len(ledger[u]) + 1)
        /\ \A i \in 1..Len(ledger[u]) : ledger'[u][i] = ledger[u][i]
        /\ ledger'[u][Len(ledger[u]) + 1] = row
    BY <1>1, <1>2, <2>1
  <2>3. 1..(Len(ledger[u]) + 1) = (1..Len(ledger[u])) \cup {Len(ledger[u]) + 1}
    BY <1>1, <1>2
  <2> QED
    BY <1>2, <2>2, <2>3
<1>3. CASE v # u
  BY <1>3 DEF Post, LedgerTypeOK
<1> QED
  BY <1>2, <1>3

(* A movement that is not about a payment disturbs no credit.              *)
LEMMA OtherMovement ==
    ASSUME LedgerTypeOK, CreditedExactlyOnce, UNCHANGED payment,
           \A p \in Authorities : payment[p].user \in Users,
           NEW u \in Users, NEW kind, NEW amount, NEW ref, ref \notin Authorities,
           Post(u, kind, amount, ref)
    PROVE  CreditedExactlyOnce'
<1>1. \A v \in Users : /\ DOMAIN ledger[v] \subseteq DOMAIN ledger'[v]
                       /\ \A i \in DOMAIN ledger[v] : ledger'[v][i] = ledger[v][i]
                       /\ \A i \in DOMAIN ledger'[v] :
                             ledger'[v][i].ref \in Authorities => i \in DOMAIN ledger[v]
  BY PostRows
<1>2. PaidIsCredited'
  BY <1>1 DEF CreditedExactlyOnce, PaidIsCredited
<1>3. CreditIsPaid'
  BY <1>1 DEF CreditedExactlyOnce, CreditIsPaid
<1>4. CreditIsUnique'
  BY <1>1 DEF CreditedExactlyOnce, CreditIsUnique
<1> QED
  BY <1>2, <1>3, <1>4 DEF CreditedExactlyOnce

(* The commit of a callback's transaction pays a row that was PENDING.     *)
LEMMA CommitCredits ==
    ASSUME TypeOK, PaymentProtocol, CreditedExactlyOnce,
           NEW r \in Requests, CommitPayment(r)
    PROVE  CreditedExactlyOnce'
<1> DEFINE p == job[r].pay
           u == job[r].user
           n == Len(ledger[u]) + 1
<1>1. /\ p \in Authorities /\ u \in Users /\ r # NoRequest
      /\ payment \in [Authorities -> Payment] /\ LedgerTypeOK
      /\ \A q \in Authorities : payment[q].user \in Users
  BY WalletAssumption DEF TypeOK, Job, Payment
<1>2. /\ payment[p].status = "PENDING"
      /\ payment[p].user = u /\ payment[p].amount = job[r].amount
  BY <1>1 DEF CommitPayment, PaymentProtocol, LockDiscipline, InTransaction, ReadingIsCurrent, PastReading
<1>3. /\ payment'[p].status = "PAID"
      /\ payment'[p].user = u /\ payment'[p].amount = job[r].amount
      /\ \A q \in Authorities \ {p} : payment'[q] = payment[q]
  BY <1>1, <1>2 DEF CommitPayment, Payment
<1>4. Post(u, "GATEWAY", job[r].amount, p)
  BY DEF CommitPayment, Credit
<1>5. \A v \in Users : \A i \in DOMAIN ledger[v] : ledger[v][i].ref # p
  BY <1>1, <1>2 DEF CreditedExactlyOnce, CreditIsPaid
<1>6. /\ \A v \in Users : /\ DOMAIN ledger[v] \subseteq DOMAIN ledger'[v]
                          /\ \A i \in DOMAIN ledger[v] : ledger'[v][i] = ledger[v][i]
                          /\ \A i \in DOMAIN ledger'[v] \ DOMAIN ledger[v] :
                               /\ v = u /\ i = n
                               /\ ledger'[v][i].ref = p /\ ledger'[v][i].amount = job[r].amount
      /\ n \in DOMAIN ledger'[u] /\ ledger'[u][n].ref = p
  BY <1>1, <1>4, PostRows
<1>7. PaidIsCredited'
  <2>1. ASSUME NEW q \in Authorities, payment'[q].status = "PAID"
        PROVE  \E i \in DOMAIN ledger'[payment'[q].user] : ledger'[payment'[q].user][i].ref = q
    <3>1. CASE q = p
      BY <1>3, <1>6, <3>1
    <3>2. CASE q # p
      <4>1. payment'[q] = payment[q] /\ payment[q].user \in Users
        BY <1>1, <1>3, <3>2
      <4>2. PICK i \in DOMAIN ledger[payment[q].user] : ledger[payment[q].user][i].ref = q
        BY <2>1, <4>1 DEF CreditedExactlyOnce, PaidIsCredited
      <4> QED
        BY <1>6, <4>1, <4>2
    <3> QED
      BY <3>1, <3>2
  <2> QED
    BY <2>1 DEF PaidIsCredited
<1>8. CreditIsPaid'
  <2>1. ASSUME NEW v \in Users, NEW i \in DOMAIN ledger'[v], ledger'[v][i].ref \in Authorities
        PROVE  /\ payment'[ledger'[v][i].ref].status = "PAID"
               /\ payment'[ledger'[v][i].ref].user = v
               /\ payment'[ledger'[v][i].ref].amount = ledger'[v][i].amount
    <3>1. CASE i \in DOMAIN ledger[v]
      <4>1. ledger'[v][i] = ledger[v][i] /\ ledger[v][i].ref # p
        BY <1>5, <1>6, <3>1
      <4>2. payment'[ledger[v][i].ref] = payment[ledger[v][i].ref]
        BY <1>3, <2>1, <4>1
      <4>3. /\ payment[ledger[v][i].ref].status = "PAID"
            /\ payment[ledger[v][i].ref].user = v
            /\ payment[ledger[v][i].ref].amount = ledger[v][i].amount
        BY <2>1, <3>1, <4>1 DEF CreditedExactlyOnce, CreditIsPaid
      <4> QED
        BY <4>1, <4>2, <4>3
    <3>2. CASE i \notin DOMAIN ledger[v]
      BY <1>3, <1>6, <3>2
    <3> QED
      BY <3>1, <3>2
  <2> QED
    BY <2>1 DEF CreditIsPaid
<1>9. CreditIsUnique'
  <2>1. ASSUME NEW v \in Users, NEW w \in Users,
               NEW i \in DOMAIN ledger'[v], NEW j \in DOMAIN ledger'[w],
               ledger'[v][i].ref \in Authorities, ledger'[v][i].ref = ledger'[w][j].ref
        PROVE  v = w /\ i = j
    <3>1. CASE ledger'[v][i].ref = p
      <4>1. ASSUME NEW x \in Users, NEW k \in DOMAIN ledger'[x], ledger'[x][k].ref = p
            PROVE  k \notin DOMAIN ledger[x]
        <5> SUFFICES ASSUME k \in DOMAIN ledger[x] PROVE FALSE
          OBVIOUS
        <5>1. ledger'[x][k] = ledger[x][k]
          BY <1>6
        <5> QED
          BY <1>5, <4>1, <5>1
      <4>2. v = u /\ i = n
        BY <1>6, <3>1, <4>1
      <4>3. w = u /\ j = n
        BY <1>6, <2>1, <3>1, <4>1
      <4> QED
        BY <4>2, <4>3
    <3>2. CASE ledger'[v][i].ref # p
      BY <1>6, <2>1, <3>2 DEF CreditedExactlyOnce, CreditIsUnique
    <3> QED
      BY <3>1, <3>2
  <2> QED
    BY <2>1 DEF CreditIsUnique
<1> QED
  BY <1>7, <1>8, <1>9 DEF CreditedExactlyOnce

(* A step that is no commit decides no payment PAID and undoes none.       *)
LEMMA PaidFrame ==
    ASSUME TypeOK, PaymentProtocol, [Next]_vars,
           \A r \in Requests : ~CommitPayment(r)
    PROVE  \A p \in Authorities :
              /\ payment[p].status \in {"PAID", "FAILED"} => payment'[p] = payment[p]
              /\ payment'[p].status = "PAID" => payment[p].status = "PAID"
<1> USE DEF PaymentProtocol
<1>0. /\ payment \in [Authorities -> Payment]
      /\ \A r \in Requests : job[r].pay \in Authorities
  BY DEF TypeOK, Job
<1>1. ASSUME NEW r \in Requests, CreatePayment(r)
      PROVE  \A p \in Authorities :
              /\ payment[p].status \in {"PAID", "FAILED"} => payment'[p] = payment[p]
              /\ payment'[p].status = "PAID" => payment[p].status = "PAID"
  BY <1>0, <1>1 DEF CreatePayment, OneRowPerSession
<1>2. ASSUME NEW r \in Requests, MarkFailed(r)
      PROVE  \A p \in Authorities :
              /\ payment[p].status \in {"PAID", "FAILED"} => payment'[p] = payment[p]
              /\ payment'[p].status = "PAID" => payment[p].status = "PAID"
  BY <1>0, <1>2 DEF MarkFailed, Payment
<1>3. ASSUME NEW r \in Requests, Continue(r), ~CreatePayment(r), ~MarkFailed(r), ~CommitPayment(r)
      PROVE  UNCHANGED payment
  BY <1>3 DEF Continue, GatewayOpens, ReadConfig, Verify, GatewayTimesOut, TakePayment,
     RollbackPayment, CreditRead, CreditApply, ChargeDebit, KeepFee, Refund, WriteSettings
<1>4. ASSUME NEW r \in Requests, Begin(r) \/ RequestFails(r) PROVE UNCHANGED payment
  BY <1>4 DEF Begin, StartCharge, Callback, AdminCredit, Charge, SaveSettings, RequestFails
<1>5. CASE Gateway \/ Crash \/ UNCHANGED vars
  BY <1>5 DEF Gateway, UserCancels, UserPays, Crash
<1> QED
  BY <1>1, <1>2, <1>3, <1>4, <1>5 DEF Next

(* Which statement a step that moves money is.                             *)
LEMMA MovingSteps ==
    ASSUME TypeOK, [Next]_vars, ~UNCHANGED ledgerVars, \A r \in Requests : ~CommitPayment(r)
    PROVE  /\ UNCHANGED payment
           /\ \E u \in Users, kind \in Kinds, amount \in Int, ref \in Requests :
                 Post(u, kind, amount, ref)
<1>1. ASSUME NEW r \in Requests
      PROVE  /\ job[r].user \in Users /\ job[r].kind \in Kinds
             /\ job[r].amount \in Int /\ -job[r].amount \in Int
  BY DEF TypeOK, Job
<1>2. ASSUME NEW r \in Requests, CreditApply(r)
      PROVE  /\ UNCHANGED payment
             /\ \E u \in Users, kind \in Kinds, amount \in Int, ref \in Requests :
                 Post(u, kind, amount, ref)
  BY <1>1, <1>2 DEF CreditApply, Credit
<1>3. ASSUME NEW r \in Requests, ChargeDebit(r)
      PROVE  /\ UNCHANGED payment
             /\ \E u \in Users, kind \in Kinds, amount \in Int, ref \in Requests :
                 Post(u, kind, amount, ref)
  BY <1>1, <1>3 DEF ChargeDebit, Debit
<1>4. ASSUME NEW r \in Requests, Continue(r), ~CreditApply(r), ~ChargeDebit(r)
      PROVE  FALSE
  BY <1>4 DEF Continue, GatewayOpens, CreatePayment, MarkFailed, ReadConfig, Verify,
     GatewayTimesOut, TakePayment, RollbackPayment, CreditRead, KeepFee, Refund, WriteSettings
<1>5. ASSUME NEW r \in Requests, Begin(r) \/ RequestFails(r) PROVE FALSE
  BY <1>5 DEF Begin, StartCharge, Callback, AdminCredit, Charge, SaveSettings, RequestFails
<1>6. CASE Gateway \/ Crash
  BY <1>6 DEF Gateway, UserCancels, UserPays, Crash
<1> QED
  BY <1>2, <1>3, <1>4, <1>5, <1>6 DEF Next

(* The most important property of the wallet: however often and in         *)
(* whatever order the gateway's redirects arrive, a payment is PAID        *)
(* exactly when its owner was credited for it, once and in full.           *)
THEOREM WalletCreditsOnce == Spec => []CreditedExactlyOnce
<1>1. Init => CreditedExactlyOnce
  <2> SUFFICES ASSUME Init PROVE CreditedExactlyOnce
    OBVIOUS
  <2>1. \A p \in Authorities : payment[p].status = "none"
    BY DEF Init
  <2>2. ASSUME NEW u \in Users, NEW i \in DOMAIN ledger[u] PROVE ledger[u][i].ref = NoRef
    BY DEF Init, OpeningRows
  <2>3. NoRef \notin Authorities
    BY WalletAssumption, LedgerAssumption
  <2> QED
    BY <2>1, <2>2, <2>3 DEF CreditedExactlyOnce, PaidIsCredited, CreditIsPaid, CreditIsUnique
<1>2. TypeOK /\ PaymentProtocol /\ CreditedExactlyOnce /\ [Next]_vars => CreditedExactlyOnce'
  <2> SUFFICES ASSUME TypeOK, PaymentProtocol, CreditedExactlyOnce, [Next]_vars
               PROVE  CreditedExactlyOnce'
    OBVIOUS
  <2>0. LedgerTypeOK /\ \A p \in Authorities : payment[p].user \in Users
    BY DEF TypeOK, Payment
  <2>1. CASE \E r \in Requests : CommitPayment(r)
    BY <2>1, CommitCredits
  <2>2. CASE (\A r \in Requests : ~CommitPayment(r)) /\ UNCHANGED ledgerVars
    BY <2>2, PaidFrame DEF CreditedExactlyOnce, PaidIsCredited, CreditIsPaid, CreditIsUnique
  <2>3. CASE (\A r \in Requests : ~CommitPayment(r)) /\ ~UNCHANGED ledgerVars
    <3>1. UNCHANGED payment
      BY <2>3, MovingSteps
    <3>2. PICK u \in Users, kind \in Kinds, amount \in Int, ref \in Requests :
                 Post(u, kind, amount, ref)
      BY <2>3, MovingSteps
    <3>3. ref \notin Authorities
      BY WalletAssumption
    <3> QED
      BY <2>0, <3>1, <3>2, <3>3, OtherMovement
  <2> QED
    BY <2>1, <2>2, <2>3
<1> QED
  BY <1>1, <1>2, WalletTypeOK, WalletPaymentProtocol, PTL DEF Spec

(* No callback reopens or re-decides a payment that was PAID or FAILED.    *)
THEOREM WalletDecidedIsFinal == Spec => DecidedIsFinal
<1> DEFINE Final == \A p \in Authorities :
                payment[p].status \in {"PAID", "FAILED"} => payment'[p] = payment[p]
<1>1. TypeOK /\ PaymentProtocol /\ [Next]_vars => [Final]_payment
  <2> SUFFICES ASSUME TypeOK, PaymentProtocol, [Next]_vars PROVE Final
    OBVIOUS
  <2>1. ASSUME NEW r \in Requests, CommitPayment(r) PROVE Final
    <3>1. /\ payment \in [Authorities -> Payment] /\ job[r].pay \in Authorities /\ r # NoRequest
      BY WalletAssumption DEF TypeOK, Job
    <3>2. payment[job[r].pay].status = "PENDING"
      BY <2>1, <3>1 DEF CommitPayment, PaymentProtocol, LockDiscipline, InTransaction
    <3> QED
      BY <2>1, <3>1, <3>2 DEF CommitPayment
  <2>2. CASE \A r \in Requests : ~CommitPayment(r)
    BY <2>2, PaidFrame
  <2> QED
    BY <2>1, <2>2
<1> QED
  BY <1>1, WalletTypeOK, WalletPaymentProtocol, PTL DEF Spec, DecidedIsFinal

----------------------------------------------------------------------------
(* Why a refund undoes one charge: until a request has written its refund  *)
(* no REFUND row bears its id, and a request that may still refund has     *)
(* left the row of its fee in the ledger of the user it charged.           *)
NoRefundYet(r) ==
    \A u \in Users : \A i \in DOMAIN ledger[u] :
        ledger[u][i].ref = r => ledger[u][i].kind # "REFUND"

FeeTaken(r) ==
    \E j \in DOMAIN ledger[job[r].user] :
        /\ ledger[job[r].user][j].ref = r
        /\ ledger[job[r].user][j].amount = -job[r].amount

Crediting(r) == at[r] \in {"read", "apply"}

RefundProtocol ==
    \A r \in Requests :
        /\ at[r] \in {"idle", "debit", "charged"} \/ Crediting(r) => NoRefundYet(r)
        /\ at[r] = "charged" \/ (Crediting(r) /\ job[r].kind = "REFUND") => FeeTaken(r)
        /\ at[r] = "debit" => job[r].kind # "REFUND"

(* A movement about something else leaves a request's rows as they were.   *)
LEMMA RowsOfOthers ==
    ASSUME TypeOK, NEW u \in Users, NEW kind, NEW amount, NEW ref,
           Post(u, kind, amount, ref), NEW q \in Requests, q # ref, job'[q] = job[q]
    PROVE  /\ NoRefundYet(q) => NoRefundYet(q)'
           /\ FeeTaken(q) => FeeTaken(q)'
<1>1. job[q].user \in Users /\ LedgerTypeOK
  BY DEF TypeOK, Job
<1>2. \A v \in Users :
        /\ DOMAIN ledger[v] \subseteq DOMAIN ledger'[v]
        /\ \A i \in DOMAIN ledger[v] : ledger'[v][i] = ledger[v][i]
        /\ \A i \in DOMAIN ledger'[v] \ DOMAIN ledger[v] : ledger'[v][i].ref = ref
  BY <1>1, PostRows
<1>3. NoRefundYet(q) => NoRefundYet(q)'
  BY <1>2 DEF NoRefundYet
<1>4. FeeTaken(q) => FeeTaken(q)'
  BY <1>1, <1>2 DEF FeeTaken
<1> QED
  BY <1>3, <1>4

(* A movement keeps refunds paired when it is none, or undoes a fee that   *)
(* no refund has undone.                                                   *)
LEMMA RefundPairs ==
    ASSUME LedgerTypeOK, RefundUndoesOneCharge,
           NEW u \in Users, NEW kind, NEW amount, NEW ref, Post(u, kind, amount, ref),
           kind = "REFUND" =>
              /\ NoRefundYet(ref)
              /\ \E j \in DOMAIN ledger[u] : ledger[u][j].ref = ref /\ ledger[u][j].amount = -amount
    PROVE  RefundUndoesOneCharge'
<1> DEFINE n == Len(ledger[u]) + 1
<1>1. \A v \in Users :
        /\ DOMAIN ledger[v] \subseteq DOMAIN ledger'[v]
        /\ \A i \in DOMAIN ledger[v] : ledger'[v][i] = ledger[v][i]
        /\ \A i \in DOMAIN ledger'[v] \ DOMAIN ledger[v] :
              /\ v = u /\ i = n
              /\ ledger'[v][i].ref = ref /\ ledger'[v][i].amount = amount
              /\ ledger'[v][i].kind = kind
  BY PostRows
<1>2. \A v \in Users : Len(ledger[v]) \in Nat /\ DOMAIN ledger[v] = 1..Len(ledger[v])
  BY DEF LedgerTypeOK
<1>3. ASSUME NEW v \in Users, NEW i \in DOMAIN ledger'[v], ledger'[v][i].kind = "REFUND"
      PROVE  /\ \E j \in 1..(i - 1) : /\ ledger'[v][j].ref = ledger'[v][i].ref
                                      /\ ledger'[v][j].amount = -ledger'[v][i].amount
             /\ \A j \in DOMAIN ledger'[v] :
                   ledger'[v][j].kind = "REFUND" /\ ledger'[v][j].ref = ledger'[v][i].ref => j = i
  <2>1. CASE i \in DOMAIN ledger[v]
    <3>1. ledger'[v][i] = ledger[v][i]
      BY <1>1, <2>1
    <3>2. PICK j \in 1..(i - 1) : /\ ledger[v][j].ref = ledger[v][i].ref
                                  /\ ledger[v][j].amount = -ledger[v][i].amount
      BY <1>3, <2>1, <3>1 DEF RefundUndoesOneCharge
    <3>3. j \in DOMAIN ledger[v]
      BY <1>2, <2>1
    <3>4. ledger'[v][j] = ledger[v][j]
      BY <1>1, <3>3
    <3>5. ASSUME NEW k \in DOMAIN ledger'[v], ledger'[v][k].kind = "REFUND",
                 ledger'[v][k].ref = ledger'[v][i].ref
          PROVE  k = i
      <4>1. CASE k \in DOMAIN ledger[v]
        BY <1>1, <1>3, <2>1, <3>1, <3>5, <4>1 DEF RefundUndoesOneCharge
      <4>2. CASE k \notin DOMAIN ledger[v]
        BY <1>1, <1>3, <2>1, <3>1, <3>5, <4>2 DEF NoRefundYet
      <4> QED
        BY <4>1, <4>2
    <3> QED
      BY <3>1, <3>2, <3>4, <3>5
  <2>2. CASE i \notin DOMAIN ledger[v]
    <3>1. /\ v = u /\ i = n /\ kind = "REFUND"
          /\ ledger'[v][i].ref = ref /\ ledger'[v][i].amount = amount
      BY <1>1, <1>3, <2>2
    <3>2. PICK j \in DOMAIN ledger[u] : ledger[u][j].ref = ref /\ ledger[u][j].amount = -amount
      BY <3>1
    <3>3. j \in 1..(i - 1) /\ ledger'[v][j] = ledger[v][j]
      BY <1>1, <1>2, <3>1, <3>2
    <3>4. ASSUME NEW k \in DOMAIN ledger'[v], ledger'[v][k].kind = "REFUND",
                 ledger'[v][k].ref = ledger'[v][i].ref
          PROVE  k = i
      BY <1>1, <3>1, <3>4 DEF NoRefundYet
    <3> QED
      BY <3>1, <3>2, <3>3, <3>4
  <2> QED
    BY <2>1, <2>2
<1> QED
  BY <1>3 DEF RefundUndoesOneCharge

(* How a request that moves no money comes nearer to a refund.             *)
Approaches(q) ==
    \/ at'[q] = at[q] /\ job'[q] = job[q]
    \/ at'[q] \notin {"idle", "debit", "charged", "read", "apply"}
    \/ at[q] = "idle" /\ at'[q] \in {"debit", "read"} /\ job'[q].kind # "REFUND"
    \/ at[q] = "read" /\ at'[q] = "apply" /\ job'[q] = job[q]
    \/ /\ at[q] = "charged" /\ at'[q] = "read"
       /\ job'[q].user = job[q].user /\ job'[q].amount = job[q].amount

LEMMA QuietSteps ==
    ASSUME TypeOK, [Next]_vars,
           \A r \in Requests : ~CommitPayment(r) /\ ~CreditApply(r) /\ ~ChargeDebit(r)
    PROVE  UNCHANGED ledger /\ \A q \in Requests : Approaches(q)
<1> DEFINE Quiet == UNCHANGED ledger /\ \A q \in Requests : Approaches(q)
<1> USE DEF Approaches, Goto, Show, Starts
<1>0. at \in [Requests -> Places] /\ job \in [Requests -> Job]
  BY DEF TypeOK
<1>1. ASSUME NEW r \in Requests, Begin(r) PROVE Quiet
  <2>1. ASSUME NEW u \in Users, NEW amount \in Amounts, NEW pct \in Discounts,
               StartCharge(r, u, amount, pct)
        PROVE  Quiet
    BY <1>0, <2>1 DEF StartCharge
  <2>2. ASSUME NEW p \in Authorities, NEW status, Callback(r, p, status) PROVE Quiet
    BY <1>0, <2>2 DEF Callback
  <2>3. ASSUME NEW u \in Users, NEW amount \in Amounts, AdminCredit(r, u, amount) PROVE Quiet
    BY <1>0, <2>3 DEF AdminCredit, Job
  <2>4. ASSUME NEW u \in Users, NEW feature \in Features, Charge(r, u, feature) PROVE Quiet
    BY <1>0, <2>4, WalletAssumption DEF Charge, Job
  <2>5. ASSUME NEW new, SaveSettings(r, new) PROVE Quiet
    BY <1>0, <2>5 DEF SaveSettings
  <2> QED
    BY <1>1, <2>1, <2>2, <2>3, <2>4, <2>5 DEF Begin
<1>2. ASSUME NEW r \in Requests, Continue(r), ~CommitPayment(r), ~CreditApply(r), ~ChargeDebit(r)
      PROVE  Quiet
  <2>1. ASSUME NEW p \in Authorities, GatewayOpens(r, p) PROVE Quiet
    BY <1>0, <2>1 DEF GatewayOpens
  <2>2. CASE CreatePayment(r) \/ WriteSettings(r)
    BY <1>0, <2>2 DEF CreatePayment, WriteSettings
  <2>3. CASE MarkFailed(r) \/ ReadConfig(r)
    BY <1>0, <2>3 DEF MarkFailed, ReadConfig
  <2>4. CASE Verify(r) \/ GatewayTimesOut(r)
    BY <1>0, <2>4 DEF Verify, GatewayTimesOut
  <2>5. CASE TakePayment(r) \/ RollbackPayment(r)
    BY <1>0, <2>5 DEF TakePayment, RollbackPayment
  <2>6. CASE CreditRead(r) \/ KeepFee(r)
    BY <1>0, <2>6 DEF CreditRead, KeepFee
  <2>7. CASE Refund(r)
    BY <1>0, <2>7 DEF Refund, Job
  <2> QED
    BY <1>2, <2>1, <2>2, <2>3, <2>4, <2>5, <2>6, <2>7 DEF Continue
<1>3. ASSUME NEW r \in Requests, RequestFails(r) PROVE Quiet
  BY <1>0, <1>3 DEF RequestFails
<1>4. CASE Gateway \/ Crash \/ UNCHANGED vars
  BY <1>0, <1>4 DEF Gateway, UserCancels, UserPays, Crash
<1> QED
  BY <1>1, <1>2, <1>3, <1>4 DEF Next

(* Every step keeps the rows of the requests that may still refund.        *)
LEMMA StepRefunds ==
    ASSUME TypeOK, RefundProtocol, RefundUndoesOneCharge, [Next]_vars
    PROVE  RefundProtocol' /\ RefundUndoesOneCharge'
<1> DEFINE Kept(q) ==
            /\ at'[q] \in {"idle", "debit", "charged"} \/ Crediting(q)' => NoRefundYet(q)'
            /\ at'[q] = "charged" \/ (Crediting(q)' /\ job'[q].kind = "REFUND") => FeeTaken(q)'
            /\ at'[q] = "debit" => job'[q].kind # "REFUND"
<1>0. /\ LedgerTypeOK
      /\ at \in [Requests -> Places] /\ job \in [Requests -> Job]
      /\ \A q \in Requests : job[q].user \in Users /\ job[q].pay \notin Requests
  BY WalletAssumption DEF TypeOK, Job
<1>1. ASSUME NEW r \in Requests, CommitPayment(r)
      PROVE  RefundProtocol' /\ RefundUndoesOneCharge'
  <2>1. /\ Post(job[r].user, "GATEWAY", job[r].amount, job[r].pay)
        /\ UNCHANGED job /\ at' = [at EXCEPT ![r] = "done"]
    BY <1>1 DEF CommitPayment, Credit, Show, Goto
  <2>2. RefundUndoesOneCharge'
    BY <1>0, <2>1, RefundPairs
  <2>3. ASSUME NEW q \in Requests PROVE Kept(q)
    <3>1. (NoRefundYet(q) => NoRefundYet(q)') /\ (FeeTaken(q) => FeeTaken(q)')
      BY <1>0, <2>1, RowsOfOthers
    <3> QED
      BY <1>0, <2>1, <3>1 DEF RefundProtocol, Crediting
  <2> QED
    BY <2>2, <2>3 DEF RefundProtocol
<1>2. ASSUME NEW r \in Requests, CreditApply(r),
             Credit(job[r].user, job[r].kind, job[r].amount, r)
      PROVE  RefundProtocol' /\ RefundUndoesOneCharge'
  <2>1. /\ Post(job[r].user, job[r].kind, job[r].amount, r)
        /\ UNCHANGED job /\ at[r] = "apply" /\ at' = [at EXCEPT ![r] = "done"]
    BY <1>2 DEF CreditApply, Credit, Goto
  <2>2. RefundUndoesOneCharge'
    BY <1>0, <2>1, RefundPairs DEF RefundProtocol, Crediting, FeeTaken
  <2>3. ASSUME NEW q \in Requests PROVE Kept(q)
    <3>1. CASE q = r
      BY <1>0, <2>1, <3>1 DEF Crediting
    <3>2. CASE q # r
      <4>1. (NoRefundYet(q) => NoRefundYet(q)') /\ (FeeTaken(q) => FeeTaken(q)')
        BY <1>0, <2>1, <3>2, RowsOfOthers
      <4> QED
        BY <1>0, <2>1, <3>2, <4>1 DEF RefundProtocol, Crediting
    <3> QED
      BY <3>1, <3>2
  <2> QED
    BY <2>2, <2>3 DEF RefundProtocol
<1>3. ASSUME NEW r \in Requests, ChargeDebit(r),
             Debit(job[r].user, job[r].kind, job[r].amount, r), Goto(r, "charged")
      PROVE  RefundProtocol' /\ RefundUndoesOneCharge'
  <2>1. /\ Post(job[r].user, job[r].kind, -job[r].amount, r)
        /\ UNCHANGED job /\ at[r] = "debit" /\ at' = [at EXCEPT ![r] = "charged"]
    BY <1>3 DEF ChargeDebit, Debit, Goto
  <2>2. job[r].kind # "REFUND" /\ NoRefundYet(r)
    BY <2>1 DEF RefundProtocol
  <2>3. RefundUndoesOneCharge'
    BY <1>0, <2>1, <2>2, RefundPairs
  <2>4. ASSUME NEW q \in Requests PROVE Kept(q)
    <3>1. CASE q = r
      <4>1. NoRefundYet(r)'
        <5>1. \A v \in Users : \A i \in DOMAIN ledger'[v] :
                 \/ i \in DOMAIN ledger[v] /\ ledger'[v][i] = ledger[v][i]
                 \/ ledger'[v][i].kind = job[r].kind
          BY <1>0, <2>1, PostRows
        <5> QED
          BY <2>2, <5>1 DEF NoRefundYet
      <4>2. FeeTaken(r)'
        <5> DEFINE n == Len(ledger[job[r].user]) + 1
        <5>1. n \in DOMAIN ledger'[job[r].user] /\ ledger'[job[r].user][n].ref = r
          BY <1>0, <2>1, PostRows
        <5>2. n \notin DOMAIN ledger[job[r].user]
          BY <1>0 DEF LedgerTypeOK
        <5>3. ledger'[job[r].user][n].amount = -job[r].amount
          BY <1>0, <2>1, <5>1, <5>2, PostRows
        <5> QED
          BY <2>1, <5>1, <5>3 DEF FeeTaken
      <4> QED
        BY <1>0, <2>1, <2>2, <3>1, <4>1, <4>2 DEF Crediting
    <3>2. CASE q # r
      <4>1. (NoRefundYet(q) => NoRefundYet(q)') /\ (FeeTaken(q) => FeeTaken(q)')
        BY <1>0, <2>1, <3>2, RowsOfOthers
      <4> QED
        BY <1>0, <2>1, <3>2, <4>1 DEF RefundProtocol, Crediting
    <3> QED
      BY <3>1, <3>2
  <2> QED
    BY <2>3, <2>4 DEF RefundProtocol
<1>4. ASSUME NEW r \in Requests, CreditApply(r) \/ ChargeDebit(r), UNCHANGED ledgerVars,
             Goto(r, "done")
      PROVE  RefundProtocol' /\ RefundUndoesOneCharge'
  <2>1. UNCHANGED <<ledger, job>> /\ at' = [at EXCEPT ![r] = "done"]
    BY <1>4 DEF CreditApply, ChargeDebit, Goto
  <2> QED
    BY <1>0, <2>1 DEF RefundProtocol, RefundUndoesOneCharge, NoRefundYet, FeeTaken, Crediting
<1>5. CASE \A r \in Requests : ~CommitPayment(r) /\ ~CreditApply(r) /\ ~ChargeDebit(r)
  <2>1. UNCHANGED ledger /\ \A q \in Requests : Approaches(q)
    BY <1>5, QuietSteps
  <2>2. ASSUME NEW q \in Requests PROVE Kept(q)
    <3>1. NoRefundYet(q)' <=> NoRefundYet(q)
      BY <2>1 DEF NoRefundYet
    <3>2. job'[q].user = job[q].user /\ job'[q].amount = job[q].amount
             => (FeeTaken(q)' <=> FeeTaken(q))
      BY <2>1 DEF FeeTaken
    <3>3. Approaches(q)
      BY <2>1
    <3> QED
      BY <3>1, <3>2, <3>3 DEF RefundProtocol, Approaches, Crediting
  <2>3. RefundUndoesOneCharge'
    BY <2>1 DEF RefundUndoesOneCharge
  <2> QED
    BY <2>2, <2>3 DEF RefundProtocol
<1> QED
  BY <1>1, <1>2, <1>3, <1>4, <1>5 DEF CreditApply, ChargeDebit

(* Whatever races with it, fails or crashes, a REFUND row gives back a fee *)
(* the same request has taken, in full, to the same user, and only once.   *)
THEOREM WalletRefundsOnce == Spec => []RefundUndoesOneCharge
<1>1. Init => RefundProtocol /\ RefundUndoesOneCharge
  <2> SUFFICES ASSUME Init PROVE RefundProtocol /\ RefundUndoesOneCharge
    OBVIOUS
  <2>1. \A r \in Requests : at[r] = "idle"
    BY DEF Init
  <2>2. ASSUME NEW u \in Users, NEW i \in DOMAIN ledger[u] PROVE ledger[u][i].kind = "ADMIN"
    BY DEF Init, OpeningRows
  <2> QED
    BY <2>1, <2>2 DEF RefundProtocol, RefundUndoesOneCharge, NoRefundYet, Crediting
<1>2. TypeOK /\ RefundProtocol /\ RefundUndoesOneCharge /\ [Next]_vars
         => RefundProtocol' /\ RefundUndoesOneCharge'
  BY StepRefunds
<1> QED
  BY <1>1, <1>2, WalletTypeOK, PTL DEF Spec

----------------------------------------------------------------------------
(* The refinement of TopUp.  An order is told from no order by its amount, *)
(* so a payment of nothing is never opened (startCharge's lower limit).    *)
SomethingOrdered ==
    /\ \A p \in Authorities : payment[p].status # "none" => payment[p].amount # 0
    /\ \A r \in Requests : at[r] \in {"request", "create"} => job[r].amount # 0

LEMMA StepOrders ==
    ASSUME TypeOK, PaymentProtocol, SomethingOrdered, [Next]_vars
    PROVE  SomethingOrdered'
<1> USE DEF SomethingOrdered, Goto, Show, Starts
<1>0. /\ at \in [Requests -> Places] /\ job \in [Requests -> Job]
      /\ payment \in [Authorities -> Payment] /\ MinCharge \in Nat \ {0}
      /\ \A r \in Requests : job[r].pay \in Authorities
  BY WalletAssumption DEF TypeOK, Job
<1>1. ASSUME NEW r \in Requests, Begin(r) PROVE SomethingOrdered'
  <2>1. ASSUME NEW u \in Users, NEW amount \in Amounts, NEW pct \in Discounts,
               StartCharge(r, u, amount, pct)
        PROVE  SomethingOrdered'
    <3>1. amount # 0 /\ UNCHANGED payment
      BY <1>0, <2>1, WalletAssumption DEF StartCharge
    <3>2. job' = [job EXCEPT ![r].user = u, ![r].amount = amount,
                             ![r].paid = Discounted(amount, pct)]
      BY <2>1 DEF StartCharge
    <3>3. job'[r].amount = amount /\ \A q \in Requests \ {r} : job'[q] = job[q]
      BY <1>0, <3>2 DEF Job
    <3>4. at' = [at EXCEPT ![r] = "request"]
      BY <2>1 DEF StartCharge
    <3> QED
      BY <1>0, <3>1, <3>3, <3>4
  <2>2. ASSUME NEW p \in Authorities, NEW status, Callback(r, p, status)
        PROVE  SomethingOrdered'
    BY <1>0, <2>2 DEF Callback
  <2>3. ASSUME NEW u \in Users, NEW amount \in Amounts, AdminCredit(r, u, amount)
        PROVE  SomethingOrdered'
    BY <1>0, <2>3 DEF AdminCredit
  <2>4. ASSUME NEW u \in Users, NEW feature \in Features, Charge(r, u, feature)
        PROVE  SomethingOrdered'
    BY <1>0, <2>4 DEF Charge
  <2>5. ASSUME NEW new, SaveSettings(r, new) PROVE SomethingOrdered'
    BY <1>0, <2>5 DEF SaveSettings
  <2> QED
    BY <1>1, <2>1, <2>2, <2>3, <2>4, <2>5 DEF Begin
<1>2. ASSUME NEW r \in Requests, Continue(r) PROVE SomethingOrdered'
  <2>1. ASSUME NEW p \in Authorities, GatewayOpens(r, p) PROVE SomethingOrdered'
    <3>1. \A q \in Requests : job'[q].amount = job[q].amount
      BY <1>0, <2>1 DEF GatewayOpens, Job
    <3> QED
      BY <1>0, <2>1, <3>1 DEF GatewayOpens
  <2>2. CASE CreatePayment(r)
    BY <1>0, <2>2 DEF CreatePayment
  <2>3. CASE MarkFailed(r)
    BY <1>0, <2>3 DEF MarkFailed, Payment
  <2>4. CASE ReadConfig(r) \/ Verify(r) \/ GatewayTimesOut(r) \/ TakePayment(r)
    BY <1>0, <2>4 DEF ReadConfig, Verify, GatewayTimesOut, TakePayment
  <2>5. CASE CommitPayment(r)
    <3>1. payment[job[r].pay].status # "none"
      BY <1>0, <2>5 DEF CommitPayment, PaymentProtocol, ReadingIsCurrent, PastReading
    <3>2. payment'[job[r].pay].amount = payment[job[r].pay].amount
      BY <1>0, <2>5 DEF CommitPayment, Payment
    <3> QED
      BY <1>0, <2>5, <3>1, <3>2 DEF CommitPayment
  <2>6. CASE RollbackPayment(r) \/ CreditRead(r) \/ CreditApply(r) \/ ChargeDebit(r)
    BY <1>0, <2>6 DEF RollbackPayment, CreditRead, CreditApply, ChargeDebit
  <2>7. CASE KeepFee(r) \/ Refund(r) \/ WriteSettings(r)
    BY <1>0, <2>7 DEF KeepFee, Refund, WriteSettings
  <2> QED
    BY <1>2, <2>1, <2>2, <2>3, <2>4, <2>5, <2>6, <2>7 DEF Continue
<1>3. ASSUME NEW r \in Requests, RequestFails(r) PROVE SomethingOrdered'
  BY <1>0, <1>3 DEF RequestFails
<1>4. CASE Gateway \/ Crash \/ UNCHANGED vars
  BY <1>0, <1>4 DEF Gateway, UserCancels, UserPays, Crash
<1> QED
  BY <1>1, <1>2, <1>3, <1>4 DEF Next

(* What TopUp sees of the payment rows and of the gateway.                 *)
Orders == [p \in Authorities |-> OrderOf(payment[p])]
Taken == {p \in Authorities : gateway[p].state = "settled"}
Credited == {p \in Authorities : payment[p].status = "PAID"}

(* A step that settles no session, opens no row and pays none moves funds  *)
(* of one account at most: fees, refunds and an admin's credit.            *)
LEMMA OtherStepsMove ==
    ASSUME TypeOK, TypeOK', [Next]_vars,
           \A r \in Requests : ~CommitPayment(r),
           UNCHANGED <<Orders, Taken, Credited>>
    PROVE  PrepaidMoney!Next \/ UNCHANGED <<balance, Orders, Taken, Credited>>
<1>1. CASE UNCHANGED ledgerVars
  BY <1>1
<1>2. CASE ~UNCHANGED ledgerVars
  <2>1. PICK u \in Users, kind \in Kinds, amount \in Int, ref \in Requests :
               Post(u, kind, amount, ref)
    BY <1>2, MovingSteps
  <2>2. balance' = [balance EXCEPT ![u] = balance'[u]] /\ balance'[u] \in Nat
    BY <2>1 DEF Post, TypeOK, LedgerTypeOK
  <2>3. PrepaidMoney!Move(u)
    BY <2>2 DEF PrepaidMoney!Move, Orders, Taken, Credited
  <2> QED
    BY <2>3 DEF PrepaidMoney!Next
<1> QED
  BY <1>1, <1>2

LEMMA StepRefines ==
    ASSUME TypeOK, TypeOK', PaymentProtocol, SomethingOrdered, [Next]_vars
    PROVE  PrepaidMoney!Next \/ UNCHANGED <<balance, Orders, Taken, Credited>>
<1> USE DEF PaymentProtocol
<1> DEFINE Mapped == UNCHANGED <<Orders, Taken, Credited>>
<1>00. balance \in [Users -> Nat]
  BY LedgerAssumption DEF TypeOK, LedgerTypeOK
<1>0. /\ payment \in [Authorities -> Payment] /\ gateway \in [Authorities -> Session]
      /\ \A r \in Requests : /\ job[r] \in Job /\ r # NoRequest
                             /\ job[r].pay \in Authorities /\ job[r].user \in Users
                             /\ job[r].amount \in Nat
  BY WalletAssumption DEF TypeOK, LedgerTypeOK, Job
<1>1. ASSUME NEW r \in Requests, NEW p \in Authorities, p = job[r].pay, CreatePayment(r)
      PROVE  PrepaidMoney!Order(p)
  <2>1. payment[p].status = "none"
    BY <1>1 DEF CreatePayment, OneRowPerSession
  <2>2. payment' = [payment EXCEPT ![p] = [status |-> "PENDING", user |-> job[r].user,
                                           amount |-> job[r].amount, paid |-> job[r].paid]]
    BY <1>1 DEF CreatePayment
  <2>3. /\ Orders[p] = PrepaidMoney!Unordered
        /\ Orders'[p] = [user |-> job[r].user, amount |-> job[r].amount]
        /\ Orders' = [Orders EXCEPT ![p] = Orders'[p]]
    BY <1>0, <2>1, <2>2 DEF Orders, OrderOf, PrepaidMoney!Unordered
  <2>4. UNCHANGED <<balance, Taken, Credited>>
    BY <1>0, <1>1, <2>1, <2>2 DEF CreatePayment, Taken, Credited
  <2> QED
    BY <1>0, <2>3, <2>4 DEF PrepaidMoney!Order, Orders, Taken, Credited
<1>2. ASSUME NEW r \in Requests, NEW p \in Authorities, p = job[r].pay, Verify(r)
      PROVE  PrepaidMoney!Take(p) \/ UNCHANGED <<balance, Orders, Taken, Credited>>
  <2>1. /\ UNCHANGED <<balance, Orders, Credited>>
        /\ payment[p].status # "none"
    BY <1>2 DEF Verify, Orders, Credited, ReadingIsCurrent, PastReading
  <2>2. CASE gateway[p].state = "paid" /\ gateway' = [gateway EXCEPT ![p].state = "settled"]
    <3>1. p \notin Taken /\ Taken' = Taken \cup {p}
      BY <1>0, <2>2 DEF Taken, Session
    <3>2. Orders[p] # PrepaidMoney!Unordered
      BY <1>0, <2>1 DEF Orders, OrderOf, PrepaidMoney!Unordered, SomethingOrdered
    <3> QED
      BY <2>1, <3>1, <3>2 DEF PrepaidMoney!Take, Orders, Taken, Credited
  <2>3. CASE gateway[p].state = "settled" /\ gateway' = [gateway EXCEPT ![p].state = "settled"]
    BY <1>0, <2>1, <2>3 DEF Taken, Session
  <2>4. CASE UNCHANGED gateway
    BY <2>1, <2>4 DEF Taken
  <2> QED
    BY <1>2, <2>2, <2>3, <2>4 DEF Verify, Acceptable
<1>3. ASSUME NEW r \in Requests, NEW p \in Authorities, p = job[r].pay, CommitPayment(r)
      PROVE  PrepaidMoney!Deliver(p)
  <2>1. /\ payment[p].status = "PENDING" /\ gateway[p].state = "settled"
        /\ payment[p].user = job[r].user /\ payment[p].amount = job[r].amount
    BY <1>0, <1>3 DEF CommitPayment, LockDiscipline, InTransaction, ReadingIsCurrent,
       PastReading, PriceIsAgreed, Verified
  <2>2. payment' = [payment EXCEPT ![p].status = "PAID"] /\ UNCHANGED gateway
    BY <1>3 DEF CommitPayment
  <2>3. p \in Taken \ Credited /\ Credited' = Credited \cup {p} /\ UNCHANGED Taken
    BY <1>0, <2>1, <2>2 DEF Taken, Credited, Payment
  <2>4. UNCHANGED Orders
    <3>1. \A q \in Authorities : OrderOf(payment'[q]) = OrderOf(payment[q])
      BY <1>0, <2>1, <2>2 DEF OrderOf, Payment
    <3> QED
      BY <3>1 DEF Orders
  <2>5. balance' = [balance EXCEPT ![Orders[p].user] = balance[Orders[p].user] + Orders[p].amount]
    BY <1>00, <1>0, <1>3, <2>1 DEF CommitPayment, Credit, Post, Orders, OrderOf
  <2> QED
    BY <2>3, <2>4, <2>5 DEF PrepaidMoney!Deliver, Orders, Taken, Credited
<1>4. ASSUME NEW r \in Requests, Continue(r), ~CreatePayment(r), ~Verify(r), ~CommitPayment(r)
      PROVE  Mapped
  <2>1. ASSUME NEW p \in Authorities, GatewayOpens(r, p)
        PROVE  Mapped
    BY <1>0, <2>1 DEF GatewayOpens, Orders, Taken, Credited, Session
  <2>2. CASE MarkFailed(r)
    <3>1. \A q \in Authorities : /\ OrderOf(payment'[q]) = OrderOf(payment[q])
                                 /\ payment'[q].status = "PAID" <=> payment[q].status = "PAID"
      BY <1>0, <2>2 DEF MarkFailed, OrderOf, Payment
    <3> QED
      BY <2>2, <3>1 DEF MarkFailed, Orders, Taken, Credited
  <2>3. CASE UNCHANGED <<payment, gateway>>
    BY <2>3 DEF Orders, Taken, Credited
  <2> QED
    BY <1>4, <2>1, <2>2, <2>3 DEF Continue, ReadConfig, GatewayTimesOut, TakePayment,
       RollbackPayment, CreditRead, CreditApply, ChargeDebit, KeepFee, Refund, WriteSettings
<1>5. ASSUME NEW r \in Requests, Begin(r) \/ RequestFails(r)
      PROVE  Mapped
  BY <1>5 DEF Begin, StartCharge, Callback, AdminCredit, Charge, SaveSettings, RequestFails,
     Orders, Taken, Credited
<1>6. ASSUME Gateway PROVE Mapped
  BY <1>0, <1>6 DEF Gateway, UserCancels, UserPays, Orders, Taken, Credited, Session
<1>7. ASSUME Crash \/ UNCHANGED vars PROVE Mapped
  BY <1>7 DEF Crash, Orders, Taken, Credited
<1>8. ASSUME NEW r \in Requests, CreatePayment(r) \/ Verify(r) \/ CommitPayment(r)
      PROVE  PrepaidMoney!Next \/ UNCHANGED <<balance, Orders, Taken, Credited>>
  <2>1. PICK p \in Authorities : p = job[r].pay
    BY <1>0
  <2>2. CASE CreatePayment(r)
    BY <1>1, <2>1, <2>2 DEF PrepaidMoney!Next
  <2>3. CASE Verify(r)
    BY <1>2, <2>1, <2>3 DEF PrepaidMoney!Next
  <2>4. CASE CommitPayment(r)
    BY <1>3, <2>1, <2>4 DEF PrepaidMoney!Next
  <2> QED
    BY <1>8, <2>2, <2>3, <2>4
<1>9. CASE \A r \in Requests : ~CreatePayment(r) /\ ~Verify(r) /\ ~CommitPayment(r)
  <2>1. ASSUME NEW r \in Requests, Begin(r) \/ Continue(r) \/ RequestFails(r) PROVE Mapped
    BY <1>4, <1>5, <1>9, <2>1
  <2>2. Mapped
    BY <1>6, <1>7, <2>1 DEF Next
  <2> QED
    BY <1>9, <2>2, OtherStepsMove
<1> QED
  BY <1>8, <1>9

(* The wallet implements prepaid money: money for a payment is taken at    *)
(* most once, only taken money is credited, to the payer and at most once, *)
(* and no account is overdrawn, in every interleaving of requests,         *)
(* redirects, failures and crashes.                                        *)
THEOREM WalletImplementsTopUp == Spec => ImplementsTopUp
<1>1. Init => SomethingOrdered /\ PrepaidMoney!Init
  <2> SUFFICES ASSUME Init PROVE SomethingOrdered /\ PrepaidMoney!Init
    OBVIOUS
  <2>1. /\ \A p \in Authorities : payment[p].status = "none" /\ gateway[p].state = "none"
        /\ \A r \in Requests : at[r] = "idle"
    BY DEF Init
  <2>2. balance \in [Users -> Nat]
    BY InitTyped DEF TypeOK, LedgerTypeOK
  <2> QED
    BY <2>1, <2>2 DEF SomethingOrdered, PrepaidMoney!Init, PrepaidMoney!Unordered, OrderOf
<1>2. TypeOK /\ PaymentProtocol /\ SomethingOrdered /\ [Next]_vars => SomethingOrdered'
  BY StepOrders
<1>3. TypeOK /\ TypeOK' /\ PaymentProtocol /\ SomethingOrdered /\ [Next]_vars
         => [PrepaidMoney!Next]_(PrepaidMoney!topUpVars)
  BY StepRefines DEF PrepaidMoney!topUpVars, Orders, Taken, Credited
<1> QED
  BY <1>1, <1>2, <1>3, WalletTypeOK, WalletPaymentProtocol, PTL
     DEF Spec, ImplementsTopUp, PrepaidMoney!Spec
=============================================================================
