------------------------------- MODULE Wallet -------------------------------
(***************************************************************************)
(* The wallet service: charging a wallet through the Zarinpal gateway, the *)
(* gateway's redirect back, credits given by an admin, fees taken for a    *)
(* feature and given back, and the admin's settings.                       *)
(*                                                                         *)
(* Every HTTP request or background job is a member of Requests.  A step   *)
(* of a request is what runs between two awaits: one database statement or *)
(* transaction segment, or one call of the gateway.  Transactions run at   *)
(* READ COMMITTED, so a read inside a transaction is a step of its own,    *)
(* and a row updated by an open transaction is locked.                     *)
(***************************************************************************)
EXTENDS WalletLedger

CONSTANTS
    Requests,      \* each runs one operation
    NoRequest,
    Authorities,   \* the payment ids the gateway hands out
    Features,      \* what a fee is taken for
    Amounts,       \* amounts a user or an admin asks for
    Discounts,     \* percentages of the resellers' active codes, and 0
    MinCharge,     \* MIN_CHARGE_RIAL
    MaxCharge,     \* MAX_CHARGE_RIAL
    Settings,      \* what admins save
    Opening,       \* balances the accounts may start from
    Operations,    \* the operations clients issue (all, unless a run is about some)
    Failures       \* what may fail: "statement", "answer", "crash"

ASSUME WalletAssumption ==
    /\ NoRequest \notin Requests
    /\ MinCharge \in Nat \ {0}
    /\ MaxCharge \in Nat
    /\ Amounts \subseteq Nat
    /\ Discounts \subseteq 0..90
    /\ Opening \subseteq 0..MaxBalance
    /\ {"GATEWAY", "ADMIN", "REFUND"} \cup Features \subseteq Kinds
    /\ "REFUND" \notin Features   \* no fee is booked as a refund
    /\ Authorities \cup Requests \subseteq Refs
    /\ Authorities \cap Requests = {}
    /\ Settings \subseteq [enabled: BOOLEAN, sandbox: BOOLEAN, merchant: BOOLEAN,
                           price: [Features -> Nat]]

VARIABLES
    cfg,         \* the wallet_config row
    payment,     \* wallet_payments, by authority
    gateway,     \* external: what Zarinpal knows of each authority
    redirects,   \* external: the Status values Zarinpal has sent the browser back with
    holder,      \* the request whose open transaction locks the payment row
    at,          \* where each request is
    job,         \* the parameters a request has bound
    seen,        \* the balance a request has read
    draft,       \* the settings a save is about to write
    page         \* what the browser was shown after a callback

walletVars == <<cfg, payment, gateway, redirects, holder>>
requestVars == <<at, job, seen, draft, page>>
vars == <<ledgerVars, walletVars, requestVars>>

Config == [enabled: BOOLEAN, sandbox: BOOLEAN, merchant: BOOLEAN,
           price: [Features -> Nat]]
Payment == [status: {"none", "PENDING", "PAID", "FAILED"},
            user: Users, amount: Nat, paid: Nat]
Session == [state: {"none", "open", "paid", "settled"}, sandbox: BOOLEAN, amount: Nat]
Job == [user: Users, amount: Nat, paid: Nat, pay: Authorities, kind: Kinds]
Places == {"idle", "request", "create", "markFailed", "config", "verify", "mark", "commit",
           "read", "apply", "debit", "charged", "save", "done", "gone"}

Init ==
    /\ cfg \in Settings
    /\ balance \in [Users -> Opening]
    /\ ledger = [u \in Users |-> OpeningRows("ADMIN", balance[u])]
    /\ \E u \in Users, p \in Authorities :
        /\ payment = [q \in Authorities |->
                        [status |-> "none", user |-> u, amount |-> 0, paid |-> 0]]
        /\ job = [r \in Requests |-> [user |-> u, amount |-> 0, paid |-> 0,
                                      pay |-> p, kind |-> "ADMIN"]]
    /\ gateway = [p \in Authorities |-> [state |-> "none", sandbox |-> FALSE, amount |-> 0]]
    /\ redirects = [p \in Authorities |-> {}]
    /\ holder = [p \in Authorities |-> NoRequest]
    /\ at = [r \in Requests |-> "idle"]
    /\ seen = [r \in Requests |-> 0]
    /\ draft = [r \in Requests |-> cfg]
    /\ page = [r \in Requests |-> "none"]

----------------------------------------------------------------------------
Goto(r, place) == at' = [at EXCEPT ![r] = place]
Starts(r, op) == at[r] = "idle" /\ op \in Operations

(* A callback ends by showing a page; so it does when it throws.           *)
Show(r, result) == Goto(r, "done") /\ page' = [page EXCEPT ![r] = result]

(* Math.round of the discounted amount.                                    *)
Discounted(amount, pct) == (amount * (100 - pct) + 50) \div 100

(***************************************************************************)
(* startCharge                                                             *)
(***************************************************************************)
StartCharge(r, u, amount, pct) ==
    /\ Starts(r, "startCharge")
    /\ amount \in MinCharge..MaxCharge
    /\ cfg.merchant
    /\ Discounted(amount, pct) >= MinCharge
    /\ job' = [job EXCEPT ![r].user = u, ![r].amount = amount,
                          ![r].paid = Discounted(amount, pct)]
    /\ draft' = [draft EXCEPT ![r] = cfg]
    /\ Goto(r, "request")
    /\ UNCHANGED <<ledgerVars, walletVars, seen, page>>

(* The gateway opens a session under a fresh authority.                    *)
GatewayOpens(r, p) ==
    /\ at[r] = "request"
    /\ gateway[p].state = "none"
    /\ gateway' = [gateway EXCEPT ![p] = [state   |-> "open",
                                          sandbox |-> draft[r].sandbox,
                                          amount  |-> job[r].paid]]
    /\ job' = [job EXCEPT ![r].pay = p]
    /\ Goto(r, "create")
    /\ UNCHANGED <<ledgerVars, cfg, payment, redirects, holder, seen, draft, page>>

CreatePayment(r) ==
    /\ at[r] = "create"
    /\ payment' = [payment EXCEPT ![job[r].pay] =
                      [status |-> "PENDING", user |-> job[r].user,
                       amount |-> job[r].amount, paid |-> job[r].paid]]
    /\ Goto(r, "done")
    /\ UNCHANGED <<ledgerVars, cfg, gateway, redirects, holder, job, seen, draft, page>>

(***************************************************************************)
(* handleCallback                                                          *)
(***************************************************************************)
(* The row is read once; every later decision uses this reading of it.     *)
Callback(r, p, status) ==
    LET row == payment[p] IN
    /\ Starts(r, "callback")
    /\ status \in redirects[p]
    /\ IF row.status = "none" THEN Show(r, "fail")
       ELSE IF row.status = "PAID" THEN Show(r, "ok")
       ELSE Goto(r, IF status = "OK" THEN "config" ELSE "markFailed") /\ UNCHANGED page
    /\ job' = [job EXCEPT ![r] = [user |-> row.user, amount |-> row.amount,
                                  paid |-> row.paid, pay |-> p, kind |-> "GATEWAY"]]
    /\ UNCHANGED <<ledgerVars, walletVars, seen, draft>>

(* Mutant: the update names the row only, not the PENDING status.          *)
MarkFailedBlindly(r) ==
    LET p == job[r].pay IN
    /\ at[r] = "markFailed"
    /\ holder[p] = NoRequest
    /\ payment' = [payment EXCEPT ![p].status = "FAILED"]
    /\ Show(r, "fail")
    /\ UNCHANGED <<ledgerVars, cfg, gateway, redirects, holder, job, seen, draft>>

(* updateMany where the row is still PENDING; the page is fail either way. *)
MarkFailed(r) ==
    LET p == job[r].pay IN
    /\ at[r] = "markFailed"
    /\ holder[p] = NoRequest
    /\ payment' = IF payment[p].status = "PENDING"
                  THEN [payment EXCEPT ![p].status = "FAILED"]
                  ELSE payment
    /\ Show(r, "fail")
    /\ UNCHANGED <<ledgerVars, cfg, gateway, redirects, holder, job, seen, draft>>

ReadConfig(r) ==
    /\ at[r] = "config"
    /\ IF cfg.merchant THEN Goto(r, "verify") /\ UNCHANGED page
                       ELSE Show(r, "fail")
    /\ draft' = [draft EXCEPT ![r] = cfg]
    /\ UNCHANGED <<ledgerVars, walletVars, job, seen>>

(* Codes 100 and 101: the session is paid, on this host, for this amount.  *)
Acceptable(r, session) ==
    /\ session.state \in {"paid", "settled"}
    /\ session.sandbox = draft[r].sandbox
    /\ session.amount = job[r].paid

(* The call gives up after 20 s: no redirect is given out, or no page but  *)
(* fail; a session is then neither opened nor settled.                     *)
GatewayTimesOut(r) ==
    /\ \/ at[r] = "request" /\ Goto(r, "done") /\ UNCHANGED page
       \/ at[r] = "verify" /\ Show(r, "fail")
    /\ UNCHANGED <<ledgerVars, walletVars, job, seen, draft>>

(* The gateway answers; its answer may also be lost after it took effect.  *)
Verify(r) ==
    LET p == job[r].pay IN
    /\ at[r] = "verify"
    /\ IF Acceptable(r, gateway[p])
       THEN /\ gateway' = [gateway EXCEPT ![p].state = "settled"]
            /\ \/ Goto(r, "mark") /\ UNCHANGED page
               \/ "answer" \in Failures /\ Show(r, "fail")
       ELSE Show(r, "fail") /\ UNCHANGED gateway
    /\ UNCHANGED <<ledgerVars, cfg, payment, redirects, holder, job, seen, draft>>

(* Mutant: the row is taken whatever its status.                           *)
TakeAnyPayment(r) ==
    LET p == job[r].pay IN
    /\ at[r] = "mark"
    /\ holder[p] = NoRequest
    /\ holder' = [holder EXCEPT ![p] = r]
    /\ seen' = [seen EXCEPT ![r] = balance[job[r].user]]
    /\ Goto(r, "commit")
    /\ UNCHANGED <<ledgerVars, cfg, payment, gateway, redirects, job, draft, page>>

(* The transaction takes the row if it is PENDING, and reads the balance.  *)
(* When the row is no longer PENDING the transaction returns and the page  *)
(* is ok all the same.                                                     *)
TakePayment(r) ==
    LET p == job[r].pay IN
    /\ at[r] = "mark"
    /\ holder[p] = NoRequest
    /\ IF payment[p].status = "PENDING"
       THEN /\ holder' = [holder EXCEPT ![p] = r]
            /\ seen' = [seen EXCEPT ![r] = balance[job[r].user]]
            /\ Goto(r, "commit") /\ UNCHANGED page
       ELSE Show(r, "ok") /\ UNCHANGED <<holder, seen>>
    /\ UNCHANGED <<ledgerVars, cfg, payment, gateway, redirects, job, draft>>

(* Mutant: the price paid after the discount is credited, not the amount.  *)
CommitPaidPrice(r) ==
    LET p == job[r].pay IN
    /\ at[r] = "commit"
    /\ UnderCap(seen[r], job[r].amount)
    /\ Credit(job[r].user, "GATEWAY", job[r].paid, p)
    /\ payment' = [payment EXCEPT ![p].status = "PAID"]
    /\ holder' = [holder EXCEPT ![p] = NoRequest]
    /\ Show(r, "ok")
    /\ UNCHANGED <<cfg, gateway, redirects, job, seen, draft>>

CommitPayment(r) ==
    LET p == job[r].pay IN
    /\ at[r] = "commit"
    /\ UnderCap(seen[r], job[r].amount)
    /\ Credit(job[r].user, "GATEWAY", job[r].amount, p)
    /\ payment' = [payment EXCEPT ![p].status = "PAID"]
    /\ holder' = [holder EXCEPT ![p] = NoRequest]
    /\ Show(r, "ok")
    /\ UNCHANGED <<cfg, gateway, redirects, job, seen, draft>>

(* Mutant: the error leaves the transaction open.                          *)
LeavePaymentOpen(r) ==
    /\ at[r] = "commit"
    /\ \/ ~UnderCap(seen[r], job[r].amount)
       \/ balance[job[r].user] + job[r].amount > IntMax
    /\ Show(r, "fail")
    /\ UNCHANGED <<ledgerVars, cfg, payment, gateway, redirects, holder, job, seen, draft>>

(* 'balance cap', or the column overflows: everything is rolled back.      *)
RollbackPayment(r) ==
    /\ at[r] = "commit"
    /\ \/ ~UnderCap(seen[r], job[r].amount)
       \/ balance[job[r].user] + job[r].amount > IntMax
    /\ holder' = [holder EXCEPT ![job[r].pay] = NoRequest]
    /\ Show(r, "fail")
    /\ UNCHANGED <<ledgerVars, cfg, payment, gateway, redirects, job, seen, draft>>

(***************************************************************************)
(* adminCredit, charge and refund                                          *)
(***************************************************************************)
AdminCredit(r, u, amount) ==
    /\ Starts(r, "adminCredit")
    /\ amount \in 1..MaxCharge
    /\ job' = [job EXCEPT ![r].user = u, ![r].amount = amount, ![r].kind = "ADMIN"]
    /\ Goto(r, "read")
    /\ UNCHANGED <<ledgerVars, walletVars, seen, draft, page>>

CreditRead(r) ==
    LET now == balance[job[r].user] IN
    /\ at[r] = "read"
    /\ seen' = [seen EXCEPT ![r] = now]
    /\ Goto(r, IF UnderCap(now, job[r].amount) THEN "apply" ELSE "done")
    /\ UNCHANGED <<ledgerVars, walletVars, job, draft, page>>

(* Mutant: the balance written is the balance read plus the amount.        *)
CreditStaleRead(r) ==
    LET j == job[r]
        after == seen[r] + j.amount IN
    /\ at[r] = "apply"
    /\ after <= IntMax
    /\ balance' = [balance EXCEPT ![j.user] = after]
    /\ ledger' = [ledger EXCEPT ![j.user] =
                     Append(ledger[j.user], [kind |-> j.kind, amount |-> j.amount,
                                             after |-> after, ref |-> r])]
    /\ Goto(r, "done")
    /\ UNCHANGED <<walletVars, job, seen, draft, page>>

CreditApply(r) ==
    /\ at[r] = "apply"
    /\ \/ Credit(job[r].user, job[r].kind, job[r].amount, r)
       \/ /\ balance[job[r].user] + job[r].amount > IntMax
          /\ UNCHANGED ledgerVars
    /\ Goto(r, "done")
    /\ UNCHANGED <<walletVars, job, seen, draft, page>>

(* charge reads the price first; a zero price takes nothing.               *)
Price(feature) == IF cfg.enabled THEN cfg.price[feature] ELSE 0

Charge(r, u, feature) ==
    /\ Starts(r, "charge")
    /\ job' = [job EXCEPT ![r].user = u, ![r].amount = Price(feature), ![r].kind = feature]
    /\ Goto(r, IF Price(feature) = 0 THEN "done" ELSE "debit")
    /\ UNCHANGED <<ledgerVars, walletVars, seen, draft, page>>

(* Mutant: the caller goes on as if an insufficient balance had been charged. *)
ChargeDebitIgnored(r) ==
    LET j == job[r] IN
    /\ at[r] = "debit"
    /\ \/ Debit(j.user, j.kind, j.amount, r)
       \/ balance[j.user] < j.amount /\ UNCHANGED ledgerVars
    /\ Goto(r, "charged")
    /\ UNCHANGED <<walletVars, job, seen, draft, page>>

ChargeDebit(r) ==
    LET j == job[r] IN
    /\ at[r] = "debit"
    /\ \/ Debit(j.user, j.kind, j.amount, r) /\ Goto(r, "charged")
       \/ balance[j.user] < j.amount /\ UNCHANGED ledgerVars /\ Goto(r, "done")
    /\ UNCHANGED <<walletVars, job, seen, draft, page>>

(* The caller's work succeeds, or fails and the caller asks for a refund.  *)
KeepFee(r) ==
    /\ at[r] = "charged"
    /\ Goto(r, "done")
    /\ UNCHANGED <<ledgerVars, walletVars, job, seen, draft, page>>

Refund(r) ==
    /\ at[r] = "charged"
    /\ job' = [job EXCEPT ![r].kind = "REFUND"]
    /\ Goto(r, IF job[r].amount \in 1..MaxBalance THEN "read" ELSE "done")
    /\ UNCHANGED <<ledgerVars, walletVars, seen, draft, page>>

(***************************************************************************)
(* saveAdminSettings: a form without a merchant keeps the one it has read. *)
(***************************************************************************)
SaveSettings(r, new) ==
    /\ Starts(r, "saveAdminSettings")
    /\ draft' = [draft EXCEPT ![r] = [new EXCEPT !.merchant = new.merchant \/ cfg.merchant]]
    /\ Goto(r, "save")
    /\ UNCHANGED <<ledgerVars, walletVars, job, seen, page>>

WriteSettings(r) ==
    /\ at[r] = "save"
    /\ cfg' = draft[r]
    /\ Goto(r, "done")
    /\ UNCHANGED <<ledgerVars, payment, gateway, redirects, holder, job, seen, draft, page>>

(***************************************************************************)
(* Failures and the outside world                                          *)
(***************************************************************************)
(* A statement or the whole transaction fails: the request ends with an    *)
(* error, and a callback with the fail page.                               *)
InCallback(r) == at[r] \in {"markFailed", "config", "mark", "commit"}

RequestFails(r) ==
    /\ "statement" \in Failures
    /\ at[r] \in {"create", "read", "apply", "debit", "save"} \/ InCallback(r)
    /\ IF InCallback(r) THEN Show(r, "fail") ELSE Goto(r, "done") /\ UNCHANGED page
    /\ holder' = [p \in Authorities |-> IF holder[p] = r THEN NoRequest ELSE holder[p]]
    /\ UNCHANGED <<ledgerVars, cfg, payment, gateway, redirects, job, seen, draft>>

(* The process dies: open transactions are rolled back, requests are lost. *)
Crash ==
    /\ "crash" \in Failures
    /\ \E r \in Requests : at[r] \notin {"idle", "done", "gone"}
    /\ at' = [r \in Requests |-> IF at[r] \in {"idle", "done"} THEN at[r] ELSE "gone"]
    /\ holder' = [p \in Authorities |-> NoRequest]
    /\ UNCHANGED <<ledgerVars, cfg, payment, gateway, redirects, job, seen, draft, page>>

(* On the gateway's page the user gives up, or pays; giving up sends the   *)
(* browser back but leaves the page open to a user who goes back to it.    *)
UserCancels(p) ==
    /\ gateway[p].state = "open"
    /\ redirects' = [redirects EXCEPT ![p] = redirects[p] \cup {"NOK"}]
    /\ UNCHANGED <<ledgerVars, cfg, payment, gateway, holder, requestVars>>

UserPays(p) ==
    /\ gateway[p].state = "open"
    /\ gateway' = [gateway EXCEPT ![p].state = "paid"]
    /\ redirects' = [redirects EXCEPT ![p] = redirects[p] \cup {"OK"}]
    /\ UNCHANGED <<ledgerVars, cfg, payment, holder, requestVars>>

----------------------------------------------------------------------------
Continue(r) ==
    \/ \E p \in Authorities : GatewayOpens(r, p)
    \/ CreatePayment(r)
    \/ MarkFailed(r)
    \/ ReadConfig(r)
    \/ Verify(r)
    \/ GatewayTimesOut(r)
    \/ TakePayment(r)
    \/ CommitPayment(r)
    \/ RollbackPayment(r)
    \/ CreditRead(r)
    \/ CreditApply(r)
    \/ ChargeDebit(r)
    \/ KeepFee(r)
    \/ Refund(r)
    \/ WriteSettings(r)

Begin(r) ==
    \/ \E u \in Users, amount \in Amounts, pct \in Discounts : StartCharge(r, u, amount, pct)
    \/ \E p \in Authorities, status \in {"OK", "NOK"} : Callback(r, p, status)
    \/ \E u \in Users, amount \in Amounts : AdminCredit(r, u, amount)
    \/ \E u \in Users, feature \in Features : Charge(r, u, feature)
    \/ \E new \in Settings : SaveSettings(r, new)

Gateway == \E p \in Authorities : UserCancels(p) \/ UserPays(p)

Next ==
    \/ \E r \in Requests : Begin(r) \/ Continue(r) \/ RequestFails(r)
    \/ Gateway
    \/ Crash

Spec == Init /\ [][Next]_vars

(* Node's event loop runs every request whose await has come back, and the *)
(* gateway call and the database statements have timeouts of their own.    *)
FairSpec == Spec /\ \A r \in Requests : WF_vars(Continue(r))

----------------------------------------------------------------------------
TypeOK ==
    /\ LedgerTypeOK
    /\ cfg \in Config
    /\ payment \in [Authorities -> Payment]
    /\ gateway \in [Authorities -> Session]
    /\ redirects \in [Authorities -> SUBSET {"OK", "NOK"}]
    /\ holder \in [Authorities -> Requests \cup {NoRequest}]
    /\ at \in [Requests -> Places]
    /\ job \in [Requests -> Job]
    /\ seen \in [Requests -> 0..IntMax]
    /\ draft \in [Requests -> Config]
    /\ page \in [Requests -> {"none", "ok", "fail"}]

(* However callbacks are repeated, raced or cut short, a payment is PAID   *)
(* exactly when its owner's ledger holds one row for it, of its amount     *)
(* (handleCallback's transaction).                                         *)
PaidIsCredited ==
    \A p \in Authorities : payment[p].status = "PAID" =>
        \E i \in DOMAIN ledger[payment[p].user] : ledger[payment[p].user][i].ref = p

CreditIsPaid ==
    \A u \in Users : \A i \in DOMAIN ledger[u] :
        LET row == ledger[u][i] IN
        row.ref \in Authorities =>
            /\ payment[row.ref].status = "PAID"
            /\ payment[row.ref].user = u
            /\ payment[row.ref].amount = row.amount

CreditIsUnique ==
    \A u, v \in Users : \A i \in DOMAIN ledger[u], j \in DOMAIN ledger[v] :
        ledger[u][i].ref \in Authorities /\ ledger[u][i].ref = ledger[v][j].ref
            => u = v /\ i = j

CreditedExactlyOnce == PaidIsCredited /\ CreditIsPaid /\ CreditIsUnique

(* Why: an open transaction owns a PENDING row and nobody else does, a     *)
(* callback's reading of its row never goes stale but for the status, and  *)
(* a session has one row at most, written by the request that opened it.   *)
InTransaction(r) == at[r] = "commit"
PastReading(r) == at[r] \in {"config", "verify", "mark", "commit"}
Verified(r) == at[r] \in {"mark", "commit"}

LockDiscipline ==
    /\ \A r \in Requests : InTransaction(r) => holder[job[r].pay] = r
    /\ \A p \in Authorities : holder[p] # NoRequest => payment[p].status = "PENDING"

ReadingIsCurrent ==
    \A r \in Requests : PastReading(r) =>
        LET row == payment[job[r].pay] IN
        /\ row.status # "none"
        /\ row.user = job[r].user /\ row.amount = job[r].amount /\ row.paid = job[r].paid

OneRowPerSession ==
    /\ \A p \in Authorities : gateway[p].state = "none" => payment[p].status = "none"
    /\ \A r \in Requests : at[r] = "create" =>
          /\ payment[job[r].pay].status = "none"
          /\ gateway[job[r].pay].state # "none"
    /\ \A q, r \in Requests :
          at[q] = "create" /\ at[r] = "create" /\ job[q].pay = job[r].pay => q = r

PriceIsAgreed ==
    /\ \A p \in Authorities : payment[p].status # "none" =>
          /\ gateway[p].amount = payment[p].paid
          /\ \E pct \in Discounts : payment[p].paid = Discounted(payment[p].amount, pct)
    /\ \A r \in Requests : at[r] \in {"request", "create"} =>
          \E pct \in Discounts : job[r].paid = Discounted(job[r].amount, pct)
    /\ \A r \in Requests : at[r] = "create" => gateway[job[r].pay].amount = job[r].paid
    /\ \A r \in Requests : Verified(r) => gateway[job[r].pay].state = "settled"

PaymentProtocol == LockDiscipline /\ ReadingIsCurrent /\ OneRowPerSession /\ PriceIsAgreed

(* A refund undoes one charge: it follows the fee the same request took,   *)
(* gives back exactly that amount to the same user, and happens once.      *)
RefundUndoesOneCharge ==
    \A u \in Users : \A i \in DOMAIN ledger[u] : ledger[u][i].kind = "REFUND" =>
        /\ \E j \in 1..(i - 1) : /\ ledger[u][j].ref = ledger[u][i].ref
                               /\ ledger[u][j].amount = -ledger[u][i].amount
        /\ \A j \in DOMAIN ledger[u] :
              ledger[u][j].kind = "REFUND" /\ ledger[u][j].ref = ledger[u][i].ref => j = i

(* PAID and FAILED are final, and a payment never changes hands or price:  *)
(* no late callback reopens or re-decides it.                              *)
DecidedIsFinal ==
    [][\A p \in Authorities :
          payment[p].status \in {"PAID", "FAILED"} => payment'[p] = payment[p]]_payment

(* Every request that started comes to an end, whoever holds the row it    *)
(* needs, unless the process dies with it.                                 *)
RequestsEnd ==
    \A r \in Requests : at[r] # "idle" ~> at[r] \in {"done", "gone"}

(* The wallet implements prepaid money: a payment row is an order, a       *)
(* settled session is money taken, a PAID row is a credit delivered.       *)
OrderOf(row) ==
    IF row.status = "none" THEN [user |-> "nobody", amount |-> 0]
                           ELSE [user |-> row.user, amount |-> row.amount]

PrepaidMoney == INSTANCE TopUp WITH
    Payments <- Authorities,
    funds    <- balance,
    order    <- [p \in Authorities |-> OrderOf(payment[p])],
    taken    <- {p \in Authorities : gateway[p].state = "settled"},
    credited <- {p \in Authorities : payment[p].status = "PAID"}

ImplementsTopUp == PrepaidMoney!Spec
=============================================================================
