----------------------------- MODULE Portfolio ------------------------------
(***************************************************************************)
(* Portfolios: suggestions and rebalances that are paid for, edits of the  *)
(* holdings, and movements of cash.                                        *)
(*                                                                         *)
(* A composition is never changed in place: every operation reads the      *)
(* latest snapshot of a portfolio and creates another one.  No operation   *)
(* holds a lock or a transaction over its steps, so a request is a list of *)
(* steps (Script), each one statement of the database or one call of the   *)
(* model, and between two of them anything may happen to the portfolio.    *)
(* Prices are all 1 here: an amount of a holding is its quantity.          *)
(***************************************************************************)
EXTENDS WalletLedger, FiniteSets, Functions

CONSTANTS
    Requests,      \* each runs one operation
    Portfolios,
    Owner,         \* whose they are
    Symbols,
    MaxQty,        \* bound on the quantity of a holding
    Suggestions,   \* the holdings the model may come up with
    EditLists,     \* the changes a request may ask for, in order
    CashMoves,     \* movements of cash
    Capitals,      \* what a portfolio is opened with
    Fee,           \* what a suggestion or a rebalance costs
    Amounts,       \* what an admin credits
    Opening,       \* balances the accounts may start from
    Operations,    \* the operations clients issue
    Failures       \* "statement", "model", "crash"

Ops == {"suggest", "strategies", "hedge", "analyze", "rebalance", "monthly", "apply",
        "suggestion", "edit", "adjust", "strategy", "cash", "create"}
SnapshotKinds == {"USER_ADJUSTED", "SUGGESTION", "REBALANCE", "MONTHLY_EVAL"}
EditEvents == {"BUY", "SELL", "WEIGHT_EDIT"}

Holdings == UNION {[S -> 1..MaxQty] : S \in SUBSET Symbols}
ByHand == {"insert", "replace", "drop"}
FromAnalysis == {"ADD", "INCREASE", "DECREASE", "SET", "REMOVE"}
Edit == [action: ByHand \cup FromAnalysis, symbol: Symbols, qty: 1..MaxQty]
CashMove == [type: {"DEPOSIT_CASH", "WITHDRAW_CASH", "SELL"}, amount: Nat]

ASSUME PortfolioAssumption ==
    /\ Owner \in [Portfolios -> Users]
    /\ MaxQty \in Nat \ {0}
    /\ Suggestions \subseteq Holdings
    /\ EditLists \subseteq Seq(Edit) \ {<< >>}
    /\ CashMoves \subseteq CashMove
    /\ Capitals \subseteq Nat
    /\ Fee \in 0..MaxBalance
    /\ Amounts \subseteq 1..MaxBalance
    /\ Opening \subseteq 0..MaxBalance
    /\ {"SUGGEST", "REBALANCE", "REFUND", "ADMIN"} \subseteq Kinds
    /\ Requests \subseteq Refs /\ IsFiniteSet(Requests)

VARIABLES
    life,       \* whether the portfolio row is there
    opened,     \* the capital it was opened with
    capital,    \* portfolios.capitalRial
    cash,       \* portfolios.cashRial
    history,    \* portfolio_snapshots, in order of creation
    events,     \* portfolio_events
    at,         \* "run" while a request is in its steps, then how it ended
    todo,       \* the steps it has still to take
    job         \* its locals

rowVars == <<life, opened, capital, cash, history, events>>
requestVars == <<at, todo, job>>
vars == <<ledgerVars, rowVars, requestVars>>

Steps == {"access", "ensure", "insert", "charge", "prepare", "look", "consult", "analyze",
          "evaluate", "store", "relabel", "evaluated", "read", "write", "event",
          "readCash", "writeCash", "cashEvent", "answer"}
Endings == {"ok", "without", "error", "unrefunded", "gone"}
Snapshot == [kind: SnapshotKinds, by: Requests \cup {NoRef}, base: Nat, items: Holdings,
             action: ByHand \cup FromAnalysis \cup {"suggest", "adjust"}]
Event == [by: Requests, type: EditEvents \cup {"DEPOSIT_CASH", "WITHDRAW_CASH"}]
Job == [op: Ops, folio: Portfolios, charged: BOOLEAN, shown: BOOLEAN,
        edits: Seq(Edit), base: Nat, own: Nat, log: EditEvents,
        move: CashMove, seen: [cash: Nat, capital: Nat], moved: BOOLEAN]

NoMove == [type |-> "SELL", amount |-> 0]
Fresh(op, p, edits, move) ==
    [op |-> op, folio |-> p, charged |-> FALSE, shown |-> TRUE, edits |-> edits,
     base |-> 0, own |-> 0, log |-> "BUY", move |-> move,
     seen |-> [cash |-> 0, capital |-> 0], moved |-> FALSE]

(* A portfolio may be there already, with a suggestion or without one.     *)
Stored(items) == << [kind |-> "SUGGESTION", by |-> NoRef, action |-> "suggest",
                     base |-> 0, items |-> items] >>

Init ==
    /\ life \in [Portfolios -> {"none", "live"}]
    /\ opened \in [Portfolios -> Capitals]
    /\ capital = opened /\ cash = opened
    /\ \E held \in {<< >>} \cup {Stored(items) : items \in Suggestions} :
          history = [p \in Portfolios |-> IF life[p] = "live" THEN held ELSE << >>]
    /\ events = [p \in Portfolios |-> << >>]
    /\ balance \in [Users -> Opening]
    /\ ledger = [u \in Users |-> OpeningRows("ADMIN", balance[u])]
    /\ at = [r \in Requests |-> "idle"]
    /\ todo = [r \in Requests |-> << >>]
    /\ \E p \in Portfolios :
          job = [r \in Requests |-> Fresh("suggest", p, << >>, NoMove)]

----------------------------------------------------------------------------
(* The steps of each operation.  Those of an applied list are repeated for *)
(* each of its suggestions; a movement of cash goes on to a rebalance, and *)
(* a new portfolio to a suggestion, if the user has the model.             *)
EditStepsUnlogged == <<"read", "write">>   \* mutant: no event is written
EditSteps == <<"read", "write", "event">>
SuggestSteps == <<"consult", "store">>
RebalanceSteps == <<"look">> \o SuggestSteps \o <<"relabel", "answer">>
Script(op) ==
    CASE op = "suggest"    -> <<"charge">> \o SuggestSteps
      [] op = "strategies" -> <<"charge", "consult">>
      [] op = "hedge"      -> <<"read", "prepare", "charge", "consult">>
      [] op = "analyze"    -> <<"read", "charge", "analyze">>
      [] op = "rebalance"  -> <<"charge">> \o RebalanceSteps
      [] op = "monthly"    -> <<"read", "evaluate">> \o RebalanceSteps \o <<"evaluated">>
      [] op = "apply"      -> <<"charge">> \o EditSteps
      [] op = "strategy"   -> <<"store">>
      [] op = "cash"       -> <<"readCash", "writeCash", "cashEvent", "access">>
      [] op = "create"     -> <<"access">>
      [] OTHER             -> EditSteps

(* What a request of an operation may ask for.                             *)
EditsOf(op) ==
    CASE op = "apply"      -> {l \in EditLists : \A i \in DOMAIN l : l[i].action \in FromAnalysis}
      [] op = "suggestion" -> {l \in EditLists : Len(l) = 1 /\ l[1].action \in FromAnalysis}
      [] op = "edit"       -> {l \in EditLists : Len(l) = 1 /\ l[1].action \in ByHand}
      [] OTHER             -> {<< >>}
MovesOf(op) == IF op = "cash" THEN CashMoves ELSE {NoMove}

Step(r, name) == at[r] = "run" /\ todo[r] # << >> /\ Head(todo[r]) = name

Then(r, rest) ==
    /\ todo' = [todo EXCEPT ![r] = rest]
    /\ at' = [at EXCEPT ![r] = IF rest = << >> THEN "ok" ELSE "run"]

Continues(r) == Then(r, Tail(todo[r]))

Ends(r, ending) ==
    /\ todo' = [todo EXCEPT ![r] = << >>]
    /\ at' = [at EXCEPT ![r] = ending]

(* An analysis does without the model, and a new portfolio without its     *)
(* suggestion, unless the error is a BadRequestException.                  *)
Hidden(r, badRequest) ==
    /\ ~badRequest
    /\ \/ job[r].op = "analyze" /\ Head(todo[r]) = "analyze"
       \/ job[r].op = "create" /\ Head(todo[r]) \in {"charge", "consult", "store"}

(* The last read of these two is not inside the try block.                 *)
Refundable(r) ==
    job[r].charged /\ ~(Head(todo[r]) = "answer" /\ job[r].op \in {"apply", "create"})

Throws(r, badRequest) ==
    LET shown == ~Hidden(r, badRequest) IN
    /\ Ends(r, IF Refundable(r) THEN "refund" ELSE IF shown THEN "error" ELSE "without")
    /\ job' = [job EXCEPT ![r].shown = shown]

Alive(r) == life[job[r].folio] = "live"
Payer(r) == Owner[job[r].folio]

Start(r, op, p) ==
    /\ at[r] = "idle" /\ op \in Operations
    /\ life[p] = IF op = "create" THEN "none" ELSE "live"
    /\ \E edits \in EditsOf(op), move \in MovesOf(op) :
          job' = [job EXCEPT ![r] = Fresh(op, p, edits, move)]
    /\ Then(r, Script(op))
    /\ UNCHANGED <<ledgerVars, rowVars>>

----------------------------------------------------------------------------
(* wallet.charge, in its own transaction before the work starts.           *)
FeeKind(op) == IF op \in {"rebalance", "apply"} THEN "REBALANCE" ELSE "SUGGEST"

Charge(r) ==
    /\ Step(r, "charge")
    /\ \/ /\ IF Fee = 0 THEN UNCHANGED ledgerVars
                        ELSE Debit(Payer(r), FeeKind(job[r].op), Fee, r)
          /\ job' = [job EXCEPT ![r].charged = (Fee > 0)]
          /\ Continues(r)
       \/ /\ balance[Payer(r)] < Fee
          /\ Throws(r, TRUE)
          /\ UNCHANGED ledgerVars
    /\ UNCHANGED rowVars

(* Mutant: the catch block rethrows without a refund.                      *)
RefundSkipped(r) ==
    /\ at[r] = "refund"
    /\ Ends(r, IF job[r].shown THEN "error" ELSE "without")
    /\ UNCHANGED <<ledgerVars, rowVars, job>>

(* A refund that fails, as one over the cap does, replaces the error by    *)
(* its own.                                                                *)
Refund(r) ==
    /\ at[r] = "refund"
    /\ \/ /\ UnderCap(balance[Payer(r)], Fee)
          /\ Credit(Payer(r), "REFUND", Fee, r)
          /\ Ends(r, IF job[r].shown THEN "error" ELSE "without")
       \/ /\ ~UnderCap(balance[Payer(r)], Fee) \/ "statement" \in Failures
          /\ Ends(r, "unrefunded")
          /\ UNCHANGED ledgerVars
    /\ UNCHANGED <<rowVars, job>>

----------------------------------------------------------------------------
(* users.aiAccess, of which the admin may change the answer at any time.   *)
Access(r) ==
    /\ Step(r, "access")
    /\ \E granted \in BOOLEAN :
          Then(r, IF job[r].op = "create"
                  THEN IF granted THEN <<"ensure", "insert", "charge">> \o SuggestSteps \o <<"answer">>
                                  ELSE <<"insert", "answer">>
                  ELSE IF granted THEN RebalanceSteps ELSE <<"answer">>)
    /\ UNCHANGED <<ledgerVars, rowVars, job>>

(* Before a row is inserted the balance is only looked at.                 *)
Ensure(r) ==
    /\ Step(r, "ensure")
    /\ IF balance[Payer(r)] < Fee THEN Throws(r, TRUE)
                                  ELSE Continues(r) /\ UNCHANGED job
    /\ UNCHANGED <<ledgerVars, rowVars>>

Insert(r) ==
    /\ Step(r, "insert")
    /\ life[job[r].folio] = "none"
    /\ life' = [life EXCEPT ![job[r].folio] = "live"]
    /\ Continues(r)
    /\ UNCHANGED <<ledgerVars, opened, capital, cash, history, events, job>>

(* What happens where the row has to be there.                             *)
Needs(r, row) == IF row THEN Continues(r) /\ UNCHANGED job ELSE Throws(r, FALSE)

(* The hedge looks for puts first; without any it answers so, for nothing. *)
Prepare(r) ==
    /\ Step(r, "prepare")
    /\ \/ Continues(r)
       \/ Ends(r, "without")
    /\ UNCHANGED <<ledgerVars, rowVars, job>>

Look(r) ==
    /\ Step(r, "look")
    /\ Needs(r, Alive(r))
    /\ UNCHANGED <<ledgerVars, rowVars>>

(* buildStrategySuggestions; suggestHedge asks about what it has read.     *)
Consult(r) ==
    /\ Step(r, "consult")
    /\ IF job[r].op # "hedge" /\ Alive(r) /\ capital[job[r].folio] = 0
       THEN Throws(r, TRUE)
       ELSE Needs(r, job[r].op = "hedge" \/ Alive(r))
    /\ UNCHANGED <<ledgerVars, rowVars>>

(* An evaluation does without a model that fails.                          *)
Ask(r, name) ==
    /\ Step(r, name)
    /\ Continues(r)
    /\ UNCHANGED <<ledgerVars, rowVars, job>>

(* The read a request ends with: that of the portfolio, or of the snapshot *)
(* it has made.                                                            *)
Answer(r) ==
    /\ Step(r, "answer")
    /\ Needs(r, Alive(r))
    /\ UNCHANGED <<ledgerVars, rowVars>>

Create(r, kind, action, base, items) ==
    LET p == job[r].folio IN
    history' = [history EXCEPT ![p] =
        Append(@, [kind |-> kind, by |-> r, action |-> action, base |-> base, items |-> items])]

(* createSnapshotFromItems, of what the model gave or the client picked.   *)
Store(r) ==
    /\ Step(r, "store")
    /\ IF Alive(r)
       THEN /\ \E items \in Suggestions : Create(r, "SUGGESTION", "suggest", 0, items)
            /\ job' = [job EXCEPT ![r].own = Len(history[job[r].folio]) + 1]
            /\ Continues(r)
       ELSE Throws(r, FALSE) /\ UNCHANGED history
    /\ UNCHANGED <<ledgerVars, life, opened, capital, cash, events>>

(* Mutant: the latest snapshot is relabelled, whoever made it.             *)
RelabelLatest(r, name, kind) ==
    LET p == job[r].folio IN
    /\ Step(r, name)
    /\ history' = IF Alive(r) THEN [history EXCEPT ![p][Len(history[p])].kind = kind] ELSE history
    /\ Needs(r, Alive(r))
    /\ UNCHANGED <<ledgerVars, life, opened, capital, cash, events>>

(* The stored suggestion becomes a rebalance, and that an evaluation.      *)
Relabel(r, name, kind) ==
    LET p == job[r].folio IN
    /\ Step(r, name)
    /\ history' = IF Alive(r) THEN [history EXCEPT ![p][job[r].own].kind = kind] ELSE history
    /\ Needs(r, Alive(r))
    /\ UNCHANGED <<ledgerVars, life, opened, capital, cash, events>>

----------------------------------------------------------------------------
(* requireOwnedLatestSnapshot: what an edit is going to be based on.       *)
Read(r) ==
    LET p == job[r].folio IN
    /\ Step(r, "read")
    /\ IF Alive(r) /\ history[p] # << >>
       THEN /\ job' = [job EXCEPT ![r].base = Len(history[p])]
            /\ Continues(r)
       ELSE Throws(r, TRUE)
    /\ UNCHANGED <<ledgerVars, rowVars>>

With(items, s, qty) == [t \in DOMAIN items \cup {s} |-> IF t = s THEN qty ELSE items[t]]
Without(items, s) == Restrict(items, DOMAIN items \ {s})
Held(items, s) == IF s \in DOMAIN items THEN items[s] ELSE 0

(* What executeSuggestionAction does of a suggested action: what is not    *)
(* held is always added.                                                   *)
Resolved(items, edit) ==
    IF edit.action = "REMOVE" THEN "REMOVE"
    ELSE IF edit.symbol \notin DOMAIN items THEN "ADD"
    ELSE IF edit.action = "ADD" THEN "INCREASE"
    ELSE edit.action

(* The quantity it comes to, bounded by MaxQty.                            *)
Sized(items, edit) ==
    LET total == CASE Resolved(items, edit) = "INCREASE" -> items[edit.symbol] + edit.qty
                   [] Resolved(items, edit) = "DECREASE" -> items[edit.symbol] - edit.qty
                   [] OTHER                              -> edit.qty IN
    IF total > MaxQty THEN MaxQty ELSE total

(* What sells a holding out is left to removeItem, which reads again.      *)
SellsOut(items, edit) ==
    /\ edit.action \in FromAnalysis
    /\ Resolved(items, edit) = "REMOVE" \/ Sized(items, edit) <= 0

Refused(items, edit) ==
    \/ edit.action = "insert" /\ edit.symbol \in DOMAIN items
    \/ edit.action \in {"replace", "drop"} /\ edit.symbol \notin DOMAIN items
    \/ edit.action = "drop" /\ DOMAIN items = {edit.symbol}

Edited(items, edit) ==
    CASE edit.action = "drop"             -> Without(items, edit.symbol)
      [] edit.action \in FromAnalysis     -> With(items, edit.symbol, Sized(items, edit))
      [] OTHER                            -> With(items, edit.symbol, edit.qty)

EventOf(items, edit) ==
    CASE edit.action = "drop" -> "SELL"
      [] edit.action = "replace" -> "WEIGHT_EDIT"
      [] edit.action \in FromAnalysis /\ Resolved(items, edit) = "DECREASE" -> "SELL"
      [] OTHER -> "BUY"

(* addItem, editItem, removeItem and executeSuggestionAction up to the     *)
(* snapshot, made from the one that was read.                              *)
Write(r) ==
    LET p == job[r].folio
        edit == Head(job[r].edits)
        items == history[p][job[r].base].items IN
    /\ Step(r, "write") /\ job[r].op # "adjust"
    /\ \/ /\ Alive(r) => Refused(items, edit)
          /\ Throws(r, TRUE)
          /\ UNCHANGED history
       \/ /\ Alive(r) /\ SellsOut(items, edit)
          /\ job' = [job EXCEPT ![r].edits[1].action = "drop"]
          /\ Then(r, <<"read">> \o todo[r])
          /\ UNCHANGED history
       \/ /\ Alive(r) /\ ~SellsOut(items, edit) /\ ~Refused(items, edit)
          /\ Create(r, "USER_ADJUSTED", edit.action, job[r].base, Edited(items, edit))
          /\ job' = [job EXCEPT ![r].log = EventOf(items, edit)]
          /\ Continues(r)
    /\ UNCHANGED <<ledgerVars, life, opened, capital, cash, events>>

(* adjustWeights replaces the holdings by those of the client.             *)
Adjust(r) ==
    /\ Step(r, "write") /\ job[r].op = "adjust"
    /\ IF Alive(r)
       THEN /\ \E items \in Suggestions :
                  Create(r, "USER_ADJUSTED", "adjust", job[r].base, items)
            /\ job' = [job EXCEPT ![r].log = "WEIGHT_EDIT"]
            /\ Continues(r)
       ELSE Throws(r, TRUE) /\ UNCHANGED history
    /\ UNCHANGED <<ledgerVars, life, opened, capital, cash, events>>

Log(r, type) ==
    events' = [events EXCEPT ![job[r].folio] = Append(@, [by |-> r, type |-> type])]

Rest(r) == IF job[r].edits = << >> THEN << >> ELSE Tail(job[r].edits)

(* Mutant: a list goes on from the snapshot it began with.                 *)
GoOnWithoutReading(r) ==
    IF Rest(r) = << >> THEN IF job[r].op = "apply" THEN <<"answer">> ELSE << >>
                       ELSE Tail(EditSteps)

(* The next suggestion of a list, or its end.                              *)
GoOn(r) ==
    IF Rest(r) = << >> THEN IF job[r].op = "apply" THEN <<"answer">> ELSE << >>
                       ELSE EditSteps

WriteEvent(r) ==
    /\ Step(r, "event")
    /\ IF Alive(r)
       THEN /\ Log(r, job[r].log)
            /\ job' = [job EXCEPT ![r].edits = Rest(r)]
            /\ Then(r, GoOn(r))
       ELSE Throws(r, TRUE) /\ UNCHANGED events
    /\ UNCHANGED <<ledgerVars, life, opened, capital, cash, history>>

----------------------------------------------------------------------------
(* cashEvent computes both columns from what it read and writes them back. *)
ReadCash(r) ==
    LET p == job[r].folio IN
    /\ Step(r, "readCash")
    /\ IF Alive(r)
       THEN /\ job' = [job EXCEPT ![r].seen = [cash |-> cash[p], capital |-> capital[p]]]
            /\ Continues(r)
       ELSE Throws(r, TRUE)
    /\ UNCHANGED <<ledgerVars, rowVars>>

Less(have, amount) == IF have > amount THEN have - amount ELSE 0

CashAfter(move, have) ==
    IF move.type = "WITHDRAW_CASH" THEN Less(have, move.amount) ELSE have + move.amount

(* Mutant: the money of a sale counts as new capital.                      *)
SaleIsCapital(move, have) ==
    IF move.type = "WITHDRAW_CASH" THEN Less(have, move.amount) ELSE have + move.amount

CapitalAfter(move, have) ==
    CASE move.type = "DEPOSIT_CASH"  -> have + move.amount
      [] move.type = "WITHDRAW_CASH" -> Less(have, move.amount)
      [] OTHER                       -> have

WriteCash(r) ==
    LET p == job[r].folio IN
    /\ Step(r, "writeCash")
    /\ IF Alive(r)
       THEN /\ cash' = [cash EXCEPT ![p] = CashAfter(job[r].move, job[r].seen.cash)]
            /\ capital' = [capital EXCEPT ![p] = CapitalAfter(job[r].move, job[r].seen.capital)]
            /\ job' = [job EXCEPT ![r].moved = TRUE]
            /\ Continues(r)
       ELSE Throws(r, TRUE) /\ UNCHANGED <<cash, capital>>
    /\ UNCHANGED <<ledgerVars, life, opened, history, events>>

WriteCashEvent(r) ==
    /\ Step(r, "cashEvent")
    /\ IF Alive(r) THEN Log(r, job[r].move.type) ELSE UNCHANGED events
    /\ Needs(r, Alive(r))
    /\ UNCHANGED <<ledgerVars, life, opened, capital, cash, history>>

----------------------------------------------------------------------------
(* A statement or the model fails, the latter perhaps for a used-up quota. *)
ModelSteps == {"consult", "analyze", "evaluate"}
StepFails(r) ==
    /\ at[r] = "run" /\ todo[r] # << >>
    /\ \/ "statement" \in Failures /\ Throws(r, FALSE)
       \/ /\ "model" \in Failures /\ Head(todo[r]) \in ModelSteps
          /\ \E quota \in BOOLEAN :
                (Head(todo[r]) = "evaluate" => quota) /\ Throws(r, quota)
    /\ UNCHANGED <<ledgerVars, rowVars>>

(* Deleting a portfolio takes its snapshots and events along.              *)
Delete(p) ==
    /\ "delete" \in Operations
    /\ life[p] = "live"
    /\ life' = [life EXCEPT ![p] = "deleted"]
    /\ history' = [history EXCEPT ![p] = << >>]
    /\ events' = [events EXCEPT ![p] = << >>]
    /\ UNCHANGED <<ledgerVars, opened, capital, cash, requestVars>>

AdminCredit(u, amount) ==
    /\ "credit" \in Operations
    /\ UnderCap(balance[u], amount)
    /\ Credit(u, "ADMIN", amount, NoRef)
    /\ UNCHANGED <<rowVars, requestVars>>

Crash ==
    /\ "crash" \in Failures
    /\ \E r \in Requests : at[r] \in {"run", "refund"}
    /\ at' = [r \in Requests |-> IF at[r] \in {"run", "refund"} THEN "gone" ELSE at[r]]
    /\ todo' = [r \in Requests |-> << >>]
    /\ UNCHANGED <<ledgerVars, rowVars, job>>

Continue(r) ==
    \/ Charge(r)
    \/ Refund(r)
    \/ Access(r)
    \/ Ensure(r)
    \/ Insert(r)
    \/ Prepare(r)
    \/ Look(r)
    \/ Consult(r)
    \/ Ask(r, "analyze")
    \/ Ask(r, "evaluate")
    \/ Answer(r)
    \/ Store(r)
    \/ Relabel(r, "relabel", "REBALANCE")
    \/ Relabel(r, "evaluated", "MONTHLY_EVAL")
    \/ Read(r)
    \/ Write(r)
    \/ Adjust(r)
    \/ WriteEvent(r)
    \/ ReadCash(r)
    \/ WriteCash(r)
    \/ WriteCashEvent(r)

Next ==
    \/ \E r \in Requests :
          \/ \E op \in Ops, p \in Portfolios : Start(r, op, p)
          \/ Continue(r)
          \/ StepFails(r)
    \/ \E p \in Portfolios : Delete(p)
    \/ \E u \in Users, amount \in Amounts : AdminCredit(u, amount)
    \/ Crash

Spec == Init /\ [][Next]_vars

----------------------------------------------------------------------------
(* Types of the variables (schema.prisma, Portfolio and PortfolioSnapshot). *)
TypeOK ==
    /\ LedgerTypeOK
    /\ life \in [Portfolios -> {"none", "live", "deleted"}]
    /\ opened \in [Portfolios -> Nat] /\ capital \in [Portfolios -> Nat]
    /\ cash \in [Portfolios -> Nat]
    /\ history \in [Portfolios -> Seq(Snapshot)]
    /\ events \in [Portfolios -> Seq(Event)]
    /\ at \in [Requests -> {"idle", "run", "refund"} \cup Endings]
    /\ todo \in [Requests -> Seq(Steps)]
    /\ job \in [Requests -> Job]

(* What a request has taken from its user, less what it gave back.         *)
Keeps(r) ==
    LET rows == ledger[Payer(r)] IN
    - SumFunction([k \in {i \in DOMAIN rows : rows[i].ref = r} |-> rows[k].amount])

Billed == {"suggest", "strategies", "hedge", "analyze", "rebalance", "apply", "create"}
MadeA(r, kind) == \E i \in DOMAIN history[job[r].folio] :
                      history[job[r].folio][i].by = r /\ history[job[r].folio][i].kind = kind

(* What was paid for is there, or has been deleted since.                  *)
Delivered(r) ==
    \/ life[job[r].folio] = "deleted"
    \/ CASE job[r].op \in {"suggest", "create"} -> MadeA(r, "SUGGESTION")
         [] job[r].op = "rebalance"             -> MadeA(r, "REBALANCE")
         [] job[r].op = "apply"                 -> job[r].edits = << >>
         [] OTHER                               -> at[r] = "ok"

(* A request that has been answered keeps its fee, once, only for what it  *)
(* delivered, and it delivers nothing for nothing: whatever fails, at      *)
(* whichever of its awaits, and whether or not the error reaches the       *)
(* client.  Excepted are a refund that fails and a process that dies       *)
(* (the catch blocks of suggest, suggestStrategies, suggestHedge,          *)
(* analyzeCurrent, rebalance and applySuggestions).                        *)
FeesSettle ==
    \A r \in Requests : job[r].op \in Billed =>
        /\ Keeps(r) \in {0, Fee}
        /\ at[r] \in {"ok", "without", "error"} /\ Keeps(r) > 0 => Delivered(r)
        /\ at[r] = "without" => Keeps(r) = 0
        /\ at[r] = "ok" /\ Delivered(r) /\ Alive(r) => Keeps(r) = Fee

(* Between an edit and what it was based on lies one holding: a list of    *)
(* suggestions never undoes its own earlier items, no edit touches a       *)
(* second holding, none empties the portfolio, and all of that although    *)
(* other requests write at the same time                                   *)
(* (executeSuggestionAction, addItem, editItem, removeItem).               *)
EditsBuildOnTheirBase ==
    \A p \in Portfolios : \A i \in DOMAIN history[p] :
        LET new == history[p][i]  old == history[p][new.base] IN
        new.kind = "USER_ADJUSTED" /\ new.action # "adjust" =>
            /\ new.base \in 1..i-1
            /\ \A k \in new.base+1..i-1 : history[p][k].by # new.by
            /\ \A s, t \in Symbols :
                  /\ Held(new.items, s) # Held(old.items, s)
                  /\ Held(new.items, t) # Held(old.items, t)
                  => s = t
            /\ DOMAIN new.items # {}

(* Every edited snapshot has its event, but for the one whose request is   *)
(* between the two statements, or failed there (writeHoldingsSnapshot,     *)
(* adjustWeights).                                                         *)
AuditTrail ==
    \A r \in Requests : Alive(r) =>
        LET p == job[r].folio
            made == Cardinality({i \in DOMAIN history[p] :
                        history[p][i].by = r /\ history[p][i].kind = "USER_ADJUSTED"})
            logged == Cardinality({i \in DOMAIN events[p] :
                        events[p][i].by = r /\ events[p][i].type \in EditEvents})
            open == at[r] # "run" \/ (todo[r] # << >> /\ Head(todo[r]) = "event") IN
        job[r].op # "cash" =>
            made - logged \in (IF open /\ at[r] # "ok" THEN {0, 1} ELSE {0})

(* Snapshots are the history of a portfolio: what one holds never changes, *)
(* none disappears but with its portfolio, and only the request that made  *)
(* a suggestion turns it into a rebalance or an evaluation, whatever was   *)
(* written meanwhile (rebalanceCharged, monthlyEvaluate).                  *)
HistoryIsKept ==
    [][\A p \in Portfolios : life'[p] = "live" =>
          \A i \in DOMAIN history[p] :
              LET old == history[p][i]  new == history'[p][i] IN
              /\ i \in DOMAIN history'[p]
              /\ [new EXCEPT !.kind = old.kind] = old
              /\ new.kind # old.kind => <<old.kind, new.kind>> \in
                     {<<"SUGGESTION", "REBALANCE">>, <<"REBALANCE", "MONTHLY_EVAL">>}]_vars

Moved(p, types) == {r \in Requests : /\ job[r].moved /\ job[r].folio = p
                                     /\ job[r].move.type \in types}
Total(p, types) == SumFunction([r \in Moved(p, types) |-> job[r].move.amount])

(* Two movements of cash at once may lose one of them, but the columns     *)
(* never leave what the movements allow: the capital stays between all     *)
(* withdrawals and all deposits, and cash exceeds it by sales at most      *)
(* (cashEvent).                                                            *)
CashWithinMovements ==
    \A p \in Portfolios :
        /\ capital[p] <= opened[p] + Total(p, {"DEPOSIT_CASH"})
        /\ capital[p] >= opened[p] - Total(p, {"WITHDRAW_CASH"})
        /\ cash[p] - capital[p] \in 0..Total(p, {"SELL"})

(* Fees, events and columns tell the same as the requests that were made.  *)
BooksAgree == FeesSettle /\ AuditTrail /\ CashWithinMovements
=============================================================================
