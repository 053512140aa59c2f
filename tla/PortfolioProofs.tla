-------------------------- MODULE PortfolioProofs ---------------------------
(* Proofs about Portfolio for any requests, portfolios, symbols, lists of  *)
(* edits, movements of cash, fees and failures.                            *)
EXTENDS Portfolio, SumTheorems, TLAPS

(* Where a request is: at the step it takes next, or how it ended.         *)
Place(r) == IF at[r] = "run" THEN Head(todo[r]) ELSE at[r]

(* The steps of an operation, and what may come after each: the graph of   *)
(* which a script is a path.                                               *)
PlacesOf(op) ==
    CASE op = "suggest"    -> {"charge", "consult", "store"}
      [] op = "strategies" -> {"charge", "consult"}
      [] op = "hedge"      -> {"read", "prepare", "charge", "consult"}
      [] op = "analyze"    -> {"read", "charge", "analyze"}
      [] op = "rebalance"  -> {"charge", "look", "consult", "store", "relabel", "answer"}
      [] op = "monthly"    -> {"read", "evaluate", "look", "consult", "store", "relabel",
                               "answer", "evaluated"}
      [] op = "apply"      -> {"charge", "read", "write", "event", "answer"}
      [] op = "strategy"   -> {"store"}
      [] op = "cash"       -> {"readCash", "writeCash", "cashEvent", "access", "look", "consult",
                               "store", "relabel", "answer"}
      [] op = "create"     -> {"access", "ensure", "insert", "charge", "consult", "store", "answer"}
      [] OTHER             -> {"read", "write", "event"}

AfterCharge(op) ==
    CASE op = "analyze" -> {"analyze"} [] op = "rebalance" -> {"look"} [] op = "apply" -> {"read"}
      [] OTHER -> {"consult"}
AfterRead(op) ==
    CASE op = "hedge" -> {"prepare"} [] op = "analyze" -> {"charge"} [] op = "monthly" -> {"evaluate"}
      [] OTHER -> {"write"}
AfterStore(op) ==
    CASE op \in {"suggest", "strategy"} -> {"ok"} [] op = "create" -> {"answer"}
      [] OTHER -> {"relabel"}
Follows(op, step) ==
    CASE step = "charge"    -> AfterCharge(op)
      [] step = "read"      -> AfterRead(op)
      [] step = "store"     -> AfterStore(op)
      [] step = "prepare"   -> {"charge"}
      [] step = "evaluate"  -> {"look"}
      [] step = "look"      -> {"consult"}
      [] step = "consult"   -> IF op \in {"strategies", "hedge"} THEN {"ok"} ELSE {"store"}
      [] step = "relabel"   -> {"answer"}
      [] step = "answer"    -> IF op = "monthly" THEN {"evaluated"} ELSE {"ok"}
      [] step = "write"     -> {"event"}
      [] step = "event"     -> IF op = "apply" THEN {"read", "answer"} ELSE {"read", "ok"}
      [] step = "readCash"  -> {"writeCash"}
      [] step = "writeCash" -> {"cashEvent"}
      [] step = "cashEvent" -> {"access"}
      [] step = "access"    -> IF op = "create" THEN {"ensure", "insert"} ELSE {"look", "answer"}
      [] step = "ensure"    -> {"insert"}
      [] step = "insert"    -> {"charge", "answer"}
      [] OTHER              -> {"ok"}

Path(op, s) ==
    \A i \in 1..Len(s) :
        /\ s[i] \in PlacesOf(op)
        /\ i < Len(s) => s[i + 1] \in Follows(op, s[i])
        /\ i = Len(s) => s[i] \in {"access", "event"} \/ "ok" \in Follows(op, s[i])
First(s) == IF s = << >> THEN "ok" ELSE Head(s)

(* A request that is running has steps to take, and no other.              *)
PathInv(r) == /\ at[r] = "run" <=> todo[r] # << >>
              /\ Path(job[r].op, todo[r])

LEMMA TailPath ==
    ASSUME NEW op, NEW s \in Seq(Steps), s # << >>, Path(op, s)
    PROVE  /\ Tail(s) \in Seq(Steps) /\ Path(op, Tail(s)) /\ Head(s) \in PlacesOf(op) \cap Steps
           /\ Head(s) \notin {"access", "event"} => First(Tail(s)) \in Follows(op, Head(s))
<1>1. Len(s) \in Nat \ {0} /\ Head(s) = s[1] /\ s[1] \in Steps
  OBVIOUS
<1>2. PICK t : t = Tail(s)
  OBVIOUS
<1>3. /\ t \in Seq(Steps) /\ Len(t) = Len(s) - 1 /\ \A i \in 1..Len(s) - 1 : t[i] = s[i + 1]
      /\ Len(t) \in Nat /\ (t # << >> => Len(t) > 0 /\ Head(t) = t[1])
      /\ (t = << >> => Len(t) = 0)
  <2>1. t \in Seq(Steps) /\ Len(t) = Len(s) - 1 /\ \A i \in 1..Len(s) - 1 : t[i] = s[i + 1]
    BY <1>2
  <2>2. Len(t) \in Nat /\ (t # << >> => Len(t) > 0 /\ Head(t) = t[1]) /\ (t = << >> => Len(t) = 0)
    BY <2>1
  <2> QED
    BY <2>1, <2>2
<1>4. ASSUME NEW i \in 1..Len(t)
      PROVE  /\ t[i] \in PlacesOf(op)
             /\ i < Len(t) => t[i + 1] \in Follows(op, t[i])
             /\ i = Len(t) => t[i] \in {"access", "event"} \/ "ok" \in Follows(op, t[i])
  <2>1. i + 1 \in 1..Len(s) /\ i \in 1..Len(s) - 1
    BY <1>1, <1>3
  <2>2. /\ s[i + 1] \in PlacesOf(op)
        /\ i + 1 < Len(s) => s[(i + 1) + 1] \in Follows(op, s[i + 1])
        /\ i + 1 = Len(s) => s[i + 1] \in {"access", "event"} \/ "ok" \in Follows(op, s[i + 1])
    BY <2>1 DEF Path
  <2>3. t[i] = s[i + 1] /\ (i < Len(t) => t[i + 1] = s[(i + 1) + 1] /\ i + 1 < Len(s))
    BY <1>1, <1>3, <2>1
  <2>4. i = Len(t) => i + 1 = Len(s)
    BY <1>1, <1>3
  <2> QED
    BY <2>2, <2>3, <2>4
<1>5. 1 \in 1..Len(s)
  BY <1>1
<1>6. /\ s[1] \in PlacesOf(op)
      /\ 1 < Len(s) => s[1 + 1] \in Follows(op, s[1])
      /\ 1 = Len(s) => s[1] \in {"access", "event"} \/ "ok" \in Follows(op, s[1])
  BY <1>5 DEF Path
<1>7. ASSUME s[1] \notin {"access", "event"} PROVE First(t) \in Follows(op, s[1])
  <2>1. CASE t = << >>
    BY <1>1, <1>3, <1>6, <1>7, <2>1 DEF First
  <2>2. CASE t # << >>
    <3>1. Len(s) - 1 > 0 /\ Head(t) = t[1]
      BY <1>3, <2>2
    <3>2. 1 \in 1..Len(s) - 1 /\ 1 < Len(s)
      BY <1>1, <3>1
    <3>3. t[1] = s[1 + 1]
      BY <1>3, <3>2
    <3> QED
      BY <1>6, <2>2, <3>1, <3>2, <3>3 DEF First
  <2> QED
    BY <2>1, <2>2
<1>8. Path(op, t)
  BY <1>4 DEF Path
<1> QED
  BY <1>1, <1>2, <1>3, <1>6, <1>7, <1>8

LEMMA Begins == ASSUME NEW s \in Seq(Steps), Len(s) > 0 PROVE s # << >> /\ Head(s) = s[1]
  OBVIOUS

FirstOf(op) ==
    CASE op \in {"hedge", "analyze", "monthly", "edit", "suggestion", "adjust"} -> "read"
      [] op = "strategy" -> "store" [] op = "cash" -> "readCash" [] op = "create" -> "access"
      [] OTHER -> "charge"

(* Each script is a path of its operation.                                 *)
LEMMA ScriptPath ==
    ASSUME NEW op \in Ops
    PROVE  /\ Path(op, Script(op)) /\ Script(op) \in Seq(Steps) /\ Script(op) # << >>
           /\ Head(Script(op)) = FirstOf(op)
<1>1. CASE op = "suggest"
  <2>1. PICK s : s = Script(op)
    OBVIOUS
  <2>2. /\ s \in Seq(Steps) /\ Len(s) = 3 /\ s[1] = "charge" /\ s[2] = "consult"
       /\ s[3] = "store"
    BY <1>1, <2>1 DEF Script, SuggestSteps, RebalanceSteps, EditSteps, Steps
  <2>3. \A i \in 1..3 : i = 1 \/ i = 2 \/ i = 3
    OBVIOUS
  <2>4. Path(op, s)
    BY <1>1, <2>2, <2>3 DEF Path, PlacesOf, Follows, AfterRead, AfterCharge, AfterStore
  <2>5. s # << >> /\ Head(s) = s[1]
    BY <2>2, Begins
  <2> QED
    BY <1>1, <2>1, <2>2, <2>4, <2>5 DEF FirstOf
<1>2. CASE op = "strategies"
  <2>1. PICK s : s = Script(op)
    OBVIOUS
  <2>2. /\ s \in Seq(Steps) /\ Len(s) = 2 /\ s[1] = "charge" /\ s[2] = "consult"
    BY <1>2, <2>1 DEF Script, SuggestSteps, RebalanceSteps, EditSteps, Steps
  <2>3. \A i \in 1..2 : i = 1 \/ i = 2
    OBVIOUS
  <2>4. Path(op, s)
    BY <1>2, <2>2, <2>3 DEF Path, PlacesOf, Follows, AfterRead, AfterCharge, AfterStore
  <2>5. s # << >> /\ Head(s) = s[1]
    BY <2>2, Begins
  <2> QED
    BY <1>2, <2>1, <2>2, <2>4, <2>5 DEF FirstOf
<1>3. CASE op = "hedge"
  <2>1. PICK s : s = Script(op)
    OBVIOUS
  <2>2. /\ s \in Seq(Steps) /\ Len(s) = 4 /\ s[1] = "read" /\ s[2] = "prepare" /\ s[3] = "charge"
       /\ s[4] = "consult"
    BY <1>3, <2>1 DEF Script, SuggestSteps, RebalanceSteps, EditSteps, Steps
  <2>3. \A i \in 1..4 : i = 1 \/ i = 2 \/ i = 3 \/ i = 4
    OBVIOUS
  <2>4. Path(op, s)
    BY <1>3, <2>2, <2>3 DEF Path, PlacesOf, Follows, AfterRead, AfterCharge, AfterStore
  <2>5. s # << >> /\ Head(s) = s[1]
    BY <2>2, Begins
  <2> QED
    BY <1>3, <2>1, <2>2, <2>4, <2>5 DEF FirstOf
<1>4. CASE op = "analyze"
  <2>1. PICK s : s = Script(op)
    OBVIOUS
  <2>2. /\ s \in Seq(Steps) /\ Len(s) = 3 /\ s[1] = "read" /\ s[2] = "charge" /\ s[3] = "analyze"
    BY <1>4, <2>1 DEF Script, SuggestSteps, RebalanceSteps, EditSteps, Steps
  <2>3. \A i \in 1..3 : i = 1 \/ i = 2 \/ i = 3
    OBVIOUS
  <2>4. Path(op, s)
    BY <1>4, <2>2, <2>3 DEF Path, PlacesOf, Follows, AfterRead, AfterCharge, AfterStore
  <2>5. s # << >> /\ Head(s) = s[1]
    BY <2>2, Begins
  <2> QED
    BY <1>4, <2>1, <2>2, <2>4, <2>5 DEF FirstOf
<1>5. CASE op = "rebalance"
  <2>1. PICK s : s = Script(op)
    OBVIOUS
  <2>2. /\ s \in Seq(Steps) /\ Len(s) = 6 /\ s[1] = "charge" /\ s[2] = "look" /\ s[3] = "consult"
       /\ s[4] = "store" /\ s[5] = "relabel" /\ s[6] = "answer"
    BY <1>5, <2>1 DEF Script, SuggestSteps, RebalanceSteps, EditSteps, Steps
  <2>3. \A i \in 1..6 : i = 1 \/ i = 2 \/ i = 3 \/ i = 4 \/ i = 5 \/ i = 6
    OBVIOUS
  <2>4. Path(op, s)
    BY <1>5, <2>2, <2>3 DEF Path, PlacesOf, Follows, AfterRead, AfterCharge, AfterStore
  <2>5. s # << >> /\ Head(s) = s[1]
    BY <2>2, Begins
  <2> QED
    BY <1>5, <2>1, <2>2, <2>4, <2>5 DEF FirstOf
<1>6. CASE op = "monthly"
  <2>1. PICK s : s = Script(op)
    OBVIOUS
  <2>2. /\ s \in Seq(Steps) /\ Len(s) = 8 /\ s[1] = "read" /\ s[2] = "evaluate" /\ s[3] = "look"
       /\ s[4] = "consult" /\ s[5] = "store" /\ s[6] = "relabel" /\ s[7] = "answer"
       /\ s[8] = "evaluated"
    BY <1>6, <2>1 DEF Script, SuggestSteps, RebalanceSteps, EditSteps, Steps
  <2>3. \A i \in 1..8 : i = 1 \/ i = 2 \/ i = 3 \/ i = 4 \/ i = 5 \/ i = 6 \/ i = 7 \/ i = 8
    OBVIOUS
  <2>4. Path(op, s)
    BY <1>6, <2>2, <2>3 DEF Path, PlacesOf, Follows, AfterRead, AfterCharge, AfterStore
  <2>5. s # << >> /\ Head(s) = s[1]
    BY <2>2, Begins
  <2> QED
    BY <1>6, <2>1, <2>2, <2>4, <2>5 DEF FirstOf
<1>7. CASE op = "apply"
  <2>1. PICK s : s = Script(op)
    OBVIOUS
  <2>2. /\ s \in Seq(Steps) /\ Len(s) = 4 /\ s[1] = "charge" /\ s[2] = "read" /\ s[3] = "write"
       /\ s[4] = "event"
    BY <1>7, <2>1 DEF Script, SuggestSteps, RebalanceSteps, EditSteps, Steps
  <2>3. \A i \in 1..4 : i = 1 \/ i = 2 \/ i = 3 \/ i = 4
    OBVIOUS
  <2>4. Path(op, s)
    BY <1>7, <2>2, <2>3 DEF Path, PlacesOf, Follows, AfterRead, AfterCharge, AfterStore
  <2>5. s # << >> /\ Head(s) = s[1]
    BY <2>2, Begins
  <2> QED
    BY <1>7, <2>1, <2>2, <2>4, <2>5 DEF FirstOf
<1>8. CASE op = "strategy"
  <2>1. PICK s : s = Script(op)
    OBVIOUS
  <2>2. /\ s \in Seq(Steps) /\ Len(s) = 1 /\ s[1] = "store"
    BY <1>8, <2>1 DEF Script, SuggestSteps, RebalanceSteps, EditSteps, Steps
  <2>3. \A i \in 1..1 : i = 1
    OBVIOUS
  <2>4. Path(op, s)
    BY <1>8, <2>2, <2>3 DEF Path, PlacesOf, Follows, AfterRead, AfterCharge, AfterStore
  <2>5. s # << >> /\ Head(s) = s[1]
    BY <2>2, Begins
  <2> QED
    BY <1>8, <2>1, <2>2, <2>4, <2>5 DEF FirstOf
<1>9. CASE op = "cash"
  <2>1. PICK s : s = Script(op)
    OBVIOUS
  <2>2. /\ s \in Seq(Steps) /\ Len(s) = 4 /\ s[1] = "readCash" /\ s[2] = "writeCash"
       /\ s[3] = "cashEvent" /\ s[4] = "access"
    BY <1>9, <2>1 DEF Script, SuggestSteps, RebalanceSteps, EditSteps, Steps
  <2>3. \A i \in 1..4 : i = 1 \/ i = 2 \/ i = 3 \/ i = 4
    OBVIOUS
  <2>4. Path(op, s)
    BY <1>9, <2>2, <2>3 DEF Path, PlacesOf, Follows, AfterRead, AfterCharge, AfterStore
  <2>5. s # << >> /\ Head(s) = s[1]
    BY <2>2, Begins
  <2> QED
    BY <1>9, <2>1, <2>2, <2>4, <2>5 DEF FirstOf
<1>10. CASE op = "create"
  <2>1. PICK s : s = Script(op)
    OBVIOUS
  <2>2. /\ s \in Seq(Steps) /\ Len(s) = 1 /\ s[1] = "access"
    BY <1>10, <2>1 DEF Script, SuggestSteps, RebalanceSteps, EditSteps, Steps
  <2>3. \A i \in 1..1 : i = 1
    OBVIOUS
  <2>4. Path(op, s)
    BY <1>10, <2>2, <2>3 DEF Path, PlacesOf, Follows, AfterRead, AfterCharge, AfterStore
  <2>5. s # << >> /\ Head(s) = s[1]
    BY <2>2, Begins
  <2> QED
    BY <1>10, <2>1, <2>2, <2>4, <2>5 DEF FirstOf
<1>11. CASE op \in {"suggestion", "edit", "adjust"}
  <2>0. Script(op) = EditSteps
    BY <1>11 DEF Script
  <2>1. PICK s : s = EditSteps
    OBVIOUS
  <2>2. /\ s \in Seq(Steps) /\ Len(s) = 3 /\ s[1] = "read" /\ s[2] = "write" /\ s[3] = "event"
    BY <1>11, <2>1 DEF EditSteps, Steps
  <2>3. \A i \in 1..3 : i = 1 \/ i = 2 \/ i = 3
    OBVIOUS
  <2>4. Path(op, s)
    BY <1>11, <2>2, <2>3 DEF Path, PlacesOf, Follows, AfterRead, AfterCharge, AfterStore
  <2>5. s # << >> /\ Head(s) = s[1]
    BY <2>2, Begins
  <2> QED
    BY <1>11, <2>0, <2>1, <2>2, <2>4, <2>5 DEF FirstOf
<1> QED
  BY <1>1, <1>2, <1>3, <1>4, <1>5, <1>6, <1>7, <1>8, <1>9, <1>10, <1>11 DEF Ops

(* What a request goes on with: the next edit of a list,                   *)
LEMMA EditPath ==
    ASSUME NEW op \in {"apply", "suggestion", "edit", "adjust"}
    PROVE  /\ Path(op, EditSteps) /\ EditSteps \in Seq(Steps)
           /\ EditSteps # << >> /\ Head(EditSteps) = "read"
<1>1. PICK s : s = EditSteps
  OBVIOUS
<1>2. /\ s \in Seq(Steps) /\ Len(s) = 3 /\ s[1] = "read" /\ s[2] = "write" /\ s[3] = "event"
  BY <1>1 DEF SuggestSteps, RebalanceSteps, EditSteps, Steps
<1>3. \A i \in 1..3 : i = 1 \/ i = 2 \/ i = 3
  OBVIOUS
<1>4. Path(op, s)
  BY <1>2, <1>3 DEF Path, PlacesOf, Follows, AfterRead, AfterCharge, AfterStore
<1>5. s # << >> /\ Head(s) = s[1]
  BY <1>2, Begins
<1> QED
  BY <1>1, <1>2, <1>4, <1>5

(* the rebalance after a movement of cash,                                 *)
LEMMA RebalancePath ==
    ASSUME NEW op \in {"cash"}
    PROVE  /\ Path(op, RebalanceSteps) /\ RebalanceSteps \in Seq(Steps)
           /\ RebalanceSteps # << >> /\ Head(RebalanceSteps) = "look"
<1>1. PICK s : s = RebalanceSteps
  OBVIOUS
<1>2. /\ s \in Seq(Steps) /\ Len(s) = 5 /\ s[1] = "look" /\ s[2] = "consult" /\ s[3] = "store"
     /\ s[4] = "relabel" /\ s[5] = "answer"
  BY <1>1 DEF SuggestSteps, RebalanceSteps, EditSteps, Steps
<1>3. \A i \in 1..5 : i = 1 \/ i = 2 \/ i = 3 \/ i = 4 \/ i = 5
  OBVIOUS
<1>4. Path(op, s)
  BY <1>2, <1>3 DEF Path, PlacesOf, Follows, AfterRead, AfterCharge, AfterStore
<1>5. s # << >> /\ Head(s) = s[1]
  BY <1>2, Begins
<1> QED
  BY <1>1, <1>2, <1>4, <1>5

(* the read at the end,                                                    *)
LEMMA AnswerPath ==
    ASSUME NEW op \in {"cash", "apply"}
    PROVE  /\ Path(op, <<"answer">>) /\ <<"answer">> \in Seq(Steps)
           /\ <<"answer">> # << >> /\ Head(<<"answer">>) = "answer"
<1>1. PICK s : s = <<"answer">>
  OBVIOUS
<1>2. /\ s \in Seq(Steps) /\ Len(s) = 1 /\ s[1] = "answer"
  BY <1>1 DEF SuggestSteps, RebalanceSteps, EditSteps, Steps
<1>3. \A i \in 1..1 : i = 1
  OBVIOUS
<1>4. Path(op, s)
  BY <1>2, <1>3 DEF Path, PlacesOf, Follows, AfterRead, AfterCharge, AfterStore
<1>5. s # << >> /\ Head(s) = s[1]
  BY <1>2, Begins
<1> QED
  BY <1>1, <1>2, <1>4, <1>5

(* a portfolio without a suggestion,                                       *)
LEMMA BarePath ==
    ASSUME NEW op \in {"create"}
    PROVE  /\ Path(op, <<"insert", "answer">>) /\ <<"insert", "answer">> \in Seq(Steps)
           /\ <<"insert", "answer">> # << >> /\ Head(<<"insert", "answer">>) = "insert"
<1>1. PICK s : s = <<"insert", "answer">>
  OBVIOUS
<1>2. /\ s \in Seq(Steps) /\ Len(s) = 2 /\ s[1] = "insert" /\ s[2] = "answer"
  BY <1>1 DEF SuggestSteps, RebalanceSteps, EditSteps, Steps
<1>3. \A i \in 1..2 : i = 1 \/ i = 2
  OBVIOUS
<1>4. Path(op, s)
  BY <1>2, <1>3 DEF Path, PlacesOf, Follows, AfterRead, AfterCharge, AfterStore
<1>5. s # << >> /\ Head(s) = s[1]
  BY <1>2, Begins
<1> QED
  BY <1>1, <1>2, <1>4, <1>5

(* or one with it.                                                         *)
LEMMA CreatePath ==
    ASSUME NEW op \in {"create"}
    PROVE  /\ Path(op, (<<"ensure", "insert", "charge">> \o SuggestSteps \o <<"answer">>)) /\ (<<"ensure", "insert", "charge">> \o SuggestSteps \o <<"answer">>) \in Seq(Steps)
           /\ (<<"ensure", "insert", "charge">> \o SuggestSteps \o <<"answer">>) # << >> /\ Head((<<"ensure", "insert", "charge">> \o SuggestSteps \o <<"answer">>)) = "ensure"
<1>1. PICK s : s = (<<"ensure", "insert", "charge">> \o SuggestSteps \o <<"answer">>)
  OBVIOUS
<1>2. /\ s \in Seq(Steps) /\ Len(s) = 6 /\ s[1] = "ensure" /\ s[2] = "insert" /\ s[3] = "charge"
     /\ s[4] = "consult" /\ s[5] = "store" /\ s[6] = "answer"
  BY <1>1 DEF SuggestSteps, RebalanceSteps, EditSteps, Steps
<1>3. \A i \in 1..6 : i = 1 \/ i = 2 \/ i = 3 \/ i = 4 \/ i = 5 \/ i = 6
  OBVIOUS
<1>4. Path(op, s)
  BY <1>2, <1>3 DEF Path, PlacesOf, Follows, AfterRead, AfterCharge, AfterStore
<1>5. s # << >> /\ Head(s) = s[1]
  BY <1>2, Begins
<1> QED
  BY <1>1, <1>2, <1>4, <1>5

----------------------------------------------------------------------------
(* What a step of a request may be: how its own place and locals go on,    *)
(* and what it makes of the tables.                                        *)
Turn(r, j, q) ==
    /\ j \in Job /\ j.op = job[r].op /\ j.folio = job[r].folio /\ j.move = job[r].move
    /\ job' = [job EXCEPT ![r] = j]
    /\ at' \in [Requests -> {"idle", "run", "refund"} \cup Endings] /\ todo' \in [Requests -> Seq(Steps)]
    /\ Place(r)' = q /\ PathInv(r)' /\ (at'[r] = "run" <=> q \in Steps) /\ q # "idle"
    /\ \A s \in Requests \ {r} : at'[s] = at[s] /\ todo'[s] = todo[s] /\ job'[s] = job[s]

Quiet == UNCHANGED <<ledgerVars, rowVars>>

ThrownTo(r, j, q) ==
    /\ Quiet /\ Place(r) \in Steps /\ q \in {"refund", "error", "without"}
    /\ \E shown \in BOOLEAN : j = [job[r] EXCEPT !.shown = shown]
    /\ q = "refund" <=> job[r].charged /\ ~(Place(r) = "answer" /\ job[r].op \in {"apply", "create"})
    /\ q = "without" => Place(r) \in {"analyze", "charge", "consult", "store"}

PreparedTo(r, j, q) == Quiet /\ j = job[r] /\ Place(r) = "prepare" /\ q = "without"

RefundedTo(r, j, q) ==
    /\ Place(r) = "refund" /\ j = job[r] /\ UNCHANGED rowVars
    /\ \/ Credit(Payer(r), "REFUND", Fee, r) /\ q \in {"error", "without"}
       \/ UNCHANGED ledgerVars /\ q = "unrefunded"

SoldOutTo(r, j, q) ==
    /\ Place(r) = "write" /\ q = "read" /\ Quiet
    /\ j = [job[r] EXCEPT !.edits[1].action = "drop"]

ChargeTo(r, j) ==
    /\ Place(r) = "charge" /\ j = [job[r] EXCEPT !.charged = (Fee > 0)] /\ UNCHANGED rowVars
    /\ IF Fee = 0 THEN UNCHANGED ledgerVars ELSE Debit(Payer(r), FeeKind(job[r].op), Fee, r)

QuietTo(r, j) ==
    /\ Place(r) \in {"access", "ensure", "prepare", "look", "consult", "analyze", "evaluate", "answer"}
    /\ Quiet /\ j = job[r]

InsertTo(r, j) ==
    /\ Place(r) = "insert" /\ j = job[r] /\ life[job[r].folio] = "none"
    /\ life' = [life EXCEPT ![job[r].folio] = "live"]
    /\ UNCHANGED <<ledgerVars, opened, capital, cash, history, events>>

Appended(r, row) ==
    /\ Alive(r) /\ row \in Snapshot /\ row.by = r
    /\ history' = [history EXCEPT ![job[r].folio] = Append(@, row)]
    /\ UNCHANGED <<ledgerVars, life, opened, capital, cash, events>>

StoreTo(r, j) ==
    /\ Place(r) = "store" /\ j = [job[r] EXCEPT !.own = Len(history[job[r].folio]) + 1]
    /\ \E row : Appended(r, row) /\ row.kind = "SUGGESTION"

RelabelTo(r, j) ==
    /\ Place(r) \in {"relabel", "evaluated"} /\ j = job[r] /\ Alive(r)
    /\ history' = [history EXCEPT ![job[r].folio][job[r].own].kind =
                      IF Place(r) = "relabel" THEN "REBALANCE" ELSE "MONTHLY_EVAL"]
    /\ UNCHANGED <<ledgerVars, life, opened, capital, cash, events>>

ReadTo(r, j) ==
    /\ Place(r) = "read" /\ Quiet /\ Alive(r) /\ history[job[r].folio] # << >>
    /\ j = [job[r] EXCEPT !.base = Len(history[job[r].folio])]

WriteTo(r, j) ==
    /\ Place(r) = "write" /\ \E type \in EditEvents : j = [job[r] EXCEPT !.log = type]
    /\ \E row :
          /\ Appended(r, row) /\ row.kind = "USER_ADJUSTED" /\ row.base = job[r].base
          /\ row.action # "adjust" =>
                \E edit \in Edit :
                    LET items == history[job[r].folio][job[r].base].items IN
                    row.items = Edited(items, edit) /\ ~Refused(items, edit)

EventTo(r, j, q) ==
    /\ Place(r) = "event" /\ Alive(r) /\ j = [job[r] EXCEPT !.edits = Rest(r)]
    /\ events' = [events EXCEPT ![job[r].folio] = Append(@, [by |-> r, type |-> job[r].log])]
    /\ UNCHANGED <<ledgerVars, life, opened, capital, cash, history>>
    /\ q = "read" <=> Rest(r) # << >>

ReadCashTo(r, j) ==
    LET p == job[r].folio IN
    /\ Place(r) = "readCash" /\ Quiet
    /\ j = [job[r] EXCEPT !.seen = [cash |-> cash[p], capital |-> capital[p]]]

WriteCashTo(r, j) ==
    LET p == job[r].folio IN
    /\ Place(r) = "writeCash" /\ j = [job[r] EXCEPT !.moved = TRUE]
    /\ cash' = [cash EXCEPT ![p] = CashAfter(job[r].move, job[r].seen.cash)]
    /\ capital' = [capital EXCEPT ![p] = CapitalAfter(job[r].move, job[r].seen.capital)]
    /\ UNCHANGED <<ledgerVars, life, opened, history, events>>

CashEventTo(r, j) ==
    /\ Place(r) = "cashEvent" /\ j = job[r] /\ Alive(r)
    /\ events' = [events EXCEPT ![job[r].folio] = Append(@, [by |-> r, type |-> job[r].move.type])]
    /\ UNCHANGED <<ledgerVars, life, opened, capital, cash, history>>

PassedTo(r, j, q) ==
    /\ q \in Follows(job[r].op, Place(r)) /\ Place(r) \in PlacesOf(job[r].op) \cap Steps
    /\ \/ ChargeTo(r, j) \/ QuietTo(r, j) \/ InsertTo(r, j) \/ StoreTo(r, j) \/ RelabelTo(r, j)
       \/ ReadTo(r, j) \/ WriteTo(r, j) \/ EventTo(r, j, q) \/ ReadCashTo(r, j)
       \/ WriteCashTo(r, j) \/ CashEventTo(r, j)

StepTo(r, j, q) ==
    /\ Turn(r, j, q)
    /\ \/ ThrownTo(r, j, q) \/ PreparedTo(r, j, q) \/ RefundedTo(r, j, q) \/ SoldOutTo(r, j, q)
       \/ PassedTo(r, j, q)

LEMMA GoesOn ==
    ASSUME TypeOK, NEW r \in Requests, NEW j \in Job, job' = [job EXCEPT ![r] = j],
           j.op = job[r].op, j.folio = job[r].folio, j.move = job[r].move,
           NEW rest \in Seq(Steps), Path(job[r].op, rest), Then(r, rest)
    PROVE  Turn(r, j, First(rest))
<1>1. /\ todo'[r] = rest /\ at'[r] = (IF rest = << >> THEN "ok" ELSE "run") /\ job'[r] = j
      /\ \A s \in Requests \ {r} : at'[s] = at[s] /\ todo'[s] = todo[s] /\ job'[s] = job[s]
  BY DEF Then, TypeOK
<1>2. at' \in [Requests -> {"idle", "run", "refund"} \cup Endings] /\ todo' \in [Requests -> Seq(Steps)]
  BY DEF Then, TypeOK, Endings
<1>3. rest # << >> => Head(rest) \in Steps
  OBVIOUS
<1>4. Place(r)' = First(rest)
  BY <1>1 DEF Place, First
<1>5. PathInv(r)'
  BY <1>1 DEF PathInv
<1>6. at'[r] = "run" <=> First(rest) \in Steps
  BY <1>1, <1>3 DEF First, Steps
<1>7. First(rest) # "idle"
  BY <1>3 DEF First, Steps
<1> QED
  BY <1>1, <1>2, <1>4, <1>5, <1>6, <1>7 DEF Turn

LEMMA Finishes ==
    ASSUME TypeOK, NEW r \in Requests, NEW j \in Job, job' = [job EXCEPT ![r] = j],
           j.op = job[r].op, j.folio = job[r].folio, j.move = job[r].move,
           NEW ending \in Endings \cup {"refund"}, Ends(r, ending)
    PROVE  Turn(r, j, ending)
<1>1. /\ todo'[r] = << >> /\ at'[r] = ending /\ job'[r] = j
      /\ \A s \in Requests \ {r} : at'[s] = at[s] /\ todo'[s] = todo[s] /\ job'[s] = job[s]
  BY DEF Ends, TypeOK
<1>2. at' \in [Requests -> {"idle", "run", "refund"} \cup Endings] /\ todo' \in [Requests -> Seq(Steps)]
  BY DEF Ends, TypeOK
<1>3. ending \notin Steps /\ ending # "run" /\ ending # "idle"
  BY DEF Endings, Steps
<1>4. Place(r)' = ending
  BY <1>1, <1>3 DEF Place
<1>5. PathInv(r)'
  BY <1>1, <1>3 DEF PathInv, Path
<1> QED
  BY <1>1, <1>2, <1>3, <1>4, <1>5 DEF Turn

LEMMA ContinuesOn ==
    ASSUME TypeOK, NEW r \in Requests, PathInv(r), NEW name, Step(r, name),
           name \notin {"access", "event"}, Continues(r),
           NEW j \in Job, job' = [job EXCEPT ![r] = j],
           j.op = job[r].op, j.folio = job[r].folio, j.move = job[r].move
    PROVE  \E q : /\ Turn(r, j, q) /\ q \in Follows(job[r].op, Place(r))
                  /\ Place(r) = name /\ Place(r) \in PlacesOf(job[r].op) \cap Steps
<1>1. PICK rest : rest = Tail(todo[r])
  OBVIOUS
<1>2. todo[r] \in Seq(Steps) /\ todo[r] # << >> /\ Path(job[r].op, todo[r]) /\ Head(todo[r]) = name
  BY DEF TypeOK, PathInv, Step
<1>3. /\ rest \in Seq(Steps) /\ Path(job[r].op, rest) /\ Head(todo[r]) \in PlacesOf(job[r].op) \cap Steps
      /\ First(rest) \in Follows(job[r].op, Head(todo[r]))
  BY <1>1, <1>2, TailPath
<1>4. Then(r, rest)
  BY <1>1 DEF Continues
<1>5. Turn(r, j, First(rest))
  BY <1>3, <1>4, GoesOn
<1>6. Place(r) = name
  BY DEF Place, Step
<1> QED
  BY <1>2, <1>3, <1>5, <1>6

LEMMA ThrowsOn ==
    ASSUME TypeOK, NEW r \in Requests, PathInv(r), at[r] = "run", todo[r] # << >>,
           NEW bad \in BOOLEAN, Throws(r, bad), Quiet
    PROVE  \E j, q : StepTo(r, j, q)
<1>1. PICK shown \in BOOLEAN : /\ shown = ~Hidden(r, bad)
                               /\ job' = [job EXCEPT ![r].shown = shown]
  BY DEF Throws, Hidden
<1>2. PICK j : j = [job[r] EXCEPT !.shown = shown]
  OBVIOUS
<1>3. job[r] \in Job /\ job \in [Requests -> Job]
  BY DEF TypeOK
<1>4. /\ j \in Job /\ j.op = job[r].op /\ j.folio = job[r].folio /\ j.move = job[r].move
      /\ job' = [job EXCEPT ![r] = j]
  BY <1>1, <1>2, <1>3 DEF Job
<1>5. PICK ending : ending = IF Refundable(r) THEN "refund" ELSE IF shown THEN "error" ELSE "without"
  OBVIOUS
<1>51. Refundable(r) \in BOOLEAN /\ Hidden(r, bad) \in BOOLEAN
  BY DEF Refundable, Hidden
<1>52. /\ ending \in {"refund", "error", "without"} /\ (ending = "refund" <=> Refundable(r))
       /\ ending = "without" => ~shown
  BY <1>5, <1>51
<1>53. Ends(r, ending)
  <2>1. Ends(r, IF Refundable(r) THEN "refund" ELSE IF ~Hidden(r, bad) THEN "error" ELSE "without")
    BY DEF Throws
  <2> QED
    BY <1>1, <1>5, <2>1
<1>6. Turn(r, j, ending)
  BY <1>4, <1>52, <1>53, Finishes DEF Endings
<1>7. Place(r) = Head(todo[r]) /\ Place(r) \in Steps
  <2>1. todo[r] \in Seq(Steps)
    BY DEF TypeOK
  <2> QED
    BY <2>1 DEF Place
<1>8. ending \in {"refund", "error", "without"} /\ (ending = "refund" <=> Refundable(r))
  BY <1>52
<1>9. ending = "without" => Hidden(r, bad)
  BY <1>1, <1>51, <1>52
<1>10. ThrownTo(r, j, ending)
  BY <1>2, <1>7, <1>8, <1>9 DEF ThrownTo, Refundable, Hidden
<1> QED
  BY <1>6, <1>10 DEF StepTo

(* An edit that is about to be made is based on a snapshot that is there,  *)
(* after which the request has made none.                                  *)
EditOps == {"apply", "suggestion", "edit"}
Based(r) ==
    LET rows == history[job[r].folio] IN
    job[r].base \in DOMAIN rows /\ \A k \in job[r].base + 1..Len(rows) : rows[k].by # r
EditInv(r) ==
    /\ job[r].op \in EditOps /\ Place(r) \in {"charge", "read", "write", "event"} => job[r].edits # << >>
    /\ job[r].op = "apply" /\ Place(r) \in {"answer", "ok"} => job[r].edits = << >>
    /\ Place(r) = "write" /\ Alive(r) => Based(r)

LEMMA AtStep ==
    ASSUME TypeOK, NEW r \in Requests, NEW name, Step(r, name)
    PROVE  /\ at[r] = "run" /\ todo[r] # << >> /\ Place(r) = name /\ name \in Steps
           /\ job[r] \in Job /\ job \in [Requests -> Job]
<1>1. todo[r] \in Seq(Steps) /\ job \in [Requests -> Job]
  BY DEF TypeOK
<1> QED
  BY <1>1 DEF Step, Place

LEMMA SameJob ==
    ASSUME TypeOK, NEW r \in Requests, UNCHANGED job
    PROVE  job[r] \in Job /\ job' = [job EXCEPT ![r] = job[r]]
BY DEF TypeOK

(* The steps that change nothing but the request.                          *)
LEMMA QuietOn ==
    ASSUME TypeOK, NEW r \in Requests, PathInv(r),
           NEW name \in {"ensure", "prepare", "look", "consult", "analyze", "evaluate", "answer"},
           Step(r, name), Continues(r), UNCHANGED job, Quiet
    PROVE  \E j, q : StepTo(r, j, q)
<1>1. job[r] \in Job /\ job' = [job EXCEPT ![r] = job[r]]
  BY SameJob
<1>2. PICK q : /\ Turn(r, job[r], q) /\ q \in Follows(job[r].op, Place(r))
               /\ Place(r) = name /\ Place(r) \in PlacesOf(job[r].op) \cap Steps
  BY <1>1, ContinuesOn
<1>3. QuietTo(r, job[r])
  BY <1>2 DEF QuietTo
<1> QED
  BY <1>2, <1>3 DEF StepTo, PassedTo

LEMMA ChargeIs ==
    ASSUME TypeOK, NEW r \in Requests, PathInv(r), Charge(r)
    PROVE  \E j, q : StepTo(r, j, q)
<1>1. Step(r, "charge") /\ UNCHANGED rowVars
  BY DEF Charge
<1>2. /\ at[r] = "run" /\ todo[r] # << >> /\ Place(r) = "charge"
      /\ job[r] \in Job /\ job \in [Requests -> Job]
  BY <1>1, AtStep
<1>3. ASSUME Throws(r, TRUE), UNCHANGED ledgerVars PROVE \E j, q : StepTo(r, j, q)
  <2>1. Quiet
    BY <1>1, <1>3 DEF Quiet
  <2> QED
    BY <1>2, <1>3, <2>1, ThrowsOn
<1>4. ASSUME IF Fee = 0 THEN UNCHANGED ledgerVars ELSE Debit(Payer(r), FeeKind(job[r].op), Fee, r),
             job' = [job EXCEPT ![r].charged = (Fee > 0)], Continues(r)
      PROVE  \E j, q : StepTo(r, j, q)
  <2>1. PICK j : j = [job[r] EXCEPT !.charged = (Fee > 0)]
    OBVIOUS
  <2>2. /\ j \in Job /\ j.op = job[r].op /\ j.folio = job[r].folio /\ j.move = job[r].move
        /\ job' = [job EXCEPT ![r] = j]
    <3>0. (Fee > 0) \in BOOLEAN
      OBVIOUS
    <3>1. PICK paid \in BOOLEAN : paid = (Fee > 0)
      BY <3>0, Zenon
    <3>2. j = [job[r] EXCEPT !.charged = paid]
      BY <2>1, <3>1
    <3>3. /\ j \in Job /\ j.op = job[r].op /\ j.folio = job[r].folio /\ j.move = job[r].move
      BY <1>2, <3>2 DEF Job
    <3> QED
      BY <1>4, <2>1, <3>3
  <2>3. PICK q : /\ Turn(r, j, q) /\ q \in Follows(job[r].op, Place(r))
                 /\ Place(r) \in PlacesOf(job[r].op) \cap Steps
    BY <1>1, <1>4, <2>2, ContinuesOn
  <2>4. ChargeTo(r, j)
    BY <1>1, <1>2, <1>4, <2>1 DEF ChargeTo
  <2> QED
    BY <2>3, <2>4 DEF StepTo, PassedTo
<1> QED
  BY <1>3, <1>4 DEF Charge

LEMMA RefundIs ==
    ASSUME TypeOK, NEW r \in Requests, Refund(r)
    PROVE  \E j, q : StepTo(r, j, q)
<1>1. at[r] = "refund" /\ UNCHANGED <<rowVars, job>>
  BY DEF Refund
<1>2. job[r] \in Job /\ job' = [job EXCEPT ![r] = job[r]] /\ Place(r) = "refund"
  BY <1>1, SameJob DEF Place
<1>3. ASSUME NEW q \in {"error", "without", "unrefunded"}, Ends(r, q) PROVE Turn(r, job[r], q)
  BY <1>2, <1>3, Finishes DEF Endings
<1>4. ASSUME Credit(Payer(r), "REFUND", Fee, r), Ends(r, IF job[r].shown THEN "error" ELSE "without")
      PROVE  \E j, q : StepTo(r, j, q)
  <2>1. PICK q : q = IF job[r].shown THEN "error" ELSE "without"
    OBVIOUS
  <2>2. job[r].shown \in BOOLEAN
    BY <1>2 DEF Job
  <2>3. q \in {"error", "without"} /\ Ends(r, q)
    BY <1>4, <2>1, <2>2
  <2>4. RefundedTo(r, job[r], q)
    BY <1>1, <1>2, <1>4, <2>3 DEF RefundedTo
  <2> QED
    BY <1>3, <2>3, <2>4 DEF StepTo
<1>5. ASSUME Ends(r, "unrefunded"), UNCHANGED ledgerVars PROVE \E j, q : StepTo(r, j, q)
  <2>1. RefundedTo(r, job[r], "unrefunded")
    BY <1>1, <1>2, <1>5 DEF RefundedTo
  <2> QED
    BY <1>3, <1>5, <2>1 DEF StepTo
<1> QED
  BY <1>4, <1>5 DEF Refund

LEMMA AccessIs ==
    ASSUME TypeOK, NEW r \in Requests, PathInv(r), Access(r)
    PROVE  \E j, q : StepTo(r, j, q)
<1>1. Step(r, "access") /\ UNCHANGED <<ledgerVars, rowVars, job>>
  BY DEF Access
<1>2. at[r] = "run" /\ todo[r] # << >> /\ Place(r) = "access" /\ job[r] \in Job
  BY <1>1, AtStep
<1>3. job' = [job EXCEPT ![r] = job[r]] /\ Quiet
  BY <1>1, SameJob DEF Quiet
<1>4. todo[r] \in Seq(Steps) /\ Path(job[r].op, todo[r]) /\ Head(todo[r]) = "access"
  BY <1>1 DEF TypeOK, PathInv, Step
<1>5. "access" \in PlacesOf(job[r].op)
  BY <1>2, <1>4, TailPath
<1>6. job[r].op \in {"cash", "create"}
  <2>1. job[r].op \in Ops
    BY <1>2 DEF Job
  <2> QED
    BY <1>5, <2>1 DEF PlacesOf, Ops
<1>7. ASSUME NEW rest \in Seq(Steps), Path(job[r].op, rest), Then(r, rest), rest # << >>,
             Head(rest) \in Follows(job[r].op, "access")
      PROVE  \E j, q : StepTo(r, j, q)
  <2>1. Turn(r, job[r], First(rest))
    BY <1>2, <1>3, <1>7, GoesOn
  <2>2. First(rest) \in Follows(job[r].op, Place(r)) /\ Place(r) \in PlacesOf(job[r].op) \cap Steps
    BY <1>2, <1>5, <1>7 DEF First, Steps
  <2>3. QuietTo(r, job[r])
    BY <1>2, <1>3 DEF QuietTo
  <2> QED
    BY <2>1, <2>2, <2>3 DEF StepTo, PassedTo
<1>8. CASE job[r].op = "create"
  <2>1. Then(r, <<"ensure", "insert", "charge">> \o SuggestSteps \o <<"answer">>) \/ Then(r, <<"insert", "answer">>)
    BY <1>8 DEF Access
  <2>2. Follows(job[r].op, "access") = {"ensure", "insert"}
    BY <1>8 DEF Follows
  <2> QED
    BY <1>7, <1>8, <2>1, <2>2, CreatePath, BarePath
<1>9. CASE job[r].op = "cash"
  <2>1. Then(r, RebalanceSteps) \/ Then(r, <<"answer">>)
    BY <1>9 DEF Access
  <2>2. Follows(job[r].op, "access") = {"look", "answer"}
    BY <1>9 DEF Follows
  <2> QED
    BY <1>7, <1>9, <2>1, <2>2, RebalancePath, AnswerPath
<1> QED
  BY <1>6, <1>8, <1>9

(* The steps that go on where the row is there, and throw where it is not. *)
LEMMA NeedIs ==
    ASSUME TypeOK, NEW r \in Requests, PathInv(r),
           NEW name \in {"look", "consult", "answer"}, Step(r, name),
           NEW row, Needs(r, row), Quiet
    PROVE  \E j, q : StepTo(r, j, q)
<1>1. at[r] = "run" /\ todo[r] # << >>
  BY AtStep
<1>2. CASE row
  BY <1>2, QuietOn DEF Needs
<1>3. CASE ~row
  BY <1>1, <1>3, ThrowsOn DEF Needs
<1> QED
  BY <1>2, <1>3

LEMMA QuietIs ==
    ASSUME TypeOK, NEW r \in Requests, PathInv(r),
           \/ Ensure(r) \/ Prepare(r) \/ Look(r) \/ Consult(r)
           \/ Ask(r, "analyze") \/ Ask(r, "evaluate") \/ Answer(r)
    PROVE  \E j, q : StepTo(r, j, q)
<1>1. CASE Ensure(r)
  <2>1. Step(r, "ensure") /\ Quiet /\ at[r] = "run" /\ todo[r] # << >>
    BY <1>1, AtStep DEF Ensure, Quiet
  <2>2. Throws(r, TRUE) \/ (Continues(r) /\ UNCHANGED job)
    BY <1>1 DEF Ensure
  <2> QED
    BY <2>1, <2>2, ThrowsOn, QuietOn
<1>2. CASE Prepare(r)
  <2>1. Step(r, "prepare") /\ Quiet /\ UNCHANGED job
    BY <1>2 DEF Prepare, Quiet
  <2>2. CASE Continues(r)
    BY <2>1, <2>2, QuietOn
  <2>3. CASE Ends(r, "without")
    <3>1. job[r] \in Job /\ job' = [job EXCEPT ![r] = job[r]] /\ Place(r) = "prepare"
      BY <2>1, SameJob, AtStep
    <3>2. Turn(r, job[r], "without")
      BY <2>3, <3>1, Finishes DEF Endings
    <3>3. PreparedTo(r, job[r], "without")
      BY <2>1, <3>1 DEF PreparedTo
    <3> QED
      BY <3>2, <3>3 DEF StepTo
  <2> QED
    BY <1>2, <2>2, <2>3 DEF Prepare
<1>3. CASE Look(r)
  BY <1>3, NeedIs DEF Look, Quiet
<1>4. CASE Consult(r)
  <2>1. Step(r, "consult") /\ Quiet /\ at[r] = "run" /\ todo[r] # << >>
    BY <1>4, AtStep DEF Consult, Quiet
  <2>2. Throws(r, TRUE) \/ Needs(r, job[r].op = "hedge" \/ Alive(r))
    BY <1>4 DEF Consult
  <2> QED
    BY <2>1, <2>2, ThrowsOn, NeedIs
<1>5. CASE Ask(r, "analyze")
  BY <1>5, QuietOn DEF Ask, Quiet
<1>6. CASE Ask(r, "evaluate")
  BY <1>6, QuietOn DEF Ask, Quiet
<1>7. CASE Answer(r)
  BY <1>7, NeedIs DEF Answer, Quiet
<1> QED
  BY <1>1, <1>2, <1>3, <1>4, <1>5, <1>6, <1>7

LEMMA InsertIs ==
    ASSUME TypeOK, NEW r \in Requests, PathInv(r), Insert(r)
    PROVE  \E j, q : StepTo(r, j, q)
<1>1. Step(r, "insert") /\ Continues(r) /\ UNCHANGED job
  BY DEF Insert
<1>2. job[r] \in Job /\ job' = [job EXCEPT ![r] = job[r]]
  BY <1>1, SameJob
<1>3. PICK q : /\ Turn(r, job[r], q) /\ q \in Follows(job[r].op, Place(r))
               /\ Place(r) = "insert" /\ Place(r) \in PlacesOf(job[r].op) \cap Steps
  BY <1>1, <1>2, ContinuesOn
<1>4. InsertTo(r, job[r])
  BY <1>3 DEF InsertTo, Insert
<1> QED
  BY <1>3, <1>4 DEF StepTo, PassedTo

(* A snapshot that is made is of the type of its table.                    *)
LEMMA CreateIs ==
    ASSUME TypeOK, NEW r \in Requests, Alive(r), NEW kind \in SnapshotKinds,
           NEW action \in ByHand \cup FromAnalysis \cup {"suggest", "adjust"},
           NEW base \in Nat, NEW items \in Holdings, Create(r, kind, action, base, items),
           UNCHANGED <<ledgerVars, life, opened, capital, cash, events>>
    PROVE  \E row : /\ Appended(r, row) /\ row.kind = kind /\ row.action = action
                    /\ row.base = base /\ row.items = items
<1>1. PICK row : row = [kind |-> kind, by |-> r, action |-> action, base |-> base, items |-> items]
  OBVIOUS
<1>2. row \in Snapshot /\ row.by = r
  BY <1>1 DEF Snapshot
<1>3. history' = [history EXCEPT ![job[r].folio] = Append(@, row)]
  BY <1>1 DEF Create
<1>4. Appended(r, row)
  BY <1>2, <1>3 DEF Appended
<1>5. row.kind = kind /\ row.action = action /\ row.base = base /\ row.items = items
  BY <1>1
<1> QED
  BY <1>4, <1>5

LEMMA StoreIs ==
    ASSUME TypeOK, NEW r \in Requests, PathInv(r), Store(r)
    PROVE  \E j, q : StepTo(r, j, q)
<1>1. Step(r, "store") /\ UNCHANGED <<ledgerVars, life, opened, capital, cash, events>>
  BY DEF Store
<1>2. /\ at[r] = "run" /\ todo[r] # << >> /\ Place(r) = "store"
      /\ job[r] \in Job /\ job \in [Requests -> Job]
  BY <1>1, AtStep
<1>3. CASE ~Alive(r)
  <2>1. Throws(r, FALSE) /\ Quiet
    BY <1>1, <1>3 DEF Store, Quiet, rowVars
  <2> QED
    BY <1>2, <2>1, ThrowsOn
<1>4. CASE Alive(r)
  <2>1. PICK items \in Suggestions : Create(r, "SUGGESTION", "suggest", 0, items)
    BY <1>4 DEF Store
  <2>2. items \in Holdings
    BY PortfolioAssumption
  <2>3. \E row : Appended(r, row) /\ row.kind = "SUGGESTION"
    BY <1>1, <1>4, <2>1, <2>2, CreateIs DEF SnapshotKinds
  <2>4. job' = [job EXCEPT ![r].own = Len(history[job[r].folio]) + 1] /\ Continues(r)
    BY <1>4 DEF Store
  <2>5. PICK own \in Nat : own = Len(history[job[r].folio]) + 1
    <3>1. job[r].folio \in Portfolios
      BY <1>2 DEF Job
    <3>2. history[job[r].folio] \in Seq(Snapshot)
      BY <3>1 DEF TypeOK
    <3> QED
      BY <3>2
  <2>6. PICK j : j = [job[r] EXCEPT !.own = own]
    OBVIOUS
  <2>7. /\ j \in Job /\ j.op = job[r].op /\ j.folio = job[r].folio /\ j.move = job[r].move
    BY <1>2, <2>6 DEF Job
  <2>8. job' = [job EXCEPT ![r] = j]
    BY <1>2, <2>4, <2>5, <2>6
  <2>9. PICK q : /\ Turn(r, j, q) /\ q \in Follows(job[r].op, Place(r))
                 /\ Place(r) \in PlacesOf(job[r].op) \cap Steps
    BY <1>1, <2>4, <2>7, <2>8, ContinuesOn
  <2>10. StoreTo(r, j)
    BY <1>2, <2>3, <2>5, <2>6 DEF StoreTo
  <2> QED
    BY <2>9, <2>10 DEF StepTo, PassedTo
<1> QED
  BY <1>3, <1>4

LEMMA RelabelIs ==
    ASSUME TypeOK, NEW r \in Requests, PathInv(r),
           Relabel(r, "relabel", "REBALANCE") \/ Relabel(r, "evaluated", "MONTHLY_EVAL")
    PROVE  \E j, q : StepTo(r, j, q)
<1>1. PICK name, kind : /\ Relabel(r, name, kind)
                        /\ <<name, kind>> \in {<<"relabel", "REBALANCE">>, <<"evaluated", "MONTHLY_EVAL">>}
  OBVIOUS
<1>2. Step(r, name) /\ UNCHANGED <<ledgerVars, life, opened, capital, cash, events>> /\ Needs(r, Alive(r))
  BY <1>1 DEF Relabel
<1>3. at[r] = "run" /\ todo[r] # << >> /\ Place(r) = name
  BY <1>2, AtStep
<1>4. CASE ~Alive(r)
  <2>1. history' = history
    BY <1>1, <1>4 DEF Relabel
  <2>2. Throws(r, FALSE) /\ Quiet
    BY <1>2, <1>4, <2>1 DEF Needs, Quiet, rowVars
  <2> QED
    BY <1>3, <2>2, ThrowsOn
<1>5. CASE Alive(r)
  <2>1. history' = [history EXCEPT ![job[r].folio][job[r].own].kind = kind]
    BY <1>1, <1>5 DEF Relabel
  <2>2. Continues(r) /\ UNCHANGED job
    BY <1>2, <1>5 DEF Needs
  <2>3. job[r] \in Job /\ job' = [job EXCEPT ![r] = job[r]]
    BY <2>2, SameJob
  <2>4. name \notin {"access", "event"}
    BY <1>1
  <2>5. PICK q : /\ Turn(r, job[r], q) /\ q \in Follows(job[r].op, Place(r))
                 /\ Place(r) \in PlacesOf(job[r].op) \cap Steps
    BY <1>2, <2>2, <2>3, <2>4, ContinuesOn
  <2>6. kind = IF Place(r) = "relabel" THEN "REBALANCE" ELSE "MONTHLY_EVAL"
    BY <1>1, <1>3
  <2>7. RelabelTo(r, job[r])
    BY <1>1, <1>2, <1>3, <1>5, <2>1, <2>6 DEF RelabelTo
  <2> QED
    BY <2>5, <2>7 DEF StepTo, PassedTo
<1> QED
  BY <1>4, <1>5

----------------------------------------------------------------------------
(* What an edit makes of a composition is one again.                       *)
LEMMA Composition ==
    ASSUME NEW D \in SUBSET Symbols, NEW f \in [D -> 1..MaxQty]
    PROVE  f \in Holdings
BY DEF Holdings

LEMMA HoldingsAre ==
    ASSUME NEW items \in Holdings
    PROVE  DOMAIN items \in SUBSET Symbols /\ items \in [DOMAIN items -> 1..MaxQty]
BY DEF Holdings

LEMMA SizedTyped ==
    ASSUME NEW items \in Holdings, NEW edit \in Edit, edit.action \in FromAnalysis,
           ~SellsOut(items, edit)
    PROVE  Sized(items, edit) \in 1..MaxQty
<1>1. /\ edit.symbol \in Symbols /\ edit.qty \in 1..MaxQty /\ MaxQty \in Nat \ {0}
      /\ items \in [DOMAIN items -> 1..MaxQty]
  BY HoldingsAre, PortfolioAssumption DEF Edit
<1>2. Resolved(items, edit) \in {"INCREASE", "DECREASE"} => edit.symbol \in DOMAIN items
  BY DEF Resolved
<1>3. PICK total : total = CASE Resolved(items, edit) = "INCREASE" -> items[edit.symbol] + edit.qty
                             [] Resolved(items, edit) = "DECREASE" -> items[edit.symbol] - edit.qty
                             [] OTHER                              -> edit.qty
  OBVIOUS
<1>4. total \in Int
  <2>1. edit.symbol \in DOMAIN items => items[edit.symbol] \in Int
    BY <1>1
  <2>2. edit.qty \in Int
    BY <1>1
  <2> QED
    BY <1>2, <1>3, <2>1, <2>2
<1>5. Sized(items, edit) = IF total > MaxQty THEN MaxQty ELSE total
  BY <1>3 DEF Sized
<1>6. ~(Sized(items, edit) <= 0)
  BY DEF SellsOut
<1> QED
  BY <1>1, <1>4, <1>5, <1>6

LEMMA WithTyped ==
    ASSUME NEW items \in Holdings, NEW s \in Symbols, NEW qty \in 1..MaxQty
    PROVE  With(items, s, qty) \in Holdings
<1>1. DOMAIN items \in SUBSET Symbols /\ items \in [DOMAIN items -> 1..MaxQty]
  BY HoldingsAre
<1>2. PICK D : D = DOMAIN items \cup {s}
  OBVIOUS
<1>3. D \in SUBSET Symbols /\ With(items, s, qty) \in [D -> 1..MaxQty]
  BY <1>1, <1>2 DEF With
<1> QED
  BY <1>3, Composition

LEMMA WithoutTyped ==
    ASSUME NEW items \in Holdings, NEW s
    PROVE  Without(items, s) \in Holdings
<1>1. DOMAIN items \in SUBSET Symbols /\ items \in [DOMAIN items -> 1..MaxQty]
  BY HoldingsAre
<1>2. PICK D : D = DOMAIN items \ {s}
  OBVIOUS
<1>3. D \in SUBSET Symbols /\ Without(items, s) \in [D -> 1..MaxQty]
  BY <1>1, <1>2 DEF Without, Restrict
<1> QED
  BY <1>3, Composition

LEMMA EditedTyped ==
    ASSUME NEW items \in Holdings, NEW edit \in Edit, ~SellsOut(items, edit)
    PROVE  Edited(items, edit) \in Holdings
<1>1. edit.symbol \in Symbols /\ edit.qty \in 1..MaxQty /\ edit.action \in ByHand \cup FromAnalysis
  BY DEF Edit
<1>2. CASE edit.action = "drop"
  BY <1>2, WithoutTyped DEF Edited, FromAnalysis
<1>3. CASE edit.action \in FromAnalysis
  <2>1. Edited(items, edit) = With(items, edit.symbol, Sized(items, edit))
    BY <1>3 DEF Edited, FromAnalysis
  <2> QED
    BY <1>1, <1>3, <2>1, SizedTyped, WithTyped
<1>4. CASE edit.action \in ByHand \ {"drop"}
  <2>1. Edited(items, edit) = With(items, edit.symbol, edit.qty)
    BY <1>4 DEF Edited, FromAnalysis, ByHand
  <2> QED
    BY <1>1, <2>1, WithTyped
<1> QED
  BY <1>1, <1>2, <1>3, <1>4

(* An edit that is not refused touches one holding and leaves some.        *)
LEMMA EditedOne ==
    ASSUME NEW items \in Holdings, NEW edit \in Edit, ~Refused(items, edit)
    PROVE  /\ DOMAIN Edited(items, edit) # {}
           /\ \A s \in Symbols \ {edit.symbol} : Held(Edited(items, edit), s) = Held(items, s)
<1>1. CASE edit.action = "drop"
  <2>1. Edited(items, edit) = [s \in DOMAIN items \ {edit.symbol} |-> items[s]]
    BY <1>1 DEF Edited, Without, Restrict, FromAnalysis
  <2>2. edit.symbol \in DOMAIN items /\ DOMAIN items # {edit.symbol}
    BY <1>1 DEF Refused
  <2> QED
    BY <2>1, <2>2 DEF Held
<1>2. CASE edit.action # "drop"
  <2>1. PICK qty : Edited(items, edit) = With(items, edit.symbol, qty)
    BY <1>2 DEF Edited
  <2> QED
    BY <2>1 DEF With, Held
<1> QED
  BY <1>1, <1>2

(* What sells a holding out is done again as a removal.                    *)
LEMMA AgainPath ==
    ASSUME NEW op \in EditOps, NEW s \in Seq(Steps), s # << >>, Head(s) = "write", Path(op, s)
    PROVE  LET t == <<"read">> \o s IN
           t \in Seq(Steps) /\ Path(op, t) /\ t # << >> /\ Head(t) = "read"
<1>1. PICK t : t = <<"read">> \o s
  OBVIOUS
<1>2. Len(s) \in Nat \ {0} /\ s[1] = "write"
  OBVIOUS
<1>3. <<"read">> \in Seq(Steps) /\ Len(<<"read">>) = 1
  BY DEF Steps
<1>4. t \in Seq(Steps) /\ Len(t) = Len(s) + 1 /\ t[1] = "read" /\ \A i \in 1..Len(s) : t[i + 1] = s[i]
  BY <1>1, <1>2, <1>3
<1>5. t # << >> /\ Head(t) = t[1]
  BY <1>2, <1>4, Begins
<1>6. ASSUME NEW i \in 1..Len(t)
      PROVE  /\ t[i] \in PlacesOf(op)
             /\ i < Len(t) => t[i + 1] \in Follows(op, t[i])
             /\ i = Len(t) => t[i] \in {"access", "event"} \/ "ok" \in Follows(op, t[i])
  <2>1. CASE i = 1
    <3>1. "read" \in PlacesOf(op) /\ "write" \in Follows(op, "read")
      BY DEF PlacesOf, Follows, AfterRead, EditOps
    <3>2. t[i] = "read" /\ t[i + 1] = "write" /\ i # Len(t)
      BY <1>2, <1>4, <2>1
    <3> QED
      BY <3>1, <3>2
  <2>2. CASE i # 1
    <3>1. PICK k \in 1..Len(s) : i = k + 1
      <4>1. i - 1 \in 1..Len(s) /\ i = (i - 1) + 1
        BY <1>2, <1>4, <2>2
      <4> QED
        BY <4>1
    <3>2. /\ s[k] \in PlacesOf(op)
          /\ k < Len(s) => s[k + 1] \in Follows(op, s[k])
          /\ k = Len(s) => s[k] \in {"access", "event"} \/ "ok" \in Follows(op, s[k])
      BY <3>1 DEF Path
    <3>3. t[i] = s[k] /\ (i < Len(t) => k < Len(s) /\ t[i + 1] = s[k + 1]) /\ (i = Len(t) => k = Len(s))
      BY <1>2, <1>4, <3>1
    <3> QED
      BY <3>2, <3>3
  <2> QED
    BY <2>1, <2>2
<1>7. Path(op, t)
  BY <1>6 DEF Path
<1> QED
  BY <1>1, <1>4, <1>5, <1>7

LEMMA ReadIs ==
    ASSUME TypeOK, NEW r \in Requests, PathInv(r), Read(r)
    PROVE  \E j, q : StepTo(r, j, q)
<1>1. Step(r, "read") /\ Quiet
  BY DEF Read, Quiet
<1>2. /\ at[r] = "run" /\ todo[r] # << >> /\ Place(r) = "read"
      /\ job[r] \in Job /\ job \in [Requests -> Job]
  BY <1>1, AtStep
<1>3. CASE ~(Alive(r) /\ history[job[r].folio] # << >>)
  <2>1. Throws(r, TRUE)
    BY <1>3 DEF Read
  <2> QED
    BY <1>1, <1>2, <2>1, ThrowsOn
<1>4. CASE Alive(r) /\ history[job[r].folio] # << >>
  <2>1. job' = [job EXCEPT ![r].base = Len(history[job[r].folio])] /\ Continues(r)
    BY <1>4 DEF Read
  <2>2. PICK base \in Nat : base = Len(history[job[r].folio])
    <3>1. history[job[r].folio] \in Seq(Snapshot)
      BY <1>2 DEF TypeOK, Job
    <3> QED
      BY <3>1
  <2>3. PICK j : j = [job[r] EXCEPT !.base = base]
    OBVIOUS
  <2>4. /\ j \in Job /\ j.op = job[r].op /\ j.folio = job[r].folio /\ j.move = job[r].move
    BY <1>2, <2>3 DEF Job
  <2>5. job' = [job EXCEPT ![r] = j]
    BY <1>2, <2>1, <2>2, <2>3
  <2>6. PICK q : /\ Turn(r, j, q) /\ q \in Follows(job[r].op, Place(r))
                 /\ Place(r) \in PlacesOf(job[r].op) \cap Steps
    BY <1>1, <2>1, <2>4, <2>5, ContinuesOn
  <2>7. ReadTo(r, j)
    BY <1>1, <1>2, <1>4, <2>2, <2>3 DEF ReadTo
  <2> QED
    BY <2>6, <2>7 DEF StepTo, PassedTo
<1> QED
  BY <1>3, <1>4

(* A request that is about to write has a portfolio that may be read, and  *)
(* an edit, unless it adjusts the weights.                                 *)
LEMMA AtWrite ==
    ASSUME TypeOK, NEW r \in Requests, PathInv(r), Step(r, "write"), job[r].op # "adjust"
    PROVE  job[r].op \in EditOps
<1>1. job[r] \in Job /\ todo[r] \in Seq(Steps) /\ todo[r] # << >> /\ Path(job[r].op, todo[r])
      /\ Head(todo[r]) = "write"
  BY AtStep DEF TypeOK, PathInv, Step
<1>2. "write" \in PlacesOf(job[r].op)
  BY <1>1, TailPath
<1>3. job[r].op \in Ops
  BY <1>1 DEF Job
<1> QED
  BY <1>2, <1>3 DEF PlacesOf, Ops, EditOps

LEMMA WriteIs ==
    ASSUME TypeOK, NEW r \in Requests, PathInv(r), EditInv(r), Write(r)
    PROVE  \E j, q : StepTo(r, j, q)
<1> DEFINE p == job[r].folio
           edit == Head(job[r].edits)
           items == history[p][job[r].base].items
<1>1. /\ Step(r, "write") /\ job[r].op # "adjust"
      /\ UNCHANGED <<ledgerVars, life, opened, capital, cash, events>>
  BY DEF Write
<1>2. /\ at[r] = "run" /\ todo[r] # << >> /\ Place(r) = "write"
      /\ job[r] \in Job /\ job \in [Requests -> Job]
  BY <1>1, AtStep
<1>3. job[r].op \in EditOps
  BY <1>1, AtWrite
<1>4. job[r].edits # << >> /\ (Alive(r) => Based(r))
  BY <1>2, <1>3 DEF EditInv
<1>5. edit \in Edit /\ edit = job[r].edits[1] /\ job[r].edits \in Seq(Edit) /\ Len(job[r].edits) > 0
  <2>1. job[r].edits \in Seq(Edit)
    BY <1>2 DEF Job
  <2> QED
    BY <1>4, <2>1
<1>6. ASSUME Alive(r) PROVE items \in Holdings /\ job[r].base \in Nat
  <2>1. history[p] \in Seq(Snapshot)
    BY <1>2 DEF TypeOK, Job
  <2>2. job[r].base \in DOMAIN history[p]
    BY <1>4, <1>6 DEF Based
  <2>3. history[p][job[r].base] \in Snapshot
    BY <2>1, <2>2
  <2> QED
    BY <1>2, <2>3 DEF Snapshot, Job
<1> HIDE DEF p, edit, items
<1>7. ASSUME Throws(r, TRUE), UNCHANGED history PROVE \E j, q : StepTo(r, j, q)
  <2>1. Quiet
    BY <1>1, <1>7 DEF Quiet, rowVars
  <2> QED
    BY <1>2, <1>7, <2>1, ThrowsOn
<1>8. ASSUME job' = [job EXCEPT ![r].edits[1].action = "drop"], Then(r, <<"read">> \o todo[r]), UNCHANGED history
      PROVE  \E j, q : StepTo(r, j, q)
  <2>1. Quiet
    BY <1>1, <1>8 DEF Quiet, rowVars
  <2>2. PICK j : j = [job[r] EXCEPT !.edits[1].action = "drop"]
    OBVIOUS
  <2>3. job' = [job EXCEPT ![r] = j]
    BY <1>2, <1>8, <2>2
  <2>4. PICK again : again = [job[r].edits[1] EXCEPT !.action = "drop"]
    OBVIOUS
  <2>5. again \in Edit
    BY <1>5, <2>4 DEF Edit, ByHand
  <2>6. PICK edits : edits = [job[r].edits EXCEPT ![1] = again]
    OBVIOUS
  <2>7. edits \in Seq(Edit)
    BY <1>5, <2>5, <2>6
  <2>8. j = [job[r] EXCEPT !.edits = edits]
    BY <2>2, <2>4, <2>6
  <2>9. /\ j \in Job /\ j.op = job[r].op /\ j.folio = job[r].folio /\ j.move = job[r].move
    BY <1>2, <2>7, <2>8 DEF Job
  <2>10. todo[r] \in Seq(Steps) /\ Head(todo[r]) = "write" /\ Path(job[r].op, todo[r])
    BY <1>1 DEF TypeOK, PathInv, Step
  <2>11. PICK rest : rest = <<"read">> \o todo[r]
    OBVIOUS
  <2>12. rest \in Seq(Steps) /\ Path(job[r].op, rest) /\ rest # << >> /\ Head(rest) = "read"
    BY <1>2, <1>3, <2>10, <2>11, AgainPath
  <2>13. Turn(r, j, First(rest)) /\ First(rest) = "read"
    BY <1>8, <2>3, <2>9, <2>11, <2>12, GoesOn DEF First
  <2>14. SoldOutTo(r, j, "read")
    BY <1>2, <2>1, <2>2 DEF SoldOutTo
  <2> QED
    BY <2>13, <2>14 DEF StepTo
<1>9. ASSUME Alive(r), ~SellsOut(items, edit), ~Refused(items, edit),
             Create(r, "USER_ADJUSTED", edit.action, job[r].base, Edited(items, edit)),
             job' = [job EXCEPT ![r].log = EventOf(items, edit)], Continues(r)
      PROVE  \E j, q : StepTo(r, j, q)
  <2>1. items \in Holdings /\ job[r].base \in Nat /\ Edited(items, edit) \in Holdings
    BY <1>5, <1>6, <1>9, EditedTyped
  <2>2. edit.action \in ByHand \cup FromAnalysis \cup {"suggest", "adjust"}
        /\ "USER_ADJUSTED" \in SnapshotKinds
    BY <1>5 DEF Edit, SnapshotKinds
  <2>3. PICK row : /\ Appended(r, row) /\ row.kind = "USER_ADJUSTED" /\ row.action = edit.action
                   /\ row.base = job[r].base /\ row.items = Edited(items, edit)
    BY <1>1, <1>9, <2>1, <2>2, CreateIs
  <2>4. PICK type \in EditEvents : type = EventOf(items, edit)
    BY DEF EventOf, EditEvents
  <2>5. PICK j : j = [job[r] EXCEPT !.log = type]
    OBVIOUS
  <2>6. /\ j \in Job /\ j.op = job[r].op /\ j.folio = job[r].folio /\ j.move = job[r].move
    BY <1>2, <2>5 DEF Job
  <2>7. job' = [job EXCEPT ![r] = j]
    BY <1>2, <1>9, <2>4, <2>5
  <2>8. PICK q : /\ Turn(r, j, q) /\ q \in Follows(job[r].op, Place(r))
                 /\ Place(r) \in PlacesOf(job[r].op) \cap Steps
    BY <1>1, <1>9, <2>6, <2>7, ContinuesOn
  <2>9. row.items = Edited(history[job[r].folio][job[r].base].items, edit)
        /\ ~Refused(history[job[r].folio][job[r].base].items, edit)
    BY <1>9, <2>3 DEF items, p
  <2>10. WriteTo(r, j)
    BY <1>2, <1>5, <2>3, <2>5, <2>9 DEF WriteTo
  <2> QED
    BY <2>8, <2>10 DEF StepTo, PassedTo
<1> QED
  BY <1>7, <1>8, <1>9 DEF Write, p, edit, items

LEMMA AdjustIs ==
    ASSUME TypeOK, NEW r \in Requests, PathInv(r), Adjust(r)
    PROVE  \E j, q : StepTo(r, j, q)
<1>1. Step(r, "write") /\ UNCHANGED <<ledgerVars, life, opened, capital, cash, events>>
  BY DEF Adjust
<1>2. /\ at[r] = "run" /\ todo[r] # << >> /\ Place(r) = "write"
      /\ job[r] \in Job /\ job \in [Requests -> Job]
  BY <1>1, AtStep
<1>3. CASE ~Alive(r)
  <2>1. Throws(r, TRUE) /\ Quiet
    BY <1>1, <1>3 DEF Adjust, Quiet, rowVars
  <2> QED
    BY <1>2, <2>1, ThrowsOn
<1>4. CASE Alive(r)
  <2>1. PICK items \in Suggestions : Create(r, "USER_ADJUSTED", "adjust", job[r].base, items)
    BY <1>4 DEF Adjust
  <2>2. items \in Holdings /\ job[r].base \in Nat
    BY <1>2, PortfolioAssumption DEF Job
  <2>3. PICK row : /\ Appended(r, row) /\ row.kind = "USER_ADJUSTED" /\ row.action = "adjust"
                   /\ row.base = job[r].base
    BY <1>1, <1>4, <2>1, <2>2, CreateIs DEF SnapshotKinds
  <2>4. job' = [job EXCEPT ![r].log = "WEIGHT_EDIT"] /\ Continues(r)
    BY <1>4 DEF Adjust
  <2>5. PICK j : j = [job[r] EXCEPT !.log = "WEIGHT_EDIT"]
    OBVIOUS
  <2>6. /\ j \in Job /\ j.op = job[r].op /\ j.folio = job[r].folio /\ j.move = job[r].move
    BY <1>2, <2>5 DEF Job, EditEvents
  <2>7. job' = [job EXCEPT ![r] = j]
    BY <1>2, <2>4, <2>5
  <2>8. PICK q : /\ Turn(r, j, q) /\ q \in Follows(job[r].op, Place(r))
                 /\ Place(r) \in PlacesOf(job[r].op) \cap Steps
    BY <1>1, <2>4, <2>6, <2>7, ContinuesOn
  <2>9. "WEIGHT_EDIT" \in EditEvents
    BY DEF EditEvents
  <2>10. WriteTo(r, j)
    BY <1>2, <2>3, <2>5, <2>9 DEF WriteTo
  <2> QED
    BY <2>8, <2>10 DEF StepTo, PassedTo
<1> QED
  BY <1>3, <1>4

LEMMA EventIs ==
    ASSUME TypeOK, NEW r \in Requests, PathInv(r), WriteEvent(r)
    PROVE  \E j, q : StepTo(r, j, q)
<1>1. Step(r, "event") /\ UNCHANGED <<ledgerVars, life, opened, capital, cash, history>>
  BY DEF WriteEvent
<1>2. /\ at[r] = "run" /\ todo[r] # << >> /\ Place(r) = "event"
      /\ job[r] \in Job /\ job \in [Requests -> Job]
  BY <1>1, AtStep
<1>3. CASE ~Alive(r)
  <2>1. Throws(r, TRUE) /\ Quiet
    BY <1>1, <1>3 DEF WriteEvent, Quiet, rowVars
  <2> QED
    BY <1>2, <2>1, ThrowsOn
<1>4. CASE Alive(r)
  <2>1. /\ events' = [events EXCEPT ![job[r].folio] = Append(@, [by |-> r, type |-> job[r].log])]
        /\ job' = [job EXCEPT ![r].edits = Rest(r)] /\ Then(r, GoOn(r))
    BY <1>4 DEF WriteEvent, Log
  <2>2. PICK rest : rest = Rest(r)
    OBVIOUS
  <2>3. rest \in Seq(Edit)
    <3>1. job[r].edits \in Seq(Edit)
      BY <1>2 DEF Job
    <3> QED
      BY <2>2, <3>1 DEF Rest
  <2>4. PICK j : j = [job[r] EXCEPT !.edits = rest]
    OBVIOUS
  <2>5. /\ j \in Job /\ j.op = job[r].op /\ j.folio = job[r].folio /\ j.move = job[r].move
    BY <1>2, <2>3, <2>4 DEF Job
  <2>6. job' = [job EXCEPT ![r] = j]
    BY <1>2, <2>1, <2>2, <2>4
  <2>7. "event" \in PlacesOf(job[r].op) /\ job[r].op \in Ops
    <3>1. todo[r] \in Seq(Steps) /\ todo[r] # << >> /\ Path(job[r].op, todo[r]) /\ Head(todo[r]) = "event"
      BY <1>1, <1>2 DEF TypeOK, PathInv, Step
    <3>2. "event" \in PlacesOf(job[r].op)
      BY <3>1, TailPath
    <3> QED
      BY <1>2, <3>2 DEF Job
  <2>8. job[r].op \in {"apply", "suggestion", "edit", "adjust"}
    BY <2>7 DEF PlacesOf, Ops
  <2>9. PICK on : on = GoOn(r)
    OBVIOUS
  <2>10. /\ on \in Seq(Steps) /\ Path(job[r].op, on) /\ First(on) \in Follows(job[r].op, "event")
         /\ First(on) = "read" <=> rest # << >>
    <3>1. CASE rest # << >>
      <4>1. on = EditSteps
        BY <2>2, <2>9, <3>1 DEF GoOn
      <4>2. "read" \in Follows(job[r].op, "event")
        BY DEF Follows
      <4> QED
        BY <2>8, <3>1, <4>1, <4>2, EditPath DEF First
    <3>2. CASE rest = << >> /\ job[r].op = "apply"
      <4>1. on = <<"answer">>
        BY <2>2, <2>9, <3>2 DEF GoOn
      <4>2. "answer" \in Follows(job[r].op, "event")
        BY <3>2 DEF Follows
      <4> QED
        BY <3>2, <4>1, <4>2, AnswerPath DEF First
    <3>3. CASE rest = << >> /\ job[r].op # "apply"
      <4>1. on = << >>
        BY <2>2, <2>9, <3>3 DEF GoOn
      <4>2. "ok" \in Follows(job[r].op, "event")
        BY <3>3 DEF Follows
      <4>3. on \in Seq(Steps) /\ First(on) = "ok" /\ Len(on) = 0
        BY <4>1 DEF First
      <4>4. Path(job[r].op, on)
        BY <4>3 DEF Path
      <4> QED
        BY <3>3, <4>2, <4>3, <4>4
    <3> QED
      BY <3>1, <3>2, <3>3
  <2>11. Turn(r, j, First(on))
    BY <2>1, <2>5, <2>6, <2>9, <2>10, GoesOn
  <2>12. EventTo(r, j, First(on))
    BY <1>1, <1>2, <1>4, <2>1, <2>2, <2>4, <2>10 DEF EventTo
  <2>13. First(on) \in Follows(job[r].op, Place(r)) /\ Place(r) \in PlacesOf(job[r].op) \cap Steps
    BY <1>2, <2>7, <2>10 DEF Steps
  <2> QED
    BY <2>11, <2>12, <2>13 DEF StepTo, PassedTo
<1> QED
  BY <1>3, <1>4

LEMMA ReadCashIs ==
    ASSUME TypeOK, NEW r \in Requests, PathInv(r), ReadCash(r)
    PROVE  \E j, q : StepTo(r, j, q)
<1>1. Step(r, "readCash") /\ Quiet
  BY DEF ReadCash, Quiet
<1>2. /\ at[r] = "run" /\ todo[r] # << >> /\ Place(r) = "readCash"
      /\ job[r] \in Job /\ job \in [Requests -> Job]
  BY <1>1, AtStep
<1>3. CASE ~Alive(r)
  <2>1. Throws(r, TRUE)
    BY <1>3 DEF ReadCash
  <2> QED
    BY <1>1, <1>2, <2>1, ThrowsOn
<1>4. CASE Alive(r)
  <2>1. /\ job' = [job EXCEPT ![r].seen = [cash |-> cash[job[r].folio], capital |-> capital[job[r].folio]]]
        /\ Continues(r)
    BY <1>4 DEF ReadCash
  <2>2. PICK seen : seen = [cash |-> cash[job[r].folio], capital |-> capital[job[r].folio]]
    OBVIOUS
  <2>3. seen \in [cash: Nat, capital: Nat]
    <3>1. cash[job[r].folio] \in Nat /\ capital[job[r].folio] \in Nat
      BY <1>2 DEF TypeOK, Job
    <3> QED
      BY <2>2, <3>1
  <2>4. PICK j : j = [job[r] EXCEPT !.seen = seen]
    OBVIOUS
  <2>5. /\ j \in Job /\ j.op = job[r].op /\ j.folio = job[r].folio /\ j.move = job[r].move
    BY <1>2, <2>3, <2>4 DEF Job
  <2>6. job' = [job EXCEPT ![r] = j]
    BY <1>2, <2>1, <2>2, <2>4
  <2>7. PICK q : /\ Turn(r, j, q) /\ q \in Follows(job[r].op, Place(r))
                 /\ Place(r) \in PlacesOf(job[r].op) \cap Steps
    BY <1>1, <2>1, <2>5, <2>6, ContinuesOn
  <2>8. ReadCashTo(r, j)
    BY <1>1, <1>2, <2>2, <2>4 DEF ReadCashTo
  <2> QED
    BY <2>7, <2>8 DEF StepTo, PassedTo
<1> QED
  BY <1>3, <1>4

LEMMA WriteCashIs ==
    ASSUME TypeOK, NEW r \in Requests, PathInv(r), WriteCash(r)
    PROVE  \E j, q : StepTo(r, j, q)
<1>1. Step(r, "writeCash") /\ UNCHANGED <<ledgerVars, life, opened, history, events>>
  BY DEF WriteCash
<1>2. /\ at[r] = "run" /\ todo[r] # << >> /\ Place(r) = "writeCash"
      /\ job[r] \in Job /\ job \in [Requests -> Job]
  BY <1>1, AtStep
<1>3. CASE ~Alive(r)
  <2>1. Throws(r, TRUE) /\ Quiet
    BY <1>1, <1>3 DEF WriteCash, Quiet, rowVars
  <2> QED
    BY <1>2, <2>1, ThrowsOn
<1>4. CASE Alive(r)
  <2>1. /\ cash' = [cash EXCEPT ![job[r].folio] = CashAfter(job[r].move, job[r].seen.cash)]
        /\ capital' = [capital EXCEPT ![job[r].folio] = CapitalAfter(job[r].move, job[r].seen.capital)]
        /\ job' = [job EXCEPT ![r].moved = TRUE] /\ Continues(r)
    BY <1>4 DEF WriteCash
  <2>2. PICK j : j = [job[r] EXCEPT !.moved = TRUE]
    OBVIOUS
  <2>3. /\ j \in Job /\ j.op = job[r].op /\ j.folio = job[r].folio /\ j.move = job[r].move
    BY <1>2, <2>2 DEF Job
  <2>4. job' = [job EXCEPT ![r] = j]
    BY <1>2, <2>1, <2>2
  <2>5. PICK q : /\ Turn(r, j, q) /\ q \in Follows(job[r].op, Place(r))
                 /\ Place(r) \in PlacesOf(job[r].op) \cap Steps
    BY <1>1, <2>1, <2>3, <2>4, ContinuesOn
  <2>6. WriteCashTo(r, j)
    BY <1>1, <1>2, <1>4, <2>1, <2>2 DEF WriteCashTo
  <2> QED
    BY <2>5, <2>6 DEF StepTo, PassedTo
<1> QED
  BY <1>3, <1>4

LEMMA CashEventIs ==
    ASSUME TypeOK, NEW r \in Requests, PathInv(r), WriteCashEvent(r)
    PROVE  \E j, q : StepTo(r, j, q)
<1>1. /\ Step(r, "cashEvent") /\ Needs(r, Alive(r))
      /\ UNCHANGED <<ledgerVars, life, opened, capital, cash, history>>
  BY DEF WriteCashEvent
<1>2. /\ at[r] = "run" /\ todo[r] # << >> /\ Place(r) = "cashEvent"
  BY <1>1, AtStep
<1>3. CASE ~Alive(r)
  <2>1. Throws(r, FALSE) /\ Quiet
    BY <1>1, <1>3 DEF WriteCashEvent, Needs, Quiet, rowVars
  <2> QED
    BY <1>2, <2>1, ThrowsOn
<1>4. CASE Alive(r)
  <2>1. Continues(r) /\ UNCHANGED job
    BY <1>1, <1>4 DEF Needs
  <2>2. job[r] \in Job /\ job' = [job EXCEPT ![r] = job[r]]
    BY <2>1, SameJob
  <2>3. PICK q : /\ Turn(r, job[r], q) /\ q \in Follows(job[r].op, Place(r))
                 /\ Place(r) \in PlacesOf(job[r].op) \cap Steps
    BY <1>1, <2>1, <2>2, ContinuesOn
  <2>4. CashEventTo(r, job[r])
    BY <1>1, <1>2, <1>4 DEF CashEventTo, WriteCashEvent, Log
  <2> QED
    BY <2>3, <2>4 DEF StepTo, PassedTo
<1> QED
  BY <1>3, <1>4

(* Every step of a request is one of those.                                *)
LEMMA StepIs ==
    ASSUME TypeOK, NEW r \in Requests, PathInv(r), EditInv(r), Continue(r) \/ StepFails(r)
    PROVE  \E j, q : StepTo(r, j, q)
<1>1. CASE StepFails(r)
  <2>1. at[r] = "run" /\ todo[r] # << >> /\ Quiet
    BY <1>1 DEF StepFails, Quiet
  <2>2. PICK bad \in BOOLEAN : Throws(r, bad)
    BY <1>1 DEF StepFails
  <2> QED
    BY <2>1, <2>2, ThrowsOn
<1>2. CASE Continue(r)
  BY <1>2, ChargeIs, RefundIs, AccessIs, InsertIs, QuietIs, StoreIs, RelabelIs, ReadIs, WriteIs,
     AdjustIs, EventIs, ReadCashIs, WriteCashIs, CashEventIs DEF Continue
<1> QED
  BY <1>1, <1>2

----------------------------------------------------------------------------
(* What a step makes of the tables.                                        *)
LEMMA PostRow ==
    ASSUME LedgerTypeOK, NEW u \in Users, NEW kind \in Kinds, NEW amount \in Int,
           NEW ref \in Refs \cup {NoRef}, balance[u] + amount \in 0..IntMax,
           Post(u, kind, amount, ref)
    PROVE  /\ LedgerTypeOK'
           /\ \E row \in TransactionRow :
                 /\ row.ref = ref /\ row.amount = amount
                 /\ ledger' = [ledger EXCEPT ![u] = Append(@, row)]
<1>1. balance' \in [Users -> 0..IntMax]
  BY DEF Post, LedgerTypeOK
<1>2. PICK row : row = [kind |-> kind, amount |-> amount, after |-> balance[u] + amount, ref |-> ref]
  OBVIOUS
<1>3. balance[u] + amount \in Nat
  BY LedgerAssumption
<1>4. row \in TransactionRow /\ row.ref = ref /\ row.amount = amount
  BY <1>2, <1>3 DEF TransactionRow
<1>5. ledger' = [ledger EXCEPT ![u] = Append(@, row)]
  BY <1>2 DEF Post
<1>6. ledger' \in [Users -> Seq(TransactionRow)]
  BY <1>4, <1>5 DEF LedgerTypeOK
<1> QED
  BY <1>1, <1>4, <1>5, <1>6 DEF LedgerTypeOK

LEMMA PayerIs ==
    ASSUME TypeOK, NEW r \in Requests
    PROVE  /\ job[r] \in Job /\ job[r].folio \in Portfolios /\ job[r].op \in Ops
           /\ Payer(r) \in Users /\ r \in Refs
BY PortfolioAssumption DEF TypeOK, Job, Payer

FeeIn == Fee \in Nat /\ Fee \in Int /\ -Fee \in Int

LEMMA FeeTyped == FeeIn
BY PortfolioAssumption, LedgerAssumption DEF FeeIn

(* A request takes the fee once, gives it back once, or leaves the ledger. *)
TookTo(r, j, q) ==
    /\ Place(r) = "charge" /\ Fee > 0 /\ q \in Follows(job[r].op, "charge") /\ ChargeTo(r, j)
    /\ \E row \in TransactionRow : row.ref = r /\ row.amount = -Fee
          /\ ledger' = [ledger EXCEPT ![Payer(r)] = Append(@, row)]
GaveTo(r, j, q) ==
    /\ Place(r) = "refund" /\ q \in {"error", "without"} /\ RefundedTo(r, j, q)
    /\ \E row \in TransactionRow : row.ref = r /\ row.amount = Fee
          /\ ledger' = [ledger EXCEPT ![Payer(r)] = Append(@, row)]

LEMMA LedgerOn ==
    ASSUME TypeOK, NEW r \in Requests, NEW j, NEW q, StepTo(r, j, q)
    PROVE  /\ LedgerTypeOK'
           /\ \/ TookTo(r, j, q)
              \/ GaveTo(r, j, q)
              \/ /\ ledger' = ledger
                 /\ ~(Place(r) = "charge" /\ q \in Follows(job[r].op, "charge") /\ Fee > 0)
                 /\ ~(Place(r) = "refund" /\ q \in {"error", "without"})
<1>0. /\ Payer(r) \in Users /\ r \in Refs \cup {NoRef} /\ LedgerTypeOK /\ FeeIn
      /\ balance[Payer(r)] \in 0..IntMax /\ IntMax \in Nat /\ job[r].op \in Ops
      /\ FeeKind(job[r].op) \in Kinds /\ "REFUND" \in Kinds
  <2>1. Payer(r) \in Users /\ r \in Refs /\ LedgerTypeOK /\ FeeIn /\ job[r].op \in Ops
    BY PayerIs, FeeTyped DEF TypeOK
  <2>2. balance[Payer(r)] \in 0..IntMax /\ IntMax \in Nat
    BY <2>1, LedgerAssumption DEF LedgerTypeOK
  <2>3. FeeKind(job[r].op) \in Kinds /\ "REFUND" \in Kinds
    BY PortfolioAssumption DEF FeeKind
  <2> QED
    BY <2>1, <2>2, <2>3
<1>1. ASSUME UNCHANGED ledgerVars PROVE LedgerTypeOK' /\ ledger' = ledger
  BY <1>0, <1>1 DEF ledgerVars, LedgerTypeOK
<1>2. ASSUME ChargeTo(r, j), q \in Follows(job[r].op, Place(r))
      PROVE  LedgerTypeOK' /\ (TookTo(r, j, q) \/ (ledger' = ledger /\ Fee = 0)) /\ Place(r) = "charge"
  <2>0. Place(r) = "charge"
    BY <1>2 DEF ChargeTo
  <2>1. CASE Fee = 0
    <3>1. UNCHANGED ledgerVars
      BY <1>2, <2>1 DEF ChargeTo
    <3> QED
      BY <1>1, <2>0, <2>1, <3>1
  <2>2. CASE Fee # 0
    <3>1. balance[Payer(r)] >= Fee /\ Post(Payer(r), FeeKind(job[r].op), -Fee, r)
      BY <1>2, <2>2 DEF ChargeTo, Debit
    <3>2. -Fee \in Int /\ balance[Payer(r)] + (-Fee) \in 0..IntMax /\ Fee > 0
      BY <1>0, <2>2, <3>1 DEF FeeIn
    <3>3. /\ LedgerTypeOK'
          /\ \E row \in TransactionRow : row.ref = r /\ row.amount = -Fee
                /\ ledger' = [ledger EXCEPT ![Payer(r)] = Append(@, row)]
      BY <1>0, <3>1, <3>2, PostRow
    <3> QED
      BY <1>2, <2>0, <3>2, <3>3 DEF TookTo
  <2> QED
    BY <2>1, <2>2
<1>3. CASE PassedTo(r, j, q)
  <2>1. CASE ChargeTo(r, j)
    <3>1. q \in Follows(job[r].op, Place(r)) /\ Place(r) # "refund"
      BY <1>3 DEF PassedTo, Steps
    <3> QED
      BY <1>2, <2>1, <3>1
  <2>2. CASE ~ChargeTo(r, j)
    <3>1. UNCHANGED ledgerVars
      BY <1>3, <2>2 DEF PassedTo, QuietTo, InsertTo, StoreTo, RelabelTo, ReadTo, WriteTo, EventTo,
                        ReadCashTo, WriteCashTo, CashEventTo, Appended, Quiet
    <3>2. Place(r) # "charge" /\ Place(r) # "refund"
      <4>1. Place(r) # "charge"
        BY <1>3, <2>2 DEF PassedTo, QuietTo, InsertTo, StoreTo, RelabelTo, ReadTo, WriteTo, EventTo,
                          ReadCashTo, WriteCashTo, CashEventTo
      <4>2. Place(r) # "refund"
        BY <1>3 DEF PassedTo, Steps
      <4> QED
        BY <4>1, <4>2
    <3> QED
      BY <1>1, <3>1, <3>2
  <2> QED
    BY <2>1, <2>2
<1>4. CASE RefundedTo(r, j, q)
  <2>0. Place(r) = "refund"
    BY <1>4 DEF RefundedTo
  <2>1. CASE Credit(Payer(r), "REFUND", Fee, r) /\ q \in {"error", "without"}
    <3>1. balance[Payer(r)] + Fee \in 0..IntMax /\ Post(Payer(r), "REFUND", Fee, r) /\ Fee \in Int
      BY <1>0, <2>1 DEF Credit, FeeIn
    <3>2. /\ LedgerTypeOK'
          /\ \E row \in TransactionRow : row.ref = r /\ row.amount = Fee
                /\ ledger' = [ledger EXCEPT ![Payer(r)] = Append(@, row)]
      BY <1>0, <3>1, PostRow
    <3>3. GaveTo(r, j, q)
      BY <1>4, <2>0, <2>1, <3>2 DEF GaveTo
    <3> QED
      BY <3>2, <3>3
  <2>2. CASE UNCHANGED ledgerVars /\ q = "unrefunded"
    BY <1>1, <2>0, <2>2
  <2> QED
    BY <1>4, <2>1, <2>2 DEF RefundedTo
<1>5. CASE ThrownTo(r, j, q)
  <2>1. UNCHANGED ledgerVars /\ Place(r) # "refund" /\ q \in {"refund", "error", "without"}
    BY <1>5 DEF ThrownTo, Quiet, Steps
  <2>2. q \notin Follows(job[r].op, "charge")
    BY <2>1 DEF Follows, AfterCharge
  <2> QED
    BY <1>1, <2>1, <2>2
<1>6. CASE PreparedTo(r, j, q)
  BY <1>1, <1>6 DEF PreparedTo, Quiet
<1>7. CASE SoldOutTo(r, j, q)
  BY <1>1, <1>7 DEF SoldOutTo, Quiet
<1> QED
  BY <1>3, <1>4, <1>5, <1>6, <1>7 DEF StepTo

(* A step appends at most one snapshot, its own, and of those there are    *)
(* changes at most the kind of one.                                        *)
SameRow(old, new) ==
    /\ new.by = old.by /\ new.base = old.base /\ new.items = old.items /\ new.action = old.action
    /\ [new EXCEPT !.kind = old.kind] = old
AddsRow(r, p, i) == p = job[r].folio /\ i = Len(history[p]) + 1 /\ Alive(r)
Grown(r, j) ==
    /\ \A p \in Portfolios : \A i \in DOMAIN history[p] :
          /\ i \in DOMAIN history'[p] /\ SameRow(history[p][i], history'[p][i])
          /\ history'[p][i].kind # history[p][i].kind =>
                RelabelTo(r, j) /\ p = job[r].folio /\ i = job[r].own
    /\ \A p \in Portfolios : \A i \in DOMAIN history'[p] \ DOMAIN history[p] :
          AddsRow(r, p, i) /\ history'[p][i].by = r /\ (StoreTo(r, j) \/ WriteTo(r, j))

LEMMA SameRowIs ==
    ASSUME NEW row \in Snapshot
    PROVE  SameRow(row, row)
BY DEF Snapshot, SameRow

LEMMA AppendedIs ==
    ASSUME TypeOK, NEW r \in Requests, NEW row, Appended(r, row)
    PROVE  /\ history' \in [Portfolios -> Seq(Snapshot)]
           /\ \A p \in Portfolios : \A i \in DOMAIN history[p] :
                 i \in DOMAIN history'[p] /\ history'[p][i] = history[p][i]
           /\ \A p \in Portfolios : \A i \in DOMAIN history'[p] \ DOMAIN history[p] :
                 AddsRow(r, p, i) /\ history'[p][i] = row /\ row.by = r
           /\ LET p == job[r].folio IN
              DOMAIN history'[p] = 1..Len(history[p]) + 1 /\ history'[p][Len(history[p]) + 1] = row
<1>1. row \in Snapshot /\ row.by = r /\ Alive(r) /\ history \in [Portfolios -> Seq(Snapshot)]
      /\ job[r].folio \in Portfolios /\ history' = [history EXCEPT ![job[r].folio] = Append(@, row)]
  BY PayerIs DEF Appended, TypeOK
<1>2. history' \in [Portfolios -> Seq(Snapshot)]
  BY <1>1
<1>3. ASSUME NEW p \in Portfolios \ {job[r].folio} PROVE history'[p] = history[p]
  BY <1>1
<1>4. PICK old \in Seq(Snapshot) : old = history[job[r].folio]
  BY <1>1
<1>5. history'[job[r].folio] = Append(old, row) /\ Len(old) \in Nat /\ DOMAIN old = 1..Len(old)
  BY <1>1, <1>4
<1>6. /\ DOMAIN Append(old, row) = 1..Len(old) + 1 /\ Append(old, row)[Len(old) + 1] = row
      /\ \A i \in 1..Len(old) : Append(old, row)[i] = old[i]
  BY <1>1, <1>5
<1>7. ASSUME NEW p \in Portfolios, NEW i \in DOMAIN history[p]
      PROVE  i \in DOMAIN history'[p] /\ history'[p][i] = history[p][i]
  <2>1. CASE p = job[r].folio
    <3>1. history[p] = old /\ history'[p] = Append(old, row)
      BY <1>4, <1>5, <2>1
    <3>2. i \in 1..Len(old)
      BY <1>5, <3>1
    <3>3. i \in 1..Len(old) + 1
      BY <1>5, <3>2
    <3> QED
      BY <1>6, <3>1, <3>2, <3>3
  <2>2. CASE p # job[r].folio
    BY <1>3, <2>2
  <2> QED
    BY <2>1, <2>2
<1>8. ASSUME NEW p \in Portfolios, NEW i \in DOMAIN history'[p] \ DOMAIN history[p]
      PROVE  AddsRow(r, p, i) /\ history'[p][i] = row /\ row.by = r
  <2>1. p = job[r].folio
    BY <1>3
  <2>2. i = Len(old) + 1
    BY <1>4, <1>5, <1>6, <2>1
  <2> QED
    BY <1>1, <1>4, <1>5, <1>6, <2>1, <2>2 DEF AddsRow
<1> QED
  BY <1>2, <1>4, <1>5, <1>6, <1>7, <1>8

LEMMA RelabelledIs ==
    ASSUME TypeOK, NEW r \in Requests, NEW j, RelabelTo(r, j)
    PROVE  /\ history' \in [Portfolios -> Seq(Snapshot)]
           /\ \A p \in Portfolios : DOMAIN history'[p] = DOMAIN history[p]
           /\ \A p \in Portfolios : \A i \in DOMAIN history[p] :
                 /\ SameRow(history[p][i], history'[p][i])
                 /\ history'[p][i].kind =
                       IF p = job[r].folio /\ i = job[r].own
                       THEN IF Place(r) = "relabel" THEN "REBALANCE" ELSE "MONTHLY_EVAL"
                       ELSE history[p][i].kind
<1>1. PICK kind : kind = IF Place(r) = "relabel" THEN "REBALANCE" ELSE "MONTHLY_EVAL"
  OBVIOUS
<1>2. /\ kind \in SnapshotKinds /\ history \in [Portfolios -> Seq(Snapshot)] /\ job[r].folio \in Portfolios
      /\ history' = [history EXCEPT ![job[r].folio][job[r].own].kind = kind]
  BY <1>1, PayerIs DEF TypeOK, SnapshotKinds, RelabelTo
<1>3. PICK old \in Seq(Snapshot) : old = history[job[r].folio]
  BY <1>2
<1>4. PICK new : new = [old EXCEPT ![job[r].own] = [@ EXCEPT !.kind = kind]]
  OBVIOUS
<1>5. history' = [history EXCEPT ![job[r].folio] = new]
  BY <1>2, <1>3, <1>4
<1>6. ASSUME NEW row \in Snapshot
      PROVE  /\ [row EXCEPT !.kind = kind] \in Snapshot /\ SameRow(row, [row EXCEPT !.kind = kind])
             /\ [row EXCEPT !.kind = kind].kind = kind
  BY <1>2 DEF Snapshot, SameRow
<1>7. /\ new \in Seq(Snapshot) /\ DOMAIN new = DOMAIN old
      /\ \A i \in DOMAIN old : new[i] = IF i = job[r].own THEN [old[i] EXCEPT !.kind = kind] ELSE old[i]
  <2>1. DOMAIN new = DOMAIN old /\ \A i \in DOMAIN old :
            new[i] = IF i = job[r].own THEN [old[i] EXCEPT !.kind = kind] ELSE old[i]
    BY <1>4
  <2>2. \A i \in DOMAIN old : old[i] \in Snapshot
    OBVIOUS
  <2>3. \A i \in DOMAIN old : new[i] \in Snapshot
    BY <1>6, <2>1, <2>2
  <2>4. PICK n \in Nat : DOMAIN old = 1..n
    OBVIOUS
  <2>5. new \in [1..n -> Snapshot]
    BY <1>4, <2>1, <2>3, <2>4
  <2>6. new \in Seq(Snapshot)
    BY <2>5
  <2> QED
    BY <2>1, <2>6
<1>8. history' \in [Portfolios -> Seq(Snapshot)] /\ history'[job[r].folio] = new
      /\ \A p \in Portfolios \ {job[r].folio} : history'[p] = history[p]
  BY <1>2, <1>5, <1>7
<1>9. \A p \in Portfolios : DOMAIN history'[p] = DOMAIN history[p]
  BY <1>3, <1>7, <1>8
<1>10. ASSUME NEW p \in Portfolios, NEW i \in DOMAIN history[p]
       PROVE  /\ SameRow(history[p][i], history'[p][i])
              /\ history'[p][i].kind =
                    IF p = job[r].folio /\ i = job[r].own THEN kind ELSE history[p][i].kind
  <2>1. history[p][i] \in Snapshot
    BY <1>2
  <2>2. CASE p = job[r].folio /\ i = job[r].own
    <3>1. history'[p][i] = [history[p][i] EXCEPT !.kind = kind]
      BY <1>3, <1>7, <1>8, <2>2
    <3> QED
      BY <1>6, <2>1, <2>2, <3>1
  <2>3. CASE ~(p = job[r].folio /\ i = job[r].own)
    <3>1. history'[p][i] = history[p][i]
      BY <1>3, <1>7, <1>8, <2>3
    <3> QED
      BY <2>1, <2>3, <3>1, SameRowIs
  <2> QED
    BY <2>2, <2>3
<1> QED
  BY <1>1, <1>8, <1>9, <1>10

LEMMA HistoryOn ==
    ASSUME TypeOK, NEW r \in Requests, NEW j, NEW q, StepTo(r, j, q)
    PROVE  history' \in [Portfolios -> Seq(Snapshot)] /\ Grown(r, j)
<1>0. history \in [Portfolios -> Seq(Snapshot)] /\ \A p \in Portfolios : \A i \in DOMAIN history[p] : history[p][i] \in Snapshot
  BY DEF TypeOK
<1>1. CASE StoreTo(r, j) \/ WriteTo(r, j)
  <2>1. PICK row : Appended(r, row)
    BY <1>1 DEF StoreTo, WriteTo
  <2>2. /\ history' \in [Portfolios -> Seq(Snapshot)]
        /\ \A p \in Portfolios : \A i \in DOMAIN history[p] :
              i \in DOMAIN history'[p] /\ history'[p][i] = history[p][i]
        /\ \A p \in Portfolios : \A i \in DOMAIN history'[p] \ DOMAIN history[p] :
              AddsRow(r, p, i) /\ history'[p][i] = row /\ row.by = r
    BY <2>1, AppendedIs
  <2>3. Grown(r, j)
    BY <1>0, <1>1, <2>2, SameRowIs DEF Grown
  <2> QED
    BY <2>2, <2>3
<1>2. CASE RelabelTo(r, j)
  <2>1. /\ history' \in [Portfolios -> Seq(Snapshot)]
        /\ \A p \in Portfolios : DOMAIN history'[p] = DOMAIN history[p]
        /\ \A p \in Portfolios : \A i \in DOMAIN history[p] :
              /\ SameRow(history[p][i], history'[p][i])
              /\ history'[p][i].kind # history[p][i].kind => p = job[r].folio /\ i = job[r].own
    BY <1>2, RelabelledIs
  <2>2. Grown(r, j)
    BY <1>2, <2>1 DEF Grown
  <2> QED
    BY <2>1, <2>2
<1>3. CASE ~(StoreTo(r, j) \/ WriteTo(r, j) \/ RelabelTo(r, j))
  <2>1. history' = history
    BY <1>3 DEF StepTo, PassedTo, ThrownTo, PreparedTo, RefundedTo, SoldOutTo, ChargeTo, QuietTo, InsertTo, ReadTo, EventTo,
                ReadCashTo, WriteCashTo, CashEventTo, Quiet, rowVars
  <2>2. Grown(r, j)
    BY <1>0, <2>1, SameRowIs DEF Grown
  <2> QED
    BY <1>0, <2>1, <2>2
<1> QED
  BY <1>1, <1>2, <1>3

(* So it is with the events.                                               *)
EventsGrown(r, j) ==
    /\ \A p \in Portfolios : \A i \in DOMAIN events[p] :
          i \in DOMAIN events'[p] /\ events'[p][i] = events[p][i]
    /\ \A p \in Portfolios : \A i \in DOMAIN events'[p] \ DOMAIN events[p] :
          /\ p = job[r].folio /\ i = Len(events[p]) + 1 /\ Alive(r) /\ events'[p][i].by = r
          /\ (\E q : EventTo(r, j, q)) \/ CashEventTo(r, j)

LEMMA LoggedIs ==
    ASSUME TypeOK, NEW r \in Requests, NEW row \in Event,
           events' = [events EXCEPT ![job[r].folio] = Append(@, row)]
    PROVE  /\ events' \in [Portfolios -> Seq(Event)]
           /\ \A p \in Portfolios : \A i \in DOMAIN events[p] :
                 i \in DOMAIN events'[p] /\ events'[p][i] = events[p][i]
           /\ \A p \in Portfolios : \A i \in DOMAIN events'[p] \ DOMAIN events[p] :
                 p = job[r].folio /\ i = Len(events[p]) + 1 /\ events'[p][i] = row
           /\ LET p == job[r].folio IN
              DOMAIN events'[p] = 1..Len(events[p]) + 1 /\ events'[p][Len(events[p]) + 1] = row
<1>1. events \in [Portfolios -> Seq(Event)] /\ job[r].folio \in Portfolios
  BY PayerIs DEF TypeOK
<1>2. events' \in [Portfolios -> Seq(Event)]
  BY <1>1
<1>3. ASSUME NEW p \in Portfolios \ {job[r].folio} PROVE events'[p] = events[p]
  BY <1>1
<1>4. PICK old \in Seq(Event) : old = events[job[r].folio]
  BY <1>1
<1>5. events'[job[r].folio] = Append(old, row) /\ Len(old) \in Nat /\ DOMAIN old = 1..Len(old)
  BY <1>1, <1>4
<1>6. /\ DOMAIN Append(old, row) = 1..Len(old) + 1 /\ Append(old, row)[Len(old) + 1] = row
      /\ \A i \in 1..Len(old) : Append(old, row)[i] = old[i]
  BY <1>1, <1>5
<1>7. ASSUME NEW p \in Portfolios, NEW i \in DOMAIN events[p]
      PROVE  i \in DOMAIN events'[p] /\ events'[p][i] = events[p][i]
  <2>1. CASE p = job[r].folio
    <3>1. events[p] = old /\ events'[p] = Append(old, row)
      BY <1>4, <1>5, <2>1
    <3>2. i \in 1..Len(old)
      BY <1>5, <3>1
    <3>3. i \in 1..Len(old) + 1
      BY <1>5, <3>2
    <3> QED
      BY <1>6, <3>1, <3>2, <3>3
  <2>2. CASE p # job[r].folio
    BY <1>3, <2>2
  <2> QED
    BY <2>1, <2>2
<1>8. ASSUME NEW p \in Portfolios, NEW i \in DOMAIN events'[p] \ DOMAIN events[p]
      PROVE  p = job[r].folio /\ i = Len(events[p]) + 1 /\ events'[p][i] = row
  <2>1. p = job[r].folio
    BY <1>3
  <2>2. i = Len(old) + 1
    BY <1>4, <1>5, <1>6, <2>1
  <2> QED
    BY <1>1, <1>4, <1>5, <1>6, <2>1, <2>2
<1> QED
  BY <1>2, <1>4, <1>5, <1>6, <1>7, <1>8

LEMMA EventsOn ==
    ASSUME TypeOK, NEW r \in Requests, NEW j, NEW q, StepTo(r, j, q)
    PROVE  events' \in [Portfolios -> Seq(Event)] /\ EventsGrown(r, j)
<1>1. job[r] \in Job /\ events \in [Portfolios -> Seq(Event)]
  BY DEF TypeOK
<1>2. ASSUME NEW type \in EditEvents \cup {"DEPOSIT_CASH", "WITHDRAW_CASH"}, Alive(r),
             events' = [events EXCEPT ![job[r].folio] = Append(@, [by |-> r, type |-> type])],
             EventTo(r, j, q) \/ CashEventTo(r, j)
      PROVE  events' \in [Portfolios -> Seq(Event)] /\ EventsGrown(r, j)
  <2>1. PICK row : row = [by |-> r, type |-> type]
    OBVIOUS
  <2>2. row \in Event /\ row.by = r
    BY <2>1 DEF Event
  <2>3. events' = [events EXCEPT ![job[r].folio] = Append(@, row)]
    BY <1>2, <2>1
  <2>4. /\ events' \in [Portfolios -> Seq(Event)]
        /\ \A p \in Portfolios : \A i \in DOMAIN events[p] :
              i \in DOMAIN events'[p] /\ events'[p][i] = events[p][i]
        /\ \A p \in Portfolios : \A i \in DOMAIN events'[p] \ DOMAIN events[p] :
              p = job[r].folio /\ i = Len(events[p]) + 1 /\ events'[p][i] = row
    BY <2>2, <2>3, LoggedIs
  <2> QED
    BY <1>2, <2>2, <2>4 DEF EventsGrown
<1>3. CASE EventTo(r, j, q)
  <2>1. job[r].log \in EditEvents
    BY <1>1 DEF Job
  <2> QED
    BY <1>2, <1>3, <2>1 DEF EventTo
<1>4. CASE CashEventTo(r, j)
  <2>1. job[r].move.type \in EditEvents \cup {"DEPOSIT_CASH", "WITHDRAW_CASH"}
    BY <1>1 DEF Job, CashMove, EditEvents
  <2> QED
    BY <1>2, <1>4, <2>1 DEF CashEventTo
<1>5. CASE ~EventTo(r, j, q) /\ ~CashEventTo(r, j)
  <2>1. events' = events
    BY <1>5 DEF StepTo, PassedTo, ThrownTo, PreparedTo, RefundedTo, SoldOutTo, ChargeTo, QuietTo, InsertTo, ReadTo,
                StoreTo, WriteTo, RelabelTo, Appended, ReadCashTo, WriteCashTo, Quiet, rowVars
  <2> QED
    BY <1>1, <2>1 DEF EventsGrown
<1> QED
  BY <1>3, <1>4, <1>5

LEMMA LifeOn ==
    ASSUME TypeOK, NEW r \in Requests, NEW j, NEW q, StepTo(r, j, q)
    PROVE  /\ life' \in [Portfolios -> {"none", "live", "deleted"}]
           /\ \A p \in Portfolios : \/ life'[p] = life[p]
                                    \/ /\ life[p] = "none" /\ life'[p] = "live" /\ p = job[r].folio
                                       /\ InsertTo(r, j)
<1>1. CASE InsertTo(r, j)
  BY <1>1, PayerIs DEF InsertTo, TypeOK
<1>2. CASE ~InsertTo(r, j)
  <2>1. life' = life
    BY <1>2 DEF StepTo, PassedTo, ThrownTo, PreparedTo, RefundedTo, SoldOutTo, ChargeTo, QuietTo, ReadTo, EventTo, CashEventTo,
                StoreTo, WriteTo, RelabelTo, Appended, ReadCashTo, WriteCashTo, Quiet, rowVars
  <2> QED
    BY <2>1 DEF TypeOK
<1> QED
  BY <1>1, <1>2

LEMMA MovedTyped ==
    ASSUME NEW move \in CashMove, NEW have \in Nat
    PROVE  CashAfter(move, have) \in Nat /\ CapitalAfter(move, have) \in Nat
<1>1. move.amount \in Nat
  BY DEF CashMove
<1>2. Less(have, move.amount) \in Nat /\ have + move.amount \in Nat
  BY <1>1 DEF Less
<1> QED
  BY <1>2 DEF CashAfter, CapitalAfter

LEMMA ColumnsOn ==
    ASSUME TypeOK, NEW r \in Requests, NEW j, NEW q, StepTo(r, j, q)
    PROVE  /\ opened' = opened /\ capital' \in [Portfolios -> Nat] /\ cash' \in [Portfolios -> Nat]
           /\ WriteCashTo(r, j) \/ (cash' = cash /\ capital' = capital)
<1>1. opened' = opened
  BY DEF StepTo, PassedTo, ThrownTo, PreparedTo, RefundedTo, SoldOutTo, ChargeTo, QuietTo, ReadTo, EventTo, CashEventTo,
         InsertTo, StoreTo, WriteTo, RelabelTo, Appended, ReadCashTo, WriteCashTo, Quiet, rowVars
<1>2. CASE WriteCashTo(r, j)
  <2>1. job[r].move \in CashMove /\ job[r].seen.cash \in Nat /\ job[r].seen.capital \in Nat
    BY PayerIs DEF Job
  <2>2. CashAfter(job[r].move, job[r].seen.cash) \in Nat /\ CapitalAfter(job[r].move, job[r].seen.capital) \in Nat
    BY <2>1, MovedTyped
  <2> QED
    BY <1>1, <1>2, <2>2 DEF WriteCashTo, TypeOK
<1>3. CASE ~WriteCashTo(r, j)
  <2>1. cash' = cash /\ capital' = capital
    BY <1>3 DEF StepTo, PassedTo, ThrownTo, PreparedTo, RefundedTo, SoldOutTo, ChargeTo, QuietTo, ReadTo, EventTo, CashEventTo,
                InsertTo, StoreTo, WriteTo, RelabelTo, Appended, ReadCashTo, Quiet, rowVars
  <2> QED
    BY <1>1, <2>1 DEF TypeOK
<1> QED
  BY <1>2, <1>3

(* A step keeps the types.                                                 *)
LEMMA StepTypes ==
    ASSUME TypeOK, NEW r \in Requests, NEW j, NEW q, StepTo(r, j, q)
    PROVE  TypeOK'
<1>1. LedgerTypeOK'
  BY LedgerOn
<1>2. history' \in [Portfolios -> Seq(Snapshot)] /\ events' \in [Portfolios -> Seq(Event)]
  BY HistoryOn, EventsOn
<1>3. /\ life' \in [Portfolios -> {"none", "live", "deleted"}] /\ opened' \in [Portfolios -> Nat]
      /\ capital' \in [Portfolios -> Nat] /\ cash' \in [Portfolios -> Nat]
  BY LifeOn, ColumnsOn DEF TypeOK
<1>4. Turn(r, j, q)
  BY DEF StepTo
<1>5. /\ at' \in [Requests -> {"idle", "run", "refund"} \cup Endings]
      /\ todo' \in [Requests -> Seq(Steps)] /\ job' \in [Requests -> Job]
  BY <1>4 DEF Turn, TypeOK
<1> QED
  BY <1>1, <1>2, <1>3, <1>5 DEF TypeOK

----------------------------------------------------------------------------
(* The steps that are not those of a request that runs.                    *)
StartTo(r, op, p) ==
    /\ at[r] = "idle" /\ at'[r] = "run" /\ Place(r)' = FirstOf(op) /\ PathInv(r)'
    /\ op \in Ops /\ p \in Portfolios /\ life[p] = IF op = "create" THEN "none" ELSE "live"
    /\ job'[r] \in Job /\ job'[r].op = op /\ job'[r].folio = p /\ ~job'[r].charged /\ ~job'[r].moved
    /\ (op \in EditOps => job'[r].edits # << >>)
    /\ \A s \in Requests \ {r} : at'[s] = at[s] /\ todo'[s] = todo[s] /\ job'[s] = job[s]
    /\ Quiet

LEMMA FreshTyped ==
    ASSUME NEW op \in Ops, NEW p \in Portfolios, NEW edits \in EditsOf(op), NEW move \in MovesOf(op)
    PROVE  /\ Fresh(op, p, edits, move) \in Job
           /\ op \in EditOps => edits # << >>
<1>1. edits \in Seq(Edit) /\ (op \in EditOps => edits # << >>)
  <2>1. EditLists \subseteq Seq(Edit) \ {<< >>}
    BY PortfolioAssumption
  <2>2. CASE op \in EditOps
    <3>1. edits \in EditLists
      BY <2>2 DEF EditsOf, EditOps
    <3> QED
      BY <2>1, <3>1
  <2>3. CASE op \notin EditOps
    <3>1. edits = << >>
      BY <2>3 DEF EditsOf, EditOps
    <3> QED
      BY <2>3, <3>1
  <2> QED
    BY <2>2, <2>3
<1>2. move \in CashMove
  <2>1. NoMove \in CashMove
    BY DEF NoMove, CashMove
  <2> QED
    BY <2>1, PortfolioAssumption DEF MovesOf
<1>3. [cash |-> 0, capital |-> 0] \in [cash: Nat, capital: Nat] /\ "BUY" \in EditEvents
  BY DEF EditEvents
<1>4. Fresh(op, p, edits, move) \in Job
  BY <1>1, <1>2, <1>3 DEF Fresh, Job
<1> QED
  BY <1>1, <1>4

LEMMA StartIs ==
    ASSUME TypeOK, NEW r \in Requests, NEW op \in Ops, NEW p \in Portfolios, Start(r, op, p)
    PROVE  TypeOK' /\ StartTo(r, op, p)
<1>1. PICK edits \in EditsOf(op), move \in MovesOf(op) : job' = [job EXCEPT ![r] = Fresh(op, p, edits, move)]
  BY DEF Start
<1>2. PICK j : j = Fresh(op, p, edits, move)
  OBVIOUS
<1>3. j \in Job /\ (op \in EditOps => edits # << >>)
  BY <1>2, FreshTyped
<1>4. j.op = op /\ j.folio = p /\ ~j.charged /\ ~j.moved /\ j.edits = edits
  BY <1>2 DEF Fresh
<1>5. job' = [job EXCEPT ![r] = j] /\ job \in [Requests -> Job]
  BY <1>1, <1>2 DEF TypeOK
<1>6. job' \in [Requests -> Job] /\ job'[r] = j /\ \A s \in Requests \ {r} : job'[s] = job[s]
  BY <1>3, <1>5
<1>7. PICK script : script = Script(op)
  OBVIOUS
<1>8. Path(op, script) /\ script \in Seq(Steps) /\ script # << >> /\ Head(script) = FirstOf(op)
  BY <1>7, ScriptPath
<1>9. at[r] = "idle" /\ Then(r, script) /\ Quiet
  BY <1>7 DEF Start, Quiet
<1>10. /\ at' \in [Requests -> {"idle", "run", "refund"} \cup Endings] /\ at'[r] = "run"
       /\ todo' \in [Requests -> Seq(Steps)] /\ todo'[r] = script
       /\ \A s \in Requests \ {r} : at'[s] = at[s] /\ todo'[s] = todo[s]
  BY <1>8, <1>9 DEF Then, TypeOK
<1>11. Place(r)' = FirstOf(op) /\ PathInv(r)'
  BY <1>4, <1>6, <1>8, <1>10 DEF Place, PathInv
<1>12. TypeOK'
  <2>1. UNCHANGED <<ledgerVars, life, opened, capital, cash, history, events>>
    BY <1>9 DEF Quiet, rowVars
  <2>2. LedgerTypeOK'
    BY <2>1 DEF TypeOK, LedgerTypeOK, ledgerVars
  <2> QED
    BY <1>6, <1>10, <2>1, <2>2 DEF TypeOK
<1>13. life[p] = IF op = "create" THEN "none" ELSE "live"
  BY DEF Start
<1> QED
  BY <1>3, <1>4, <1>6, <1>9, <1>10, <1>11, <1>12, <1>13 DEF StartTo

DeletedTo(p) ==
    /\ life[p] = "live" /\ life' = [life EXCEPT ![p] = "deleted"]
    /\ history' = [history EXCEPT ![p] = << >>] /\ events' = [events EXCEPT ![p] = << >>]
    /\ UNCHANGED <<ledgerVars, opened, capital, cash, requestVars>>

LEMMA DeleteIs ==
    ASSUME TypeOK, NEW p \in Portfolios, Delete(p)
    PROVE  TypeOK' /\ DeletedTo(p)
<1>1. DeletedTo(p)
  BY DEF Delete, DeletedTo
<1>2. LedgerTypeOK'
  BY <1>1 DEF TypeOK, LedgerTypeOK, ledgerVars, DeletedTo
<1>3. /\ life' \in [Portfolios -> {"none", "live", "deleted"}]
      /\ history' \in [Portfolios -> Seq(Snapshot)] /\ events' \in [Portfolios -> Seq(Event)]
  BY <1>1 DEF DeletedTo, TypeOK
<1> QED
  BY <1>1, <1>2, <1>3 DEF TypeOK, DeletedTo, requestVars

CreditedTo(u) ==
    /\ \E row \in TransactionRow : row.ref = NoRef /\ ledger' = [ledger EXCEPT ![u] = Append(@, row)]
    /\ UNCHANGED <<rowVars, requestVars>>

LEMMA CreditIs ==
    ASSUME TypeOK, NEW u \in Users, NEW amount \in Amounts, AdminCredit(u, amount)
    PROVE  TypeOK' /\ CreditedTo(u)
<1>1. balance[u] + amount <= IntMax /\ Post(u, "ADMIN", amount, NoRef) /\ UNCHANGED <<rowVars, requestVars>>
  BY DEF AdminCredit, Credit
<1>2. amount \in Int /\ amount > 0 /\ "ADMIN" \in Kinds
  BY PortfolioAssumption, LedgerAssumption
<1>3. LedgerTypeOK /\ balance[u] \in 0..IntMax /\ IntMax \in Nat
  BY LedgerAssumption DEF TypeOK, LedgerTypeOK
<1>4. balance[u] + amount \in 0..IntMax
  BY <1>1, <1>2, <1>3
<1>5. /\ LedgerTypeOK'
      /\ \E row \in TransactionRow : row.ref = NoRef /\ row.amount = amount
            /\ ledger' = [ledger EXCEPT ![u] = Append(@, row)]
  BY <1>1, <1>2, <1>3, <1>4, PostRow
<1>6. CreditedTo(u)
  BY <1>1, <1>5 DEF CreditedTo
<1> QED
  BY <1>1, <1>5, <1>6 DEF TypeOK, rowVars, requestVars

CrashedTo ==
    /\ \A r \in Requests : /\ (Place(r)' = "gone" /\ at'[r] = "gone" /\ at[r] # "idle")
                              \/ (Place(r)' = Place(r) /\ at'[r] = at[r] /\ at[r] # "run" /\ at[r] # "refund")
                           /\ PathInv(r)' /\ at'[r] # "run" /\ todo'[r] = << >>
    /\ Quiet /\ UNCHANGED job

LEMMA CrashIs ==
    ASSUME TypeOK, Crash
    PROVE  TypeOK' /\ CrashedTo
<1>1. Quiet /\ UNCHANGED job /\ UNCHANGED <<ledgerVars, life, opened, capital, cash, history, events>>
  BY DEF Crash, Quiet, rowVars
<1>2. \A r \in Requests : at'[r] = (IF at[r] \in {"run", "refund"} THEN "gone" ELSE at[r]) /\ todo'[r] = << >>
  BY DEF Crash
<1>3. at' \in [Requests -> {"idle", "run", "refund"} \cup Endings] /\ todo' \in [Requests -> Seq(Steps)]
  BY DEF Crash, TypeOK, Endings
<1>4. ASSUME NEW r \in Requests
      PROVE  /\ (Place(r)' = "gone" /\ at'[r] = "gone" /\ at[r] # "idle")
                \/ (Place(r)' = Place(r) /\ at'[r] = at[r] /\ at[r] # "run" /\ at[r] # "refund")
             /\ PathInv(r)' /\ at'[r] # "run" /\ todo'[r] = << >>
  <2>1. at'[r] # "run"
    BY <1>2
  <2>2. PathInv(r)'
    BY <1>2, <2>1 DEF PathInv, Path
  <2> QED
    BY <1>2, <2>1, <2>2 DEF Place
<1>5. LedgerTypeOK'
  BY <1>1 DEF TypeOK, LedgerTypeOK, ledgerVars
<1>6. TypeOK'
  BY <1>1, <1>3, <1>5 DEF TypeOK
<1> QED
  BY <1>1, <1>4, <1>6 DEF CrashedTo

----------------------------------------------------------------------------
(* Only portfolios that are there have rows, and a row that a request made *)
(* is in its portfolio, since it has started.                              *)
WroteIn(r, p) == at[r] # "idle" /\ job[r].folio = p
LiveRows == \A p \in Portfolios : life[p] # "live" => history[p] = << >> /\ events[p] = << >>
HistoryRows ==
    \A p \in Portfolios : \A i \in DOMAIN history[p] :
        \A r \in Requests : history[p][i].by = r => WroteIn(r, p)
EventRows ==
    \A p \in Portfolios : \A i \in DOMAIN events[p] :
        \A r \in Requests : events[p][i].by = r => WroteIn(r, p)
LedgerRows ==
    \A u \in Users : \A i \in DOMAIN ledger[u] :
        \A r \in Requests : ledger[u][i].ref = r => at[r] # "idle"
RowsInv == LiveRows /\ HistoryRows /\ EventRows /\ LedgerRows

(* A request whose portfolio is not there yet is about to open it.         *)
LifeInv(r) ==
    at[r] # "idle" /\ life[job[r].folio] = "none" =>
        /\ job[r].op = "create" /\ ~job[r].charged
        /\ Place(r) \in {"access", "ensure", "insert", "error", "gone"}

LEMMA OthersStay ==
    ASSUME NEW r \in Requests, NEW j, NEW q, Turn(r, j, q), NEW s \in Requests \ {r}
    PROVE  /\ at'[s] = at[s] /\ todo'[s] = todo[s] /\ job'[s] = job[s] /\ Place(s)' = Place(s)
           /\ Alive(s)' = (life'[job[s].folio] = "live")
BY DEF Turn, Place, Alive

LEMMA TurnIs ==
    ASSUME TypeOK, NEW r \in Requests, NEW j, NEW q, StepTo(r, j, q)
    PROVE  /\ at[r] # "idle" /\ at'[r] # "idle" /\ job'[r] = j /\ Place(r)' = q
           /\ j \in Job /\ j.folio = job[r].folio /\ j.op = job[r].op /\ j.move = job[r].move
           /\ Place(r) \in Steps \cup {"refund"} /\ q # "idle"
<1>1. Turn(r, j, q) /\ job \in [Requests -> Job]
  BY DEF StepTo, TypeOK
<1>2. job'[r] = j
  BY <1>1 DEF Turn
<1>3. Place(r) \in Steps \cup {"refund"}
  BY DEF StepTo, ThrownTo, PreparedTo, RefundedTo, SoldOutTo, PassedTo, Steps
<1>4. at[r] # "idle"
  BY <1>3 DEF Place, Steps
<1>5. at'[r] # "idle"
  BY <1>1 DEF Turn, Place
<1> QED
  BY <1>1, <1>2, <1>3, <1>4, <1>5 DEF Turn

LEMMA GrownLedger ==
    ASSUME NEW L \in [Users -> Seq(TransactionRow)], NEW M, NEW u \in Users, NEW row \in TransactionRow,
           M = [L EXCEPT ![u] = Append(@, row)]
    PROVE  \A v \in Users : \A i \in DOMAIN M[v] :
               \/ i \in DOMAIN L[v] /\ M[v][i] = L[v][i]
               \/ v = u /\ M[v][i] = row
<1> SUFFICES ASSUME NEW v \in Users, NEW i \in DOMAIN M[v]
             PROVE  \/ i \in DOMAIN L[v] /\ M[v][i] = L[v][i]
                    \/ v = u /\ M[v][i] = row
  OBVIOUS
<1>1. CASE v # u
  BY <1>1
<1>2. CASE v = u
  <2>1. PICK old \in Seq(TransactionRow) : old = L[u]
    OBVIOUS
  <2>2. M[v] = Append(old, row) /\ L[v] = old
    BY <1>2, <2>1
  <2>3. /\ Len(old) \in Nat /\ DOMAIN old = 1..Len(old) /\ DOMAIN M[v] = 1..Len(old) + 1
        /\ M[v][Len(old) + 1] = row /\ \A k \in 1..Len(old) : M[v][k] = old[k]
    BY <2>2
  <2>4. i \in 1..Len(old) \/ i = Len(old) + 1
    BY <2>3
  <2> QED
    BY <1>2, <2>2, <2>3, <2>4
<1> QED
  BY <1>1, <1>2

LEMMA StepRows ==
    ASSUME TypeOK, RowsInv, NEW r \in Requests, NEW j, NEW q, StepTo(r, j, q)
    PROVE  RowsInv'
<1>0. /\ at[r] # "idle" /\ at'[r] # "idle" /\ job'[r] = j /\ j.folio = job[r].folio /\ Turn(r, j, q)
      /\ Grown(r, j) /\ EventsGrown(r, j) /\ TypeOK'
  BY TurnIs, HistoryOn, EventsOn, StepTypes DEF StepTo
<1>1. ASSUME NEW s \in Requests, NEW p \in Portfolios, WroteIn(s, p) PROVE WroteIn(s, p)'
  BY <1>0, <1>1, OthersStay DEF WroteIn
<1>2. WroteIn(r, job[r].folio)'
  BY <1>0 DEF WroteIn
<1>3. LiveRows'
  <2> SUFFICES ASSUME NEW p \in Portfolios, life'[p] # "live"
               PROVE  history'[p] = << >> /\ events'[p] = << >>
    BY DEF LiveRows
  <2>1. life[p] = life'[p]
    BY LifeOn
  <2>2. history[p] = << >> /\ events[p] = << >> /\ ~(Alive(r) /\ p = job[r].folio)
    BY <2>1 DEF RowsInv, LiveRows, Alive
  <2>3. DOMAIN history'[p] = {} /\ DOMAIN events'[p] = {}
    <3>1. DOMAIN history[p] = {} /\ DOMAIN events[p] = {}
      BY <2>2
    <3>2. DOMAIN history'[p] \ DOMAIN history[p] = {}
      BY <1>0, <2>2 DEF Grown, AddsRow
    <3>3. DOMAIN events'[p] \ DOMAIN events[p] = {}
      BY <1>0, <2>2 DEF EventsGrown
    <3> QED
      BY <3>1, <3>2, <3>3
  <2>4. history'[p] \in Seq(Snapshot) /\ events'[p] \in Seq(Event)
    BY <1>0 DEF TypeOK
  <2> QED
    BY <2>3, <2>4
<1>4. HistoryRows'
  <2> SUFFICES ASSUME NEW p \in Portfolios, NEW i \in DOMAIN history'[p], NEW s \in Requests, history'[p][i].by = s
               PROVE  WroteIn(s, p)'
    BY DEF HistoryRows
  <2>1. CASE i \in DOMAIN history[p]
    <3>1. history[p][i].by = s
      BY <1>0, <2>1 DEF Grown, SameRow
    <3> QED
      BY <1>1, <2>1, <3>1 DEF RowsInv, HistoryRows
  <2>2. CASE i \notin DOMAIN history[p]
    BY <1>0, <1>2, <2>2 DEF Grown, AddsRow
  <2> QED
    BY <2>1, <2>2
<1>5. EventRows'
  <2> SUFFICES ASSUME NEW p \in Portfolios, NEW i \in DOMAIN events'[p], NEW s \in Requests, events'[p][i].by = s
               PROVE  WroteIn(s, p)'
    BY DEF EventRows
  <2>1. CASE i \in DOMAIN events[p]
    <3>1. events[p][i].by = s
      BY <1>0, <2>1 DEF EventsGrown
    <3> QED
      BY <1>1, <2>1, <3>1 DEF RowsInv, EventRows
  <2>2. CASE i \notin DOMAIN events[p]
    BY <1>0, <1>2, <2>2 DEF EventsGrown
  <2> QED
    BY <2>1, <2>2
<1>6. LedgerRows'
  <2> SUFFICES ASSUME NEW u \in Users, NEW i \in DOMAIN ledger'[u], NEW s \in Requests, ledger'[u][i].ref = s
               PROVE  at'[s] # "idle"
    BY DEF LedgerRows
  <2>1. at[s] # "idle" => at'[s] # "idle"
    BY <1>0, OthersStay
  <2>2. CASE ledger' = ledger
    BY <2>1, <2>2 DEF RowsInv, LedgerRows
  <2>3. CASE ledger' # ledger
    <3>1. PICK row \in TransactionRow : row.ref = r /\ ledger' = [ledger EXCEPT ![Payer(r)] = Append(@, row)]
      BY <2>3, LedgerOn DEF TookTo, GaveTo
    <3>2. ledger \in [Users -> Seq(TransactionRow)] /\ Payer(r) \in Users
      BY PayerIs DEF TypeOK, LedgerTypeOK
    <3>3. (i \in DOMAIN ledger[u] /\ ledger'[u][i] = ledger[u][i]) \/ ledger'[u][i] = row
      BY <3>1, <3>2, GrownLedger
    <3>4. (i \in DOMAIN ledger[u] /\ ledger[u][i].ref = s) \/ s = r
      BY <3>1, <3>3
    <3> QED
      BY <1>0, <2>1, <3>4 DEF RowsInv, LedgerRows
  <2> QED
    BY <2>2, <2>3
<1> QED
  BY <1>3, <1>4, <1>5, <1>6 DEF RowsInv

LEMMA StepLife ==
    ASSUME TypeOK, NEW r \in Requests, NEW j, NEW q, StepTo(r, j, q), NEW s \in Requests, LifeInv(s)
    PROVE  LifeInv(s)'
<1>0. /\ at[r] # "idle" /\ at'[r] # "idle" /\ job'[r] = j /\ j.folio = job[r].folio /\ j.op = job[r].op
      /\ Place(r)' = q /\ Turn(r, j, q) /\ Place(r) \in Steps \cup {"refund"} /\ job[r] \in Job /\ job[s] \in Job
  BY TurnIs, PayerIs DEF StepTo
<1> SUFFICES ASSUME at'[s] # "idle", life'[job'[s].folio] = "none" PROVE LifeInv(s)'
  BY DEF LifeInv
<1>1. job'[s].folio = job[s].folio /\ job[s].folio \in Portfolios
  BY <1>0, OthersStay, PayerIs
<1>2. life[job[s].folio] = "none"
  BY <1>1, LifeOn
<1>3. CASE s # r
  BY <1>0, <1>2, <1>3, OthersStay DEF LifeInv
<1>4. CASE s = r
  <2>1. job[r].op = "create" /\ ~job[r].charged /\ Place(r) \in {"access", "ensure", "insert"}
    BY <1>0, <1>2, <1>4 DEF LifeInv, Steps
  <2>2. CASE ThrownTo(r, j, q)
    <3>1. q = "error"
      BY <2>1, <2>2 DEF ThrownTo
    <3>2. PICK shown \in BOOLEAN : j = [job[r] EXCEPT !.shown = shown]
      BY <2>2 DEF ThrownTo
    <3>3. j.charged = job[r].charged
      BY <1>0, <3>2 DEF Job
    <3> QED
      BY <1>0, <1>4, <2>1, <3>1, <3>3 DEF LifeInv
  <2>3. CASE PassedTo(r, j, q)
    <3>1. j = job[r] /\ Place(r) # "insert"
      <4>1. InsertTo(r, j) => life'[job[r].folio] = "live"
        BY <1>1, <1>4 DEF InsertTo, TypeOK
      <4>2. QuietTo(r, j)
        BY <1>1, <1>4, <2>1, <2>3, <4>1 DEF PassedTo, ChargeTo, StoreTo, RelabelTo, ReadTo, WriteTo, EventTo,
                        ReadCashTo, WriteCashTo, CashEventTo
      <4> QED
        BY <4>2 DEF QuietTo
    <3>2. q \in {"ensure", "insert"}
      BY <2>1, <2>3, <3>1 DEF PassedTo, Follows
    <3> QED
      BY <1>0, <1>4, <2>1, <3>1, <3>2 DEF LifeInv
  <2>4. ~(PreparedTo(r, j, q) \/ RefundedTo(r, j, q) \/ SoldOutTo(r, j, q))
    BY <2>1 DEF PreparedTo, RefundedTo, SoldOutTo
  <2> QED
    BY <2>2, <2>3, <2>4 DEF StepTo
<1> QED
  BY <1>3, <1>4

(* Which step sets which of the locals.                                    *)
LEMMA JobFields ==
    ASSUME TypeOK, NEW r \in Requests, NEW j, NEW q, StepTo(r, j, q)
    PROVE  /\ j.edits = job[r].edits \/ SoldOutTo(r, j, q) \/ EventTo(r, j, q)
           /\ j.base = job[r].base \/ ReadTo(r, j)
           /\ j.own = job[r].own \/ StoreTo(r, j)
           /\ j.charged = job[r].charged \/ ChargeTo(r, j)
           /\ j.moved = job[r].moved \/ WriteCashTo(r, j)
           /\ j.seen = job[r].seen \/ ReadCashTo(r, j)
<1>0. job[r] \in Job
  BY PayerIs
<1>1. CASE ThrownTo(r, j, q)
  <2>1. PICK shown \in BOOLEAN : j = [job[r] EXCEPT !.shown = shown]
    BY <1>1 DEF ThrownTo
  <2> QED
    BY <1>0, <2>1 DEF Job
<1>2. CASE PreparedTo(r, j, q) \/ RefundedTo(r, j, q)
  <2>1. j = job[r]
    BY <1>2 DEF PreparedTo, RefundedTo
  <2> QED
    BY <2>1
<1>3. CASE SoldOutTo(r, j, q)
  <2>1. PICK edits : edits = [job[r].edits EXCEPT ![1] = [@ EXCEPT !.action = "drop"]]
    OBVIOUS
  <2>2. j = [job[r] EXCEPT !.edits = edits]
    BY <1>3, <2>1 DEF SoldOutTo
  <2> QED
    BY <1>0, <1>3, <2>2 DEF Job
<1>4. CASE ChargeTo(r, j)
  <2>1. PICK paid : paid = (Fee > 0)
    OBVIOUS
  <2>2. j = [job[r] EXCEPT !.charged = paid]
    BY <1>4, <2>1 DEF ChargeTo
  <2> QED
    BY <1>0, <1>4, <2>2 DEF Job
<1>5. CASE QuietTo(r, j) \/ InsertTo(r, j) \/ RelabelTo(r, j) \/ CashEventTo(r, j)
  <2>1. j = job[r]
    BY <1>5 DEF QuietTo, InsertTo, RelabelTo, CashEventTo
  <2> QED
    BY <2>1
<1>6. CASE StoreTo(r, j)
  <2>1. PICK own : own = Len(history[job[r].folio]) + 1
    OBVIOUS
  <2>2. j = [job[r] EXCEPT !.own = own]
    BY <1>6, <2>1 DEF StoreTo
  <2> QED
    BY <1>0, <1>6, <2>2 DEF Job
<1>7. CASE ReadTo(r, j)
  <2>1. PICK base : base = Len(history[job[r].folio])
    OBVIOUS
  <2>2. j = [job[r] EXCEPT !.base = base]
    BY <1>7, <2>1 DEF ReadTo
  <2> QED
    BY <1>0, <1>7, <2>2 DEF Job
<1>8. CASE WriteTo(r, j)
  <2>1. PICK type \in EditEvents : j = [job[r] EXCEPT !.log = type]
    BY <1>8 DEF WriteTo
  <2> QED
    BY <1>0, <2>1 DEF Job
<1>9. CASE EventTo(r, j, q)
  <2>1. PICK edits : edits = Rest(r)
    OBVIOUS
  <2>2. j = [job[r] EXCEPT !.edits = edits]
    BY <1>9, <2>1 DEF EventTo
  <2> QED
    BY <1>0, <1>9, <2>2 DEF Job
<1>10. CASE ReadCashTo(r, j)
  <2>1. PICK seen : seen = [cash |-> cash[job[r].folio], capital |-> capital[job[r].folio]]
    OBVIOUS
  <2>2. j = [job[r] EXCEPT !.seen = seen]
    BY <1>10, <2>1 DEF ReadCashTo
  <2> QED
    BY <1>0, <1>10, <2>2 DEF Job
<1>11. CASE WriteCashTo(r, j)
  <2>1. j = [job[r] EXCEPT !.moved = TRUE]
    BY <1>11 DEF WriteCashTo
  <2> QED
    BY <1>0, <1>11, <2>1 DEF Job
<1> QED
  BY <1>1, <1>2, <1>3, <1>4, <1>5, <1>6, <1>7, <1>8, <1>9, <1>10, <1>11 DEF StepTo, PassedTo

LEMMA StepEdits ==
    ASSUME TypeOK, NEW r \in Requests, NEW j, NEW q, StepTo(r, j, q),
           NEW s \in Requests, EditInv(s), LifeInv(s)
    PROVE  EditInv(s)'
<1>0. /\ job'[r] = j /\ j.folio = job[r].folio /\ j.op = job[r].op /\ Place(r)' = q /\ Turn(r, j, q)
      /\ Place(r) \in Steps \cup {"refund"} /\ job[r] \in Job /\ job[r].op \in Ops /\ job[r].folio \in Portfolios
  BY TurnIs, PayerIs DEF StepTo
<1>1. CASE s # r
  <2>1. at'[s] = at[s] /\ job'[s] = job[s] /\ Place(s)' = Place(s) /\ Alive(s)' = (life'[job[s].folio] = "live")
    BY <1>0, <1>1, OthersStay
  <2>2. ASSUME Place(s) = "write", Alive(s)' PROVE Based(s)'
    <3>1. at[s] # "idle" /\ job[s].folio \in Portfolios
      BY <2>2, PayerIs DEF Place
    <3>2. life[job[s].folio] # "none"
      BY <2>2, <3>1 DEF LifeInv
    <3>3. Alive(s)
      BY <2>1, <2>2, <3>1, <3>2, LifeOn DEF Alive
    <3>4. Based(s)
      BY <2>2, <3>3 DEF EditInv
    <3>5. PICK p \in Portfolios : p = job[s].folio
      BY <3>1
    <3>6. PICK base : base = job[s].base
      OBVIOUS
    <3>7. base \in DOMAIN history[p] /\ \A k \in base + 1..Len(history[p]) : history[p][k].by # s
      BY <3>4, <3>5, <3>6 DEF Based
    <3>8. Grown(r, j) /\ history[p] \in Seq(Snapshot) /\ history'[p] \in Seq(Snapshot)
      BY HistoryOn DEF TypeOK
    <3>9. base \in DOMAIN history'[p]
      BY <3>7, <3>8 DEF Grown
    <3>10. ASSUME NEW k \in base + 1..Len(history'[p]) PROVE history'[p][k].by # s
      <4>1. k \in DOMAIN history'[p]
        BY <3>7, <3>8
      <4>2. CASE k \in DOMAIN history[p]
        <5>1. k \in base + 1..Len(history[p])
          BY <3>7, <3>8, <4>2
        <5>2. history'[p][k].by = history[p][k].by
          BY <3>8, <4>2 DEF Grown, SameRow
        <5> QED
          BY <3>7, <5>1, <5>2
      <4>3. CASE k \notin DOMAIN history[p]
        BY <1>1, <3>8, <4>1, <4>3 DEF Grown
      <4> QED
        BY <4>2, <4>3
    <3> QED
      BY <2>1, <3>5, <3>6, <3>9, <3>10 DEF Based
  <2> QED
    BY <2>1, <2>2 DEF EditInv
<1>2. CASE s = r
  <2>1. ASSUME job[r].op \in EditOps, q \in {"charge", "read", "write", "event"} PROVE j.edits # << >>
    <3>1. CASE SoldOutTo(r, j, q)
      <4>1. job[r].edits \in Seq(Edit) /\ job[r].edits # << >>
        BY <1>0, <1>2, <2>1, <3>1 DEF EditInv, SoldOutTo, Job
      <4>2. PICK edits : edits = [job[r].edits EXCEPT ![1] = [@ EXCEPT !.action = "drop"]]
        OBVIOUS
      <4>3. j = [job[r] EXCEPT !.edits = edits]
        BY <3>1, <4>2 DEF SoldOutTo
      <4>4. j.edits = edits /\ DOMAIN edits = DOMAIN job[r].edits
        BY <1>0, <4>2, <4>3 DEF Job
      <4>5. 1 \in DOMAIN job[r].edits
        BY <4>1
      <4> QED
        BY <4>4, <4>5
    <3>2. CASE PassedTo(r, j, q)
      <4>1. Place(r) \in PlacesOf(job[r].op) /\ q \in Follows(job[r].op, Place(r))
        BY <3>2 DEF PassedTo
      <4>2. Place(r) \in {"charge", "read", "write", "event"}
        BY <2>1, <4>1 DEF PlacesOf, Follows, EditOps
      <4>3. CASE EventTo(r, j, q)
        <5>1. PICK edits : edits = Rest(r)
          OBVIOUS
        <5>2. j = [job[r] EXCEPT !.edits = edits] /\ (q = "read" <=> edits # << >>)
          BY <4>3, <5>1 DEF EventTo
        <5>3. q = "read"
          BY <2>1, <4>1, <4>3 DEF Follows, EventTo
        <5> QED
          BY <1>0, <5>2, <5>3 DEF Job
      <4>4. CASE ~EventTo(r, j, q)
        <5>1. job[r].edits # << >>
          BY <1>2, <2>1, <4>2 DEF EditInv
        <5> QED
          BY <3>1, <4>4, <5>1, JobFields
      <4> QED
        BY <4>3, <4>4
    <3>3. ~ThrownTo(r, j, q) /\ ~PreparedTo(r, j, q) /\ ~RefundedTo(r, j, q)
      BY <2>1 DEF ThrownTo, PreparedTo, RefundedTo
    <3> QED
      BY <3>1, <3>2, <3>3 DEF StepTo
  <2>2. ASSUME job[r].op = "apply", q \in {"answer", "ok"} PROVE j.edits = << >>
    <3>1. PassedTo(r, j, q)
      BY <2>2 DEF StepTo, ThrownTo, PreparedTo, RefundedTo, SoldOutTo
    <3>2. Place(r) \in PlacesOf(job[r].op) /\ q \in Follows(job[r].op, Place(r))
      BY <3>1 DEF PassedTo
    <3>3. Place(r) \in {"event", "answer"}
      BY <2>2, <3>2 DEF PlacesOf, Follows, AfterCharge, AfterRead
    <3>4. CASE Place(r) = "event"
      <4>1. EventTo(r, j, q)
        BY <3>1, <3>4 DEF PassedTo, ChargeTo, QuietTo, InsertTo, StoreTo, RelabelTo, ReadTo, WriteTo, ReadCashTo,
                          WriteCashTo, CashEventTo
      <4>2. PICK edits : edits = Rest(r)
        OBVIOUS
      <4>3. j = [job[r] EXCEPT !.edits = edits] /\ (q = "read" <=> edits # << >>)
        BY <4>1, <4>2 DEF EventTo
      <4> QED
        BY <1>0, <2>2, <4>3 DEF Job
    <3>5. CASE Place(r) = "answer"
      <4>1. job[r].edits = << >>
        BY <1>2, <2>2, <3>5 DEF EditInv
      <4>2. ~SoldOutTo(r, j, q) /\ ~EventTo(r, j, q)
        BY <3>5 DEF SoldOutTo, EventTo
      <4> QED
        BY <4>1, <4>2, JobFields
    <3> QED
      BY <3>3, <3>4, <3>5
  <2>3. ASSUME q = "write" PROVE Based(r)'
    <3>1. PassedTo(r, j, q)
      BY <2>3 DEF StepTo, ThrownTo, PreparedTo, RefundedTo, SoldOutTo
    <3>2. Place(r) = "read"
      BY <2>3, <3>1 DEF PassedTo, Steps, Follows, AfterCharge, AfterStore
    <3>3. ReadTo(r, j)
      BY <3>1, <3>2 DEF PassedTo, ChargeTo, QuietTo, InsertTo, StoreTo, RelabelTo, EventTo, WriteTo, ReadCashTo,
                        WriteCashTo, CashEventTo
    <3>4. PICK base : base = Len(history[job[r].folio])
      OBVIOUS
    <3>5. j = [job[r] EXCEPT !.base = base] /\ history' = history /\ history[job[r].folio] # << >>
      BY <3>3, <3>4 DEF ReadTo, Quiet, rowVars
    <3>6. j.base = base /\ history[job[r].folio] \in Seq(Snapshot)
      BY <1>0, <3>5 DEF Job, TypeOK
    <3>7. base \in DOMAIN history[job[r].folio] /\ \A k \in base + 1..Len(history[job[r].folio]) : FALSE
      BY <3>4, <3>5, <3>6
    <3>8. job'[r].folio = job[r].folio /\ job'[r].base = base
      BY <1>0, <3>6
    <3> QED
      BY <3>5, <3>7, <3>8 DEF Based
  <2> QED
    BY <1>0, <1>2, <2>1, <2>2, <2>3 DEF EditInv
<1> QED
  BY <1>1, <1>2

----------------------------------------------------------------------------
(* A row of a history that is an edit is one of the row it names.          *)
RowBuilds(H, i) ==
    H[i].kind = "USER_ADJUSTED" /\ H[i].action # "adjust" =>
        /\ H[i].base \in 1..i-1
        /\ \A k \in H[i].base+1..i-1 : H[k].by # H[i].by
        /\ \A s, t \in Symbols :
              /\ Held(H[i].items, s) # Held(H[H[i].base].items, s)
              /\ Held(H[i].items, t) # Held(H[H[i].base].items, t)
              => s = t
        /\ DOMAIN H[i].items # {}

LEMMA BuildsByRow ==
    EditsBuildOnTheirBase <=> \A p \in Portfolios : \A i \in DOMAIN history[p] : RowBuilds(history[p], i)
BY DEF EditsBuildOnTheirBase, RowBuilds

LEMMA KeptBuilds ==
    ASSUME NEW H \in Seq(Snapshot), NEW G \in Seq(Snapshot), NEW i \in DOMAIN H, RowBuilds(H, i),
           \A k \in DOMAIN H : k \in DOMAIN G /\ SameRow(H[k], G[k]),
           G[i].kind = "USER_ADJUSTED" => H[i].kind = "USER_ADJUSTED"
    PROVE  RowBuilds(G, i)
<1>1. SameRow(H[i], G[i]) /\ i \in DOMAIN G /\ i \in Nat /\ DOMAIN H = 1..Len(H) /\ Len(H) \in Nat
  OBVIOUS
<1> SUFFICES ASSUME G[i].kind = "USER_ADJUSTED", G[i].action # "adjust" PROVE RowBuilds(G, i)
  BY DEF RowBuilds
<1>2. H[i].kind = "USER_ADJUSTED" /\ H[i].action # "adjust"
  BY <1>1 DEF SameRow
<1>3. H[i].base \in 1..i-1 /\ G[i].base = H[i].base /\ G[i].items = H[i].items /\ G[i].by = H[i].by
  BY <1>1, <1>2 DEF SameRow, RowBuilds
<1>4. ASSUME NEW k \in 1..i-1 PROVE k \in DOMAIN H /\ G[k].by = H[k].by /\ G[k].items = H[k].items
  <2>1. k \in DOMAIN H
    BY <1>1
  <2> QED
    BY <2>1 DEF SameRow
<1>5. \A k \in H[i].base+1..i-1 : G[k].by # G[i].by
  <2>1. \A k \in H[i].base+1..i-1 : H[k].by # H[i].by /\ k \in 1..i-1
    BY <1>2, <1>3 DEF RowBuilds
  <2> QED
    BY <1>3, <1>4, <2>1
<1>6. G[G[i].base].items = H[H[i].base].items
  BY <1>3, <1>4
<1>7. /\ \A s, t \in Symbols : /\ Held(H[i].items, s) # Held(H[H[i].base].items, s)
                               /\ Held(H[i].items, t) # Held(H[H[i].base].items, t)
                               => s = t
      /\ DOMAIN H[i].items # {}
  BY <1>2 DEF RowBuilds
<1>8. /\ \A s, t \in Symbols : /\ Held(G[i].items, s) # Held(G[G[i].base].items, s)
                               /\ Held(G[i].items, t) # Held(G[G[i].base].items, t)
                               => s = t
      /\ DOMAIN G[i].items # {}
  BY <1>3, <1>6, <1>7
<1> QED
  BY <1>3, <1>5, <1>8 DEF RowBuilds

LEMMA NewBuilds ==
    ASSUME TypeOK, NEW r \in Requests, NEW j, WriteTo(r, j), Based(r)
    PROVE  LET p == job[r].folio IN
           Len(history[p]) + 1 \in DOMAIN history'[p] /\ RowBuilds(history'[p], Len(history[p]) + 1)
<1>1. PICK row : /\ Appended(r, row) /\ row.base = job[r].base
                 /\ row.action # "adjust" =>
                       \E edit \in Edit :
                           LET items == history[job[r].folio][job[r].base].items IN
                           row.items = Edited(items, edit) /\ ~Refused(items, edit)
  BY DEF WriteTo
<1>2. PICK p \in Portfolios : p = job[r].folio
  BY PayerIs
<1>3. PICK H \in Seq(Snapshot), G \in Seq(Snapshot), n \in Nat : H = history[p] /\ G = history'[p] /\ n = Len(H)
  BY <1>1, AppendedIs DEF TypeOK
<1>4. DOMAIN H = 1..n /\ DOMAIN G = 1..n + 1 /\ G[n + 1] = row /\ \A k \in DOMAIN H : G[k] = H[k]
  <2>1. DOMAIN G = 1..Len(H) + 1 /\ G[Len(H) + 1] = row
    BY <1>1, <1>2, <1>3, AppendedIs
  <2>2. \A k \in DOMAIN H : G[k] = H[k]
    BY <1>1, <1>3, AppendedIs
  <2> QED
    BY <1>3, <2>1, <2>2
<1>5. PICK base : base = job[r].base
  OBVIOUS
<1>6. base \in 1..n /\ (\A k \in base + 1..n : H[k].by # r) /\ row.base = base /\ row.by = r
  BY <1>1, <1>2, <1>3, <1>4, <1>5 DEF Based, Appended
<1>7. ASSUME row.action # "adjust"
      PROVE  /\ \A s, t \in Symbols : Held(row.items, s) # Held(G[base].items, s)
                                      /\ Held(row.items, t) # Held(G[base].items, t) => s = t
             /\ DOMAIN row.items # {}
  <2>1. PICK edit \in Edit : row.items = Edited(H[base].items, edit) /\ ~Refused(H[base].items, edit)
    BY <1>1, <1>2, <1>3, <1>5, <1>7
  <2>2. H[base] \in Snapshot /\ G[base] = H[base]
    BY <1>4, <1>6
  <2>3. H[base].items \in Holdings
    BY <2>2 DEF Snapshot
  <2>4. /\ DOMAIN row.items # {}
        /\ \A s \in Symbols \ {edit.symbol} : Held(row.items, s) = Held(G[base].items, s)
    BY <2>1, <2>2, <2>3, EditedOne
  <2> QED
    BY <2>4
<1>8. n + 1 \in DOMAIN G /\ base \in 1..(n + 1)-1
  BY <1>3, <1>4, <1>6
<1>9. \A k \in base+1..(n + 1)-1 : G[k].by # r
  <2>1. \A k \in base+1..(n + 1)-1 : k \in base + 1..n /\ k \in DOMAIN H
    BY <1>3, <1>4, <1>6
  <2> QED
    BY <1>4, <1>6, <2>1
<1>10. RowBuilds(G, n + 1)
  BY <1>4, <1>6, <1>7, <1>8, <1>9 DEF RowBuilds
<1> QED
  BY <1>2, <1>3, <1>8, <1>10

LEMMA StepBuilds ==
    ASSUME TypeOK, EditsBuildOnTheirBase, NEW r \in Requests, EditInv(r), NEW j, NEW q, StepTo(r, j, q)
    PROVE  EditsBuildOnTheirBase'
<1>1. Grown(r, j) /\ history \in [Portfolios -> Seq(Snapshot)] /\ history' \in [Portfolios -> Seq(Snapshot)]
  BY HistoryOn DEF TypeOK
<1>2. SUFFICES ASSUME NEW p \in Portfolios, NEW i \in DOMAIN history'[p] PROVE RowBuilds(history'[p], i)
  BY DEF EditsBuildOnTheirBase, RowBuilds
<1>3. CASE i \in DOMAIN history[p]
  <2>1. RowBuilds(history[p], i)
    BY <1>3, BuildsByRow
  <2>2. history'[p][i].kind = "USER_ADJUSTED" => history[p][i].kind = "USER_ADJUSTED"
    <3>1. RelabelTo(r, j) => history'[p][i].kind = history[p][i].kind \/ history'[p][i].kind \in {"REBALANCE", "MONTHLY_EVAL"}
      BY <1>3, RelabelledIs
    <3> QED
      BY <1>1, <1>3, <3>1 DEF Grown
  <2>3. \A k \in DOMAIN history[p] : k \in DOMAIN history'[p] /\ SameRow(history[p][k], history'[p][k])
    BY <1>1 DEF Grown
  <2>4. PICK H \in Seq(Snapshot), G \in Seq(Snapshot) : H = history[p] /\ G = history'[p]
    BY <1>1
  <2> QED
    BY <1>3, <2>1, <2>2, <2>3, <2>4, KeptBuilds
<1>4. CASE i \notin DOMAIN history[p]
  <2>1. AddsRow(r, p, i) /\ (StoreTo(r, j) \/ WriteTo(r, j))
    BY <1>1, <1>4 DEF Grown
  <2>2. CASE StoreTo(r, j)
    <3>1. PICK row : Appended(r, row) /\ row.kind = "SUGGESTION"
      BY <2>2 DEF StoreTo
    <3>2. history'[p][i] = row
      BY <1>4, <3>1, AppendedIs
    <3> QED
      BY <3>1, <3>2 DEF RowBuilds
  <2>3. CASE WriteTo(r, j)
    <3>1. Based(r)
      BY <2>1, <2>3 DEF WriteTo, EditInv, AddsRow
    <3> QED
      BY <2>1, <2>3, <3>1, NewBuilds DEF AddsRow
  <2> QED
    BY <2>1, <2>2, <2>3
<1> QED
  BY <1>3, <1>4

----------------------------------------------------------------------------
(* The part of the inductive invariant the others rest on.                 *)
RequestInv == \A r \in Requests : PathInv(r) /\ LifeInv(r) /\ EditInv(r)
BaseInv == TypeOK /\ RowsInv /\ RequestInv /\ EditsBuildOnTheirBase

LEMMA InitRows ==
    ASSUME Init
    PROVE  /\ \A r \in Requests : at[r] = "idle" /\ todo[r] = << >> /\ Place(r) = "idle" /\ ~job[r].moved /\ ~job[r].charged
           /\ \A p \in Portfolios : /\ life[p] # "live" => history[p] = << >>
                                    /\ events[p] = << >> /\ history[p] \in Seq(Snapshot)
                                    /\ \A i \in DOMAIN history[p] :
                                          history[p][i].by = NoRef /\ history[p][i].kind = "SUGGESTION"
           /\ \A u \in Users : /\ ledger[u] \in Seq(TransactionRow)
                               /\ \A i \in DOMAIN ledger[u] : ledger[u][i].ref = NoRef
           /\ job \in [Requests -> Job]
<1>1. \A r \in Requests : at[r] = "idle" /\ todo[r] = << >> /\ Place(r) = "idle"
  BY DEF Init, Place
<1>2. job \in [Requests -> Job] /\ \A r \in Requests : ~job[r].moved /\ ~job[r].charged
  <2>1. PICK p \in Portfolios : job = [r \in Requests |-> Fresh("suggest", p, << >>, NoMove)]
    BY DEF Init
  <2>2. << >> \in EditsOf("suggest") /\ NoMove \in MovesOf("suggest") /\ "suggest" \in Ops
    BY DEF EditsOf, MovesOf, Ops
  <2>3. Fresh("suggest", p, << >>, NoMove) \in Job
    BY <2>2, FreshTyped
  <2>4. ~Fresh("suggest", p, << >>, NoMove).moved /\ ~Fresh("suggest", p, << >>, NoMove).charged
    BY DEF Fresh
  <2> QED
    BY <2>1, <2>3, <2>4
<1>3. PICK held \in {<< >>} \cup {Stored(items) : items \in Suggestions} :
          history = [p \in Portfolios |-> IF life[p] = "live" THEN held ELSE << >>]
  BY DEF Init
<1>4. held \in Seq(Snapshot) /\ \A i \in DOMAIN held : held[i].by = NoRef /\ held[i].kind = "SUGGESTION"
  <2>1. CASE held = << >>
    BY <2>1
  <2>2. CASE held # << >>
    <3>1. PICK items \in Suggestions : held = Stored(items)
      BY <1>3, <2>2
    <3>2. PICK row : row = [kind |-> "SUGGESTION", by |-> NoRef, action |-> "suggest", base |-> 0, items |-> items]
      OBVIOUS
    <3>3. items \in Holdings
      BY PortfolioAssumption
    <3>4. row \in Snapshot /\ row.by = NoRef /\ row.kind = "SUGGESTION"
      BY <3>2, <3>3 DEF Snapshot, SnapshotKinds
    <3>5. held = <<row>>
      BY <3>1, <3>2 DEF Stored
    <3>6. <<row>> \in Seq(Snapshot) /\ DOMAIN <<row>> = {1} /\ <<row>>[1] = row
      BY <3>4
    <3> QED
      BY <3>4, <3>5, <3>6
  <2> QED
    BY <2>1, <2>2
<1>5. ASSUME NEW u \in Users
      PROVE  ledger[u] \in Seq(TransactionRow) /\ \A i \in DOMAIN ledger[u] : ledger[u][i].ref = NoRef
  <2>1. ledger[u] = OpeningRows("ADMIN", balance[u]) /\ balance[u] \in Nat
    <3>1. Opening \subseteq 0..MaxBalance /\ MaxBalance \in Nat
      BY PortfolioAssumption, LedgerAssumption
    <3>2. ledger[u] = OpeningRows("ADMIN", balance[u]) /\ balance[u] \in Opening
      BY DEF Init
    <3>3. balance[u] \in 0..MaxBalance
      BY <3>1, <3>2
    <3>4. balance[u] \in Nat
      BY <3>1, <3>3
    <3> QED
      BY <3>2, <3>4
  <2>2. CASE balance[u] = 0
    <3>1. ledger[u] = << >>
      BY <2>1, <2>2 DEF OpeningRows
    <3> QED
      BY <3>1
  <2>3. CASE balance[u] # 0
    <3>1. PICK row : row = [kind |-> "ADMIN", amount |-> balance[u], after |-> balance[u], ref |-> NoRef]
      OBVIOUS
    <3>2. row \in TransactionRow /\ row.ref = NoRef
      BY <2>1, <3>1, PortfolioAssumption DEF TransactionRow
    <3>3. ledger[u] = <<row>>
      BY <2>1, <2>3, <3>1 DEF OpeningRows
    <3>4. <<row>> \in Seq(TransactionRow) /\ DOMAIN <<row>> = {1} /\ <<row>>[1] = row
      BY <3>2
    <3> QED
      BY <3>2, <3>3, <3>4
  <2> QED
    BY <2>2, <2>3
<1>6. ASSUME NEW p \in Portfolios
      PROVE  /\ life[p] # "live" => history[p] = << >>
             /\ events[p] = << >> /\ history[p] \in Seq(Snapshot)
             /\ \A i \in DOMAIN history[p] : history[p][i].by = NoRef /\ history[p][i].kind = "SUGGESTION"
  <2>1. events[p] = << >> /\ history[p] = IF life[p] = "live" THEN held ELSE << >>
    BY <1>3 DEF Init
  <2>2. << >> \in Seq(Snapshot) /\ DOMAIN << >> = {}
    OBVIOUS
  <2> QED
    BY <1>4, <2>1, <2>2
<1> QED
  BY <1>1, <1>2, <1>5, <1>6

LEMMA BaseInit ==
    ASSUME Init
    PROVE  BaseInv
<1>0. NoRef \notin Requests
  BY LedgerAssumption, PortfolioAssumption
<1>1. /\ \A r \in Requests : at[r] = "idle" /\ todo[r] = << >> /\ Place(r) = "idle"
      /\ \A p \in Portfolios : /\ life[p] # "live" => history[p] = << >>
                               /\ events[p] = << >> /\ history[p] \in Seq(Snapshot)
                               /\ \A i \in DOMAIN history[p] :
                                     history[p][i].by = NoRef /\ history[p][i].kind = "SUGGESTION"
      /\ \A u \in Users : /\ ledger[u] \in Seq(TransactionRow)
                          /\ \A i \in DOMAIN ledger[u] : ledger[u][i].ref = NoRef
      /\ job \in [Requests -> Job]
  BY InitRows
<1>2. TypeOK
  <2>1. LedgerTypeOK
    <3>1. Opening \subseteq 0..IntMax
      BY PortfolioAssumption, LedgerAssumption
    <3>2. balance \in [Users -> 0..IntMax]
      BY <3>1 DEF Init
    <3>3. ledger = [u \in Users |-> OpeningRows("ADMIN", balance[u])]
      BY DEF Init
    <3>4. ledger \in [Users -> Seq(TransactionRow)]
      BY <1>1, <3>3
    <3> QED
      BY <3>2, <3>4 DEF LedgerTypeOK
  <2>2. /\ life \in [Portfolios -> {"none", "live", "deleted"}] /\ opened \in [Portfolios -> Nat]
        /\ capital \in [Portfolios -> Nat] /\ cash \in [Portfolios -> Nat]
    <3>1. Capitals \subseteq Nat
      BY PortfolioAssumption
    <3> QED
      BY <3>1 DEF Init
  <2>3. history \in [Portfolios -> Seq(Snapshot)] /\ events \in [Portfolios -> Seq(Event)]
    <3>1. \E held : history = [p \in Portfolios |-> IF life[p] = "live" THEN held ELSE << >>]
      BY DEF Init
    <3>2. history \in [Portfolios -> Seq(Snapshot)]
      BY <1>1, <3>1
    <3>3. << >> \in Seq(Event)
      OBVIOUS
    <3>4. events \in [Portfolios -> Seq(Event)]
      BY <3>3 DEF Init
    <3> QED
      BY <3>2, <3>4
  <2>4. at \in [Requests -> {"idle", "run", "refund"} \cup Endings] /\ todo \in [Requests -> Seq(Steps)]
    <3>1. << >> \in Seq(Steps)
      OBVIOUS
    <3> QED
      BY <3>1 DEF Init
  <2> QED
    BY <1>1, <2>1, <2>2, <2>3, <2>4 DEF TypeOK
<1>3. RowsInv
  BY <1>0, <1>1 DEF RowsInv, LiveRows, HistoryRows, EventRows, LedgerRows
<1>4. RequestInv
  BY <1>1 DEF RequestInv, PathInv, Path, LifeInv, EditInv
<1>5. EditsBuildOnTheirBase
  BY <1>1 DEF EditsBuildOnTheirBase
<1> QED
  BY <1>2, <1>3, <1>4, <1>5 DEF BaseInv

LEMMA BaseStep ==
    ASSUME BaseInv, NEW r \in Requests, NEW j, NEW q, StepTo(r, j, q)
    PROVE  BaseInv'
<1>1. TypeOK' /\ RowsInv' /\ EditsBuildOnTheirBase'
  BY StepTypes, StepRows, StepBuilds DEF BaseInv, RequestInv
<1>2. ASSUME NEW s \in Requests PROVE (PathInv(s) /\ LifeInv(s) /\ EditInv(s))'
  <2>1. LifeInv(s)' /\ EditInv(s)'
    BY StepLife, StepEdits DEF BaseInv, RequestInv
  <2>2. PathInv(s)'
    <3>1. Turn(r, j, q) /\ PathInv(s)
      BY DEF StepTo, BaseInv, RequestInv
    <3>2. CASE s = r
      BY <3>1, <3>2 DEF Turn
    <3>3. CASE s # r
      BY <3>1, <3>3, OthersStay DEF PathInv
    <3> QED
      BY <3>2, <3>3
  <2> QED
    BY <2>1, <2>2
<1> QED
  BY <1>1, <1>2 DEF BaseInv, RequestInv

LEMMA BaseStart ==
    ASSUME BaseInv, NEW r \in Requests, NEW op, NEW p, StartTo(r, op, p), TypeOK'
    PROVE  BaseInv'
<1>1. /\ UNCHANGED <<life, history, events>> /\ ledger' = ledger /\ at'[r] # "idle" /\ at[r] = "idle"
      /\ job'[r].op = op /\ job'[r].folio = p /\ ~job'[r].charged /\ Place(r)' = FirstOf(op)
      /\ \A s \in Requests \ {r} : at'[s] = at[s] /\ todo'[s] = todo[s] /\ job'[s] = job[s]
  BY DEF StartTo, Quiet, rowVars, ledgerVars
<1>2. RowsInv'
  BY <1>1 DEF BaseInv, RowsInv, LiveRows, HistoryRows, EventRows, LedgerRows, WroteIn
<1>3. EditsBuildOnTheirBase'
  BY <1>1 DEF BaseInv, EditsBuildOnTheirBase
<1>4. ASSUME NEW s \in Requests \ {r} PROVE (PathInv(s) /\ LifeInv(s) /\ EditInv(s))'
  BY <1>1 DEF BaseInv, RequestInv, PathInv, LifeInv, EditInv, Place, Alive, Based
<1>5. PathInv(r)'
  BY DEF StartTo
<1>6. LifeInv(r)'
  BY <1>1 DEF LifeInv, StartTo, FirstOf
<1>7. EditInv(r)'
  BY <1>1 DEF EditInv, StartTo, FirstOf
<1> QED
  BY <1>2, <1>3, <1>4, <1>5, <1>6, <1>7 DEF BaseInv, RequestInv

LEMMA BaseDelete ==
    ASSUME BaseInv, NEW p \in Portfolios, DeletedTo(p), TypeOK'
    PROVE  BaseInv'
<1>1. /\ UNCHANGED <<at, todo, job>> /\ ledger' = ledger /\ life'[p] = "deleted"
      /\ history'[p] = << >> /\ events'[p] = << >>
      /\ \A o \in Portfolios \ {p} : life'[o] = life[o] /\ history'[o] = history[o] /\ events'[o] = events[o]
  BY DEF DeletedTo, requestVars, ledgerVars, BaseInv, TypeOK
<1>2. RowsInv'
  <2>1. LiveRows'
    BY <1>1 DEF BaseInv, RowsInv, LiveRows
  <2>2. HistoryRows' /\ EventRows' /\ LedgerRows'
    BY <1>1 DEF BaseInv, RowsInv, HistoryRows, EventRows, LedgerRows, WroteIn
  <2> QED
    BY <2>1, <2>2 DEF RowsInv
<1>3. EditsBuildOnTheirBase'
  <2>1. ASSUME NEW o \in Portfolios, NEW i \in DOMAIN history'[o] PROVE RowBuilds(history'[o], i)
    <3>1. o # p
      BY <1>1
    <3> QED
      BY <1>1, <3>1, BuildsByRow DEF BaseInv
  <2> QED
    BY <2>1 DEF EditsBuildOnTheirBase, RowBuilds
<1>4. ASSUME NEW s \in Requests PROVE (PathInv(s) /\ LifeInv(s) /\ EditInv(s))'
  <2>1. job[s].folio \in Portfolios /\ PathInv(s) /\ LifeInv(s) /\ EditInv(s)
    BY PayerIs DEF BaseInv, RequestInv
  <2>2. Place(s)' = Place(s) /\ PathInv(s)' /\ LifeInv(s)'
    BY <1>1, <2>1 DEF Place, PathInv, LifeInv
  <2>3. Alive(s)' => Alive(s) /\ (Based(s) => Based(s)')
    BY <1>1, <2>1 DEF Alive, Based
  <2> QED
    BY <1>1, <2>1, <2>2, <2>3 DEF EditInv
<1> QED
  BY <1>2, <1>3, <1>4 DEF BaseInv, RequestInv

LEMMA BaseCredit ==
    ASSUME BaseInv, NEW u \in Users, CreditedTo(u), TypeOK'
    PROVE  BaseInv'
<1>1. UNCHANGED <<at, todo, job, life, history, events>>
  BY DEF CreditedTo, rowVars, requestVars
<1>2. LedgerRows'
  <2>1. PICK row \in TransactionRow : row.ref = NoRef /\ ledger' = [ledger EXCEPT ![u] = Append(@, row)]
    BY DEF CreditedTo
  <2>2. ledger \in [Users -> Seq(TransactionRow)] /\ NoRef \notin Requests
    BY LedgerAssumption, PortfolioAssumption DEF BaseInv, TypeOK, LedgerTypeOK
  <2>3. \A v \in Users : \A i \in DOMAIN ledger'[v] :
            (i \in DOMAIN ledger[v] /\ ledger'[v][i] = ledger[v][i]) \/ ledger'[v][i] = row
    BY <2>1, <2>2, GrownLedger
  <2>4. ASSUME NEW v \in Users, NEW i \in DOMAIN ledger'[v], NEW s \in Requests, ledger'[v][i].ref = s
        PROVE  at'[s] # "idle"
    <3>1. i \in DOMAIN ledger[v] /\ ledger[v][i].ref = s
      BY <2>1, <2>2, <2>3, <2>4
    <3> QED
      BY <1>1, <3>1 DEF BaseInv, RowsInv, LedgerRows
  <2> QED
    BY <2>4 DEF LedgerRows
<1>3. RowsInv'
  BY <1>1, <1>2 DEF BaseInv, RowsInv, LiveRows, HistoryRows, EventRows, WroteIn
<1>4. EditsBuildOnTheirBase' /\ RequestInv'
  BY <1>1 DEF BaseInv, EditsBuildOnTheirBase, RequestInv, PathInv, LifeInv, EditInv, Place, Alive, Based
<1> QED
  BY <1>3, <1>4 DEF BaseInv

LEMMA BaseCrash ==
    ASSUME BaseInv, CrashedTo, TypeOK'
    PROVE  BaseInv'
<1>1. UNCHANGED <<job, life, history, events>> /\ ledger' = ledger
  BY DEF CrashedTo, Quiet, rowVars, ledgerVars
<1>2. \A r \in Requests : (at'[r] = "idle" <=> at[r] = "idle") /\ (Place(r)' = "gone" \/ Place(r)' = Place(r)) /\ PathInv(r)'
  BY DEF CrashedTo
<1>3. RowsInv'
  BY <1>1, <1>2 DEF BaseInv, RowsInv, LiveRows, HistoryRows, EventRows, LedgerRows, WroteIn
<1>4. EditsBuildOnTheirBase'
  BY <1>1 DEF BaseInv, EditsBuildOnTheirBase
<1>5. ASSUME NEW r \in Requests PROVE (LifeInv(r) /\ EditInv(r))'
  BY <1>1, <1>2 DEF BaseInv, RequestInv, LifeInv, EditInv, Alive, Based
<1> QED
  BY <1>2, <1>3, <1>4, <1>5 DEF BaseInv, RequestInv

(* A step of the specification is one of a request that runs, one that     *)
(* starts it, one of the other three, or none.                             *)
StepOf ==
    \/ \E r \in Requests : \E j, q : StepTo(r, j, q)
    \/ \E r \in Requests : \E op, p : StartTo(r, op, p)
    \/ \E p \in Portfolios : DeletedTo(p)
    \/ \E u \in Users : CreditedTo(u)
    \/ CrashedTo
    \/ UNCHANGED vars

LEMMA BaseNext ==
    ASSUME BaseInv, [Next]_vars
    PROVE  BaseInv' /\ StepOf
<1>1. ASSUME NEW r \in Requests, Continue(r) \/ StepFails(r) PROVE BaseInv' /\ StepOf
  <2>1. PICK j, q : StepTo(r, j, q)
    BY <1>1, StepIs DEF BaseInv, RequestInv
  <2> QED
    BY <2>1, BaseStep DEF StepOf
<1>2. ASSUME NEW r \in Requests, NEW op \in Ops, NEW p \in Portfolios, Start(r, op, p) PROVE BaseInv' /\ StepOf
  <2>1. TypeOK' /\ StartTo(r, op, p)
    BY <1>2, StartIs DEF BaseInv
  <2> QED
    BY <2>1, BaseStart DEF StepOf
<1>3. ASSUME NEW p \in Portfolios, Delete(p) PROVE BaseInv' /\ StepOf
  <2>1. TypeOK' /\ DeletedTo(p)
    BY <1>3, DeleteIs DEF BaseInv
  <2> QED
    BY <2>1, BaseDelete DEF StepOf
<1>4. ASSUME NEW u \in Users, NEW amount \in Amounts, AdminCredit(u, amount) PROVE BaseInv' /\ StepOf
  <2>1. TypeOK' /\ CreditedTo(u)
    BY <1>4, CreditIs DEF BaseInv
  <2> QED
    BY <2>1, BaseCredit DEF StepOf
<1>5. ASSUME Crash PROVE BaseInv' /\ StepOf
  <2>1. TypeOK' /\ CrashedTo
    BY <1>5, CrashIs DEF BaseInv
  <2> QED
    BY <2>1, BaseCrash DEF StepOf
<1>6. ASSUME UNCHANGED vars PROVE BaseInv' /\ StepOf
  <2>1. UNCHANGED <<balance, ledger, life, opened, capital, cash, history, events, at, todo, job>>
    BY <1>6 DEF vars, ledgerVars, rowVars, requestVars
  <2>2. TypeOK'
    BY <2>1 DEF BaseInv, TypeOK, LedgerTypeOK
  <2>3. RowsInv'
    BY <2>1 DEF BaseInv, RowsInv, LiveRows, HistoryRows, EventRows, LedgerRows, WroteIn
  <2>4. RequestInv' /\ EditsBuildOnTheirBase'
    BY <2>1 DEF BaseInv, RequestInv, PathInv, LifeInv, EditInv, Place, Alive, Based, EditsBuildOnTheirBase
  <2> QED
    BY <1>6, <2>2, <2>3, <2>4 DEF BaseInv, StepOf
<1> QED
  BY <1>1, <1>2, <1>3, <1>4, <1>5, <1>6 DEF Next

LEMMA BaseAlways == Spec => []BaseInv
<1>1. Init => BaseInv
  BY BaseInit
<1>2. BaseInv /\ [Next]_vars => BaseInv'
  BY BaseNext
<1> QED
  BY <1>1, <1>2, PTL DEF Spec

(* The tables and the locals keep their types.                             *)
THEOREM PortfolioTypeOK == Spec => []TypeOK
<1>1. BaseInv => TypeOK
  BY DEF BaseInv
<1> QED
  BY <1>1, BaseAlways, PTL

(* Between an edit and the snapshot it was based on lies one holding, no   *)
(* edit empties a portfolio, and no list of suggestions undoes its own     *)
(* earlier items, for any number of requests, portfolios and holdings      *)
(* (executeSuggestionAction, addItem, editItem, removeItem).               *)
THEOREM PortfolioEditsBuildOnTheirBase == Spec => []EditsBuildOnTheirBase
<1>1. BaseInv => EditsBuildOnTheirBase
  BY DEF BaseInv
<1> QED
  BY <1>1, BaseAlways, PTL

----------------------------------------------------------------------------
(* What the rows of a request in a ledger come to.                         *)
RefRows(L, s) == {i \in DOMAIN L : L[i].ref = s}
AmountsOf(L, s) == [k \in RefRows(L, s) |-> L[k].amount]
Net(L, s) == SumFunction(AmountsOf(L, s))

LEMMA KeepsIs == \A r \in Requests : Keeps(r) = -Net(ledger[Payer(r)], r)
BY DEF Keeps, Net, AmountsOf, RefRows

LEMMA RefRowsFinite ==
    ASSUME NEW L \in Seq(TransactionRow), NEW s
    PROVE  /\ IsFiniteSet(RefRows(L, s))
           /\ \A k \in RefRows(L, s) : AmountsOf(L, s)[k] = L[k].amount /\ L[k].amount \in Int
<1>1. DOMAIN L = 1..Len(L) /\ Len(L) \in Nat
  OBVIOUS
<1>2. IsFiniteSet(DOMAIN L)
  BY <1>1, FS_Interval
<1>3. RefRows(L, s) \in SUBSET DOMAIN L
  BY DEF RefRows
<1>4. IsFiniteSet(RefRows(L, s))
  BY <1>2, <1>3, FS_Subset
<1>5. \A k \in RefRows(L, s) : L[k] \in TransactionRow
  BY <1>3
<1> QED
  BY <1>4, <1>5 DEF AmountsOf, TransactionRow

LEMMA NetTyped ==
    ASSUME NEW L \in Seq(TransactionRow), NEW s
    PROVE  Net(L, s) \in Int
<1>1. DOMAIN AmountsOf(L, s) = RefRows(L, s)
  BY DEF AmountsOf
<1>2. SumFunctionOnSet(AmountsOf(L, s), RefRows(L, s)) \in Int
  BY RefRowsFinite, SumTyped
<1> QED
  BY <1>1, <1>2 DEF Net, SumFunction

LEMMA NetNone ==
    ASSUME NEW L \in Seq(TransactionRow), NEW s, \A i \in DOMAIN L : L[i].ref # s
    PROVE  Net(L, s) = 0
<1>1. RefRows(L, s) = {} /\ DOMAIN AmountsOf(L, s) = RefRows(L, s)
  BY DEF RefRows, AmountsOf
<1> QED
  BY <1>1, SumNothing DEF Net, SumFunction

LEMMA NetAppend ==
    ASSUME NEW L \in Seq(TransactionRow), NEW row \in TransactionRow, NEW s
    PROVE  Net(Append(L, row), s) = Net(L, s) + (IF row.ref = s THEN row.amount ELSE 0)
<1>0. Append(L, row) \in Seq(TransactionRow)
  OBVIOUS
<1>1. PICK M \in Seq(TransactionRow) : M = Append(L, row)
  BY <1>0, Zenon
<1>2. PICK n \in Nat : n = Len(L)
  OBVIOUS
<1>3. DOMAIN L = 1..n /\ DOMAIN M = 1..n + 1 /\ M[n + 1] = row /\ \A i \in 1..n : M[i] = L[i]
  BY <1>1, <1>2
<1>4. /\ IsFiniteSet(RefRows(L, s)) /\ IsFiniteSet(RefRows(M, s))
      /\ \A k \in RefRows(L, s) : AmountsOf(L, s)[k] = L[k].amount
      /\ \A k \in RefRows(M, s) : AmountsOf(M, s)[k] = M[k].amount /\ M[k].amount \in Int
  BY RefRowsFinite
<1>5. DOMAIN AmountsOf(L, s) = RefRows(L, s) /\ DOMAIN AmountsOf(M, s) = RefRows(M, s)
  BY DEF AmountsOf
<1>6. Net(L, s) \in Int /\ Net(M, s) \in Int
  BY NetTyped
<1>7. n + 1 \notin RefRows(L, s) /\ RefRows(L, s) \in SUBSET (1..n)
  BY <1>3 DEF RefRows
<1>8. RefRows(M, s) = IF row.ref = s THEN RefRows(L, s) \cup {n + 1} ELSE RefRows(L, s)
  BY <1>3 DEF RefRows
<1>9. RefRows(L, s) \in SUBSET RefRows(M, s)
  BY <1>8
<1>10. \A k \in RefRows(L, s) : AmountsOf(M, s)[k] = AmountsOf(L, s)[k]
  <2>1. \A k \in RefRows(L, s) : M[k] = L[k]
    BY <1>3, <1>7
  <2> QED
    BY <1>4, <1>9, <2>1
<1>11. SumFunctionOnSet(AmountsOf(M, s), RefRows(L, s)) = SumFunctionOnSet(AmountsOf(L, s), RefRows(L, s))
  BY <1>4, <1>10, SumSame
<1>12. SumFunctionOnSet(AmountsOf(M, s), RefRows(L, s)) = Net(L, s)
  BY <1>5, <1>11 DEF Net, SumFunction
<1>13. CASE row.ref = s
  <2>1. RefRows(M, s) = RefRows(L, s) \cup {n + 1} /\ AmountsOf(M, s)[n + 1] = row.amount
    BY <1>3, <1>4, <1>8, <1>13
  <2>2. SumFunctionOnSet(AmountsOf(M, s), RefRows(L, s) \cup {n + 1})
            = AmountsOf(M, s)[n + 1] + SumFunctionOnSet(AmountsOf(M, s), RefRows(L, s))
    <3>1. \A k \in RefRows(L, s) \cup {n + 1} : AmountsOf(M, s)[k] \in Int
      BY <1>4, <2>1
    <3> QED
      BY <1>4, <1>7, <3>1, SumAdd
  <2>3. Net(M, s) = row.amount + Net(L, s)
    BY <1>5, <1>12, <2>1, <2>2 DEF Net, SumFunction
  <2>4. row.amount \in Int
    BY DEF TransactionRow
  <2> QED
    BY <1>1, <1>6, <1>13, <2>3, <2>4
<1>14. CASE row.ref # s
  <2>1. Net(M, s) = Net(L, s)
    BY <1>5, <1>8, <1>12, <1>14 DEF Net, SumFunction
  <2> QED
    BY <1>1, <1>6, <1>14, <2>1
<1> QED
  BY <1>13, <1>14

LEMMA KeepsTyped ==
    ASSUME TypeOK, NEW r \in Requests
    PROVE  Keeps(r) \in Int
<1>1. ledger[Payer(r)] \in Seq(TransactionRow)
  BY PayerIs DEF TypeOK, LedgerTypeOK
<1>2. Net(ledger[Payer(r)], r) \in Int
  BY <1>1, NetTyped
<1> QED
  BY <1>2, KeepsIs

(* Its own rows change what a request keeps, and no others.                *)
LEMMA KeepsOther ==
    ASSUME TypeOK, NEW r \in Requests, NEW j, NEW q, StepTo(r, j, q), NEW s \in Requests \ {r}
    PROVE  Keeps(s)' = Keeps(s)
<1>1. PICK u \in Users : u = Payer(s) /\ u = Payer(s)'
  <2>1. Payer(s)' = Payer(s)
    BY OthersStay DEF StepTo, Payer
  <2> QED
    BY <2>1, PayerIs
<1>2. Keeps(s) = -Net(ledger[u], s) /\ Keeps(s)' = -Net(ledger'[u], s)
  BY <1>1 DEF Keeps, Net, AmountsOf, RefRows
<1>3. Net(ledger'[u], s) = Net(ledger[u], s)
  <2>1. CASE ledger' = ledger
    BY <2>1
  <2>2. CASE ledger' # ledger
    <3>1. PICK row \in TransactionRow : row.ref = r /\ ledger' = [ledger EXCEPT ![Payer(r)] = Append(@, row)]
      BY <2>2, LedgerOn DEF TookTo, GaveTo
    <3>2. ledger \in [Users -> Seq(TransactionRow)]
      BY DEF TypeOK, LedgerTypeOK
    <3>3. CASE u # Payer(r)
      BY <3>1, <3>2, <3>3
    <3>4. CASE u = Payer(r)
      <4>1. ledger'[u] = Append(ledger[u], row) /\ ledger[u] \in Seq(TransactionRow)
        BY <3>1, <3>2, <3>4
      <4>2. Net(ledger'[u], s) = Net(ledger[u], s) + 0 /\ Net(ledger[u], s) \in Int
        BY <3>1, <4>1, NetAppend, NetTyped
      <4> QED
        BY <4>2
    <3> QED
      BY <3>3, <3>4
  <2> QED
    BY <2>1, <2>2
<1> QED
  BY <1>2, <1>3

LEMMA KeepsOwn ==
    ASSUME TypeOK, NEW r \in Requests, NEW j, NEW q, StepTo(r, j, q)
    PROVE  /\ Keeps(r) \in Int /\ Fee \in Int
           /\ Keeps(r)' = IF TookTo(r, j, q) THEN Keeps(r) + Fee
                          ELSE IF GaveTo(r, j, q) THEN Keeps(r) - Fee ELSE Keeps(r)
<1>1. PICK u \in Users : u = Payer(r) /\ u = Payer(r)'
  <2>1. Payer(r)' = Payer(r)
    BY TurnIs DEF Payer
  <2> QED
    BY <2>1, PayerIs
<1>2. Keeps(r) = -Net(ledger[u], r) /\ Keeps(r)' = -Net(ledger'[u], r)
  BY <1>1 DEF Keeps, Net, AmountsOf, RefRows
<1>3. ledger \in [Users -> Seq(TransactionRow)] /\ ledger[u] \in Seq(TransactionRow)
  BY DEF TypeOK, LedgerTypeOK
<1>4. Net(ledger[u], r) \in Int /\ Fee \in Int
  BY <1>3, NetTyped, FeeTyped DEF FeeIn
<1>5. ASSUME NEW row \in TransactionRow, row.ref = r, ledger' = [ledger EXCEPT ![u] = Append(@, row)]
      PROVE  Net(ledger'[u], r) = Net(ledger[u], r) + row.amount
  <2>1. ledger'[u] = Append(ledger[u], row)
    BY <1>3, <1>5
  <2> QED
    BY <1>3, <1>5, <2>1, NetAppend
<1>6. CASE TookTo(r, j, q)
  <2>1. PICK row \in TransactionRow : /\ row.ref = r /\ row.amount = -Fee
                                      /\ ledger' = [ledger EXCEPT ![u] = Append(@, row)]
    BY <1>1, <1>6 DEF TookTo
  <2>2. Net(ledger'[u], r) = Net(ledger[u], r) + (-Fee)
    BY <1>5, <2>1
  <2> QED
    BY <1>2, <1>4, <1>6, <2>2
<1>7. CASE GaveTo(r, j, q)
  <2>1. PICK row \in TransactionRow : /\ row.ref = r /\ row.amount = Fee
                                      /\ ledger' = [ledger EXCEPT ![u] = Append(@, row)]
    BY <1>1, <1>7 DEF GaveTo
  <2>2. Net(ledger'[u], r) = Net(ledger[u], r) + Fee
    BY <1>5, <2>1
  <2>3. ~TookTo(r, j, q)
    BY <1>7 DEF GaveTo, TookTo
  <2> QED
    BY <1>2, <1>4, <1>7, <2>2, <2>3
<1>8. CASE ~TookTo(r, j, q) /\ ~GaveTo(r, j, q)
  <2>1. ledger' = ledger
    BY <1>8, LedgerOn
  <2> QED
    BY <1>2, <1>4, <1>8, <2>1
<1> QED
  BY <1>6, <1>7, <1>8

(* The other steps change nothing of it, and a request starts with nothing. *)
LEMMA KeepsStart ==
    ASSUME BaseInv, NEW r \in Requests, NEW op, NEW p, StartTo(r, op, p)
    PROVE  Keeps(r)' = 0 /\ \A s \in Requests \ {r} : Keeps(s)' = Keeps(s)
<1>1. ledger' = ledger /\ at[r] = "idle" /\ job'[r] \in Job
      /\ \A s \in Requests \ {r} : job'[s] = job[s]
  BY DEF StartTo, Quiet, ledgerVars
<1>2. PICK u \in Users : u = Payer(r)'
  <2>1. job'[r].folio \in Portfolios
    BY <1>1 DEF Job
  <2> QED
    BY <2>1, PortfolioAssumption DEF Payer
<1>3. Keeps(r)' = -Net(ledger[u], r)
  BY <1>1, <1>2 DEF Keeps, Net, AmountsOf, RefRows
<1>4. ledger[u] \in Seq(TransactionRow) /\ \A i \in DOMAIN ledger[u] : ledger[u][i].ref # r
  BY <1>1 DEF BaseInv, TypeOK, LedgerTypeOK, RowsInv, LedgerRows
<1>5. Net(ledger[u], r) = 0
  BY <1>4, NetNone
<1>6. Keeps(r)' = 0
  <2>1. PICK n \in Int : n = Net(ledger[u], r)
    BY <1>5
  <2>2. PICK m : m = -n
    OBVIOUS
  <2>3. m \in Int /\ m + n = 0
    BY <2>2
  <2>4. m = 0
    BY <1>5, <2>1, <2>3
  <2> QED
    BY <1>3, <2>1, <2>2, <2>4
<1>7. \A s \in Requests \ {r} : Keeps(s)' = Keeps(s)
  BY <1>1 DEF Keeps, Payer
<1> QED
  BY <1>6, <1>7

LEMMA KeepsStill ==
    ASSUME UNCHANGED <<ledger, job>>, NEW s \in Requests
    PROVE  Keeps(s)' = Keeps(s)
BY DEF Keeps, Payer

LEMMA KeepsCredit ==
    ASSUME BaseInv, NEW u \in Users, CreditedTo(u), NEW s \in Requests
    PROVE  Keeps(s)' = Keeps(s)
<1>1. PICK row \in TransactionRow : row.ref = NoRef /\ ledger' = [ledger EXCEPT ![u] = Append(@, row)]
  BY DEF CreditedTo
<1>2. PICK v \in Users : v = Payer(s) /\ v = Payer(s)'
  <2>1. job' = job
    BY DEF CreditedTo, requestVars
  <2> QED
    BY <2>1, PayerIs DEF Payer, BaseInv
<1>3. Keeps(s) = -Net(ledger[v], s) /\ Keeps(s)' = -Net(ledger'[v], s)
  BY <1>2 DEF Keeps, Net, AmountsOf, RefRows
<1>4. ledger \in [Users -> Seq(TransactionRow)] /\ ledger[v] \in Seq(TransactionRow) /\ NoRef # s
  BY LedgerAssumption, PortfolioAssumption DEF BaseInv, TypeOK, LedgerTypeOK
<1>5. Net(ledger'[v], s) = Net(ledger[v], s)
  <2>1. CASE v # u
    BY <1>1, <1>4, <2>1
  <2>2. CASE v = u
    <3>1. ledger'[v] = Append(ledger[v], row)
      BY <1>1, <1>4, <2>2
    <3>2. Net(ledger'[v], s) = Net(ledger[v], s) + 0 /\ Net(ledger[v], s) \in Int
      BY <1>1, <1>4, <3>1, NetAppend, NetTyped
    <3> QED
      BY <3>2
  <2> QED
    BY <2>1, <2>2
<1> QED
  BY <1>3, <1>5

----------------------------------------------------------------------------
(* The places at which a request has not paid, or never pays.              *)
Unpaid(op) ==
    CASE op = "hedge"   -> {"read", "prepare", "charge"}
      [] op = "analyze" -> {"read", "charge"}
      [] op = "create"  -> {"access", "ensure", "insert", "charge"}
      [] op \in {"suggest", "strategies", "rebalance", "apply"} -> {"charge"}
      [] OTHER -> Steps \cup {"ok", "without", "error"}

(* What a request keeps of its user's money goes with where it is.         *)
FeeInv(r) ==
    LET op == job[r].op  bare == op = "create" /\ Place(r) = "answer" IN
    /\ Keeps(r) \in {0, Fee}
    /\ Place(r) \in Unpaid(op) \cup {"idle", "without"} => Keeps(r) = 0
    /\ Place(r) \in Steps \cap Unpaid(op) => ~job[r].charged
    /\ Place(r) \in Steps \ Unpaid(op) /\ ~bare => Keeps(r) = Fee /\ (job[r].charged <=> Fee > 0)
    /\ Place(r) = "ok" /\ op \in Billed \ {"create"} => Keeps(r) = Fee
    /\ Place(r) = "refund" => Keeps(r) = Fee
    /\ Place(r) = "error" /\ Keeps(r) > 0 => op = "create" \/ (op = "apply" /\ job[r].edits = << >>)
    /\ life[job[r].folio] = "none" => Keeps(r) = 0

LEMMA PlaceIs ==
    ASSUME TypeOK, NEW r \in Requests, PathInv(r), Place(r) \in Steps
    PROVE  Place(r) \in PlacesOf(job[r].op)
<1>1. at[r] = "run" /\ todo[r] \in Seq(Steps) /\ todo[r] # << >> /\ Path(job[r].op, todo[r])
  BY DEF TypeOK, PathInv, Place, Steps, Endings
<1>2. Head(todo[r]) \in PlacesOf(job[r].op)
  BY <1>1, TailPath
<1> QED
  BY <1>1, <1>2 DEF Place

LEMMA StepFeesOther ==
    ASSUME TypeOK, NEW r \in Requests, NEW j, NEW q, StepTo(r, j, q), NEW s \in Requests \ {r}, FeeInv(s)
    PROVE  FeeInv(s)'
<1>1. Keeps(s)' = Keeps(s) /\ job'[s] = job[s] /\ Place(s)' = Place(s)
  BY KeepsOther, OthersStay DEF StepTo
<1>2. life'[job[s].folio] = "none" => life[job[s].folio] = "none"
  BY LifeOn, PayerIs
<1> QED
  BY <1>1, <1>2 DEF FeeInv

(* The steps of PassedTo: before the charge, the charge, and after it.     *)
LEMMA PassedFees ==
    ASSUME TypeOK, NEW r \in Requests, NEW j, NEW q, StepTo(r, j, q), PassedTo(r, j, q),
           PathInv(r), LifeInv(r), FeeInv(r)
    PROVE  FeeInv(r)'
<1> DEFINE op == job[r].op
<1>0. /\ job'[r] = j /\ j.folio = job[r].folio /\ j.op = op /\ Place(r)' = q /\ op \in Ops
      /\ job[r].folio \in Portfolios /\ at[r] # "idle"
  BY TurnIs, PayerIs
<1>1. Place(r) \in PlacesOf(op) \cap Steps /\ q \in Follows(op, Place(r))
  BY DEF PassedTo
<1>2. Fee \in Nat
  BY FeeTyped DEF FeeIn
<1>3. CASE ChargeTo(r, j)
  <2>1. Place(r) = "charge" /\ life' = life
    BY <1>3 DEF ChargeTo, rowVars
  <2>2. op \in Billed /\ q \in AfterCharge(op) /\ q \in {"consult", "look", "read", "analyze"}
    BY <1>0, <1>1, <2>1 DEF PlacesOf, Ops, Billed, Follows, AfterCharge
  <2>3. "charge" \in Unpaid(op) /\ q \notin Unpaid(op)
    BY <2>2 DEF Unpaid, Billed, AfterCharge
  <2>4. Keeps(r) = 0
    BY <2>1, <2>3 DEF FeeInv
  <2>5. life[job[r].folio] # "none"
    BY <1>0, <2>1 DEF LifeInv
  <2>6. Keeps(r)' = Fee
    <3>1. ~GaveTo(r, j, q)
      BY <2>1 DEF GaveTo
    <3>2. q \in Follows(op, "charge")
      BY <1>1, <2>1
    <3>3. Fee > 0 => TookTo(r, j, q)
      <4>1. Fee > 0 => ~(ledger' = ledger /\ ~(Place(r) = "charge" /\ q \in Follows(op, "charge") /\ Fee > 0))
        BY <2>1, <3>2
      <4> QED
        BY <3>1, <4>1, LedgerOn
    <3> QED
      BY <1>2, <2>4, <3>1, <3>3, KeepsOwn DEF TookTo
  <2>7. j.charged <=> Fee > 0
    <3>1. PICK paid : paid = (Fee > 0)
      OBVIOUS
    <3>2. j = [job[r] EXCEPT !.charged = paid] /\ job[r] \in Job
      BY <1>3, <3>1, PayerIs DEF ChargeTo
    <3>3. j.charged = paid
      BY <3>2 DEF Job
    <3> QED
      BY <3>1, <3>3
  <2>8. q \in Steps \ Unpaid(op) /\ q \notin {"idle", "without", "ok", "refund", "error"}
    BY <2>2, <2>3 DEF Steps
  <2> QED
    BY <1>0, <2>1, <2>5, <2>6, <2>7, <2>8 DEF FeeInv
<1>4. CASE ~ChargeTo(r, j)
  <2>1. Keeps(r)' = Keeps(r)
    <3>1. ~TookTo(r, j, q) /\ ~GaveTo(r, j, q)
      BY <1>1, <1>4 DEF TookTo, GaveTo, Steps
    <3> QED
      BY <3>1, KeepsOwn
  <2>2. j.charged = job[r].charged
    BY <1>4, JobFields
  <2>3. Place(r) # "charge"
    BY <1>4 DEF PassedTo, QuietTo, InsertTo, StoreTo, RelabelTo, ReadTo, WriteTo, EventTo,
                ReadCashTo, WriteCashTo, CashEventTo
  <2>4. life'[job[r].folio] = "none" => life[job[r].folio] = "none"
    BY <1>0, LifeOn
  <2>5. q \notin {"idle", "without", "refund", "error"} /\ (q = "ok" \/ q \in Steps)
    BY <1>1 DEF Follows, AfterCharge, AfterRead, AfterStore, Steps
  <2>6. CASE op \notin Billed
    <3>1. Unpaid(op) = Steps \cup {"ok", "without", "error"}
      BY <2>6 DEF Unpaid, Billed
    <3>2. Keeps(r) = 0 /\ ~job[r].charged
      BY <1>1, <3>1 DEF FeeInv
    <3> QED
      BY <1>0, <2>1, <2>2, <2>4, <2>5, <2>6, <3>1, <3>2 DEF FeeInv
  <2>7. CASE op \in Billed /\ Place(r) \in Unpaid(op)
    <3>1. Keeps(r) = 0 /\ ~job[r].charged
      BY <1>1, <2>7 DEF FeeInv
    <3>2. q \in Unpaid(op) \/ (op = "create" /\ q = "answer")
      BY <1>1, <2>3, <2>7 DEF Unpaid, Billed, Follows, AfterRead
    <3>3. q # "ok" \/ op = "create"
      BY <2>7, <3>2 DEF Unpaid, Billed
    <3> QED
      BY <1>0, <2>1, <2>2, <2>4, <2>5, <3>1, <3>2, <3>3 DEF FeeInv
  <2>8. CASE op \in Billed /\ Place(r) \notin Unpaid(op)
    <3>1. q \notin Unpaid(op)
      BY <1>1, <2>3, <2>8 DEF Unpaid, Billed, Follows, AfterRead, AfterStore, PlacesOf
    <3>2. CASE op = "create" /\ Place(r) = "answer"
      <4>1. q = "ok"
        BY <1>1, <3>2 DEF Follows
      <4>2. Keeps(r) \in {0, Fee} /\ (life[job[r].folio] = "none" => Keeps(r) = 0)
        BY DEF FeeInv
      <4> QED
        BY <1>0, <2>1, <2>4, <3>1, <3>2, <4>1, <4>2 DEF FeeInv, Steps
    <3>3. CASE ~(op = "create" /\ Place(r) = "answer")
      <4>1. Keeps(r) = Fee /\ (job[r].charged <=> Fee > 0)
        BY <1>1, <2>8, <3>3 DEF FeeInv
      <4>2. life[job[r].folio] = "none" => Keeps(r) = 0
        BY DEF FeeInv
      <4> QED
        BY <1>0, <2>1, <2>2, <2>4, <2>5, <3>1, <4>1, <4>2 DEF FeeInv
    <3> QED
      BY <3>2, <3>3
  <2> QED
    BY <2>6, <2>7, <2>8
<1> QED
  BY <1>3, <1>4

LEMMA ThrownFees ==
    ASSUME TypeOK, NEW r \in Requests, NEW j, NEW q, StepTo(r, j, q), ThrownTo(r, j, q),
           EditInv(r), FeeInv(r)
    PROVE  FeeInv(r)'
<1> DEFINE op == job[r].op
<1>0. /\ job'[r] = j /\ j.folio = job[r].folio /\ j.op = op /\ Place(r)' = q /\ op \in Ops
  BY TurnIs, PayerIs
<1>1. /\ life' = life /\ Place(r) \in Steps /\ q \in {"refund", "error", "without"}
      /\ q = "refund" <=> job[r].charged /\ ~(Place(r) = "answer" /\ op \in {"apply", "create"})
      /\ q = "without" => Place(r) \in {"analyze", "charge", "consult", "store"}
  BY DEF ThrownTo, Quiet, rowVars
<1>2. Fee \in Nat /\ Keeps(r)' = Keeps(r) /\ Keeps(r) \in {0, Fee}
  <2>1. q \notin Follows(op, "charge")
    BY <1>1 DEF Follows, AfterCharge
  <2>2. ~TookTo(r, j, q) /\ ~GaveTo(r, j, q)
    BY <1>1, <2>1 DEF TookTo, GaveTo, Steps
  <2>3. Keeps(r)' = Keeps(r)
    BY <2>2, KeepsOwn
  <2>4. Fee \in Nat
    BY FeeTyped DEF FeeIn
  <2> QED
    BY <2>3, <2>4 DEF FeeInv
<1>3. j.edits = job[r].edits
  BY <1>1, JobFields DEF SoldOutTo, EventTo, ThrownTo, StepTo
<1>4. life[job[r].folio] = "none" => Keeps(r) = 0
  BY DEF FeeInv
<1>5. CASE q = "refund"
  <2>1. Place(r) \notin Unpaid(op) /\ ~(op = "create" /\ Place(r) = "answer")
    BY <1>1, <1>5 DEF FeeInv
  <2>2. Keeps(r) = Fee
    BY <1>1, <2>1 DEF FeeInv
  <2>3. "refund" \notin Unpaid(op)
    BY DEF Unpaid, Steps
  <2> QED
    BY <1>0, <1>1, <1>2, <1>4, <1>5, <2>2, <2>3 DEF FeeInv, Steps
<1>6. CASE q # "refund"
  <2>1. ASSUME ~job[r].charged, ~(op = "create" /\ Place(r) = "answer") PROVE Keeps(r) = 0
    <3>1. CASE Place(r) \in Unpaid(op)
      BY <3>1 DEF FeeInv
    <3>2. CASE Place(r) \notin Unpaid(op)
      <4>1. Keeps(r) = Fee /\ ~(Fee > 0)
        BY <1>1, <2>1, <3>2 DEF FeeInv
      <4> QED
        BY <1>2, <4>1
    <3> QED
      BY <3>1, <3>2
  <2>2. q = "without" => Keeps(r) = 0
    <3>1. q = "without" => Place(r) # "answer" /\ ~job[r].charged
      BY <1>1
    <3> QED
      BY <2>1, <3>1
  <2>3. q \in Unpaid(op) => Keeps(r) = 0
    <3>1. CASE op \in Billed
      <4>1. q \notin Unpaid(op)
        BY <1>1, <3>1 DEF Unpaid, Billed
      <4> QED
        BY <4>1
    <3>2. CASE op \notin Billed
      <4>1. Unpaid(op) = Steps \cup {"ok", "without", "error"}
        BY <3>2 DEF Unpaid, Billed
      <4> QED
        BY <1>1, <4>1 DEF FeeInv
    <3> QED
      BY <3>1, <3>2
  <2>4. q = "error" /\ Keeps(r) > 0 => op = "create" \/ (op = "apply" /\ job[r].edits = << >>)
    <3>1. CASE ~job[r].charged
      BY <1>2, <2>1, <3>1
    <3>2. CASE job[r].charged
      <4>1. Place(r) = "answer" /\ op \in {"apply", "create"}
        BY <1>1, <1>6, <3>2
      <4> QED
        BY <4>1 DEF EditInv
    <3> QED
      BY <3>1, <3>2
  <2>5. q \notin Steps /\ q \notin {"idle", "ok", "refund"}
    BY <1>1, <1>6 DEF Steps
  <2> QED
    BY <1>0, <1>1, <1>2, <1>3, <1>4, <2>2, <2>3, <2>4, <2>5 DEF FeeInv
<1> QED
  BY <1>5, <1>6

LEMMA RefundedFees ==
    ASSUME TypeOK, NEW r \in Requests, NEW j, NEW q, StepTo(r, j, q), RefundedTo(r, j, q), FeeInv(r)
    PROVE  FeeInv(r)'
<1>0. /\ job'[r] = j /\ j = job[r] /\ Place(r)' = q /\ Place(r) = "refund" /\ life' = life
      /\ q \in {"error", "without", "unrefunded"}
  BY TurnIs DEF RefundedTo, rowVars
<1>1. Fee \in Nat /\ Keeps(r) = Fee /\ (life[job[r].folio] = "none" => Keeps(r) = 0)
  BY <1>0, FeeTyped DEF FeeIn, FeeInv
<1>2. Keeps(r)' = IF q = "unrefunded" THEN Fee ELSE 0
  <2>1. ~TookTo(r, j, q)
    BY <1>0 DEF TookTo
  <2>2. CASE q = "unrefunded"
    BY <1>1, <2>1, <2>2, KeepsOwn DEF GaveTo
  <2>3. CASE q # "unrefunded"
    <3>1. GaveTo(r, j, q)
      BY <1>0, <2>1, <2>3, LedgerOn
    <3>2. Keeps(r)' = Keeps(r) - Fee
      BY <2>1, <3>1, KeepsOwn
    <3> QED
      BY <1>1, <2>3, <3>2
  <2> QED
    BY <2>2, <2>3
<1>3. q \notin Steps /\ q \notin {"idle", "ok", "refund"} /\ (q = "unrefunded" => q \notin Unpaid(job[r].op))
  BY <1>0 DEF Steps, Unpaid
<1> QED
  BY <1>0, <1>1, <1>2, <1>3 DEF FeeInv

LEMMA StepFees ==
    ASSUME TypeOK, NEW r \in Requests, NEW j, NEW q, StepTo(r, j, q),
           PathInv(r), LifeInv(r), EditInv(r), FeeInv(r)
    PROVE  FeeInv(r)'
<1> DEFINE op == job[r].op
<1>0. /\ job'[r] = j /\ j.folio = job[r].folio /\ j.op = op /\ Place(r)' = q /\ op \in Ops
  BY TurnIs, PayerIs
<1>1. CASE PreparedTo(r, j, q)
  <2>1. Place(r) = "prepare" /\ q = "without" /\ life' = life /\ j = job[r]
    BY <1>1 DEF PreparedTo, Quiet, rowVars
  <2>2. Place(r) \in PlacesOf(op)
    BY <2>1, PlaceIs DEF Steps
  <2>3. op = "hedge"
    BY <1>0, <2>1, <2>2 DEF PlacesOf, Ops
  <2>4. Keeps(r) = 0
    BY <2>1, <2>3 DEF FeeInv, Unpaid
  <2>5. Keeps(r)' = 0
    <3>1. ~TookTo(r, j, q) /\ ~GaveTo(r, j, q)
      BY <2>1 DEF TookTo, GaveTo
    <3> QED
      BY <2>4, <3>1, KeepsOwn
  <2>6. Fee \in Nat /\ "without" \notin Steps
    BY FeeTyped DEF FeeIn, Steps
  <2> QED
    BY <1>0, <2>1, <2>5, <2>6 DEF FeeInv
<1>2. CASE SoldOutTo(r, j, q)
  <2>1. Place(r) = "write" /\ q = "read" /\ life' = life
    BY <1>2 DEF SoldOutTo, Quiet, rowVars
  <2>2. Place(r) \in PlacesOf(op)
    BY <2>1, PlaceIs DEF Steps
  <2>3. op \in {"apply", "suggestion", "edit", "adjust"}
    BY <1>0, <2>1, <2>2 DEF PlacesOf, Ops
  <2>4. "write" \in Unpaid(op) <=> "read" \in Unpaid(op)
    BY <2>3 DEF Unpaid, Steps
  <2>5. Keeps(r)' = Keeps(r)
    <3>1. ~TookTo(r, j, q) /\ ~GaveTo(r, j, q)
      BY <2>1 DEF TookTo, GaveTo
    <3> QED
      BY <3>1, KeepsOwn
  <2>6. j.charged = job[r].charged
    BY <2>1, JobFields DEF ChargeTo
  <2>7. "write" \in Steps /\ "read" \in Steps
    BY DEF Steps
  <2> QED
    BY <1>0, <2>1, <2>4, <2>5, <2>6, <2>7 DEF FeeInv
<1> QED
  BY <1>1, <1>2, ThrownFees, RefundedFees, PassedFees DEF StepTo

----------------------------------------------------------------------------
(* The snapshot a request has stored is still its own, of the kind it last *)
(* gave it; a new portfolio has none before that is paid for.              *)
OwnRow(r, kind) ==
    LET rows == history[job[r].folio] IN
    job[r].own \in DOMAIN rows /\ rows[job[r].own].by = r /\ rows[job[r].own].kind = kind
NoRows(r) == \A i \in DOMAIN history[job[r].folio] : history[job[r].folio][i].by # r
OwnAt(r, q) ==
    LET op == job[r].op IN
    /\ q = "relabel" \/ (op = "suggest" /\ q = "ok") => OwnRow(r, "SUGGESTION")
    /\ \/ q = "evaluated" \/ (op = "monthly" /\ q = "answer")
       \/ (op = "rebalance" /\ q \in {"answer", "ok"})
       => OwnRow(r, "REBALANCE")
    /\ op = "create" /\ q \in {"answer", "ok"} =>
           (Keeps(r) = Fee /\ OwnRow(r, "SUGGESTION")) \/ (Keeps(r) = 0 /\ NoRows(r))
    /\ op = "create" /\ q = "error" /\ Keeps(r) > 0 => OwnRow(r, "SUGGESTION")
    /\ op = "create" /\ q \in {"access", "ensure", "insert", "charge", "consult", "store"} => NoRows(r)
OwnInv(r) == Alive(r) => OwnAt(r, Place(r))

(* A request whose portfolio is opened by another one's step is a new one. *)
LEMMA OpenedUnder ==
    ASSUME BaseInv, NEW r \in Requests, NEW j, NEW q, StepTo(r, j, q),
           NEW s \in Requests \ {r}, Alive(s)', ~Alive(s), FeeInv(s), at[s] # "idle"
    PROVE  /\ job[s].op = "create" /\ Place(s) \in {"access", "ensure", "insert", "error", "gone"}
           /\ Keeps(s) = 0 /\ history' = history /\ history[job[s].folio] = << >>
<1>1. Alive(s)' = (life'[job[s].folio] = "live") /\ job[s].folio \in Portfolios
  BY OthersStay, PayerIs DEF StepTo, BaseInv
<1>2. life[job[s].folio] = "none" /\ InsertTo(r, j)
  BY <1>1, LifeOn DEF Alive, BaseInv
<1>3. LifeInv(s) /\ LiveRows
  BY DEF BaseInv, RequestInv, RowsInv
<1> QED
  BY <1>1, <1>2, <1>3 DEF LifeInv, LiveRows, FeeInv, InsertTo

(* Nobody else touches the row.                                            *)
LEMMA OwnStays ==
    ASSUME BaseInv, NEW r \in Requests, NEW j, NEW q, StepTo(r, j, q), OwnInv(r),
           NEW s \in Requests \ {r}, NEW kind
    PROVE  /\ OwnRow(s, kind) => OwnRow(s, kind)'
           /\ NoRows(s) => NoRows(s)'
<1>1. job'[s] = job[s] /\ job[s].folio \in Portfolios /\ Grown(r, j)
  BY OthersStay, PayerIs, HistoryOn DEF StepTo, BaseInv
<1>2. PICK p \in Portfolios : p = job[s].folio
  BY <1>1
<1>5. PICK own : own = job[s].own
  OBVIOUS
<1>3. ASSUME OwnRow(s, kind) PROVE OwnRow(s, kind)'
  <2>1. own \in DOMAIN history[p] /\ history[p][own].by = s /\ history[p][own].kind = kind
    BY <1>2, <1>3, <1>5 DEF OwnRow
  <2>2. own \in DOMAIN history'[p] /\ history'[p][own].by = s
    BY <1>1, <2>1 DEF Grown, SameRow
  <2>3. history'[p][own].kind = kind
    <3>1. SUFFICES ASSUME RelabelTo(r, j), p = job[r].folio, own = job[r].own PROVE FALSE
      BY <1>1, <2>1 DEF Grown
    <3>2. Alive(r) /\ Place(r) \in {"relabel", "evaluated"}
      BY <3>1 DEF RelabelTo
    <3>3. OwnRow(r, "SUGGESTION") \/ OwnRow(r, "REBALANCE")
      BY <3>2 DEF OwnInv, OwnAt
    <3>4. history[p][own].by = r
      BY <3>1, <3>3 DEF OwnRow
    <3> QED
      BY <2>1, <3>4
  <2> QED
    BY <1>1, <1>2, <1>5, <2>2, <2>3 DEF OwnRow
<1>4. ASSUME NoRows(s) PROVE NoRows(s)'
  <2>1. ASSUME NEW i \in DOMAIN history'[p] PROVE history'[p][i].by # s
    <3>1. CASE i \in DOMAIN history[p]
      BY <1>1, <1>2, <1>4, <3>1 DEF Grown, SameRow, NoRows
    <3>2. CASE i \notin DOMAIN history[p]
      BY <1>1, <3>2 DEF Grown
    <3> QED
      BY <3>1, <3>2
  <2> QED
    BY <1>1, <1>2, <2>1 DEF NoRows
<1> QED
  BY <1>3, <1>4

LEMMA StepOwnOther ==
    ASSUME BaseInv, NEW r \in Requests, NEW j, NEW q, StepTo(r, j, q), OwnInv(r),
           NEW s \in Requests \ {r}, OwnInv(s), FeeInv(s)
    PROVE  OwnInv(s)'
<1>1. /\ at'[s] = at[s] /\ job'[s] = job[s] /\ Place(s)' = Place(s) /\ Keeps(s)' = Keeps(s)
      /\ job[s].folio \in Portfolios
  BY OthersStay, KeepsOther, PayerIs DEF StepTo, BaseInv
<1> SUFFICES ASSUME Alive(s)' PROVE OwnInv(s)'
  BY DEF OwnInv
<1>2. CASE Alive(s)
  <2>1. OwnAt(s, Place(s))
    BY <1>2 DEF OwnInv
  <2>2. /\ OwnRow(s, "SUGGESTION") => OwnRow(s, "SUGGESTION")'
        /\ OwnRow(s, "REBALANCE") => OwnRow(s, "REBALANCE")'
        /\ NoRows(s) => NoRows(s)'
    BY OwnStays
  <2> QED
    BY <1>1, <2>1, <2>2 DEF OwnAt, OwnInv
<1>3. CASE ~Alive(s) /\ at[s] # "idle"
  <2>1. /\ job[s].op = "create" /\ Place(s) \in {"access", "ensure", "insert", "error", "gone"}
        /\ Keeps(s) = 0 /\ history' = history /\ history[job[s].folio] = << >>
    BY <1>3, OpenedUnder
  <2>2. NoRows(s)'
    BY <1>1, <2>1 DEF NoRows
  <2> QED
    BY <1>1, <2>1, <2>2 DEF OwnAt, OwnInv
<1>4. CASE at[s] = "idle"
  <2>1. Place(s) = "idle"
    BY <1>4 DEF Place
  <2> QED
    BY <1>1, <2>1 DEF OwnAt, OwnInv
<1> QED
  BY <1>2, <1>3, <1>4

LEMMA StoredOwn ==
    ASSUME TypeOK, NEW r \in Requests, NEW j, NEW q, StepTo(r, j, q), StoreTo(r, j)
    PROVE  OwnRow(r, "SUGGESTION")'
<1>1. PICK row : Appended(r, row) /\ row.kind = "SUGGESTION"
  BY DEF StoreTo
<1>2. PICK p \in Portfolios : p = job[r].folio
  BY PayerIs
<1>6. PICK own : own = Len(history[p]) + 1
  OBVIOUS
<1>3. own \in DOMAIN history'[p] /\ history'[p][own] = row /\ row.by = r
  <2>1. DOMAIN history'[p] = 1..Len(history[p]) + 1 /\ history'[p][Len(history[p]) + 1] = row
    BY <1>1, <1>2, AppendedIs
  <2>2. history[p] \in Seq(Snapshot)
    BY DEF TypeOK
  <2>3. Len(history[p]) \in Nat
    BY <2>2
  <2>4. own \in 1..Len(history[p]) + 1
    BY <1>6, <2>3
  <2> QED
    BY <1>1, <1>6, <2>1, <2>4 DEF Appended
<1>4. job'[r] = j /\ j.folio = p
  BY <1>2, TurnIs
<1>5. j.own = own
  <2>1. j = [job[r] EXCEPT !.own = own] /\ job[r] \in Job
    BY <1>2, <1>6, PayerIs DEF StoreTo
  <2> QED
    BY <2>1 DEF Job
<1> QED
  BY <1>1, <1>3, <1>4, <1>5 DEF OwnRow

LEMMA RelabelledOwn ==
    ASSUME TypeOK, NEW r \in Requests, NEW j, NEW q, StepTo(r, j, q), RelabelTo(r, j),
           NEW kind, OwnRow(r, kind)
    PROVE  Place(r) = "relabel" => OwnRow(r, "REBALANCE")'
<1>1. PICK p \in Portfolios : p = job[r].folio
  BY PayerIs
<1>5. PICK own : own = job[r].own
  OBVIOUS
<1>2. own \in DOMAIN history[p] /\ history[p][own].by = r
  BY <1>1, <1>5 DEF OwnRow
<1>3. own \in DOMAIN history'[p] /\ history'[p][own].by = r
      /\ (Place(r) = "relabel" => history'[p][own].kind = "REBALANCE")
  BY <1>1, <1>2, <1>5, RelabelledIs DEF SameRow
<1>4. job'[r] = job[r]
  BY TurnIs DEF RelabelTo
<1> QED
  BY <1>1, <1>3, <1>4, <1>5 DEF OwnRow

LEMMA StepOwn ==
    ASSUME BaseInv, NEW r \in Requests, NEW j, NEW q, StepTo(r, j, q), OwnInv(r), FeeInv(r)
    PROVE  OwnInv(r)'
<1> DEFINE op == job[r].op
<1>0. /\ job'[r] = j /\ j.folio = job[r].folio /\ j.op = op /\ Place(r)' = q /\ op \in Ops /\ TypeOK
      /\ job[r].folio \in Portfolios /\ at[r] # "idle" /\ Fee \in Nat
  BY TurnIs, PayerIs, FeeTyped DEF BaseInv, FeeIn
<1> SUFFICES ASSUME Alive(r)' PROVE OwnAt(r, q)'
  BY <1>0 DEF OwnInv
<1>1. ASSUME history' = history, j.own = job[r].own, NEW kind
      PROVE  (OwnRow(r, kind)' <=> OwnRow(r, kind)) /\ (NoRows(r)' <=> NoRows(r))
  BY <1>0, <1>1 DEF OwnRow, NoRows
<1>2. Alive(r) \/ InsertTo(r, j)
  <2>1. life'[job[r].folio] = "live"
    BY <1>0 DEF Alive
  <2> QED
    BY <1>0, <2>1, LifeOn DEF Alive
<1>3. CASE PassedTo(r, j, q)
  <2>0. Place(r) \in PlacesOf(op) /\ q \in Follows(op, Place(r)) /\ Place(r) \in Steps /\ q # "error"
    BY <1>3 DEF PassedTo, Follows, AfterCharge, AfterRead, AfterStore
  <2>1. CASE StoreTo(r, j)
    <3>1. OwnRow(r, "SUGGESTION")'
      BY <1>0, <2>1, StoredOwn
    <3>2. Place(r) = "store" /\ q \in {"ok", "answer", "relabel"}
      BY <2>0, <2>1 DEF StoreTo, Follows, AfterStore
    <3>3. op \in {"monthly", "rebalance"} => q = "relabel"
      BY <2>0, <3>2 DEF Follows, AfterStore
    <3>4. op = "create" => Keeps(r)' = Fee
      <4>1. op = "create" => Keeps(r) = Fee
        BY <3>2 DEF FeeInv, Unpaid, Steps
      <4>2. ~TookTo(r, j, q) /\ ~GaveTo(r, j, q)
        BY <3>2 DEF TookTo, GaveTo
      <4> QED
        BY <1>0, <4>1, <4>2, KeepsOwn
    <3> QED
      BY <1>0, <3>1, <3>2, <3>3, <3>4 DEF OwnAt
  <2>2. CASE RelabelTo(r, j)
    <3>1. Place(r) \in {"relabel", "evaluated"} /\ q \in {"answer", "ok"} /\ OwnAt(r, Place(r))
      BY <1>2, <2>0, <2>2 DEF RelabelTo, Follows, OwnInv, InsertTo
    <3>2. op \notin {"create", "suggest"}
      BY <2>0, <3>1 DEF PlacesOf
    <3>3. CASE Place(r) = "relabel"
      <4>1. OwnRow(r, "REBALANCE")'
        BY <1>0, <2>2, <3>1, <3>3, RelabelledOwn DEF OwnAt
      <4> QED
        BY <1>0, <3>1, <3>2, <4>1 DEF OwnAt
    <3>4. CASE Place(r) = "evaluated"
      <4>1. op = "monthly" /\ q = "ok"
        BY <1>0, <2>0, <3>4 DEF PlacesOf, Follows, Ops
      <4> QED
        BY <1>0, <4>1 DEF OwnAt
    <3> QED
      BY <3>1, <3>3, <3>4
  <2>3. CASE InsertTo(r, j)
    <3>1. Place(r) = "insert" /\ q \in {"charge", "answer"} /\ op = "create" /\ history' = history
          /\ life[job[r].folio] = "none"
      BY <1>0, <2>0, <2>3 DEF InsertTo, Follows, PlacesOf, Ops
    <3>2. history[job[r].folio] = << >>
      BY <1>0, <3>1 DEF BaseInv, RowsInv, LiveRows
    <3>3. NoRows(r)'
      BY <1>0, <3>1, <3>2 DEF NoRows
    <3>4. Keeps(r)' = 0
      <4>1. Keeps(r) = 0
        BY <3>1 DEF FeeInv, Unpaid
      <4>2. ~TookTo(r, j, q) /\ ~GaveTo(r, j, q)
        BY <3>1 DEF TookTo, GaveTo
      <4> QED
        BY <1>0, <4>1, <4>2, KeepsOwn
    <3> QED
      BY <1>0, <3>1, <3>3, <3>4 DEF OwnAt
  <2>4. CASE QuietTo(r, j)
    <3>1. j = job[r] /\ history' = history /\ Place(r) \in {"access", "ensure", "prepare", "look", "consult",
                                                             "analyze", "evaluate", "answer"}
      BY <2>4 DEF QuietTo, Quiet, rowVars
    <3>2. /\ OwnRow(r, "SUGGESTION")' <=> OwnRow(r, "SUGGESTION")
          /\ OwnRow(r, "REBALANCE")' <=> OwnRow(r, "REBALANCE")
          /\ NoRows(r)' <=> NoRows(r)
      BY <1>1, <3>1
    <3>3. Keeps(r)' = Keeps(r)
      <4>1. ~TookTo(r, j, q) /\ ~GaveTo(r, j, q)
        BY <3>1 DEF TookTo, GaveTo
      <4> QED
        BY <1>0, <4>1, KeepsOwn
    <3>4. OwnAt(r, Place(r))
      BY <1>2, <2>4 DEF OwnInv, QuietTo, InsertTo
    <3>5. CASE Place(r) = "answer"
      <4>1. q = IF op = "monthly" THEN "evaluated" ELSE "ok"
        BY <2>0, <3>5 DEF Follows
      <4>2. op # "suggest"
        BY <2>0, <3>5 DEF PlacesOf
      <4> QED
        BY <1>0, <3>2, <3>3, <3>4, <3>5, <4>1, <4>2 DEF OwnAt
    <3>6. CASE Place(r) # "answer"
      <4>1. q \notin {"relabel", "evaluated"} /\ (op \in {"suggest", "create"} => q # "ok")
            /\ (op \in {"monthly", "rebalance", "create"} => q # "answer" /\ q # "ok")
        BY <1>0, <2>0, <3>1, <3>6 DEF Follows, PlacesOf, Ops
      <4>2. op = "create" /\ q \in {"access", "ensure", "insert", "charge", "consult", "store"} => NoRows(r)
        BY <2>0, <3>1, <3>4, <3>6 DEF PlacesOf, OwnAt
      <4> QED
        BY <1>0, <2>0, <3>2, <4>1, <4>2 DEF OwnAt
    <3> QED
      BY <3>5, <3>6
  <2>5. CASE ChargeTo(r, j)
    <3>1. Place(r) = "charge" /\ history' = history /\ q \in {"consult", "look", "read", "analyze"}
      BY <2>0, <2>5 DEF ChargeTo, rowVars, Follows, AfterCharge
    <3>2. j.own = job[r].own
      BY <1>0, <3>1, JobFields DEF StoreTo
    <3>3. NoRows(r)' <=> NoRows(r)
      BY <1>1, <3>1, <3>2
    <3>4. op = "create" => NoRows(r)
      BY <1>2, <3>1 DEF OwnInv, OwnAt, InsertTo
    <3> QED
      BY <1>0, <3>1, <3>3, <3>4 DEF OwnAt
  <2>6. CASE ReadTo(r, j) \/ WriteTo(r, j) \/ EventTo(r, j, q) \/ ReadCashTo(r, j) \/ WriteCashTo(r, j) \/ CashEventTo(r, j)
    <3>1. Place(r) \in {"read", "write", "event", "readCash", "writeCash", "cashEvent"}
      BY <2>6 DEF ReadTo, WriteTo, EventTo, ReadCashTo, WriteCashTo, CashEventTo
    <3>2. op \notin {"create", "suggest", "rebalance"} /\ q \notin {"relabel", "evaluated"}
          /\ ~(op = "monthly" /\ q = "answer")
      BY <1>0, <2>0, <3>1 DEF PlacesOf, Follows, AfterRead, Ops
    <3> QED
      BY <1>0, <3>2 DEF OwnAt
  <2> QED
    BY <1>3, <2>1, <2>2, <2>3, <2>4, <2>5, <2>6 DEF PassedTo
<1>4. CASE ThrownTo(r, j, q)
  <2>1. /\ history' = history /\ Place(r) \in Steps /\ q \in {"refund", "error", "without"}
        /\ q = "refund" <=> job[r].charged /\ ~(Place(r) = "answer" /\ op \in {"apply", "create"})
    BY <1>4 DEF ThrownTo, Quiet, rowVars
  <2>2. j.own = job[r].own
    BY <1>0, <1>4, JobFields DEF ThrownTo, StoreTo, Appended, Quiet, rowVars, StepTo
  <2>3. ASSUME op = "create", q = "error", Keeps(r)' > 0 PROVE OwnRow(r, "SUGGESTION")'
    <3>1. Keeps(r)' = Keeps(r)
      <4>1. ~TookTo(r, j, q) /\ ~GaveTo(r, j, q)
        BY <2>1, <2>3 DEF TookTo, GaveTo, Steps, Follows, AfterCharge
      <4> QED
        BY <1>0, <4>1, KeepsOwn
    <3>2. Place(r) = "answer"
      <4>1. SUFFICES ASSUME Place(r) # "answer" PROVE FALSE
        OBVIOUS
      <4>2. ~job[r].charged
        BY <2>1, <2>3, <4>1
      <4>3. Place(r) \notin Unpaid(op)
        BY <1>0, <2>3, <3>1 DEF FeeInv
      <4>4. Keeps(r) = Fee /\ ~(Fee > 0)
        BY <2>1, <4>1, <4>2, <4>3 DEF FeeInv
      <4> QED
        BY <1>0, <2>3, <3>1, <4>4
    <3>3. OwnRow(r, "SUGGESTION")
      <4>1. Alive(r)
        BY <1>2, <3>2 DEF InsertTo
      <4> QED
        BY <1>0, <2>3, <3>1, <3>2, <4>1 DEF OwnInv, OwnAt
    <3> QED
      BY <1>1, <2>1, <2>2, <3>3
  <2> QED
    BY <1>0, <2>1, <2>3 DEF OwnAt
<1>5. CASE RefundedTo(r, j, q)
  <2>1. Place(r) = "refund" /\ q \in {"error", "without", "unrefunded"}
    BY <1>5 DEF RefundedTo
  <2>2. q = "error" => ~(Keeps(r)' > 0)
    <3>1. SUFFICES ASSUME q = "error" PROVE Keeps(r)' = 0
      BY <1>0
    <3>2. ~TookTo(r, j, q)
      BY <2>1 DEF TookTo
    <3>3. GaveTo(r, j, q)
      BY <1>0, <2>1, <3>1, <3>2, LedgerOn
    <3>4. Keeps(r)' = Keeps(r) - Fee /\ Keeps(r) = Fee
      BY <1>0, <2>1, <3>2, <3>3, KeepsOwn DEF FeeInv
    <3> QED
      BY <1>0, <3>4
  <2> QED
    BY <1>0, <2>1, <2>2 DEF OwnAt
<1>6. CASE PreparedTo(r, j, q) \/ SoldOutTo(r, j, q)
  <2>1. q \in {"without", "read"}
    BY <1>6 DEF PreparedTo, SoldOutTo
  <2> QED
    BY <1>0, <2>1 DEF OwnAt
<1> QED
  BY <1>3, <1>4, <1>5, <1>6 DEF StepTo

----------------------------------------------------------------------------
(* The fee of every request goes with what it delivered.                   *)
DeliverInv == BaseInv /\ \A r \in Requests : FeeInv(r) /\ OwnInv(r)

LEMMA DeliverInit ==
    ASSUME Init
    PROVE  DeliverInv
<1>1. ASSUME NEW r \in Requests PROVE FeeInv(r) /\ OwnInv(r)
  <2>1. Place(r) = "idle" /\ TypeOK
    BY InitRows, BaseInit DEF BaseInv
  <2>2. PICK u \in Users : u = Payer(r)
    BY <2>1, PayerIs
  <2>3. ledger[u] \in Seq(TransactionRow) /\ \A i \in DOMAIN ledger[u] : ledger[u][i].ref # r
    BY InitRows, LedgerAssumption, PortfolioAssumption
  <2>4. Net(ledger[u], r) = 0
    BY <2>3, NetNone
  <2>5. Keeps(r) = 0
    <3>1. Keeps(r) = -Net(ledger[u], r)
      BY <2>2, KeepsIs
    <3>2. PICK n \in Int : n = Net(ledger[u], r)
      BY <2>4
    <3>3. PICK m : m = -n
      OBVIOUS
    <3>4. m \in Int /\ m + n = 0
      BY <3>3
    <3>5. m = 0
      BY <2>4, <3>2, <3>4
    <3> QED
      BY <3>1, <3>2, <3>3, <3>5
  <2>6. FeeInv(r)
    BY <2>1, <2>5 DEF FeeInv, Steps
  <2>7. OwnInv(r)
    BY <2>1 DEF OwnInv, OwnAt
  <2> QED
    BY <2>6, <2>7
<1> QED
  BY <1>1, BaseInit DEF DeliverInv

LEMMA DeliverStep ==
    ASSUME DeliverInv, NEW r \in Requests, NEW j, NEW q, StepTo(r, j, q)
    PROVE  \A s \in Requests : (FeeInv(s) /\ OwnInv(s))'
<1>1. BaseInv /\ TypeOK /\ RequestInv /\ \A s \in Requests : FeeInv(s) /\ OwnInv(s)
  BY DEF DeliverInv, BaseInv
<1>2. FeeInv(r)'
  BY <1>1, StepFees DEF RequestInv
<1>3. OwnInv(r)'
  BY <1>1, StepOwn
<1>4. ASSUME NEW s \in Requests \ {r} PROVE FeeInv(s)' /\ OwnInv(s)'
  <2>1. FeeInv(s)'
    BY <1>1, StepFeesOther
  <2>2. OwnInv(s)'
    BY <1>1, StepOwnOther
  <2> QED
    BY <2>1, <2>2
<1> QED
  BY <1>2, <1>3, <1>4

LEMMA DeliverStart ==
    ASSUME DeliverInv, NEW r \in Requests, NEW op, NEW p, StartTo(r, op, p)
    PROVE  \A s \in Requests : (FeeInv(s) /\ OwnInv(s))'
<1>1. Keeps(r)' = 0 /\ \A s \in Requests \ {r} : Keeps(s)' = Keeps(s)
  BY KeepsStart DEF DeliverInv
<1>2. /\ Place(r)' = FirstOf(op) /\ op \in Ops /\ job'[r].op = op /\ job'[r].folio = p /\ ~job'[r].charged
      /\ life' = life /\ history' = history /\ (op = "create" => life[p] = "none")
      /\ \A s \in Requests \ {r} : at'[s] = at[s] /\ todo'[s] = todo[s] /\ job'[s] = job[s]
  BY DEF StartTo, Quiet, rowVars
<1>3. FirstOf(op) \in Unpaid(op) \cap Steps
  BY <1>2 DEF FirstOf, Unpaid, Steps, Ops
<1>4. FeeInv(r)'
  <2>1. FirstOf(op) \notin {"ok", "refund", "error"}
    BY <1>3 DEF Steps
  <2> QED
    BY <1>1, <1>2, <1>3, <2>1 DEF FeeInv
<1>5. OwnInv(r)'
  <2>1. FirstOf(op) \notin {"relabel", "evaluated", "answer", "ok"}
    BY <1>2 DEF FirstOf, Ops
  <2>2. op = "create" => ~Alive(r)'
    BY <1>2 DEF Alive
  <2> QED
    BY <1>2, <2>1, <2>2 DEF OwnInv, OwnAt
<1>6. ASSUME NEW s \in Requests \ {r} PROVE FeeInv(s)' /\ OwnInv(s)'
  <2>1. FeeInv(s) /\ OwnInv(s) /\ job'[s] = job[s] /\ Place(s)' = Place(s) /\ Keeps(s)' = Keeps(s)
    BY <1>1, <1>2 DEF DeliverInv, Place
  <2> QED
    BY <1>2, <2>1 DEF FeeInv, OwnInv, OwnAt, OwnRow, NoRows, Alive
<1> QED
  BY <1>4, <1>5, <1>6

LEMMA DeliverRest ==
    ASSUME DeliverInv,
           (\E p \in Portfolios : DeletedTo(p)) \/ (\E u \in Users : CreditedTo(u)) \/ CrashedTo \/ UNCHANGED vars
    PROVE  \A s \in Requests : (FeeInv(s) /\ OwnInv(s))'
<1> SUFFICES ASSUME NEW s \in Requests PROVE FeeInv(s)' /\ OwnInv(s)'
  OBVIOUS
<1>0. FeeInv(s) /\ OwnInv(s) /\ BaseInv /\ job[s].folio \in Portfolios /\ life \in [Portfolios -> {"none", "live", "deleted"}]
      /\ history \in [Portfolios -> Seq(Snapshot)]
  BY PayerIs DEF DeliverInv, BaseInv, TypeOK
<1>1. ASSUME NEW p \in Portfolios, DeletedTo(p) PROVE FeeInv(s)' /\ OwnInv(s)'
  <2>1. /\ job' = job /\ at' = at /\ todo' = todo /\ ledger' = ledger
        /\ life' = [life EXCEPT ![p] = "deleted"] /\ history' = [history EXCEPT ![p] = << >>]
    BY <1>1 DEF DeletedTo, requestVars, ledgerVars
  <2>2. Keeps(s)' = Keeps(s) /\ Place(s)' = Place(s)
    BY <2>1, KeepsStill DEF Place
  <2>3. FeeInv(s)'
    <3>1. life'[job[s].folio] = "none" => life[job[s].folio] = "none"
      BY <1>0, <2>1
    <3> QED
      BY <1>0, <2>1, <2>2, <3>1 DEF FeeInv
  <2>4. ASSUME Alive(s)' PROVE OwnAt(s, Place(s))'
    <3>1. job[s].folio # p
      BY <1>0, <2>1, <2>4 DEF Alive
    <3>2. Alive(s) /\ history'[job[s].folio] = history[job[s].folio]
      BY <1>0, <2>1, <2>4, <3>1 DEF Alive
    <3> QED
      BY <1>0, <2>1, <2>2, <3>2 DEF OwnInv, OwnAt, OwnRow, NoRows
  <2> QED
    BY <2>3, <2>4 DEF OwnInv
<1>2. ASSUME NEW u \in Users, CreditedTo(u) PROVE FeeInv(s)' /\ OwnInv(s)'
  <2>1. job' = job /\ at' = at /\ todo' = todo /\ life' = life /\ history' = history
    BY <1>2 DEF CreditedTo, requestVars, rowVars
  <2>2. Keeps(s)' = Keeps(s) /\ Place(s)' = Place(s)
    BY <1>0, <1>2, <2>1, KeepsCredit DEF Place
  <2> QED
    BY <1>0, <2>1, <2>2 DEF FeeInv, OwnInv, OwnAt, OwnRow, NoRows, Alive
<1>3. ASSUME CrashedTo PROVE FeeInv(s)' /\ OwnInv(s)'
  <2>1. job' = job /\ ledger' = ledger /\ life' = life /\ history' = history
    BY <1>3 DEF CrashedTo, Quiet, rowVars, ledgerVars
  <2>2. Keeps(s)' = Keeps(s)
    BY <2>1, KeepsStill
  <2>3. CASE Place(s)' = "gone"
    <3>1. "gone" \notin Steps /\ "gone" \notin Unpaid(job[s].op)
      BY DEF Steps, Unpaid
    <3> QED
      BY <1>0, <2>1, <2>2, <2>3, <3>1 DEF FeeInv, OwnInv, OwnAt
  <2>4. CASE Place(s)' = Place(s)
    BY <1>0, <2>1, <2>2, <2>4 DEF FeeInv, OwnInv, OwnAt, OwnRow, NoRows, Alive
  <2> QED
    BY <1>3, <2>3, <2>4 DEF CrashedTo
<1>4. ASSUME UNCHANGED vars PROVE FeeInv(s)' /\ OwnInv(s)'
  <2>1. UNCHANGED <<ledger, life, history, at, todo, job>>
    BY <1>4 DEF vars, ledgerVars, rowVars, requestVars
  <2>2. Keeps(s)' = Keeps(s) /\ Place(s)' = Place(s)
    BY <2>1, KeepsStill DEF Place
  <2> QED
    BY <1>0, <2>1, <2>2 DEF FeeInv, OwnInv, OwnAt, OwnRow, NoRows, Alive
<1> QED
  BY <1>1, <1>2, <1>3, <1>4

LEMMA DeliverNext ==
    ASSUME DeliverInv, [Next]_vars
    PROVE  DeliverInv'
<1>1. BaseInv' /\ StepOf
  BY BaseNext DEF DeliverInv
<1>2. \A s \in Requests : (FeeInv(s) /\ OwnInv(s))'
  BY <1>1, DeliverStep, DeliverStart, DeliverRest DEF StepOf
<1> QED
  BY <1>1, <1>2 DEF DeliverInv

LEMMA DeliverAlways == Spec => []DeliverInv
<1>1. Init => DeliverInv
  BY DeliverInit
<1>2. DeliverInv /\ [Next]_vars => DeliverInv'
  BY DeliverNext
<1> QED
  BY <1>1, <1>2, PTL DEF Spec

(* A request that has been answered keeps its fee, once, only for what it  *)
(* delivered, and delivers nothing for nothing, wherever it failed.        *)
LEMMA DeliveredFees ==
    ASSUME DeliverInv
    PROVE  FeesSettle
<1> SUFFICES ASSUME NEW r \in Requests, job[r].op \in Billed
             PROVE  /\ Keeps(r) \in {0, Fee}
                    /\ at[r] \in {"ok", "without", "error"} /\ Keeps(r) > 0 => Delivered(r)
                    /\ at[r] = "without" => Keeps(r) = 0
                    /\ at[r] = "ok" /\ Delivered(r) /\ Alive(r) => Keeps(r) = Fee
  BY DEF FeesSettle
<1> DEFINE op == job[r].op
<1>0. /\ FeeInv(r) /\ OwnInv(r) /\ EditInv(r) /\ LifeInv(r) /\ Fee \in Nat
      /\ life[job[r].folio] \in {"none", "live", "deleted"}
  BY PayerIs, FeeTyped DEF DeliverInv, BaseInv, RequestInv, FeeIn, TypeOK
<1>1. \A kind : OwnRow(r, kind) => MadeA(r, kind)
  BY DEF OwnRow, MadeA
<1>2. at[r] \in {"ok", "without", "error"} => Place(r) = at[r]
  BY DEF Place
<1>3. at[r] = "without" => Keeps(r) = 0
  BY <1>0, <1>2 DEF FeeInv
<1>4. Keeps(r) \in {0, Fee}
  BY <1>0 DEF FeeInv
<1>5. ASSUME at[r] \in {"ok", "without", "error"}, Keeps(r) > 0 PROVE Delivered(r)
  <2>1. life[job[r].folio] # "none" /\ at[r] \in {"ok", "error"}
    BY <1>0, <1>3, <1>4, <1>5 DEF FeeInv
  <2>2. SUFFICES ASSUME Alive(r) PROVE Delivered(r)
    BY <1>0, <2>1 DEF Alive, Delivered
  <2>3. OwnAt(r, at[r])
    BY <1>0, <1>2, <1>5, <2>2 DEF OwnInv
  <2>4. CASE at[r] = "ok"
    <3>1. op \in {"suggest", "create"} => MadeA(r, "SUGGESTION")
      BY <1>1, <1>5, <2>3, <2>4 DEF OwnAt
    <3>2. op = "rebalance" => MadeA(r, "REBALANCE")
      BY <1>1, <2>3, <2>4 DEF OwnAt
    <3>3. op = "apply" => job[r].edits = << >>
      BY <1>0, <1>2, <2>4 DEF EditInv
    <3> QED
      BY <2>4, <3>1, <3>2, <3>3 DEF Delivered
  <2>5. CASE at[r] = "error"
    <3>1. op = "create" \/ (op = "apply" /\ job[r].edits = << >>)
      BY <1>0, <1>2, <1>5, <2>5 DEF FeeInv
    <3>2. op = "create" => MadeA(r, "SUGGESTION")
      BY <1>1, <1>5, <2>3, <2>5 DEF OwnAt
    <3> QED
      BY <3>1, <3>2 DEF Delivered
  <2> QED
    BY <2>1, <2>4, <2>5
<1>6. ASSUME at[r] = "ok", Delivered(r), Alive(r) PROVE Keeps(r) = Fee
  <2>1. CASE op = "create"
    <3>1. MadeA(r, "SUGGESTION")
      BY <1>6, <2>1 DEF Delivered, Alive
    <3>2. ~NoRows(r)
      BY <3>1 DEF MadeA, NoRows
    <3> QED
      BY <1>0, <1>2, <1>6, <2>1, <3>2 DEF OwnInv, OwnAt
  <2>2. CASE op # "create"
    BY <1>0, <1>2, <1>6, <2>2 DEF FeeInv
  <2> QED
    BY <2>1, <2>2
<1> QED
  BY <1>3, <1>4, <1>5, <1>6

----------------------------------------------------------------------------
(* One snapshot from one state to the next.                                *)
RowKept(p, i) ==
    LET old == history[p][i]  new == history'[p][i] IN
    /\ i \in DOMAIN history'[p]
    /\ [new EXCEPT !.kind = old.kind] = old
    /\ new.kind # old.kind => <<old.kind, new.kind>> \in
           {<<"SUGGESTION", "REBALANCE">>, <<"REBALANCE", "MONTHLY_EVAL">>}

LEMMA SameHistory ==
    ASSUME TypeOK, NEW p \in Portfolios, history'[p] = history[p], NEW i \in DOMAIN history[p]
    PROVE  RowKept(p, i)
<1>1. history[p][i] \in Snapshot
  BY DEF TypeOK
<1> QED
  BY <1>1, SameRowIs DEF RowKept, SameRow

LEMMA StepKeepsHistory ==
    ASSUME DeliverInv, NEW r \in Requests, NEW j, NEW q, StepTo(r, j, q),
           NEW p \in Portfolios, NEW i \in DOMAIN history[p]
    PROVE  RowKept(p, i)
<1>1. TypeOK /\ OwnInv(r) /\ Grown(r, j)
  BY HistoryOn DEF DeliverInv, BaseInv
<1>2. i \in DOMAIN history'[p] /\ SameRow(history[p][i], history'[p][i])
  BY <1>1 DEF Grown
<1>3. ASSUME history'[p][i].kind # history[p][i].kind
      PROVE  <<history[p][i].kind, history'[p][i].kind>> \in
                 {<<"SUGGESTION", "REBALANCE">>, <<"REBALANCE", "MONTHLY_EVAL">>}
  <2>1. RelabelTo(r, j) /\ p = job[r].folio /\ i = job[r].own
    BY <1>1, <1>3 DEF Grown
  <2>2. history'[p][i].kind = IF Place(r) = "relabel" THEN "REBALANCE" ELSE "MONTHLY_EVAL"
    BY <1>1, <2>1, RelabelledIs
  <2>3. Alive(r) /\ Place(r) \in {"relabel", "evaluated"}
    BY <2>1 DEF RelabelTo
  <2>4. /\ Place(r) = "relabel" => OwnRow(r, "SUGGESTION")
        /\ Place(r) = "evaluated" => OwnRow(r, "REBALANCE")
    BY <1>1, <2>3 DEF OwnInv, OwnAt
  <2>5. history[p][i].kind = IF Place(r) = "relabel" THEN "SUGGESTION" ELSE "REBALANCE"
    BY <2>1, <2>3, <2>4 DEF OwnRow
  <2> QED
    BY <2>2, <2>3, <2>5
<1> QED
  BY <1>2, <1>3 DEF RowKept, SameRow

LEMMA HistoryNext ==
    ASSUME DeliverInv, [Next]_vars, NEW p \in Portfolios, life'[p] = "live", NEW i \in DOMAIN history[p]
    PROVE  RowKept(p, i)
<1>0. StepOf /\ TypeOK /\ life \in [Portfolios -> {"none", "live", "deleted"}] /\ history \in [Portfolios -> Seq(Snapshot)]
  BY BaseNext DEF DeliverInv, BaseInv, TypeOK
<1>1. ASSUME NEW r \in Requests, NEW j, NEW q, StepTo(r, j, q) PROVE RowKept(p, i)
  BY <1>1, StepKeepsHistory
<1>2. ASSUME NEW r \in Requests, NEW op, NEW f, StartTo(r, op, f) PROVE RowKept(p, i)
  BY <1>0, <1>2, SameHistory DEF StartTo, Quiet, rowVars
<1>3. ASSUME NEW f \in Portfolios, DeletedTo(f) PROVE RowKept(p, i)
  <2>1. history' = [history EXCEPT ![f] = << >>] /\ life' = [life EXCEPT ![f] = "deleted"]
    BY <1>3 DEF DeletedTo
  <2>2. p # f
    BY <1>0, <2>1
  <2>3. history'[p] = history[p]
    BY <1>0, <2>1, <2>2
  <2> QED
    BY <1>0, <2>3, SameHistory
<1>4. ASSUME NEW u \in Users, CreditedTo(u) PROVE RowKept(p, i)
  BY <1>0, <1>4, SameHistory DEF CreditedTo, rowVars
<1>5. ASSUME CrashedTo PROVE RowKept(p, i)
  BY <1>0, <1>5, SameHistory DEF CrashedTo, Quiet, rowVars
<1>6. ASSUME UNCHANGED vars PROVE RowKept(p, i)
  BY <1>0, <1>6, SameHistory DEF vars, rowVars
<1> QED
  BY <1>0, <1>1, <1>2, <1>3, <1>4, <1>5, <1>6 DEF StepOf

(* Snapshots are the history of a portfolio: what one holds never changes, *)
(* none disappears but with its portfolio, and only the request that made  *)
(* a suggestion turns it into a rebalance, and that into an evaluation     *)
(* (rebalanceCharged, monthlyEvaluate).                                    *)
THEOREM PortfolioHistoryIsKept == Spec => HistoryIsKept
<1> DEFINE Kept == \A p \in Portfolios : life'[p] = "live" =>
                       \A i \in DOMAIN history[p] : RowKept(p, i)
<1>1. DeliverInv /\ [Next]_vars => [Kept]_vars
  BY HistoryNext
<1>2. Kept => \A p \in Portfolios : life'[p] = "live" =>
          \A i \in DOMAIN history[p] :
              LET old == history[p][i]  new == history'[p][i] IN
              /\ i \in DOMAIN history'[p]
              /\ [new EXCEPT !.kind = old.kind] = old
              /\ new.kind # old.kind => <<old.kind, new.kind>> \in
                     {<<"SUGGESTION", "REBALANCE">>, <<"REBALANCE", "MONTHLY_EVAL">>}
  BY DEF RowKept
<1> QED
  BY <1>1, <1>2, DeliverAlways, PTL DEF Spec, HistoryIsKept

----------------------------------------------------------------------------
(* The snapshots a request has edited into its portfolio, and its events.  *)
MadeBy(r) == {i \in DOMAIN history[job[r].folio] :
                 history[job[r].folio][i].by = r /\ history[job[r].folio][i].kind = "USER_ADJUSTED"}
LoggedBy(r) == {i \in DOMAIN events[job[r].folio] :
                   events[job[r].folio][i].by = r /\ events[job[r].folio][i].type \in EditEvents}

(* One event is still to be written between the two statements, and for    *)
(* ever if the request ends there.                                         *)
Told(r, made, logged) ==
    /\ Place(r) = "event" => made = logged + 1
    /\ Place(r) \in (Steps \ {"event"}) \cup {"idle", "ok"} => made = logged
    /\ made = logged \/ made = logged + 1
AuditInv(r) ==
    Alive(r) /\ job[r].op # "cash" => Told(r, Cardinality(MadeBy(r)), Cardinality(LoggedBy(r)))

LEMMA CountsAre ==
    ASSUME TypeOK, NEW r \in Requests
    PROVE  /\ IsFiniteSet(MadeBy(r)) /\ Cardinality(MadeBy(r)) \in Nat
           /\ IsFiniteSet(LoggedBy(r)) /\ Cardinality(LoggedBy(r)) \in Nat
<1>1. PICK H \in Seq(Snapshot), E \in Seq(Event) : H = history[job[r].folio] /\ E = events[job[r].folio]
  BY PayerIs DEF TypeOK
<1>2. IsFiniteSet(DOMAIN H) /\ IsFiniteSet(DOMAIN E)
  <2>1. DOMAIN H = 1..Len(H) /\ DOMAIN E = 1..Len(E) /\ Len(H) \in Nat /\ Len(E) \in Nat
    OBVIOUS
  <2> QED
    BY <2>1, FS_Interval
<1>3. MadeBy(r) \in SUBSET DOMAIN H /\ LoggedBy(r) \in SUBSET DOMAIN E
  BY <1>1 DEF MadeBy, LoggedBy
<1>4. IsFiniteSet(MadeBy(r)) /\ IsFiniteSet(LoggedBy(r))
  BY <1>2, <1>3, FS_Subset
<1> QED
  BY <1>4, FS_CardinalityType

LEMMA OneMore ==
    ASSUME NEW S, IsFiniteSet(S), NEW n, n \notin S
    PROVE  Cardinality(S \cup {n}) = Cardinality(S) + 1
BY FS_AddElement

(* A step makes an edited snapshot of its own, or none.                    *)
LEMMA MadeOn ==
    ASSUME DeliverInv, NEW r \in Requests, NEW j, NEW q, StepTo(r, j, q), NEW s \in Requests
    PROVE  IF s = r /\ WriteTo(r, j) THEN \E n : n \notin MadeBy(s) /\ MadeBy(s)' = MadeBy(s) \cup {n}
                                     ELSE MadeBy(s)' = MadeBy(s)
<1>0. TypeOK /\ OwnInv(r) /\ Grown(r, j) /\ job'[s].folio = job[s].folio
  BY HistoryOn, TurnIs, OthersStay DEF DeliverInv, BaseInv, StepTo
<1>1. PICK p \in Portfolios : p = job[s].folio /\ p = job'[s].folio
  BY <1>0, PayerIs
<1>2. /\ MadeBy(s) = {i \in DOMAIN history[p] : history[p][i].by = s /\ history[p][i].kind = "USER_ADJUSTED"}
      /\ MadeBy(s)' = {i \in DOMAIN history'[p] : history'[p][i].by = s /\ history'[p][i].kind = "USER_ADJUSTED"}
  BY <1>1 DEF MadeBy
<1>3. ASSUME NEW i \in DOMAIN history[p]
      PROVE  i \in DOMAIN history'[p] /\ (i \in MadeBy(s) <=> i \in MadeBy(s)')
  <2>1. i \in DOMAIN history'[p] /\ history'[p][i].by = history[p][i].by
    BY <1>0 DEF Grown, SameRow
  <2>2. CASE history'[p][i].kind = history[p][i].kind
    BY <1>2, <2>1, <2>2
  <2>3. CASE history'[p][i].kind # history[p][i].kind
    <3>1. RelabelTo(r, j) /\ p = job[r].folio /\ i = job[r].own
      BY <1>0, <2>3 DEF Grown
    <3>2. history'[p][i].kind # "USER_ADJUSTED"
      BY <1>0, <3>1, RelabelledIs
    <3>3. OwnRow(r, "SUGGESTION") \/ OwnRow(r, "REBALANCE")
      BY <1>0, <3>1 DEF RelabelTo, OwnInv, OwnAt
    <3>4. history[p][i].kind # "USER_ADJUSTED"
      BY <3>1, <3>3 DEF OwnRow
    <3> QED
      BY <1>2, <2>1, <3>2, <3>4
  <2> QED
    BY <2>2, <2>3
<1>4. CASE StoreTo(r, j) \/ WriteTo(r, j)
  <2>1. PICK row : Appended(r, row) /\ row.kind = IF WriteTo(r, j) THEN "USER_ADJUSTED" ELSE "SUGGESTION"
    BY <1>4 DEF StoreTo, WriteTo
  <2>2. row.by = r /\ \A i \in DOMAIN history'[p] \ DOMAIN history[p] :
                          p = job[r].folio /\ i = Len(history[p]) + 1 /\ history'[p][i] = row
    <3>1. row.by = r
      BY <2>1 DEF Appended
    <3>2. \A f \in Portfolios : \A i \in DOMAIN history'[f] \ DOMAIN history[f] :
              AddsRow(r, f, i) /\ history'[f][i] = row
      BY <1>0, <2>1, AppendedIs
    <3> QED
      BY <3>1, <3>2 DEF AddsRow
  <2>3. CASE s = r /\ WriteTo(r, j)
    <3>1. PICK n \in Nat : n = Len(history[p]) + 1 /\ DOMAIN history[p] = 1..n - 1
      <4>1. history[p] \in Seq(Snapshot)
        BY <1>0 DEF TypeOK
      <4>2. Len(history[p]) \in Nat /\ DOMAIN history[p] = 1..Len(history[p])
        BY <4>1
      <4>3. Len(history[p]) + 1 \in Nat /\ DOMAIN history[p] = 1..(Len(history[p]) + 1) - 1
        BY <4>2
      <4> QED
        BY <4>3
    <3>2. DOMAIN history'[p] = 1..n /\ history'[p][n] = row
      <4>1. DOMAIN history'[p] = 1..Len(history[p]) + 1 /\ history'[p][Len(history[p]) + 1] = row
        BY <1>0, <1>1, <2>1, <2>3, AppendedIs
      <4> QED
        BY <3>1, <4>1
    <3>3. n \notin MadeBy(s) /\ n \in MadeBy(s)'
      BY <1>2, <2>1, <2>2, <2>3, <3>1, <3>2
    <3>4. MadeBy(s)' = MadeBy(s) \cup {n}
      BY <1>2, <1>3, <2>2, <3>1, <3>3
    <3> QED
      BY <2>3, <3>3, <3>4
  <2>4. CASE ~(s = r /\ WriteTo(r, j))
    <3>1. \A i \in DOMAIN history'[p] \ DOMAIN history[p] : i \notin MadeBy(s)'
      BY <1>2, <2>1, <2>2, <2>4
    <3> QED
      BY <1>2, <1>3, <2>4, <3>1
  <2> QED
    BY <2>3, <2>4
<1>5. CASE ~(StoreTo(r, j) \/ WriteTo(r, j))
  <2>1. \A i \in DOMAIN history'[p] : i \in DOMAIN history[p]
    BY <1>0, <1>5 DEF Grown
  <2> QED
    BY <1>2, <1>3, <1>5, <2>1
<1> QED
  BY <1>4, <1>5

LEMMA LoggedOn ==
    ASSUME DeliverInv, NEW r \in Requests, NEW j, NEW q, StepTo(r, j, q), NEW s \in Requests, job[s].op # "cash"
    PROVE  IF s = r /\ EventTo(r, j, q) THEN \E n : n \notin LoggedBy(s) /\ LoggedBy(s)' = LoggedBy(s) \cup {n}
                                        ELSE LoggedBy(s)' = LoggedBy(s)
<1>0. TypeOK /\ EventsGrown(r, j) /\ job'[s].folio = job[s].folio
  BY EventsOn, TurnIs, OthersStay DEF DeliverInv, BaseInv, StepTo
<1>1. PICK p \in Portfolios : p = job[s].folio /\ p = job'[s].folio
  BY <1>0, PayerIs
<1>2. /\ LoggedBy(s) = {i \in DOMAIN events[p] : events[p][i].by = s /\ events[p][i].type \in EditEvents}
      /\ LoggedBy(s)' = {i \in DOMAIN events'[p] : events'[p][i].by = s /\ events'[p][i].type \in EditEvents}
  BY <1>1 DEF LoggedBy
<1>3. \A i \in DOMAIN events[p] : i \in DOMAIN events'[p] /\ events'[p][i] = events[p][i]
  BY <1>0 DEF EventsGrown
<1>4. CASE s = r /\ EventTo(r, j, q)
  <2>1. PICK row : /\ row \in Event /\ row.by = r /\ row.type \in EditEvents
                   /\ events' = [events EXCEPT ![p] = Append(@, row)]
    <3>1. job[r].log \in EditEvents
      BY <1>0, PayerIs DEF Job
    <3>2. [by |-> r, type |-> job[r].log] \in Event
      BY <3>1 DEF Event
    <3> QED
      BY <1>1, <1>4, <3>1, <3>2 DEF EventTo
  <2>2. PICK E \in Seq(Event) : E = events[p] /\ events'[p] = Append(E, row)
    BY <1>0, <2>1 DEF TypeOK
  <2>3. PICK n \in Nat : n = Len(E) + 1
    OBVIOUS
  <2>4. DOMAIN E = 1..n - 1 /\ DOMAIN Append(E, row) = 1..n /\ Append(E, row)[n] = row
    BY <2>3
  <2>5. n \notin LoggedBy(s) /\ n \in LoggedBy(s)'
    BY <1>2, <1>4, <2>1, <2>2, <2>4
  <2>6. LoggedBy(s)' = LoggedBy(s) \cup {n}
    BY <1>2, <1>3, <2>2, <2>4, <2>5
  <2> QED
    BY <1>4, <2>5, <2>6
<1>5. CASE ~(s = r /\ EventTo(r, j, q))
  <2>1. ASSUME NEW i \in DOMAIN events'[p] \ DOMAIN events[p] PROVE events'[p][i].by # s
    <3>1. p = job[r].folio /\ events'[p][i].by = r
      BY <1>0, <2>1 DEF EventsGrown
    <3>2. SUFFICES ASSUME s = r PROVE FALSE
      BY <3>1
    <3>3. EventTo(r, j, q) \/ CashEventTo(r, j) \/ events' = events
      BY DEF StepTo, PassedTo, ThrownTo, PreparedTo, RefundedTo, SoldOutTo, ChargeTo, QuietTo, InsertTo, ReadTo,
             StoreTo, WriteTo, RelabelTo, Appended, ReadCashTo, WriteCashTo, Quiet, rowVars
    <3>4. CashEventTo(r, j)
      BY <1>5, <2>1, <3>2, <3>3
    <3>5. Place(r) = "cashEvent" /\ PathInv(r)
      BY <3>4 DEF CashEventTo, DeliverInv, BaseInv, RequestInv
    <3>6. "cashEvent" \in PlacesOf(job[r].op) /\ job[r].op \in Ops
      BY <1>0, <3>5, PlaceIs, PayerIs DEF Steps
    <3> QED
      BY <3>2, <3>6 DEF PlacesOf, Ops
  <2> QED
    BY <1>2, <1>3, <1>5, <2>1
<1> QED
  BY <1>4, <1>5

LEMMA NothingWritten ==
    ASSUME TypeOK, NEW r \in Requests, NEW j, NEW q, UNCHANGED rowVars
    PROVE  ~WriteTo(r, j) /\ ~EventTo(r, j, q)
<1>1. history' = history /\ events' = events /\ job[r].folio \in Portfolios
  BY PayerIs DEF rowVars
<1>2. PICK H \in Seq(Snapshot), E \in Seq(Event) : H = history[job[r].folio] /\ E = events[job[r].folio]
  BY <1>1 DEF TypeOK
<1>3. Len(H) \in Nat /\ Len(E) \in Nat /\ \A x : Len(Append(H, x)) = Len(H) + 1 /\ Len(Append(E, x)) = Len(E) + 1
  OBVIOUS
<1>4. \A x : Append(H, x) # H /\ Append(E, x) # E
  BY <1>3
<1>5. \A x : ~Appended(r, x)
  BY <1>1, <1>2, <1>4 DEF Appended, TypeOK
<1>6. ~EventTo(r, j, q)
  BY <1>1, <1>2, <1>4 DEF EventTo, TypeOK
<1> QED
  BY <1>5, <1>6 DEF WriteTo

LEMMA StepAudit ==
    ASSUME DeliverInv, NEW r \in Requests, NEW j, NEW q, StepTo(r, j, q), AuditInv(r)
    PROVE  AuditInv(r)'
<1>0. /\ TypeOK /\ PathInv(r) /\ job'[r] = j /\ j.folio = job[r].folio /\ j.op = job[r].op /\ Place(r)' = q
      /\ job[r].folio \in Portfolios /\ job[r].op \in Ops
  BY TurnIs, PayerIs DEF DeliverInv, BaseInv, RequestInv
<1> SUFFICES ASSUME Alive(r)', job[r].op # "cash"
             PROVE  Told(r, Cardinality(MadeBy(r)), Cardinality(LoggedBy(r)))'
  BY <1>0 DEF AuditInv
<1>1. /\ IF WriteTo(r, j) THEN \E n : n \notin MadeBy(r) /\ MadeBy(r)' = MadeBy(r) \cup {n} ELSE MadeBy(r)' = MadeBy(r)
      /\ IF EventTo(r, j, q) THEN \E n : n \notin LoggedBy(r) /\ LoggedBy(r)' = LoggedBy(r) \cup {n}
                             ELSE LoggedBy(r)' = LoggedBy(r)
  BY MadeOn, LoggedOn
<1>2. PICK made \in Nat, logged \in Nat : made = Cardinality(MadeBy(r)) /\ logged = Cardinality(LoggedBy(r))
  BY <1>0, CountsAre
<1>3. PICK m, n : m = Cardinality(MadeBy(r)') /\ n = Cardinality(LoggedBy(r)')
  OBVIOUS
<1>4. /\ m = IF WriteTo(r, j) THEN made + 1 ELSE made
      /\ n = IF EventTo(r, j, q) THEN logged + 1 ELSE logged
  <2>1. IsFiniteSet(MadeBy(r)) /\ IsFiniteSet(LoggedBy(r))
    BY <1>0, CountsAre
  <2>2. m = IF WriteTo(r, j) THEN made + 1 ELSE made
    BY <1>1, <1>2, <1>3, <2>1, OneMore
  <2>3. n = IF EventTo(r, j, q) THEN logged + 1 ELSE logged
    BY <1>1, <1>2, <1>3, <2>1, OneMore
  <2> QED
    BY <2>2, <2>3
<1>5. /\ q = "event" => m = n + 1
      /\ q \in (Steps \ {"event"}) \cup {"idle", "ok"} => m = n
      /\ m = n \/ m = n + 1
  <2>1. CASE Alive(r)
    <3>1. Told(r, made, logged)
      BY <1>2, <2>1 DEF AuditInv
    <3>2. CASE PassedTo(r, j, q)
      <4>1. Place(r) \in Steps /\ q \in Follows(job[r].op, Place(r)) /\ Place(r) \in PlacesOf(job[r].op)
        BY <3>2 DEF PassedTo
      <4>2. WriteTo(r, j) <=> Place(r) = "write"
        BY <3>2 DEF PassedTo, ChargeTo, QuietTo, InsertTo, StoreTo, RelabelTo, ReadTo, WriteTo, EventTo,
                    ReadCashTo, WriteCashTo, CashEventTo
      <4>3. EventTo(r, j, q) <=> Place(r) = "event"
        BY <3>2 DEF PassedTo, ChargeTo, QuietTo, InsertTo, StoreTo, RelabelTo, ReadTo, WriteTo, EventTo,
                    ReadCashTo, WriteCashTo, CashEventTo
      <4>4. q = "event" <=> Place(r) = "write"
        BY <4>1 DEF Follows, Steps, AfterCharge, AfterRead, AfterStore
      <4> QED
        BY <1>4, <3>1, <4>1, <4>2, <4>3, <4>4 DEF Told
    <3>3. CASE ThrownTo(r, j, q) \/ PreparedTo(r, j, q) \/ RefundedTo(r, j, q)
      <4>1. ~WriteTo(r, j) /\ ~EventTo(r, j, q)
        <5>1. UNCHANGED rowVars
          BY <3>3 DEF ThrownTo, PreparedTo, RefundedTo, Quiet
        <5> QED
          BY <1>0, <5>1, NothingWritten
      <4>2. q \notin Steps /\ q \notin {"idle", "ok"}
        BY <3>3 DEF ThrownTo, PreparedTo, RefundedTo, Steps
      <4> QED
        BY <1>4, <3>1, <4>1, <4>2 DEF Told, Steps
    <3>4. CASE SoldOutTo(r, j, q)
      <4>1. Place(r) = "write" /\ q = "read"
        BY <3>4 DEF SoldOutTo
      <4>2. ~WriteTo(r, j) /\ ~EventTo(r, j, q)
        BY <1>0, <3>4, NothingWritten DEF SoldOutTo, Quiet
      <4> QED
        BY <1>4, <3>1, <4>1, <4>2 DEF Told, Steps
    <3> QED
      BY <3>2, <3>3, <3>4 DEF StepTo
  <2>2. CASE ~Alive(r)
    <3>1. InsertTo(r, j) /\ life[job[r].folio] = "none"
      <4>1. life'[job[r].folio] = "live"
        BY <1>0 DEF Alive
      <4> QED
        BY <1>0, <2>2, <4>1, LifeOn DEF Alive
    <3>2. history[job[r].folio] = << >> /\ events[job[r].folio] = << >>
      BY <1>0, <3>1 DEF DeliverInv, BaseInv, RowsInv, LiveRows
    <3>3. MadeBy(r) = {} /\ LoggedBy(r) = {}
      BY <3>2 DEF MadeBy, LoggedBy
    <3>4. made = 0 /\ logged = 0
      BY <1>2, <3>3, FS_EmptySet
    <3>5. ~WriteTo(r, j) /\ ~EventTo(r, j, q) /\ q # "event"
      <4>1. Place(r) = "insert"
        BY <3>1 DEF InsertTo
      <4>2. ~WriteTo(r, j) /\ ~EventTo(r, j, q)
        BY <4>1 DEF WriteTo, EventTo
      <4>3. q # "event"
        BY <4>1 DEF StepTo, PassedTo, ThrownTo, PreparedTo, RefundedTo, SoldOutTo, Follows
      <4> QED
        BY <4>2, <4>3
    <3> QED
      BY <1>4, <3>4, <3>5
  <2> QED
    BY <2>1, <2>2
<1> QED
  BY <1>0, <1>3, <1>5 DEF Told

LEMMA StepAuditOther ==
    ASSUME DeliverInv, NEW r \in Requests, NEW j, NEW q, StepTo(r, j, q),
           NEW s \in Requests \ {r}, AuditInv(s)
    PROVE  AuditInv(s)'
<1>0. /\ TypeOK /\ at'[s] = at[s] /\ job'[s] = job[s] /\ Place(s)' = Place(s) /\ job[s].folio \in Portfolios /\ LifeInv(s)
  BY OthersStay, PayerIs DEF StepTo, DeliverInv, BaseInv, RequestInv
<1> SUFFICES ASSUME Alive(s)', job[s].op # "cash"
             PROVE  Told(s, Cardinality(MadeBy(s)), Cardinality(LoggedBy(s)))'
  BY <1>0 DEF AuditInv
<1>1. MadeBy(s)' = MadeBy(s) /\ LoggedBy(s)' = LoggedBy(s)
  BY MadeOn, LoggedOn
<1>2. CASE Alive(s)
  BY <1>0, <1>1, <1>2 DEF AuditInv, Told
<1>3. CASE ~Alive(s)
  <2>1. life[job[s].folio] = "none"
    <3>1. life'[job[s].folio] = "live"
      BY <1>0 DEF Alive
    <3> QED
      BY <1>0, <1>3, <3>1, LifeOn DEF Alive
  <2>2. history[job[s].folio] = << >> /\ events[job[s].folio] = << >>
    BY <1>0, <2>1 DEF DeliverInv, BaseInv, RowsInv, LiveRows
  <2>3. MadeBy(s) = {} /\ LoggedBy(s) = {}
    BY <2>2 DEF MadeBy, LoggedBy
  <2>4. Place(s) # "event"
    BY <1>0, <2>1 DEF LifeInv, Place
  <2> QED
    BY <1>0, <1>1, <2>3, <2>4, FS_EmptySet DEF Told
<1> QED
  BY <1>2, <1>3

LEMMA AuditRest ==
    ASSUME DeliverInv, NEW s \in Requests, AuditInv(s),
           \/ \E r \in Requests : \E op, p : StartTo(r, op, p)
           \/ \E p \in Portfolios : DeletedTo(p)
           \/ \E u \in Users : CreditedTo(u)
           \/ CrashedTo
           \/ UNCHANGED vars
    PROVE  AuditInv(s)'
<1>0. TypeOK /\ RowsInv /\ job[s].folio \in Portfolios
  BY PayerIs DEF DeliverInv, BaseInv
<1>1. ASSUME history'[job[s].folio] = history[job[s].folio], events'[job[s].folio] = events[job[s].folio],
             life'[job[s].folio] = life[job[s].folio], job'[s] = job[s], Place(s)' = Place(s) \/ Place(s)' = "gone"
      PROVE  AuditInv(s)'
  <2>1. MadeBy(s)' = MadeBy(s) /\ LoggedBy(s)' = LoggedBy(s)
    BY <1>1 DEF MadeBy, LoggedBy
  <2>2. "gone" \notin Steps
    BY DEF Steps
  <2> QED
    BY <1>1, <2>1, <2>2 DEF AuditInv, Told, Alive
<1>2. ASSUME NEW r \in Requests, NEW op, NEW p, StartTo(r, op, p) PROVE AuditInv(s)'
  <2>1. history' = history /\ events' = events /\ life' = life
    BY <1>2 DEF StartTo, Quiet, rowVars
  <2>2. CASE s # r
    BY <1>1, <1>2, <2>1, <2>2 DEF StartTo, Place
  <2>3. CASE s = r
    <3>1. at[s] = "idle" /\ Place(s)' = FirstOf(op) /\ op \in Ops /\ p \in Portfolios /\ job'[s].folio = p
      BY <1>2, <2>3 DEF StartTo
    <3>2. MadeBy(s)' = {} /\ LoggedBy(s)' = {}
      BY <1>0, <2>1, <3>1 DEF MadeBy, LoggedBy, RowsInv, HistoryRows, EventRows, WroteIn
    <3>3. FirstOf(op) # "event"
      BY <3>1 DEF FirstOf
    <3> QED
      BY <3>1, <3>2, <3>3, FS_EmptySet DEF AuditInv, Told
  <2> QED
    BY <2>2, <2>3
<1>3. ASSUME NEW p \in Portfolios, DeletedTo(p) PROVE AuditInv(s)'
  <2>1. /\ life' = [life EXCEPT ![p] = "deleted"] /\ history' = [history EXCEPT ![p] = << >>]
        /\ events' = [events EXCEPT ![p] = << >>] /\ job' = job /\ Place(s)' = Place(s)
    BY <1>3 DEF DeletedTo, requestVars, Place
  <2>2. /\ life \in [Portfolios -> {"none", "live", "deleted"}] /\ history \in [Portfolios -> Seq(Snapshot)]
        /\ events \in [Portfolios -> Seq(Event)]
    BY <1>0 DEF TypeOK
  <2>3. CASE job[s].folio = p
    BY <1>0, <2>1, <2>2, <2>3 DEF AuditInv, Alive
  <2>4. CASE job[s].folio # p
    BY <1>0, <1>1, <2>1, <2>2, <2>4
  <2> QED
    BY <2>3, <2>4
<1>4. ASSUME NEW u \in Users, CreditedTo(u) PROVE AuditInv(s)'
  BY <1>1, <1>4 DEF CreditedTo, rowVars, requestVars, Place
<1>5. ASSUME CrashedTo PROVE AuditInv(s)'
  BY <1>1, <1>5 DEF CrashedTo, Quiet, rowVars
<1>6. ASSUME UNCHANGED vars PROVE AuditInv(s)'
  BY <1>1, <1>6 DEF vars, rowVars, requestVars, Place
<1> QED
  BY <1>2, <1>3, <1>4, <1>5, <1>6

LEMMA AuditInit ==
    ASSUME Init, NEW s \in Requests
    PROVE  AuditInv(s)
<1>1. Place(s) = "idle" /\ TypeOK /\ RowsInv /\ at[s] = "idle" /\ job[s].folio \in Portfolios
  BY InitRows, BaseInit, PayerIs DEF BaseInv
<1>2. MadeBy(s) = {} /\ LoggedBy(s) = {}
  BY <1>1 DEF MadeBy, LoggedBy, RowsInv, HistoryRows, EventRows, WroteIn
<1> QED
  BY <1>1, <1>2, FS_EmptySet DEF AuditInv, Told

LEMMA AuditFollows ==
    ASSUME DeliverInv, \A r \in Requests : AuditInv(r)
    PROVE  AuditTrail
<1> SUFFICES ASSUME NEW r \in Requests, Alive(r), job[r].op # "cash"
             PROVE  Cardinality(MadeBy(r)) - Cardinality(LoggedBy(r)) \in
                        (IF (at[r] # "run" \/ (todo[r] # << >> /\ Head(todo[r]) = "event")) /\ at[r] # "ok"
                         THEN {0, 1} ELSE {0})
  BY DEF AuditTrail, MadeBy, LoggedBy
<1>0. TypeOK /\ PathInv(r)
  BY DEF DeliverInv, BaseInv, RequestInv
<1>1. PICK made \in Nat, logged \in Nat : made = Cardinality(MadeBy(r)) /\ logged = Cardinality(LoggedBy(r))
  BY <1>0, CountsAre
<1>2. Told(r, made, logged)
  BY <1>1 DEF AuditInv
<1>3. CASE at[r] = "ok"
  <2>1. made = logged
    BY <1>2, <1>3 DEF Told, Place
  <2> QED
    BY <1>1, <1>3, <2>1
<1>4. CASE at[r] = "run" /\ Head(todo[r]) # "event"
  <2>1. Place(r) \in Steps
    <3>1. todo[r] # << >> /\ todo[r] \in Seq(Steps)
      BY <1>0, <1>4 DEF PathInv, TypeOK
    <3> QED
      BY <1>4, <3>1 DEF Place
  <2>2. made = logged
    BY <1>2, <1>4, <2>1 DEF Told, Place
  <2> QED
    BY <1>1, <1>4, <2>2
<1>5. CASE at[r] # "ok" /\ ~(at[r] = "run" /\ Head(todo[r]) # "event")
  <2>1. at[r] = "run" => todo[r] # << >>
    BY <1>0 DEF PathInv
  <2>2. made - logged \in {0, 1}
    BY <1>2 DEF Told
  <2> QED
    BY <1>1, <1>5, <2>1, <2>2
<1> QED
  BY <1>3, <1>4, <1>5

----------------------------------------------------------------------------
(* What the movements of a portfolio come to, of given locals.             *)
MovedIn(J, p, types) == {r \in Requests : J[r].moved /\ J[r].folio = p /\ J[r].move.type \in types}
PartsOf(J, p, types) == [r \in MovedIn(J, p, types) |-> J[r].move.amount]
TotalIn(J, p, types) == SumFunction(PartsOf(J, p, types))

LEMMA TotalIs == \A p, types : Total(p, types) = TotalIn(job, p, types)
BY DEF Total, TotalIn, PartsOf, MovedIn, Moved

LEMMA PartsAre ==
    ASSUME NEW J \in [Requests -> Job], NEW p, NEW types
    PROVE  /\ IsFiniteSet(MovedIn(J, p, types)) /\ DOMAIN PartsOf(J, p, types) = MovedIn(J, p, types)
           /\ TotalIn(J, p, types) = SumFunctionOnSet(PartsOf(J, p, types), MovedIn(J, p, types))
           /\ \A s \in MovedIn(J, p, types) :
                 PartsOf(J, p, types)[s] = J[s].move.amount /\ J[s].move.amount \in Nat
           /\ TotalIn(J, p, types) \in Nat
<1>1. MovedIn(J, p, types) \in SUBSET Requests
  BY DEF MovedIn
<1>2. IsFiniteSet(MovedIn(J, p, types))
  BY <1>1, PortfolioAssumption, FS_Subset
<1>3. DOMAIN PartsOf(J, p, types) = MovedIn(J, p, types)
  BY DEF PartsOf
<1>4. TotalIn(J, p, types) = SumFunctionOnSet(PartsOf(J, p, types), MovedIn(J, p, types))
  BY <1>3 DEF TotalIn, SumFunction
<1>5. \A s \in MovedIn(J, p, types) :
         PartsOf(J, p, types)[s] = J[s].move.amount /\ J[s].move.amount \in Nat
  <2>1. \A s \in Requests : J[s].move.amount \in Nat
    BY DEF Job, CashMove
  <2> QED
    BY <1>1, <2>1 DEF PartsOf
<1>6. TotalIn(J, p, types) \in Nat
  <2>1. \A s \in MovedIn(J, p, types) : PartsOf(J, p, types)[s] \in Nat
    BY <1>5
  <2>2. SumFunctionOnSet(PartsOf(J, p, types), MovedIn(J, p, types)) \in Int
    BY <1>2, <2>1, SumTyped
  <2>3. {} \in SUBSET MovedIn(J, p, types)
    OBVIOUS
  <2>4. SumFunctionOnSet(PartsOf(J, p, types), {}) <= SumFunctionOnSet(PartsOf(J, p, types), MovedIn(J, p, types))
    BY <1>2, <2>1, <2>3, SumMonotone
  <2>5. SumFunctionOnSet(PartsOf(J, p, types), {}) = 0
    BY SumNothing
  <2> QED
    BY <1>4, <2>2, <2>4, <2>5
<1> QED
  BY <1>2, <1>3, <1>4, <1>5, <1>6

LEMMA TotalSame ==
    ASSUME NEW J \in [Requests -> Job], NEW K \in [Requests -> Job], NEW p, NEW types,
           \A s \in Requests : /\ K[s].moved <=> J[s].moved
                               /\ J[s].moved => K[s].folio = J[s].folio /\ K[s].move = J[s].move
    PROVE  TotalIn(K, p, types) = TotalIn(J, p, types)
<1>1. MovedIn(K, p, types) = MovedIn(J, p, types)
  BY DEF MovedIn
<1>2. \A s \in MovedIn(J, p, types) : PartsOf(K, p, types)[s] = PartsOf(J, p, types)[s]
  <2>1. \A s \in MovedIn(J, p, types) : K[s].move = J[s].move
    BY DEF MovedIn
  <2> QED
    BY <1>1, <2>1 DEF PartsOf
<1>3. SumFunctionOnSet(PartsOf(K, p, types), MovedIn(J, p, types))
        = SumFunctionOnSet(PartsOf(J, p, types), MovedIn(J, p, types))
  BY <1>2, PartsAre, SumSame
<1> QED
  BY <1>1, <1>3, PartsAre

LEMMA TotalMore ==
    ASSUME NEW J \in [Requests -> Job], NEW K \in [Requests -> Job], NEW r \in Requests,
           ~J[r].moved, K[r].moved, K[r].folio = J[r].folio, K[r].move = J[r].move,
           \A s \in Requests \ {r} : K[s] = J[s], NEW p, NEW types
    PROVE  TotalIn(K, p, types) = TotalIn(J, p, types)
             + (IF J[r].folio = p /\ J[r].move.type \in types THEN J[r].move.amount ELSE 0)
<1>1. CASE J[r].folio = p /\ J[r].move.type \in types
  <2>1. MovedIn(K, p, types) = MovedIn(J, p, types) \cup {r} /\ r \notin MovedIn(J, p, types)
    BY <1>1 DEF MovedIn
  <2>2. \A s \in MovedIn(J, p, types) : PartsOf(K, p, types)[s] = PartsOf(J, p, types)[s]
    <3>1. \A s \in MovedIn(J, p, types) : s \in MovedIn(K, p, types) /\ K[s] = J[s]
      BY <2>1 DEF MovedIn
    <3> QED
      BY <3>1 DEF PartsOf
  <2>3. SumFunctionOnSet(PartsOf(K, p, types), MovedIn(J, p, types)) = TotalIn(J, p, types)
    <3>1. SumFunctionOnSet(PartsOf(K, p, types), MovedIn(J, p, types))
            = SumFunctionOnSet(PartsOf(J, p, types), MovedIn(J, p, types))
      BY <2>2, PartsAre, SumSame
    <3> QED
      BY <3>1, PartsAre
  <2>4. \A s \in MovedIn(J, p, types) \cup {r} : PartsOf(K, p, types)[s] \in Int
    <3>1. \A s \in MovedIn(K, p, types) : PartsOf(K, p, types)[s] \in Nat
      BY PartsAre
    <3> QED
      BY <2>1, <3>1
  <2>5. SumFunctionOnSet(PartsOf(K, p, types), MovedIn(J, p, types) \cup {r})
          = PartsOf(K, p, types)[r] + SumFunctionOnSet(PartsOf(K, p, types), MovedIn(J, p, types))
    BY <2>1, <2>4, PartsAre, SumAdd
  <2>6. PartsOf(K, p, types)[r] = J[r].move.amount /\ J[r].move.amount \in Nat
    <3>1. r \in MovedIn(K, p, types)
      BY <2>1
    <3>2. PartsOf(K, p, types)[r] = K[r].move.amount /\ K[r].move.amount \in Nat
      BY <3>1, PartsAre
    <3> QED
      BY <3>2
  <2>7. TotalIn(K, p, types) = J[r].move.amount + TotalIn(J, p, types)
    <3>1. TotalIn(K, p, types) = SumFunctionOnSet(PartsOf(K, p, types), MovedIn(K, p, types))
      BY PartsAre
    <3> QED
      BY <2>1, <2>3, <2>5, <2>6, <3>1
  <2>8. TotalIn(J, p, types) \in Nat
    BY PartsAre
  <2> QED
    BY <1>1, <2>6, <2>7, <2>8
<1>2. CASE ~(J[r].folio = p /\ J[r].move.type \in types)
  <2>1. MovedIn(K, p, types) = MovedIn(J, p, types) /\ r \notin MovedIn(J, p, types)
    BY <1>2 DEF MovedIn
  <2>2. \A s \in MovedIn(J, p, types) : PartsOf(K, p, types)[s] = PartsOf(J, p, types)[s]
    <3>1. \A s \in MovedIn(J, p, types) : s \in MovedIn(K, p, types) /\ K[s] = J[s]
      BY <2>1 DEF MovedIn
    <3> QED
      BY <3>1 DEF PartsOf
  <2>3. SumFunctionOnSet(PartsOf(K, p, types), MovedIn(J, p, types))
          = SumFunctionOnSet(PartsOf(J, p, types), MovedIn(J, p, types))
    BY <2>2, PartsAre, SumSame
  <2>4. TotalIn(K, p, types) = TotalIn(J, p, types) /\ TotalIn(J, p, types) \in Nat
    BY <2>1, <2>3, PartsAre
  <2> QED
    BY <1>2, <2>4
<1> QED
  BY <1>1, <1>2

----------------------------------------------------------------------------
(* What a portfolio may hold after its movements: what is in its columns,  *)
(* and what a movement has read from them.                                 *)
Between(J, p, c, k) ==
    /\ k <= opened[p] + TotalIn(J, p, {"DEPOSIT_CASH"})
    /\ k >= opened[p] - TotalIn(J, p, {"WITHDRAW_CASH"})
    /\ k <= c /\ c - k <= TotalIn(J, p, {"SELL"})
CashInv(r) ==
    /\ Place(r) \in {"idle", "readCash", "writeCash"} => ~job[r].moved
    /\ Place(r) = "writeCash" => Between(job, job[r].folio, job[r].seen.cash, job[r].seen.capital)
ColumnsInv == \A p \in Portfolios : Between(job, p, cash[p], capital[p])

LEMMA BetweenSame ==
    ASSUME NEW J \in [Requests -> Job], NEW K \in [Requests -> Job], NEW p, NEW c, NEW k,
           \A s \in Requests : /\ K[s].moved <=> J[s].moved
                               /\ J[s].moved => K[s].folio = J[s].folio /\ K[s].move = J[s].move
    PROVE  Between(K, p, c, k) <=> Between(J, p, c, k)
<1>1. /\ TotalIn(K, p, {"DEPOSIT_CASH"}) = TotalIn(J, p, {"DEPOSIT_CASH"})
      /\ TotalIn(K, p, {"WITHDRAW_CASH"}) = TotalIn(J, p, {"WITHDRAW_CASH"})
      /\ TotalIn(K, p, {"SELL"}) = TotalIn(J, p, {"SELL"})
  BY TotalSame
<1> QED
  BY <1>1 DEF Between

(* A movement more leaves room for what was read before it, and has room   *)
(* for what it makes of that.                                              *)
LEMMA BetweenMore ==
    ASSUME TypeOK, NEW K \in [Requests -> Job], NEW r \in Requests,
           ~job[r].moved, K[r].moved, K[r].folio = job[r].folio, K[r].move = job[r].move,
           \A s \in Requests \ {r} : K[s] = job[s],
           NEW p \in Portfolios, NEW c \in Nat, NEW k \in Nat, Between(job, p, c, k)
    PROVE  /\ Between(K, p, c, k)
           /\ p = job[r].folio => Between(K, p, CashAfter(job[r].move, c), CapitalAfter(job[r].move, k))
<1>0. job[r].move \in CashMove /\ job[r].move.amount \in Nat
  <2>1. job[r].move \in CashMove
    BY PayerIs DEF Job
  <2> QED
    BY <2>1 DEF CashMove
<1>1. PICK move \in CashMove, amount \in Nat, type \in {"DEPOSIT_CASH", "WITHDRAW_CASH", "SELL"} :
          move = job[r].move /\ type = move.type /\ amount = move.amount
  <2>1. job[r].move.type \in {"DEPOSIT_CASH", "WITHDRAW_CASH", "SELL"}
    BY <1>0 DEF CashMove
  <2> QED
    BY <1>0, <2>1
<1>2. type \in {"DEPOSIT_CASH", "WITHDRAW_CASH", "SELL"} /\ opened[p] \in Nat /\ job \in [Requests -> Job]
  BY <1>1 DEF CashMove, TypeOK
<1>3. PICK d \in Nat, w \in Nat, t \in Nat : /\ d = TotalIn(job, p, {"DEPOSIT_CASH"})
                                             /\ w = TotalIn(job, p, {"WITHDRAW_CASH"})
                                             /\ t = TotalIn(job, p, {"SELL"})
  BY <1>2, PartsAre
<1>4. PICK x \in Nat : x = IF job[r].folio = p THEN amount ELSE 0
  BY <1>1
<1>5. /\ TotalIn(K, p, {"DEPOSIT_CASH"}) = d + IF type = "DEPOSIT_CASH" THEN x ELSE 0
      /\ TotalIn(K, p, {"WITHDRAW_CASH"}) = w + IF type = "WITHDRAW_CASH" THEN x ELSE 0
      /\ TotalIn(K, p, {"SELL"}) = t + IF type = "SELL" THEN x ELSE 0
  <2>1. /\ TotalIn(K, p, {"DEPOSIT_CASH"}) = TotalIn(job, p, {"DEPOSIT_CASH"})
             + (IF job[r].folio = p /\ job[r].move.type \in {"DEPOSIT_CASH"} THEN job[r].move.amount ELSE 0)
        /\ TotalIn(K, p, {"WITHDRAW_CASH"}) = TotalIn(job, p, {"WITHDRAW_CASH"})
             + (IF job[r].folio = p /\ job[r].move.type \in {"WITHDRAW_CASH"} THEN job[r].move.amount ELSE 0)
        /\ TotalIn(K, p, {"SELL"}) = TotalIn(job, p, {"SELL"})
             + (IF job[r].folio = p /\ job[r].move.type \in {"SELL"} THEN job[r].move.amount ELSE 0)
    BY <1>2, TotalMore
  <2> QED
    BY <1>1, <1>3, <1>4, <2>1
<1>6. k <= opened[p] + d /\ k >= opened[p] - w /\ k <= c /\ c - k <= t
  BY <1>3 DEF Between
<1>7. Between(K, p, c, k)
  BY <1>2, <1>5, <1>6 DEF Between
<1>8. ASSUME p = job[r].folio PROVE Between(K, p, CashAfter(job[r].move, c), CapitalAfter(job[r].move, k))
  <2>1. x = amount
    BY <1>4, <1>8
  <2>2. CASE type = "DEPOSIT_CASH"
    <3>1. CashAfter(move, c) = c + amount /\ CapitalAfter(move, k) = k + amount
      BY <1>1, <2>2 DEF CashAfter, CapitalAfter
    <3> QED
      BY <1>1, <1>2, <1>5, <1>6, <2>1, <2>2, <3>1 DEF Between
  <2>3. CASE type = "WITHDRAW_CASH"
    <3>1. CashAfter(move, c) = Less(c, amount) /\ CapitalAfter(move, k) = Less(k, amount)
      BY <1>1, <2>3 DEF CashAfter, CapitalAfter
    <3>2. /\ Less(c, amount) \in Nat /\ Less(k, amount) \in Nat /\ Less(k, amount) <= k /\ Less(k, amount) >= k - amount
          /\ Less(k, amount) <= Less(c, amount) /\ Less(c, amount) - Less(k, amount) <= c - k
      BY <1>6 DEF Less
    <3> QED
      BY <1>1, <1>2, <1>5, <1>6, <2>1, <2>3, <3>1, <3>2 DEF Between
  <2>4. CASE type = "SELL"
    <3>1. CashAfter(move, c) = c + amount /\ CapitalAfter(move, k) = k
      BY <1>1, <2>4 DEF CashAfter, CapitalAfter
    <3> QED
      BY <1>1, <1>2, <1>5, <1>6, <2>1, <2>4, <3>1 DEF Between
  <2> QED
    BY <1>2, <2>2, <2>3, <2>4
<1> QED
  BY <1>7, <1>8

(* Every movement is where it may be, and so are the columns.              *)
MoneyInv == ColumnsInv /\ \A r \in Requests : CashInv(r)

LEMMA StepMoney ==
    ASSUME TypeOK, MoneyInv, NEW r \in Requests, NEW j, NEW q, StepTo(r, j, q), PathInv(r)
    PROVE  MoneyInv'
<1>0. /\ TypeOK' /\ job \in [Requests -> Job] /\ job' \in [Requests -> Job] /\ job' = [job EXCEPT ![r] = j]
      /\ opened' = opened /\ cash \in [Portfolios -> Nat] /\ capital \in [Portfolios -> Nat]
  BY StepTypes, ColumnsOn DEF TypeOK, StepTo, Turn
<1>1. /\ job'[r] = j /\ j.folio = job[r].folio /\ j.move = job[r].move /\ Place(r)' = q /\ job[r] \in Job
      /\ job[r].folio \in Portfolios
  BY TurnIs, PayerIs
<1>2. \A s \in Requests \ {r} : job'[s] = job[s] /\ Place(s)' = Place(s) /\ job[s].folio \in Portfolios /\ job[s] \in Job
  BY OthersStay, PayerIs DEF StepTo
<1>3. PICK K \in [Requests -> Job] : K = job'
  BY <1>0
<1>4. /\ j.moved = job[r].moved \/ WriteCashTo(r, j)
      /\ j.seen = job[r].seen \/ ReadCashTo(r, j)
  BY JobFields
<1>5. q \notin {"idle", "readCash"} /\ (q = "writeCash" => Place(r) = "readCash")
  BY TurnIs DEF StepTo, ThrownTo, PreparedTo, RefundedTo, SoldOutTo, PassedTo, Follows, AfterCharge, AfterRead, AfterStore
<1>6. SUFFICES ASSUME \A p \in Portfolios, c \in Nat, k \in Nat : Between(job, p, c, k) => Between(K, p, c, k),
                      \A p \in Portfolios : Between(K, p, cash'[p], capital'[p]),
                      q = "writeCash" => ~j.moved /\ Between(K, j.folio, j.seen.cash, j.seen.capital)
               PROVE  MoneyInv'
  <2>1. CASE WriteCashTo(r, j)
    <3>1. Place(r) = "writeCash" /\ j = [job[r] EXCEPT !.moved = TRUE] /\ q # "writeCash"
      BY <1>5, <2>1 DEF WriteCashTo
    <3>2. ~job[r].moved /\ j.moved /\ Between(job, job[r].folio, job[r].seen.cash, job[r].seen.capital)
      BY <1>1, <3>1 DEF MoneyInv, CashInv, Job
    <3>3. job[r].seen.cash \in Nat /\ job[r].seen.capital \in Nat
      BY <1>1 DEF Job
    <3>4. K[r].moved /\ K[r].folio = job[r].folio /\ K[r].move = job[r].move /\ \A s \in Requests \ {r} : K[s] = job[s]
      BY <1>1, <1>2, <1>3, <3>2
    <3>5. \A p \in Portfolios, c \in Nat, k \in Nat : Between(job, p, c, k) => Between(K, p, c, k)
      BY <3>2, <3>4, BetweenMore
    <3>6. PICK p \in Portfolios : p = job[r].folio
      BY <1>1
    <3>7. Between(K, p, CashAfter(job[r].move, job[r].seen.cash), CapitalAfter(job[r].move, job[r].seen.capital))
      BY <3>2, <3>3, <3>4, <3>6, BetweenMore
    <3>8. /\ cash' = [cash EXCEPT ![p] = CashAfter(job[r].move, job[r].seen.cash)]
          /\ capital' = [capital EXCEPT ![p] = CapitalAfter(job[r].move, job[r].seen.capital)]
      BY <2>1, <3>6 DEF WriteCashTo
    <3>9. ASSUME NEW f \in Portfolios PROVE Between(K, f, cash'[f], capital'[f])
      <4>1. CASE f = p
        BY <1>0, <3>7, <3>8, <4>1
      <4>2. CASE f # p
        <5>1. cash'[f] = cash[f] /\ capital'[f] = capital[f] /\ cash[f] \in Nat /\ capital[f] \in Nat
          BY <1>0, <3>8, <4>2
        <5>2. Between(job, f, cash[f], capital[f])
          BY DEF MoneyInv, ColumnsInv
        <5> QED
          BY <3>5, <5>1, <5>2
      <4> QED
        BY <4>1, <4>2
    <3> QED
      BY <1>6, <3>1, <3>5, <3>9
  <2>2. CASE ~WriteCashTo(r, j)
    <3>1. cash' = cash /\ capital' = capital /\ j.moved = job[r].moved
      BY <1>4, <2>2, ColumnsOn
    <3>2. \A s \in Requests : /\ K[s].moved <=> job[s].moved
                              /\ job[s].moved => K[s].folio = job[s].folio /\ K[s].move = job[s].move
      BY <1>1, <1>2, <1>3, <3>1
    <3>3. \A p, c, k : Between(K, p, c, k) <=> Between(job, p, c, k)
      BY <1>0, <3>2, BetweenSame
    <3>4. \A p \in Portfolios : Between(K, p, cash'[p], capital'[p])
      BY <3>1, <3>3 DEF MoneyInv, ColumnsInv
    <3>5. ASSUME q = "writeCash" PROVE ~j.moved /\ Between(K, j.folio, j.seen.cash, j.seen.capital)
      <4>1. Place(r) = "readCash" /\ ~job[r].moved
        BY <1>5, <3>5 DEF MoneyInv, CashInv
      <4>2. ReadCashTo(r, j)
        BY <3>5, <4>1 DEF StepTo, PassedTo, ThrownTo, PreparedTo, RefundedTo, SoldOutTo, ChargeTo, QuietTo, InsertTo, StoreTo,
                          RelabelTo, ReadTo, WriteTo, EventTo, WriteCashTo, CashEventTo
      <4>3. j.seen.cash = cash[job[r].folio] /\ j.seen.capital = capital[job[r].folio]
        <5>1. PICK seen : seen = [cash |-> cash[job[r].folio], capital |-> capital[job[r].folio]]
          OBVIOUS
        <5>2. j = [job[r] EXCEPT !.seen = seen]
          BY <4>2, <5>1 DEF ReadCashTo
        <5>3. j.seen = seen
          BY <1>1, <5>2 DEF Job
        <5> QED
          BY <5>1, <5>3
      <4>4. Between(job, job[r].folio, cash[job[r].folio], capital[job[r].folio])
        BY <1>1 DEF MoneyInv, ColumnsInv
      <4> QED
        BY <1>1, <3>1, <3>3, <4>1, <4>3, <4>4
    <3> QED
      BY <1>6, <3>3, <3>4, <3>5
  <2> QED
    BY <2>1, <2>2
<1>7. ColumnsInv'
  BY <1>0, <1>3, <1>6 DEF ColumnsInv, Between
<1>8. CashInv(r)'
  BY <1>0, <1>1, <1>3, <1>5, <1>6 DEF CashInv, Between
<1>9. ASSUME NEW s \in Requests \ {r} PROVE CashInv(s)'
  <2>1. CashInv(s) /\ job[s].seen.cash \in Nat /\ job[s].seen.capital \in Nat
    BY <1>2 DEF MoneyInv, Job
  <2> QED
    BY <1>0, <1>2, <1>3, <1>6, <2>1 DEF CashInv, Between
<1> QED
  BY <1>7, <1>8, <1>9 DEF MoneyInv

LEMMA MoneyInit ==
    ASSUME Init
    PROVE  MoneyInv
<1>1. job \in [Requests -> Job] /\ \A r \in Requests : Place(r) = "idle" /\ ~job[r].moved
  BY InitRows
<1>2. \A r \in Requests : CashInv(r)
  BY <1>1 DEF CashInv
<1>3. ASSUME NEW p \in Portfolios PROVE Between(job, p, cash[p], capital[p])
  <2>1. cash[p] = opened[p] /\ capital[p] = opened[p] /\ opened[p] \in Nat
    BY PortfolioAssumption DEF Init
  <2>2. \A types : TotalIn(job, p, types) \in Nat
    BY <1>1, PartsAre
  <2> QED
    BY <2>1, <2>2 DEF Between
<1> QED
  BY <1>2, <1>3 DEF MoneyInv, ColumnsInv

LEMMA MoneyRest ==
    ASSUME TypeOK, TypeOK', MoneyInv,
           \/ \E r \in Requests : \E op, p : StartTo(r, op, p)
           \/ \E p \in Portfolios : DeletedTo(p)
           \/ \E u \in Users : CreditedTo(u)
           \/ CrashedTo
           \/ UNCHANGED vars
    PROVE  MoneyInv'
<1>0. job \in [Requests -> Job] /\ job' \in [Requests -> Job]
  BY DEF TypeOK
<1>1. ASSUME UNCHANGED <<opened, capital, cash, job>>, \A s \in Requests : Place(s)' \in {Place(s), "gone"}
      PROVE  MoneyInv'
  BY <1>1 DEF MoneyInv, ColumnsInv, CashInv, Between
<1>2. ASSUME NEW r \in Requests, NEW op, NEW p, StartTo(r, op, p) PROVE MoneyInv'
  <2>1. /\ at[r] = "idle" /\ Place(r)' = FirstOf(op) /\ op \in Ops /\ ~job'[r].moved
        /\ opened' = opened /\ capital' = capital /\ cash' = cash
        /\ \A s \in Requests \ {r} : job'[s] = job[s] /\ at'[s] = at[s] /\ todo'[s] = todo[s]
    BY <1>2 DEF StartTo, Quiet, rowVars
  <2>2. ~job[r].moved
    BY <2>1 DEF MoneyInv, CashInv, Place
  <2>3. PICK K \in [Requests -> Job] : K = job'
    BY <1>0
  <2>4. \A s \in Requests : /\ K[s].moved <=> job[s].moved
                            /\ job[s].moved => K[s].folio = job[s].folio /\ K[s].move = job[s].move
    BY <2>1, <2>2, <2>3
  <2>5. \A f, c, k : Between(K, f, c, k) <=> Between(job, f, c, k)
    BY <1>0, <2>4, BetweenSame
  <2>6. ColumnsInv'
    BY <2>1, <2>3, <2>5 DEF MoneyInv, ColumnsInv, Between
  <2>7. CashInv(r)'
    BY <2>1 DEF CashInv, FirstOf
  <2>8. ASSUME NEW s \in Requests \ {r} PROVE CashInv(s)'
    <3>1. CashInv(s) /\ job'[s] = job[s] /\ Place(s)' = Place(s)
      BY <2>1 DEF MoneyInv, Place
    <3> QED
      BY <2>1, <2>3, <2>5, <3>1 DEF CashInv, Between
  <2> QED
    BY <2>6, <2>7, <2>8 DEF MoneyInv
<1>3. ASSUME NEW p \in Portfolios, DeletedTo(p) PROVE MoneyInv'
  BY <1>1, <1>3 DEF DeletedTo, requestVars, Place
<1>4. ASSUME NEW u \in Users, CreditedTo(u) PROVE MoneyInv'
  BY <1>1, <1>4 DEF CreditedTo, requestVars, rowVars, Place
<1>5. ASSUME CrashedTo PROVE MoneyInv'
  BY <1>1, <1>5 DEF CrashedTo, Quiet, rowVars
<1>6. ASSUME UNCHANGED vars PROVE MoneyInv'
  BY <1>1, <1>6 DEF vars, requestVars, rowVars, Place
<1> QED
  BY <1>2, <1>3, <1>4, <1>5, <1>6

LEMMA MoneyFollows ==
    ASSUME TypeOK, MoneyInv
    PROVE  CashWithinMovements
<1> SUFFICES ASSUME NEW p \in Portfolios
             PROVE  /\ capital[p] <= opened[p] + Total(p, {"DEPOSIT_CASH"})
                    /\ capital[p] >= opened[p] - Total(p, {"WITHDRAW_CASH"})
                    /\ cash[p] - capital[p] \in 0..Total(p, {"SELL"})
  BY DEF CashWithinMovements
<1>1. Between(job, p, cash[p], capital[p]) /\ cash[p] \in Nat /\ capital[p] \in Nat
  BY DEF MoneyInv, ColumnsInv, TypeOK
<1>2. TotalIn(job, p, {"SELL"}) \in Nat
  BY PartsAre DEF TypeOK
<1> QED
  BY <1>1, <1>2, TotalIs DEF Between

----------------------------------------------------------------------------
(* Fees, events and columns together.                                      *)
BooksInv == DeliverInv /\ MoneyInv /\ \A r \in Requests : AuditInv(r)

LEMMA BooksNext ==
    ASSUME BooksInv, [Next]_vars
    PROVE  BooksInv'
<1>1. /\ DeliverInv /\ MoneyInv /\ BaseInv /\ TypeOK /\ \A r \in Requests : AuditInv(r) /\ PathInv(r)
      /\ BaseInv' /\ TypeOK' /\ StepOf /\ DeliverInv'
  BY BaseNext, DeliverNext DEF BooksInv, DeliverInv, BaseInv, RequestInv
<1>2. ASSUME NEW r \in Requests, NEW j, NEW q, StepTo(r, j, q)
      PROVE  MoneyInv' /\ \A s \in Requests : AuditInv(s)'
  <2>1. MoneyInv'
    BY <1>1, <1>2, StepMoney
  <2>2. AuditInv(r)'
    BY <1>1, <1>2, StepAudit
  <2>3. \A s \in Requests \ {r} : AuditInv(s)'
    BY <1>1, <1>2, StepAuditOther
  <2> QED
    BY <2>1, <2>2, <2>3
<1>3. ASSUME \/ \E r \in Requests : \E op, p : StartTo(r, op, p)
             \/ \E p \in Portfolios : DeletedTo(p)
             \/ \E u \in Users : CreditedTo(u)
             \/ CrashedTo
             \/ UNCHANGED vars
      PROVE  MoneyInv' /\ \A s \in Requests : AuditInv(s)'
  BY <1>1, <1>3, MoneyRest, AuditRest
<1>4. MoneyInv' /\ \A s \in Requests : AuditInv(s)'
  BY <1>1, <1>2, <1>3 DEF StepOf
<1> QED
  BY <1>1, <1>4 DEF BooksInv

(* A fee is kept once, and only for what was delivered; every edit has its *)
(* event but for the one that is between the two; and the columns of a     *)
(* portfolio stay within what the movements of its cash allow, for any     *)
(* number of requests and portfolios, whatever fails (suggest,             *)
(* applySuggestions, writeHoldingsSnapshot, cashEvent).                    *)
THEOREM PortfolioBooksAgree == Spec => []BooksAgree
<1>1. Init => BooksInv
  BY DeliverInit, MoneyInit, AuditInit DEF BooksInv
<1>2. BooksInv /\ [Next]_vars => BooksInv'
  BY BooksNext
<1>3. BooksInv => BooksAgree
  <2> SUFFICES ASSUME BooksInv PROVE BooksAgree
    OBVIOUS
  <2>1. FeesSettle
    BY DeliveredFees DEF BooksInv
  <2>2. AuditTrail
    BY AuditFollows DEF BooksInv
  <2>3. CashWithinMovements
    BY MoneyFollows DEF BooksInv, DeliverInv, BaseInv
  <2> QED
    BY <2>1, <2>2, <2>3 DEF BooksAgree
<1> QED
  BY <1>1, <1>2, <1>3, PTL DEF Spec
=============================================================================
