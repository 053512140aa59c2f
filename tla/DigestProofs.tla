---------------------------- MODULE DigestProofs ----------------------------
(* Proofs about Digest for any users, runs, schedules and failures.        *)
EXTENDS Digest, FiniteSetTheorems, TLAPS

(* The flag and the place of every run, typed, with the flag meaning what  *)
(* OneRunAtATime says.  It is inductive: no step looks at anything else to *)
(* decide whether a run enters or leaves deliverToday.                     *)
FlagInv ==
    /\ at \in [Runs -> Places]
    /\ busy \in BOOLEAN
    /\ OneRunAtATime

(* A run that goes on inside deliverToday.                                 *)
LEMMA RunMoves ==
    ASSUME FlagInv, NEW r \in Runs, NEW p \in Inside, Active(r), Goto(r, p), busy' = busy
    PROVE  FlagInv'
<1>1. at' \in [Runs -> Places]
  BY DEF FlagInv, Goto, Places
<1>2. \A q \in Runs : Active(q)' <=> Active(q)
  BY DEF FlagInv, Goto, Active
<1> QED
  BY <1>1, <1>2 DEF FlagInv, OneRunAtATime

(* A run that leaves it, by the finally block.                             *)
LEMMA RunLeaves ==
    ASSUME FlagInv, NEW r \in Runs, NEW p \in Places \ Inside, Active(r), Goto(r, p), ~busy'
    PROVE  FlagInv'
<1>1. at' \in [Runs -> Places] /\ busy' = FALSE
  BY DEF FlagInv, Goto
<1>2. \A q \in Runs : ~Active(q)'
  BY DEF FlagInv, Goto, Active, OneRunAtATime
<1> QED
  BY <1>1, <1>2 DEF FlagInv, OneRunAtATime

(* A run that enters it, having found the flag clear.                      *)
LEMMA RunEnters ==
    ASSUME FlagInv, NEW r \in Runs, NEW p \in Inside, ~busy, Goto(r, p), busy' = TRUE
    PROVE  FlagInv'
<1>1. at' \in [Runs -> Places]
  BY DEF FlagInv, Goto, Places
<1>2. \A q \in Runs : Active(q)' <=> q = r
  BY DEF FlagInv, Goto, Active, OneRunAtATime
<1> QED
  BY <1>1, <1>2 DEF FlagInv, OneRunAtATime

(* A run that is outside and stays outside.                                *)
LEMMA RunOutside ==
    ASSUME FlagInv, NEW r \in Runs, NEW p \in Places \ Inside, ~Active(r), Goto(r, p), busy' = busy
    PROVE  FlagInv'
<1>1. at' \in [Runs -> Places]
  BY DEF FlagInv, Goto
<1>2. \A q \in Runs : Active(q)' <=> Active(q)
  BY DEF FlagInv, Goto, Active
<1> QED
  BY <1>1, <1>2 DEF FlagInv, OneRunAtATime

LEMMA RunStays ==
    ASSUME FlagInv, at' = at, busy' = busy
    PROVE  FlagInv'
BY DEF FlagInv, OneRunAtATime, Active

(* A restart leaves nobody inside.                                         *)
LEMMA RestartClears ==
    ASSUME FlagInv, Restart
    PROVE  FlagInv'
<1>1. at' \in [Runs -> Places] /\ busy' = FALSE
  BY DEF FlagInv, Restart, Places, Inside
<1>2. \A q \in Runs : at'[q] \in {"idle", "done", "aborted", "gone"}
  BY DEF FlagInv, Restart
<1>3. \A q \in Runs : ~Active(q)'
  BY <1>2 DEF Active, Inside
<1> QED
  BY <1>1, <1>3 DEF FlagInv, OneRunAtATime

LEMMA ThrowsClears ==
    ASSUME FlagInv, NEW r \in Runs, Active(r), Throws(r)
    PROVE  FlagInv'
<1>1. CASE job[r].origin = "catchUp"
  BY <1>1, RestartClears DEF Throws
<1>2. CASE job[r].origin # "catchUp"
  <2> DEFINE p == IF job[r].origin = "manual" THEN "abortLog" ELSE "aborted"
  <2>1. p \in Places \ Inside
    BY DEF Places, Inside
  <2>2. Goto(r, p) /\ ~busy'
    BY <1>2 DEF Throws, Finish
  <2> HIDE DEF p
  <2> QED
    BY <2>1, <2>2, RunLeaves
<1> QED
  BY <1>1, <1>2

LEMMA DeliverEnters ==
    ASSUME FlagInv, NEW r \in Runs, NEW origin, NEW force, ~busy, Deliver(r, origin, force)
    PROVE  FlagInv'
<1> DEFINE p == IF force THEN "config" ELSE "check"
<1>1. p \in Inside
  BY DEF Inside
<1>2. Goto(r, p) /\ busy' = TRUE
  BY DEF Deliver
<1> HIDE DEF p
<1> QED
  BY <1>1, <1>2, RunEnters

LEMMA BeginKeepsFlag ==
    ASSUME FlagInv, NEW r \in Runs, Begin(r)
    PROVE  FlagInv'
<1>1. CASE Tick(r)
  BY <1>1, DeliverEnters DEF Tick
<1>2. CASE CatchUp(r)
  BY <1>2, DeliverEnters, RunStays DEF CatchUp
<1>3. ASSUME NEW force \in BOOLEAN, Ask(r, force) PROVE FlagInv'
  <2>1. ~Active(r) /\ "asked" \in Places \ Inside
    BY <1>3 DEF Ask, Active, Inside, Places
  <2> QED
    BY <1>3, <2>1, RunOutside DEF Ask
<1> QED
  BY <1>1, <1>2, <1>3 DEF Begin

LEMMA ContinueKeepsFlag ==
    ASSUME FlagInv, NEW r \in Runs, Continue(r)
    PROVE  FlagInv'
<1>1. CASE Launch(r)
  <2>1. ~Active(r) /\ "done" \in Places \ Inside
    BY <1>1 DEF Launch, Active, Inside, Places
  <2> QED
    BY <1>1, <2>1, DeliverEnters, RunOutside DEF Launch
<1>2. CASE Check(r)
  <2>1. Active(r) /\ "done" \in Places \ Inside /\ "config" \in Inside
    BY <1>2 DEF Check, Active, Inside, Places
  <2> QED
    BY <1>2, <2>1, RunLeaves, RunMoves DEF Check, Finish
<1>3. CASE ReadConfig(r)
  <2> DEFINE p == IF cfg.ready THEN "recipients" ELSE "skip"
  <2>1. Active(r) /\ p \in Inside
    BY <1>3 DEF ReadConfig, Active, Inside
  <2>2. Goto(r, p) /\ busy' = busy
    BY <1>3 DEF ReadConfig
  <2> HIDE DEF p
  <2> QED
    BY <2>1, <2>2, RunMoves
<1>4. CASE ReadRecipients(r)
  <2>1. PICK p \in {"skip", "voice", "next"} : Goto(r, p)
    BY <1>4 DEF ReadRecipients
  <2>2. Active(r) /\ p \in Inside /\ busy' = busy
    BY <1>4 DEF ReadRecipients, Active, Inside
  <2> QED
    BY <2>1, <2>2, RunMoves
<1>5. CASE LoadVoice(r)
  <2>1. Active(r) /\ "next" \in Inside /\ "speak" \in Inside
    BY <1>5 DEF LoadVoice, Active, Inside
  <2> QED
    BY <1>5, <2>1, ThrowsClears, RunMoves DEF LoadVoice
<1>6. CASE Speak(r)
  <2>1. Active(r) /\ "next" \in Inside
    BY <1>6 DEF Speak, Active, Inside
  <2> QED
    BY <1>6, <2>1, RunMoves DEF Speak
<1>7. ASSUME NEW u \in Users, ChargeNext(r, u) PROVE FlagInv'
  <2>1. Active(r) /\ "send" \in Inside /\ "notice" \in Inside
    BY <1>7 DEF ChargeNext, Active, Inside
  <2>2. busy' = busy /\ (Goto(r, "send") \/ Goto(r, "notice"))
    BY <1>7 DEF ChargeNext
  <2> QED
    BY <2>1, <2>2, RunMoves
<1>8. CASE ClaimNotice(r)
  <2>1. Active(r) /\ "warn" \in Inside /\ "next" \in Inside
    BY <1>8 DEF ClaimNotice, Active, Inside
  <2>2. busy' = busy /\ (Goto(r, "warn") \/ Goto(r, "next"))
    BY <1>8 DEF ClaimNotice
  <2> QED
    BY <2>1, <2>2, RunMoves
<1>9. CASE Warn(r)
  <2>1. Active(r) /\ "next" \in Inside
    BY <1>9 DEF Warn, Active, Inside
  <2> QED
    BY <1>9, <2>1, RunMoves DEF Warn
<1>10. CASE SendPart(r)
  BY <1>10, RunStays DEF SendPart
<1>11. CASE PartFails(r)
  <2>1. Active(r) /\ "refund" \in Inside
    BY <1>11 DEF PartFails, Active, Inside
  <2>2. busy' = busy /\ (at' = at \/ Goto(r, "refund"))
    BY <1>11 DEF PartFails
  <2> QED
    BY <2>1, <2>2, RunMoves, RunStays
<1>12. CASE BriefingFails(r)
  <2>1. Active(r) /\ "refund" \in Inside
    BY <1>12 DEF BriefingFails, Active, Inside
  <2> QED
    BY <1>12, <2>1, RunMoves DEF BriefingFails
<1>13. CASE Delivered(r)
  <2>1. Active(r) /\ "next" \in Inside
    BY <1>13 DEF Delivered, Active, Inside
  <2> QED
    BY <1>13, <2>1, RunMoves DEF Delivered
<1>14. CASE Refund(r)
  <2>1. Active(r) /\ "next" \in Inside
    BY <1>14 DEF Refund, Active, Inside
  <2>2. Throws(r) \/ (Goto(r, "next") /\ busy' = busy)
    BY <1>14 DEF Refund
  <2> QED
    BY <2>1, <2>2, RunMoves, ThrowsClears
<1>15. CASE LoopEnds(r)
  <2>1. Active(r) /\ "log" \in Inside
    BY <1>15 DEF LoopEnds, Active, Inside
  <2> QED
    BY <1>15, <2>1, RunMoves DEF LoopEnds
<1>16. CASE WriteLog(r) \/ WriteSkip(r)
  <2>1. Active(r) /\ "done" \in Places \ Inside
    BY <1>16 DEF WriteLog, WriteSkip, Active, Inside, Places
  <2> QED
    BY <1>16, <2>1, RunLeaves DEF WriteLog, WriteSkip, Finish
<1>17. CASE WriteAbortLog(r)
  <2>1. ~Active(r) /\ "aborted" \in Places \ Inside
    BY <1>17 DEF WriteAbortLog, Active, Inside, Places
  <2> QED
    BY <1>17, <2>1, RunOutside DEF WriteAbortLog
<1> QED
  BY <1>1, <1>2, <1>3, <1>4, <1>5, <1>6, <1>7, <1>8, <1>9, <1>10, <1>11, <1>12, <1>13,
     <1>14, <1>15, <1>16, <1>17 DEF Continue

LEMMA FailuresKeepFlag ==
    ASSUME FlagInv, NEW r \in Runs, VoiceFails(r) \/ StatementFails(r)
    PROVE  FlagInv'
<1>1. Active(r)
  BY DEF VoiceFails, StatementFails, Active, Inside
<1>2. CASE StatementFails(r)
  BY <1>1, <1>2, ThrowsClears DEF StatementFails
<1>3. CASE VoiceFails(r) /\ job[r].origin = "catchUp"
  BY <1>3, RestartClears DEF VoiceFails
<1>4. CASE VoiceFails(r) /\ job[r].origin # "catchUp"
  <2> DEFINE p == IF job[r].origin = "manual" THEN "abortLog" ELSE "aborted"
  <2>1. p \in Places \ Inside
    BY DEF Places, Inside
  <2>2. Goto(r, p) /\ ~busy'
    BY <1>4 DEF VoiceFails, Finish
  <2> HIDE DEF p
  <2> QED
    BY <1>1, <2>1, <2>2, RunLeaves
<1> QED
  BY <1>2, <1>3, <1>4

LEMMA EnvironmentKeepsFlag ==
    ASSUME FlagInv, Environment
    PROVE  FlagInv'
<1>1. CASE Crash
  BY <1>1, RestartClears DEF Crash
<1>2. CASE ~Crash
  <2>1. at' = at /\ busy' = busy
    BY <1>2 DEF Environment, Minute, SaveConfig, Choose, AdminCredit, runVars
  <2> QED
    BY <2>1, RunStays
<1> QED
  BY <1>1, <1>2

LEMMA InitFlag == Init => FlagInv
<1> SUFFICES ASSUME Init PROVE FlagInv
  OBVIOUS
<1>1. at = [r \in Runs |-> "idle"] /\ busy = FALSE
  BY DEF Init
<1>2. \A r \in Runs : ~Active(r)
  BY <1>1 DEF Active, Inside
<1> QED
  BY <1>1, <1>2 DEF FlagInv, OneRunAtATime, Places

LEMMA StepFlag == FlagInv /\ [Next]_vars => FlagInv'
<1> SUFFICES ASSUME FlagInv, [Next]_vars PROVE FlagInv'
  OBVIOUS
<1>1. CASE UNCHANGED vars
  BY <1>1, RunStays DEF vars, runVars
<1>2. CASE Next
  BY <1>2, BeginKeepsFlag, ContinueKeepsFlag, FailuresKeepFlag, EnvironmentKeepsFlag DEF Next
<1> QED
  BY <1>1, <1>2

(* sendInFlight is set exactly while one run is inside deliverToday,       *)
(* whatever starts, throws, is refused or dies.                            *)
THEOREM DigestOneRunAtATime == Spec => []OneRunAtATime
<1>1. FlagInv => OneRunAtATime
  BY DEF FlagInv
<1> QED
  BY <1>1, InitFlag, StepFlag, PTL DEF Spec

----------------------------------------------------------------------------
(* A user is being served where a message goes out to somebody.            *)
AtUser == {"notice", "warn", "send", "refund"}
Early == {"idle", "asked", "check", "config", "skip", "recipients", "voice", "speak"}

(* The locals of a run: whom it serves, and that it has done nothing       *)
(* before it knows its recipients.                                         *)
RunSound(r) ==
    /\ at[r] \in AtUser => job[r].serving \in Users
    /\ at[r] \in Early \cup {"next", "log", "done"} => job[r].serving = Nobody
    /\ at[r] \in Early => job[r].sent = {} /\ job[r].failed = {}

Inv ==
    /\ TypeOK
    /\ FlagInv
    /\ \A r \in Runs : RunSound(r)

(* A run whose locals become new and whose place becomes p.                *)
LEMMA RunGoesOn ==
    ASSUME Inv, NEW r \in Runs, NEW new \in Job, NEW p \in Places,
           job' = [job EXCEPT ![r] = new], Goto(r, p),
           p \in AtUser => new.serving \in Users,
           p \in Early \cup {"next", "log", "done"} => new.serving = Nobody,
           p \in Early => new.sent = {} /\ new.failed = {}
    PROVE  /\ job' \in [Runs -> Job] /\ at' \in [Runs -> Places]
           /\ \A q \in Runs : RunSound(q)'
<1>1. job \in [Runs -> Job] /\ at \in [Runs -> Places]
  BY DEF Inv, TypeOK
<1>2. job' \in [Runs -> Job] /\ at' \in [Runs -> Places]
  BY <1>1 DEF Goto
<1>3. job'[r] = new /\ at'[r] = p
  BY <1>1 DEF Goto
<1>4. \A q \in Runs : q # r => job'[q] = job[q] /\ at'[q] = at[q]
  BY <1>1 DEF Goto
<1>5. RunSound(r)'
  BY <1>3 DEF RunSound
<1>6. \A q \in Runs : q # r => RunSound(q)'
  BY <1>4 DEF RunSound, Inv
<1> QED
  BY <1>2, <1>5, <1>6

LEMMA RunOnlyMoves ==
    ASSUME Inv, NEW r \in Runs, NEW p \in Places, UNCHANGED job, Goto(r, p),
           p \in AtUser => job[r].serving \in Users,
           p \in Early \cup {"next", "log", "done"} => job[r].serving = Nobody,
           p \in Early => job[r].sent = {} /\ job[r].failed = {}
    PROVE  /\ job' \in [Runs -> Job] /\ at' \in [Runs -> Places]
           /\ \A q \in Runs : RunSound(q)'
<1>1. job[r] \in Job /\ job' = [job EXCEPT ![r] = job[r]]
  BY DEF Inv, TypeOK
<1> QED
  BY <1>1, RunGoesOn

(* The locals change while the place does not.                             *)
LEMMA RunWorks ==
    ASSUME Inv, NEW r \in Runs, NEW new \in Job, job' = [job EXCEPT ![r] = new], UNCHANGED at,
           at[r] \in AtUser => new.serving \in Users,
           at[r] \in Early \cup {"next", "log", "done"} => new.serving = Nobody,
           at[r] \in Early => new.sent = {} /\ new.failed = {}
    PROVE  /\ job' \in [Runs -> Job] /\ at' \in [Runs -> Places]
           /\ \A q \in Runs : RunSound(q)'
<1>1. at[r] \in Places /\ Goto(r, at[r])
  BY DEF Inv, TypeOK, Goto
<1> QED
  BY <1>1, RunGoesOn

LEMMA RunsRest ==
    ASSUME Inv, UNCHANGED <<at, job>>
    PROVE  /\ job' \in [Runs -> Job] /\ at' \in [Runs -> Places]
           /\ \A q \in Runs : RunSound(q)'
BY DEF Inv, TypeOK, RunSound

LEMMA RestartSound ==
    ASSUME Inv, Restart, UNCHANGED job
    PROVE  /\ job' \in [Runs -> Job] /\ at' \in [Runs -> Places]
           /\ \A q \in Runs : RunSound(q)'
           /\ busy' \in BOOLEAN /\ restarted' \in BOOLEAN
           /\ voiceTask' \in [day: Days \cup {0}, state: {"none", "ready", "rejected"}]
<1>1. job \in [Runs -> Job] /\ at \in [Runs -> Places]
  BY DEF Inv, TypeOK
<1>2. at' \in [Runs -> Places]
  BY <1>1 DEF Restart, Places
<1>3. ASSUME NEW q \in Runs PROVE RunSound(q)'
  <2>1. at'[q] = at[q] \/ at'[q] = "gone"
    BY DEF Restart
  <2>2. RunSound(q) /\ job'[q] = job[q]
    BY DEF Inv
  <2> QED
    BY <2>1, <2>2 DEF RunSound, AtUser, Early
<1>4. NoTask \in [day: Days \cup {0}, state: {"none", "ready", "rejected"}]
  BY DEF NoTask
<1> QED
  BY <1>1, <1>2, <1>3, <1>4 DEF Restart

LEMMA ThrowsSound ==
    ASSUME Inv, NEW r \in Runs, Throws(r), UNCHANGED job
    PROVE  /\ job' \in [Runs -> Job] /\ at' \in [Runs -> Places]
           /\ \A q \in Runs : RunSound(q)'
           /\ busy' \in BOOLEAN /\ restarted' \in BOOLEAN
           /\ voiceTask' \in [day: Days \cup {0}, state: {"none", "ready", "rejected"}]
<1>1. CASE job[r].origin = "catchUp"
  BY <1>1, RestartSound DEF Throws
<1>2. CASE job[r].origin # "catchUp"
  <2> DEFINE p == IF job[r].origin = "manual" THEN "abortLog" ELSE "aborted"
  <2>1. p \in Places /\ p \notin AtUser /\ p \notin Early \cup {"next", "log", "done"}
    BY DEF Places, AtUser, Early
  <2>2. Goto(r, p) /\ busy' = FALSE /\ UNCHANGED <<voiceTask, restarted>>
    BY <1>2 DEF Throws, Finish
  <2> HIDE DEF p
  <2>3. /\ job' \in [Runs -> Job] /\ at' \in [Runs -> Places]
        /\ \A q \in Runs : RunSound(q)'
    BY <2>1, <2>2, RunOnlyMoves
  <2> QED
    BY <2>2, <2>3 DEF Inv, TypeOK
<1> QED
  BY <1>1, <1>2

LEMMA DeliverSound ==
    ASSUME Inv, NEW r \in Runs, NEW origin \in {"tick", "catchUp", "manual"},
           NEW force \in BOOLEAN, at[r] \in {"idle", "asked"}, Deliver(r, origin, force)
    PROVE  /\ job' \in [Runs -> Job] /\ at' \in [Runs -> Places]
           /\ \A q \in Runs : RunSound(q)'
           /\ busy' \in BOOLEAN
<1> DEFINE new == [job[r] EXCEPT !.origin = origin, !.force = force, !.day = clock.day]
           p == IF force THEN "config" ELSE "check"
<1>1. job[r] \in Job /\ clock.day \in Days /\ RunSound(r)
  BY DEF Inv, TypeOK
<1>2. new \in Job /\ new.serving = job[r].serving /\ new.sent = job[r].sent /\ new.failed = job[r].failed
  BY <1>1 DEF Job
<1>3. job' = [job EXCEPT ![r] = new] /\ Goto(r, p) /\ busy' = TRUE
  BY DEF Deliver
<1>4. p \in Places /\ p \in Early /\ p \notin AtUser
  BY DEF Places, Inside, Early, AtUser
<1>5. job[r].serving = Nobody /\ job[r].sent = {} /\ job[r].failed = {}
  BY <1>1 DEF RunSound, Early
<1> HIDE DEF new, p
<1> QED
  BY <1>2, <1>3, <1>4, <1>5, RunGoesOn

----------------------------------------------------------------------------
(* Movements of a wallet that fit the column keep balance and rows typed.  *)
LEMMA PostTyped ==
    ASSUME LedgerTypeOK, NEW u \in Users, NEW kind \in Kinds, NEW amount \in Int,
           NEW ref \in Refs \cup {NoRef}, balance[u] + amount \in 0..IntMax,
           Post(u, kind, amount, ref)
    PROVE  LedgerTypeOK'
<1>1. balance' \in [Users -> 0..IntMax]
  BY DEF LedgerTypeOK, Post
<1> DEFINE row == [kind |-> kind, amount |-> amount, after |-> balance[u] + amount, ref |-> ref]
<1>2. row \in TransactionRow
  BY DEF TransactionRow
<1>3. Append(ledger[u], row) \in Seq(TransactionRow)
  BY <1>2 DEF LedgerTypeOK
<1>4. ledger' \in [Users -> Seq(TransactionRow)]
  BY <1>3 DEF LedgerTypeOK, Post
<1> QED
  BY <1>1, <1>4 DEF LedgerTypeOK

LEMMA FeeTyped == Fee \in Nat /\ Fee <= IntMax
BY DigestAssumption, LedgerAssumption

LEMMA TakeFeeTyped ==
    ASSUME LedgerTypeOK, NEW r \in Runs, NEW u \in Users, TakeFee(r, u)
    PROVE  LedgerTypeOK'
<1>1. CASE Fee = 0
  BY <1>1 DEF TakeFee, ledgerVars, LedgerTypeOK
<1>2. CASE Fee # 0
  <2>1. balance[u] \in 0..IntMax
    BY DEF LedgerTypeOK
  <2>2. balance[u] + (-Fee) \in 0..IntMax /\ -Fee \in Int
    BY <1>2, <2>1, FeeTyped, LedgerAssumption DEF TakeFee, Debit
  <2>3. "TELEGRAM" \in Kinds /\ r \in Refs \cup {NoRef}
    BY DigestAssumption
  <2> QED
    BY <1>2, <2>2, <2>3, PostTyped DEF TakeFee, Debit
<1> QED
  BY <1>1, <1>2

LEMMA CreditTyped ==
    ASSUME LedgerTypeOK, NEW u \in Users, NEW kind \in Kinds, NEW amount \in Nat,
           NEW ref \in Refs \cup {NoRef}, Credit(u, kind, amount, ref)
    PROVE  LedgerTypeOK'
<1>1. balance[u] \in 0..IntMax
  BY DEF LedgerTypeOK
<1>2. balance[u] + amount \in 0..IntMax
  BY <1>1, LedgerAssumption DEF Credit
<1> QED
  BY <1>2, PostTyped DEF Credit

(* A message that reaches a chat.                                          *)
LEMMA PutTyped ==
    ASSUME Inv, NEW r \in Runs, NEW u \in Users, NEW part \in Parts \cup {"warning"},
           Put(u, r, part)
    PROVE  inbox' \in [Users -> SUBSET Message]
<1> DEFINE m == [day |-> job[r].day, run |-> r, part |-> part]
<1>1. m \in Message
  BY DEF Inv, TypeOK, Job, Message
<1>2. inbox' = [inbox EXCEPT ![u] = @ \cup {m}]
  BY DEF Put
<1> HIDE DEF m
<1> QED
  BY <1>1, <1>2 DEF Inv, TypeOK

LEMMA JoinTyped ==
    ASSUME NEW s \in Seq(Parts), NEW t \in Seq(Parts)
    PROVE  s \o t \in Seq(Parts)
OBVIOUS

LEMMA PartsForTyped ==
    ASSUME NEW u, NEW sections, NEW voice
    PROVE  PartsFor(u, sections, voice) \in Seq(Parts)
<1> DEFINE a == IF "portfolio" \in sections
                THEN IF u \in Holders THEN <<"chart", "advice", "plan">> ELSE <<"summary", "plan">>
                ELSE << >>
           b == IF "news" \in sections THEN <<"text">> ELSE << >>
           c == IF "news" \in sections /\ voice THEN <<"voice">> ELSE << >>
<1>1. a \in Seq(Parts) /\ b \in Seq(Parts) /\ c \in Seq(Parts)
  <2>1. Parts # {} /\ {"chart", "advice", "summary", "plan", "text", "voice"} \subseteq Parts
    BY DEF Parts
  <2>2. <<"chart", "advice", "plan">> \in Seq(Parts) /\ <<"summary", "plan">> \in Seq(Parts)
    BY <2>1
  <2>3. <<"text">> \in Seq(Parts) /\ <<"voice">> \in Seq(Parts) /\ << >> \in Seq(Parts)
    BY <2>1
  <2> QED
    BY <2>2, <2>3
<1>2. PartsFor(u, sections, voice) = a \o b \o c
  BY DEF PartsFor
<1> HIDE DEF a, b, c
<1> QED
  BY <1>1, <1>2, JoinTyped

(* What is counted of a run is a number.                                   *)
LEMMA CountTyped ==
    ASSUME NEW S \in SUBSET Users
    PROVE  Cardinality(S) \in Nat
BY FS_Subset, FS_CardinalityType, DigestAssumption

LEMMA UpsertTyped ==
    ASSUME Inv, NEW d \in Days, NEW sent \in Nat, NEW failed \in Nat, Upsert(d, sent, failed)
    PROVE  log' \in [Days -> Counts]
<1> DEFINE row == [written |-> TRUE, sent |-> sent, failed |-> failed]
<1>1. row \in Counts
  BY DEF Counts
<1>2. log' = [log EXCEPT ![d] = row]
  BY DEF Upsert
<1> HIDE DEF row
<1> QED
  BY <1>1, <1>2 DEF Inv, TypeOK

LEMMA InitInv == Init => Inv
<1> SUFFICES ASSUME Init PROVE Inv
  OBVIOUS
<1>1. LedgerTypeOK
  <2>1. balance \in [Users -> 0..IntMax]
    <3>1. Opening \subseteq 0..IntMax
      BY DigestAssumption, LedgerAssumption
    <3> QED
      BY <3>1 DEF Init
  <2>2. ASSUME NEW u \in Users PROVE OpeningRows("ADMIN", balance[u]) \in Seq(TransactionRow)
    <3> DEFINE row == [kind |-> "ADMIN", amount |-> balance[u], after |-> balance[u], ref |-> NoRef]
    <3>1. balance[u] \in 0..IntMax /\ "ADMIN" \in Kinds
      BY <2>1, DigestAssumption
    <3>2. row \in TransactionRow
      BY <3>1 DEF TransactionRow
    <3>3. OpeningRows("ADMIN", balance[u]) = << >> \/ OpeningRows("ADMIN", balance[u]) = <<row>>
      BY DEF OpeningRows
    <3>4. << >> \in Seq(TransactionRow) /\ <<row>> \in Seq(TransactionRow)
      BY <3>2
    <3> QED
      BY <3>3, <3>4
  <2>3. ledger \in [Users -> Seq(TransactionRow)]
    BY <2>2 DEF Init
  <2> QED
    BY <2>1, <2>3 DEF LedgerTypeOK
<1>2. cfg \in Config /\ choice \in [Users -> SUBSET Sections]
  BY DigestAssumption DEF Init, Config
<1>3. log \in [Days -> Counts] /\ notices \subseteq Users \X Days /\ stored \subseteq Days
  BY DEF Init, Counts
<1>4. 1 \in Days
  BY DigestAssumption DEF Days
<1>5. clock \in [day: Days, minute: 0..(Minutes - 1)]
  <2>1. 0 \in 0..(Minutes - 1)
    BY DigestAssumption
  <2> QED
    BY <1>4, <2>1 DEF Init
<1>6. voiceTask \in [day: Days \cup {0}, state: {"none", "ready", "rejected"}]
  BY DEF Init, NoTask
<1> DEFINE fresh == [origin |-> "tick", force |-> FALSE, day |-> 1, queue |-> {},
                     choice |-> [u \in Users |-> {}], voice |-> FALSE, serving |-> Nobody,
                     todo |-> << >>, sent |-> {}, failed |-> {}]
<1>7. fresh \in Job
  <2>1. [u \in Users |-> {}] \in [Users -> SUBSET Sections] /\ << >> \in Seq(Parts)
    OBVIOUS
  <2> QED
    BY <1>4, <2>1 DEF Job
<1>8. job = [r \in Runs |-> fresh]
  BY DEF Init
<1>9. fresh.serving = Nobody /\ fresh.sent = {} /\ fresh.failed = {}
  OBVIOUS
<1> HIDE DEF fresh
<1>10. job \in [Runs -> Job] /\ at \in [Runs -> Places] /\ inbox \in [Users -> SUBSET Message]
  BY <1>7, <1>8 DEF Init, Places
<1>11. ASSUME NEW r \in Runs PROVE RunSound(r)
  <2>1. at[r] = "idle" /\ job[r] = fresh
    BY <1>8 DEF Init
  <2> QED
    BY <1>9, <2>1 DEF RunSound, AtUser
<1>12. ticked \in BOOLEAN /\ restarted \in BOOLEAN /\ busy \in BOOLEAN
  BY DEF Init
<1>13. TypeOK
  BY <1>1, <1>2, <1>3, <1>5, <1>6, <1>10, <1>12 DEF TypeOK
<1> QED
  BY <1>11, <1>13, InitFlag DEF Inv

(* Every step keeps the types and the locals sound, one lemma for each     *)
(* part of a run; FlagInv has been seen to.                                *)
LEMMA BeginSound ==
    ASSUME Inv, NEW r \in Runs, Begin(r)
    PROVE  TypeOK' /\ \A q \in Runs : RunSound(q)'
<1>1. CASE Tick(r)
  <2>1. at[r] \in {"idle", "asked"} /\ Deliver(r, "tick", FALSE)
    BY <1>1 DEF Tick
  <2>2. /\ job' \in [Runs -> Job] /\ at' \in [Runs -> Places]
        /\ \A q \in Runs : RunSound(q)'
        /\ busy' \in BOOLEAN
    BY <2>1, DeliverSound
  <2> QED
    BY <1>1, <2>2 DEF Tick, Inv, TypeOK, LedgerTypeOK, ledgerVars, rowVars
<1>2. CASE CatchUp(r)
  <2>1. CASE Deliver(r, "catchUp", FALSE)
    <3>1. /\ job' \in [Runs -> Job] /\ at' \in [Runs -> Places]
          /\ \A q \in Runs : RunSound(q)'
          /\ busy' \in BOOLEAN
      BY <1>2, <2>1, DeliverSound DEF CatchUp
    <3> QED
      BY <1>2, <3>1 DEF CatchUp, Inv, TypeOK, LedgerTypeOK, ledgerVars, rowVars
  <2>2. CASE UNCHANGED <<busy, at, job>>
    BY <1>2, <2>2, RunsRest DEF CatchUp, Inv, TypeOK, LedgerTypeOK, ledgerVars, rowVars
  <2> QED
    BY <1>2, <2>1, <2>2 DEF CatchUp
<1>3. ASSUME NEW force \in BOOLEAN, Ask(r, force)
      PROVE  TypeOK' /\ \A q \in Runs : RunSound(q)'
  <2> DEFINE new == [job[r] EXCEPT !.origin = "manual", !.force = force]
  <2>1. job[r] \in Job /\ RunSound(r) /\ at[r] = "idle"
    BY <1>3 DEF Ask, Inv, TypeOK
  <2>2. new \in Job /\ new.serving = Nobody /\ new.sent = {} /\ new.failed = {}
    BY <2>1 DEF Job, RunSound, Early
  <2>3. job' = [job EXCEPT ![r] = new] /\ Goto(r, "asked")
    BY <1>3 DEF Ask
  <2>4. "asked" \in Places /\ "asked" \notin AtUser
    BY DEF Places, AtUser
  <2> HIDE DEF new
  <2>5. /\ job' \in [Runs -> Job] /\ at' \in [Runs -> Places]
        /\ \A q \in Runs : RunSound(q)'
    BY <2>2, <2>3, <2>4, RunGoesOn
  <2> QED
    BY <1>3, <2>5 DEF Ask, Inv, TypeOK, LedgerTypeOK, ledgerVars, rowVars, clockVars
<1> QED
  BY <1>1, <1>2, <1>3 DEF Begin

(* From the launch of a run to its first user.                             *)
LEMMA PrepareSound ==
    ASSUME Inv, NEW r \in Runs,
           Launch(r) \/ Check(r) \/ ReadConfig(r) \/ ReadRecipients(r)
    PROVE  TypeOK' /\ \A q \in Runs : RunSound(q)'
<1>0. /\ UNCHANGED <<ledgerVars, rowVars, clockVars, voiceTask, inbox>>
      /\ job[r] \in Job /\ RunSound(r)
  BY DEF Launch, Check, ReadConfig, ReadRecipients, Inv, TypeOK
<1>1. ASSUME busy' \in BOOLEAN,
             job' \in [Runs -> Job], at' \in [Runs -> Places], \A q \in Runs : RunSound(q)'
      PROVE  TypeOK' /\ \A q \in Runs : RunSound(q)'
  BY <1>0, <1>1 DEF Inv, TypeOK, LedgerTypeOK, ledgerVars, rowVars, clockVars
<1>2. ASSUME at[r] \in Early, NEW p \in Early \cup {"next", "done"}, Goto(r, p),
             UNCHANGED job, busy' \in BOOLEAN
      PROVE  TypeOK' /\ \A q \in Runs : RunSound(q)'
  <2>1. p \in Places /\ p \notin AtUser
    BY DEF Early, Places, Inside, AtUser
  <2>2. job[r].serving = Nobody /\ job[r].sent = {} /\ job[r].failed = {}
    BY <1>0, <1>2 DEF RunSound
  <2> QED
    BY <1>1, <1>2, <2>1, <2>2, RunOnlyMoves
<1>3. CASE Launch(r)
  <2>1. at[r] = "asked" /\ at[r] \in {"idle", "asked"} /\ job[r].force \in BOOLEAN
    BY <1>0, <1>3 DEF Launch, Job
  <2>2. CASE Deliver(r, "manual", job[r].force)
    BY <1>1, <2>1, <2>2, DeliverSound
  <2>3. CASE Goto(r, "done") /\ UNCHANGED <<busy, job>>
    BY <1>2, <2>1, <2>3 DEF Early, Inv, TypeOK
  <2> QED
    BY <1>3, <2>2, <2>3 DEF Launch
<1>4. CASE Check(r)
  <2>1. at[r] \in Early /\ UNCHANGED job
    BY <1>4 DEF Check, Early
  <2>2. \E p \in {"done", "config"} : Goto(r, p) /\ busy' \in BOOLEAN
    BY <1>4 DEF Check, Finish, Inv, TypeOK
  <2> QED
    BY <1>2, <2>1, <2>2 DEF Early
<1>5. CASE ReadConfig(r)
  <2>1. at[r] \in Early /\ UNCHANGED job /\ busy' \in BOOLEAN
    BY <1>5 DEF ReadConfig, Early, Inv, TypeOK
  <2>2. \E p \in {"recipients", "skip"} : Goto(r, p)
    BY <1>5 DEF ReadConfig
  <2> QED
    BY <1>2, <2>1, <2>2 DEF Early
<1>6. CASE ReadRecipients(r)
  <2> DEFINE audience == {u \in Users : choice[u] # {}}
             new == [job[r] EXCEPT !.queue = audience, !.choice = choice]
  <2>1. at[r] \in Early /\ busy' \in BOOLEAN
    BY <1>6 DEF ReadRecipients, Early, Inv, TypeOK
  <2>2. PICK p \in {"skip", "voice", "next"} : Goto(r, p)
    BY <1>6 DEF ReadRecipients
  <2>3. audience \in SUBSET Users /\ choice \in [Users -> SUBSET Sections]
    BY DEF Inv, TypeOK
  <2>4. job' = [job EXCEPT ![r] = new]
    BY <1>6 DEF ReadRecipients
  <2> HIDE DEF audience
  <2>5. new \in Job /\ new.serving = Nobody /\ new.sent = {} /\ new.failed = {}
    BY <1>0, <2>1, <2>3 DEF Job, RunSound
  <2>6. p \in Places /\ p \notin AtUser
    BY DEF Places, Inside, AtUser
  <2> HIDE DEF new
  <2> QED
    BY <1>1, <2>1, <2>2, <2>4, <2>5, <2>6, RunGoesOn
<1> QED
  BY <1>3, <1>4, <1>5, <1>6

LEMMA VoiceSound ==
    ASSUME Inv, NEW r \in Runs, LoadVoice(r) \/ Speak(r) \/ VoiceFails(r)
    PROVE  TypeOK' /\ \A q \in Runs : RunSound(q)'
<1> DEFINE Task == [day: Days \cup {0}, state: {"none", "ready", "rejected"}]
<1>0. /\ UNCHANGED <<ledgerVars, cfg, choice, log, notices, clock, ticked, inbox>>
      /\ job[r] \in Job /\ job[r].day \in Days /\ RunSound(r) /\ at[r] \in Early
  BY DEF LoadVoice, Speak, VoiceFails, rowVars, clockVars, Inv, TypeOK, Job, Early
<1>1. ASSUME busy' \in BOOLEAN, restarted' \in BOOLEAN, voiceTask' \in Task, stored' \subseteq Days,
             job' \in [Runs -> Job], at' \in [Runs -> Places], \A q \in Runs : RunSound(q)'
      PROVE  TypeOK' /\ \A q \in Runs : RunSound(q)'
  BY <1>0, <1>1 DEF Inv, TypeOK, LedgerTypeOK, ledgerVars
<1>2. /\ job[r].serving = Nobody /\ job[r].sent = {} /\ job[r].failed = {}
      /\ [day |-> job[r].day, state |-> "ready"] \in Task
      /\ [day |-> job[r].day, state |-> "rejected"] \in Task
      /\ NoTask \in Task
  BY <1>0 DEF RunSound, NoTask
<1>3. /\ {"next", "speak", "abortLog", "aborted"} \subseteq Places
      /\ {"next", "speak", "abortLog", "aborted"} \cap AtUser = {}
  BY DEF Places, Inside, AtUser
<1> DEFINE new == [job[r] EXCEPT !.voice = TRUE]
<1>4. new \in Job /\ new.serving = Nobody /\ new.sent = {} /\ new.failed = {}
  BY <1>0, <1>2 DEF Job
<1>5. ASSUME NEW p \in {"next", "speak"}, Goto(r, p), job' = [job EXCEPT ![r].voice = TRUE] \/ UNCHANGED job,
             UNCHANGED <<busy, restarted>>, voiceTask' \in Task, stored' \subseteq Days
      PROVE  TypeOK' /\ \A q \in Runs : RunSound(q)'
  <2>1. UNCHANGED job \/ job' = [job EXCEPT ![r] = new]
    BY <1>5
  <2> HIDE DEF new
  <2>2. /\ job' \in [Runs -> Job] /\ at' \in [Runs -> Places]
        /\ \A q \in Runs : RunSound(q)'
    BY <1>2, <1>3, <1>4, <1>5, <2>1, RunGoesOn, RunOnlyMoves
  <2> QED
    BY <1>1, <1>5, <2>2 DEF Inv, TypeOK
<1>6. CASE LoadVoice(r)
  <2>1. stored' \subseteq Days
    BY <1>6 DEF LoadVoice, rowVars, Inv, TypeOK
  <2>2. CASE Throws(r) /\ UNCHANGED job
    BY <1>1, <2>1, <2>2, ThrowsSound
  <2>3. CASE ~(Throws(r) /\ UNCHANGED job)
    <3>1. /\ \E p \in {"next", "speak"} : Goto(r, p)
          /\ job' = [job EXCEPT ![r].voice = TRUE] \/ UNCHANGED job
          /\ UNCHANGED <<busy, restarted>>
          /\ voiceTask' = [day |-> job[r].day, state |-> "ready"] \/ UNCHANGED voiceTask
      BY <1>6, <2>3 DEF LoadVoice
    <3>2. voiceTask' \in Task
      BY <1>2, <3>1 DEF Inv, TypeOK
    <3> QED
      BY <1>5, <2>1, <3>1, <3>2
  <2> QED
    BY <2>2, <2>3
<1>7. CASE Speak(r)
  <2>1. /\ Goto(r, "next") /\ UNCHANGED <<busy, restarted>>
        /\ job' = [job EXCEPT ![r].voice = TRUE] \/ UNCHANGED job
        /\ voiceTask' = [day |-> job[r].day, state |-> "ready"] \/ voiceTask' = NoTask
        /\ stored' = stored \cup {job[r].day} \/ UNCHANGED stored
    BY <1>7 DEF Speak, clockVars
  <2>2. voiceTask' \in Task /\ stored' \subseteq Days
    BY <1>0, <1>2, <2>1 DEF Inv, TypeOK
  <2> QED
    BY <1>5, <2>1, <2>2
<1>8. CASE VoiceFails(r)
  <2>1. stored' \subseteq Days /\ UNCHANGED job
    BY <1>8 DEF VoiceFails, rowVars, Inv, TypeOK
  <2>2. CASE Restart
    BY <1>1, <2>1, <2>2, RestartSound
  <2>3. CASE ~Restart
    <3>1. PICK p \in {"abortLog", "aborted"} : Finish(r, p)
      BY <1>8, <2>3 DEF VoiceFails
    <3>2. voiceTask' \in Task /\ restarted' \in BOOLEAN
      BY <1>2, <1>8, <2>3 DEF VoiceFails, Inv, TypeOK
    <3>3. p \notin Early \cup {"next", "log", "done"}
      BY DEF Early
    <3>4. /\ job' \in [Runs -> Job] /\ at' \in [Runs -> Places]
          /\ \A q \in Runs : RunSound(q)'
      BY <1>3, <2>1, <3>1, <3>3, RunOnlyMoves DEF Finish
    <3> QED
      BY <1>1, <2>1, <3>1, <3>2, <3>4 DEF Finish
  <2> QED
    BY <2>2, <2>3
<1> QED
  BY <1>6, <1>7, <1>8

(* The loop over the users: the charge, the warning, the messages.         *)
LEMMA LoopSound ==
    ASSUME Inv, NEW r \in Runs,
           \/ \E u \in Users : ChargeNext(r, u)
           \/ ClaimNotice(r) \/ Warn(r)
           \/ SendPart(r) \/ PartFails(r) \/ BriefingFails(r) \/ Delivered(r) \/ LoopEnds(r)
    PROVE  TypeOK' /\ \A q \in Runs : RunSound(q)'
<1>0. /\ UNCHANGED <<cfg, choice, log, stored, clockVars, busy, voiceTask>>
      /\ job[r] \in Job /\ RunSound(r)
  BY DEF ChargeNext, ClaimNotice, Warn, SendPart, PartFails, BriefingFails, Delivered, LoopEnds,
         rowVars, Inv, TypeOK
<1>1. ASSUME LedgerTypeOK', notices' \subseteq Users \X Days, inbox' \in [Users -> SUBSET Message],
             job' \in [Runs -> Job], at' \in [Runs -> Places], \A q \in Runs : RunSound(q)'
      PROVE  TypeOK' /\ \A q \in Runs : RunSound(q)'
  BY <1>0, <1>1 DEF Inv, TypeOK, clockVars
<1>2. UNCHANGED ledgerVars => LedgerTypeOK'
  BY DEF Inv, TypeOK, LedgerTypeOK, ledgerVars
<1>3. /\ UNCHANGED notices => notices' \subseteq Users \X Days
      /\ UNCHANGED inbox => inbox' \in [Users -> SUBSET Message]
  BY DEF Inv, TypeOK
<1>4. /\ {"next", "log", "send", "notice", "warn", "refund"} \subseteq Places
      /\ {"next", "log"} \cap AtUser = {}
      /\ {"send", "notice", "warn", "refund"} \cap (Early \cup {"next", "log", "done"}) = {}
      /\ {"next", "log"} \cap Early = {}
  BY DEF Places, Inside, AtUser, Early
<1>5. at[r] \in AtUser => job[r].serving \in Users /\ job[r].day \in Days
  BY <1>0 DEF RunSound, Job
<1>6. ASSUME NEW u \in Users, ChargeNext(r, u)
      PROVE  TypeOK' /\ \A q \in Runs : RunSound(q)'
  <2>1. PICK p \in {"send", "notice"}, todo \in Seq(Parts) :
          /\ Goto(r, p)
          /\ job' = [job EXCEPT ![r].queue = @ \ {u}, ![r].serving = u, ![r].todo = todo]
    <3>1. job[r].todo \in Seq(Parts)
      BY <1>0 DEF Job
    <3>2. CASE /\ Goto(r, "send")
               /\ job' = [job EXCEPT ![r].queue = @ \ {u}, ![r].serving = u,
                             ![r].todo = PartsFor(u, job[r].choice[u], job[r].voice)]
      BY <3>2, PartsForTyped
    <3>3. CASE /\ Goto(r, "notice")
               /\ job' = [job EXCEPT ![r].queue = @ \ {u}, ![r].serving = u]
      <4>1. job' = [job EXCEPT ![r].queue = @ \ {u}, ![r].serving = u, ![r].todo = job[r].todo]
        BY <1>0, <3>3 DEF Job
      <4> QED
        BY <3>1, <3>3, <4>1
    <3> QED
      BY <1>6, <3>2, <3>3 DEF ChargeNext
  <2> DEFINE new == [job[r] EXCEPT !.queue = @ \ {u}, !.serving = u, !.todo = todo]
  <2>2. new \in Job /\ new.serving = u
    BY <1>0 DEF Job
  <2>3. job' = [job EXCEPT ![r] = new]
    BY <2>1
  <2>4. LedgerTypeOK' /\ UNCHANGED <<notices, inbox>>
    BY <1>2, <1>6, TakeFeeTyped DEF ChargeNext, rowVars, Inv, TypeOK
  <2> HIDE DEF new
  <2> QED
    BY <1>1, <1>3, <1>4, <2>1, <2>2, <2>3, <2>4, RunGoesOn
<1>7. CASE ClaimNotice(r)
  <2> DEFINE new == [job[r] EXCEPT !.serving = Nobody]
  <2>1. at[r] \in AtUser
    BY <1>7 DEF ClaimNotice, AtUser
  <2>2. new \in Job /\ new.serving = Nobody
    BY <1>0 DEF Job
  <2>3. \/ UNCHANGED job /\ Goto(r, "warn")
        \/ job' = [job EXCEPT ![r] = new] /\ Goto(r, "next")
    BY <1>7 DEF ClaimNotice
  <2>4. notices' \subseteq Users \X Days
    BY <1>5, <1>7, <2>1 DEF ClaimNotice, Inv, TypeOK
  <2>5. UNCHANGED <<ledgerVars, inbox>>
    BY <1>7 DEF ClaimNotice
  <2> HIDE DEF new
  <2> QED
    BY <1>1, <1>2, <1>3, <1>4, <1>5, <2>1, <2>2, <2>3, <2>4, <2>5, RunGoesOn, RunOnlyMoves
<1>8. CASE Warn(r)
  <2> DEFINE new == [job[r] EXCEPT !.serving = Nobody]
  <2>1. job[r].serving \in Users
    BY <1>5, <1>8 DEF Warn, AtUser
  <2>2. new \in Job /\ new.serving = Nobody
    BY <1>0 DEF Job
  <2>3. job' = [job EXCEPT ![r] = new] /\ Goto(r, "next") /\ UNCHANGED <<ledgerVars, notices>>
    BY <1>8 DEF Warn, rowVars
  <2>4. inbox' \in [Users -> SUBSET Message]
    BY <1>3, <1>8, <2>1, PutTyped DEF Warn
  <2> HIDE DEF new
  <2> QED
    BY <1>1, <1>2, <1>3, <1>4, <2>2, <2>3, <2>4, RunGoesOn
<1>9. ASSUME at[r] = "send", job[r].todo # << >>
      PROVE  Head(job[r].todo) \in Parts /\ Tail(job[r].todo) \in Seq(Parts)
  BY <1>0, <1>9 DEF Job
<1>10. ASSUME at[r] = "send", NEW todo \in Seq(Parts), job' = [job EXCEPT ![r].todo = todo],
              UNCHANGED at \/ Goto(r, "refund"),
              UNCHANGED <<ledgerVars, notices>>, inbox' \in [Users -> SUBSET Message]
       PROVE  TypeOK' /\ \A q \in Runs : RunSound(q)'
  <2> DEFINE new == [job[r] EXCEPT !.todo = todo]
  <2>1. job[r].serving \in Users
    BY <1>5, <1>10 DEF AtUser
  <2>2. new \in Job /\ new.serving \in Users
    BY <1>0, <2>1 DEF Job
  <2>3. job' = [job EXCEPT ![r] = new]
    BY <1>10
  <2> HIDE DEF new
  <2> QED
    BY <1>1, <1>2, <1>3, <1>4, <1>10, <2>2, <2>3, RunGoesOn, RunWorks
<1>11. CASE SendPart(r)
  <2>1. /\ at[r] = "send" /\ job[r].todo # << >>
        /\ job' = [job EXCEPT ![r].todo = Tail(job[r].todo)] /\ UNCHANGED at
        /\ Put(job[r].serving, r, Head(job[r].todo))
        /\ UNCHANGED <<ledgerVars, notices>>
    BY <1>11 DEF SendPart, rowVars
  <2>2. inbox' \in [Users -> SUBSET Message]
    BY <1>5, <1>9, <2>1, PutTyped DEF AtUser
  <2> QED
    BY <1>9, <1>10, <2>1, <2>2
<1>12. CASE PartFails(r)
  <2> DEFINE part == Head(job[r].todo)
             rest == Tail(job[r].todo)
             left == CASE part = "chart"     -> <<"caption">> \o rest
                       [] part \in Optional -> rest
                       [] OTHER              -> << >>
  <2>1. at[r] = "send" /\ job[r].todo # << >> /\ part \in Parts /\ rest \in Seq(Parts)
    BY <1>9, <1>12 DEF PartFails
  <2>2. left \in Seq(Parts)
    <3>1. <<"caption">> \in Seq(Parts) /\ << >> \in Seq(Parts)
      BY DEF Parts
    <3>2. <<"caption">> \o rest \in Seq(Parts)
      BY <2>1, <3>1, JoinTyped
    <3> QED
      BY <2>1, <3>1, <3>2
  <2>3. /\ job' = [job EXCEPT ![r].todo = left]
        /\ UNCHANGED at \/ Goto(r, "refund")
        /\ UNCHANGED <<ledgerVars, notices>>
        /\ UNCHANGED inbox \/ Put(job[r].serving, r, part)
    BY <1>12 DEF PartFails, rowVars
  <2>4. inbox' \in [Users -> SUBSET Message]
    BY <1>3, <1>5, <2>1, <2>3, PutTyped DEF AtUser
  <2> HIDE DEF left
  <2> QED
    BY <1>10, <2>1, <2>2, <2>3, <2>4
<1>13. CASE BriefingFails(r)
  <2>1. /\ at[r] = "send" /\ << >> \in Seq(Parts)
        /\ job' = [job EXCEPT ![r].todo = << >>] /\ Goto(r, "refund")
        /\ UNCHANGED <<ledgerVars, notices, inbox>>
    BY <1>13 DEF BriefingFails, rowVars
  <2> QED
    BY <1>3, <1>10, <2>1
<1>14. CASE Delivered(r)
  <2> DEFINE new == [job[r] EXCEPT !.sent = @ \cup {job[r].serving}, !.serving = Nobody]
  <2>1. job[r].serving \in Users
    BY <1>5, <1>14 DEF Delivered, AtUser
  <2>2. new \in Job /\ new.serving = Nobody
    BY <1>0, <2>1 DEF Job
  <2>3. job' = [job EXCEPT ![r] = new] /\ Goto(r, "next") /\ UNCHANGED <<ledgerVars, notices, inbox>>
    BY <1>14 DEF Delivered, rowVars
  <2> HIDE DEF new
  <2> QED
    BY <1>1, <1>2, <1>3, <1>4, <2>2, <2>3, RunGoesOn
<1>15. CASE LoopEnds(r)
  <2>1. UNCHANGED <<ledgerVars, notices, inbox, job>> /\ Goto(r, "log") /\ job[r].serving = Nobody
    BY <1>0, <1>15 DEF LoopEnds, rowVars, RunSound
  <2> QED
    BY <1>1, <1>2, <1>3, <1>4, <2>1, RunOnlyMoves
<1> QED
  BY <1>6, <1>7, <1>8, <1>11, <1>12, <1>13, <1>14, <1>15

LEMMA RefundSound ==
    ASSUME Inv, NEW r \in Runs, Refund(r) \/ StatementFails(r)
    PROVE  TypeOK' /\ \A q \in Runs : RunSound(q)'
<1>0. UNCHANGED <<rowVars, clock, ticked, inbox>>
  BY DEF Refund, StatementFails
<1>1. ASSUME LedgerTypeOK', busy' \in BOOLEAN, restarted' \in BOOLEAN,
             voiceTask' \in [day: Days \cup {0}, state: {"none", "ready", "rejected"}],
             job' \in [Runs -> Job], at' \in [Runs -> Places], \A q \in Runs : RunSound(q)'
      PROVE  TypeOK' /\ \A q \in Runs : RunSound(q)'
  BY <1>0, <1>1 DEF Inv, TypeOK, rowVars
<1>2. CASE Throws(r) /\ UNCHANGED ledgerVars /\ UNCHANGED job
  <2>1. LedgerTypeOK'
    BY <1>2 DEF Inv, TypeOK, LedgerTypeOK, ledgerVars
  <2> QED
    BY <1>1, <1>2, <2>1, ThrowsSound
<1>3. CASE /\ at[r] = "refund"
           /\ IF Fee = 0 THEN UNCHANGED ledgerVars ELSE Credit(job[r].serving, "REFUND", Fee, r)
           /\ job' = [job EXCEPT ![r].failed = @ \cup {job[r].serving}, ![r].serving = Nobody]
           /\ Goto(r, "next")
           /\ UNCHANGED <<busy, voiceTask, restarted>>
  <2> DEFINE new == [job[r] EXCEPT !.failed = @ \cup {job[r].serving}, !.serving = Nobody]
  <2>1. job[r] \in Job /\ job[r].serving \in Users
    BY <1>3 DEF Inv, TypeOK, RunSound, AtUser
  <2>2. new \in Job /\ new.serving = Nobody
    BY <2>1 DEF Job
  <2>3. job' = [job EXCEPT ![r] = new]
    BY <1>3
  <2>4. LedgerTypeOK'
    <3>1. CASE Fee = 0
      BY <1>3, <3>1 DEF Inv, TypeOK, LedgerTypeOK, ledgerVars
    <3>2. CASE Fee # 0
      <4>1. "REFUND" \in Kinds /\ r \in Refs \cup {NoRef}
        BY DigestAssumption
      <4> QED
        BY <1>3, <2>1, <3>2, <4>1, FeeTyped, CreditTyped DEF Inv, TypeOK
    <3> QED
      BY <3>1, <3>2
  <2>5. "next" \in Places /\ "next" \notin AtUser /\ "next" \notin Early
    BY DEF Places, Inside, AtUser, Early
  <2> HIDE DEF new
  <2>6. /\ job' \in [Runs -> Job] /\ at' \in [Runs -> Places]
        /\ \A q \in Runs : RunSound(q)'
    BY <1>3, <2>2, <2>3, <2>5, RunGoesOn
  <2> QED
    BY <1>1, <1>3, <2>4, <2>6 DEF Inv, TypeOK
<1> QED
  BY <1>2, <1>3 DEF Refund, StatementFails

LEMMA LogSound ==
    ASSUME Inv, NEW r \in Runs, WriteLog(r) \/ WriteSkip(r) \/ WriteAbortLog(r)
    PROVE  TypeOK' /\ \A q \in Runs : RunSound(q)'
<1>0. /\ UNCHANGED <<ledgerVars, cfg, choice, notices, stored, clockVars, voiceTask, job, inbox>>
      /\ job[r] \in Job /\ RunSound(r) /\ clock.day \in Days /\ busy' \in BOOLEAN
  BY DEF WriteLog, WriteSkip, WriteAbortLog, Finish, Inv, TypeOK
<1>1. log' \in [Days -> Counts]
  <2>1. job[r].day \in Days /\ job[r].sent \in SUBSET Users /\ job[r].failed \in SUBSET Users
    BY <1>0 DEF Job
  <2>2. Cardinality(job[r].sent) \in Nat /\ Cardinality(job[r].failed) \in Nat /\ 0 \in Nat
    BY <2>1, CountTyped
  <2>3. UNCHANGED log => log' \in [Days -> Counts]
    BY DEF Inv, TypeOK
  <2> QED
    BY <1>0, <2>1, <2>2, <2>3, UpsertTyped DEF WriteLog, WriteSkip, WriteAbortLog
<1>2. PICK p \in {"done", "aborted"} : Goto(r, p) /\ (p = "done" => job[r].serving = Nobody)
  BY <1>0 DEF WriteLog, WriteSkip, WriteAbortLog, Finish, RunSound, Early
<1>3. p \in Places /\ p \notin AtUser /\ p \notin Early
  BY DEF Places, AtUser, Early
<1>4. /\ job' \in [Runs -> Job] /\ at' \in [Runs -> Places]
      /\ \A q \in Runs : RunSound(q)'
  BY <1>0, <1>2, <1>3, RunOnlyMoves
<1> QED
  BY <1>0, <1>1, <1>4 DEF Inv, TypeOK, LedgerTypeOK, ledgerVars, clockVars

LEMMA EnvironmentSound ==
    ASSUME Inv, Environment
    PROVE  TypeOK' /\ \A q \in Runs : RunSound(q)'
<1>1. CASE Crash
  BY <1>1, RestartSound DEF Crash, Inv, TypeOK, LedgerTypeOK, ledgerVars, rowVars
<1>2. CASE Minute
  <2>1. clock' \in [day: Days, minute: 0..(Minutes - 1)]
    <3>1. clock \in [day: Days, minute: 0..(Minutes - 1)] /\ Minutes \in Nat \ {0}
      BY DigestAssumption DEF Inv, TypeOK
    <3>2. CASE clock.minute + 1 < Minutes /\ clock' = [clock EXCEPT !.minute = @ + 1]
      BY <3>1, <3>2
    <3>3. CASE clock.day < LastDay /\ clock' = [day |-> clock.day + 1, minute |-> 0]
      <4>1. clock.day + 1 \in Days /\ 0 \in 0..(Minutes - 1)
        BY <3>1, <3>3, DigestAssumption DEF Days
      <4> QED
        BY <3>3, <4>1
    <3> QED
      BY <1>2, <3>2, <3>3 DEF Minute
  <2> QED
    BY <1>2, <2>1, RunsRest DEF Minute, Inv, TypeOK, LedgerTypeOK, ledgerVars, rowVars, runVars
<1>3. ASSUME NEW new \in Configs, SaveConfig(new)
      PROVE  TypeOK' /\ \A q \in Runs : RunSound(q)'
  BY <1>3, RunsRest, DigestAssumption
     DEF SaveConfig, Inv, TypeOK, Config, LedgerTypeOK, ledgerVars, clockVars, runVars
<1>4. ASSUME NEW u \in Users, NEW sections \in Choices, Choose(u, sections)
      PROVE  TypeOK' /\ \A q \in Runs : RunSound(q)'
  <2>1. choice' \in [Users -> SUBSET Sections]
    BY <1>4, DigestAssumption DEF Choose, Inv, TypeOK
  <2> QED
    BY <1>4, <2>1, RunsRest DEF Choose, Inv, TypeOK, LedgerTypeOK, ledgerVars, clockVars, runVars
<1>5. ASSUME NEW u \in Users, NEW amount \in Amounts, AdminCredit(u, amount)
      PROVE  TypeOK' /\ \A q \in Runs : RunSound(q)'
  <2>1. amount \in Nat /\ "ADMIN" \in Kinds /\ NoRef \in Refs \cup {NoRef}
    BY DigestAssumption, LedgerAssumption
  <2>2. LedgerTypeOK'
    BY <1>5, <2>1, CreditTyped DEF AdminCredit, Inv, TypeOK
  <2> QED
    BY <1>5, <2>2, RunsRest DEF AdminCredit, Inv, TypeOK, rowVars, clockVars, runVars
<1> QED
  BY <1>1, <1>2, <1>3, <1>4, <1>5 DEF Environment

LEMMA StepInv == Inv /\ [Next]_vars => Inv'
<1> SUFFICES ASSUME Inv, [Next]_vars PROVE Inv'
  OBVIOUS
<1>0. FlagInv'
  BY StepFlag DEF Inv
<1>1. ASSUME NEW r \in Runs, Begin(r) \/ Continue(r) \/ VoiceFails(r) \/ StatementFails(r)
      PROVE  TypeOK' /\ \A q \in Runs : RunSound(q)'
  BY <1>1, BeginSound, PrepareSound, VoiceSound, LoopSound, RefundSound, LogSound DEF Continue
<1>2. ASSUME Environment PROVE TypeOK' /\ \A q \in Runs : RunSound(q)'
  BY <1>2, EnvironmentSound
<1>3. ASSUME UNCHANGED vars PROVE TypeOK' /\ \A q \in Runs : RunSound(q)'
  BY <1>3, RunsRest
     DEF Inv, TypeOK, LedgerTypeOK, vars, ledgerVars, rowVars, clockVars, runVars
<1> QED
  BY <1>0, <1>1, <1>2, <1>3 DEF Next, Inv

LEMMA AlwaysInv == Spec => []Inv
BY InitInv, StepInv, PTL DEF Spec

(* The rows, the clock, the locals of the runs and the chats have their    *)
(* types in every behaviour; no wallet is ever negative.                   *)
THEOREM DigestTypeOK == Spec => []TypeOK
<1>1. Inv => TypeOK
  BY DEF Inv
<1> QED
  BY <1>1, AlwaysInv, PTL

----------------------------------------------------------------------------
(* A warning's row is there before the warning; while a run is about to    *)
(* send it, nobody has.                                                    *)
Warnings(u, d) == {m \in inbox[u] : m.part = "warning" /\ m.day = d}
WarningsClaimed ==
    /\ \A u \in Users, d \in Days : Warnings(u, d) # {} => <<u, d>> \in notices
    /\ \A r \in Runs, u \in Users, d \in Days :
          at[r] = "warn" /\ u = job[r].serving /\ d = job[r].day =>
              <<u, d>> \in notices /\ Warnings(u, d) = {}

DayInv == DayIsAccountedFor /\ WarningsClaimed

(* A run inside deliverToday is the only one there.                        *)
LEMMA OthersAreOutside ==
    ASSUME Inv, NEW r \in Runs, Active(r), NEW q \in Runs, Active(q)
    PROVE  q = r
BY DEF Inv, FlagInv, OneRunAtATime

(* What a step of a run leaves alone: the other runs, but for a restart;   *)
(* the day and the force of a run that was launched, its choices once they *)
(* are read; whom it has served, and what has arrived.                     *)
StepOf(r) == Begin(r) \/ Continue(r) \/ VoiceFails(r) \/ StatementFails(r)

Effects(r) ==
    /\ \A q \in Runs : q # r => job'[q] = job[q] /\ at'[q] \in {at[q], "gone"}
    /\ (job'[r].day = job[r].day /\ job'[r].force = job[r].force) \/ at[r] \in {"idle", "asked"}
    /\ job'[r].choice = job[r].choice \/ at[r] = "recipients"
    /\ at[r] \in Early => job'[r].serving = job[r].serving
    /\ \/ job'[r].sent = job[r].sent
       \/ Delivered(r) /\ job'[r].sent = job[r].sent \cup {job[r].serving}
    /\ \A u \in Users : inbox[u] \subseteq inbox'[u]

LEMMA PlacesAfterRestart ==
    ASSUME Inv, Restart, NEW q \in Runs
    PROVE  at'[q] \in {at[q], "gone"}
BY DEF Restart

LEMMA PlacesAfterGoto ==
    ASSUME Inv, NEW r \in Runs, NEW p, Goto(r, p), NEW q \in Runs, q # r
    PROVE  at'[q] = at[q]
BY DEF Goto, Inv, TypeOK

LEMMA PlacesAfterThrows ==
    ASSUME Inv, NEW r \in Runs, Throws(r), NEW q \in Runs, q # r
    PROVE  at'[q] \in {at[q], "gone"}
BY PlacesAfterRestart, PlacesAfterGoto DEF Throws, Finish

LEMMA ChatsGrow ==
    ASSUME Inv, NEW r, NEW v, NEW part, Put(v, r, part) \/ UNCHANGED inbox
    PROVE  \A u \in Users : inbox[u] \subseteq inbox'[u]
BY DEF Put, Inv, TypeOK

LEMMA StepEffects ==
    ASSUME Inv, NEW r \in Runs, StepOf(r)
    PROVE  Effects(r)
<1>0. job \in [Runs -> Job] /\ job[r] \in Job
  BY DEF Inv, TypeOK
<1>1. ASSUME NEW q \in Runs, q # r PROVE at'[q] \in {at[q], "gone"}
  BY <1>1, PlacesAfterRestart, PlacesAfterGoto, PlacesAfterThrows
     DEF StepOf, Begin, Tick, CatchUp, Ask, Deliver, Continue, Launch, Check, Finish, ReadConfig,
         ReadRecipients, LoadVoice, Speak, ChargeNext, ClaimNotice, Warn, SendPart, PartFails,
         BriefingFails, Delivered, Refund, LoopEnds, WriteLog, WriteSkip, WriteAbortLog,
         VoiceFails, StatementFails
<1>2. \A u \in Users : inbox[u] \subseteq inbox'[u]
  BY ChatsGrow
     DEF StepOf, Begin, Tick, CatchUp, Ask, Continue, Launch, Check, ReadConfig,
         ReadRecipients, LoadVoice, Speak, ChargeNext, ClaimNotice, Warn, SendPart, PartFails,
         BriefingFails, Delivered, Refund, LoopEnds, WriteLog, WriteSkip, WriteAbortLog,
         VoiceFails, StatementFails
<1> DEFINE Locals ==
      /\ \A q \in Runs : q # r => job'[q] = job[q]
      /\ (job'[r].day = job[r].day /\ job'[r].force = job[r].force) \/ at[r] \in {"idle", "asked"}
      /\ job'[r].choice = job[r].choice \/ at[r] = "recipients"
      /\ at[r] \in Early => job'[r].serving = job[r].serving
      /\ \/ job'[r].sent = job[r].sent
         \/ Delivered(r) /\ job'[r].sent = job[r].sent \cup {job[r].serving}
<1>3. ASSUME UNCHANGED job PROVE Locals
  BY <1>3
<1>4. ASSUME NEW origin \in {"tick", "catchUp", "manual"}, NEW force \in BOOLEAN, at[r] \in {"idle", "asked"}, Deliver(r, origin, force)
      PROVE  Locals
  BY <1>0, <1>4 DEF Deliver, Job
<1>4a. ASSUME NEW new \in Job, job' = [job EXCEPT ![r] = new],
              (new.day = job[r].day /\ new.force = job[r].force) \/ at[r] \in {"idle", "asked"},
              new.choice = job[r].choice, new.sent = job[r].sent,
              at[r] \in Early => new.serving = job[r].serving
       PROVE  Locals
  BY <1>0, <1>4a
<1>5. ASSUME Begin(r) PROVE Locals
  <2>1. ASSUME NEW force \in BOOLEAN, Ask(r, force) PROVE Locals
    <3> DEFINE new == [job[r] EXCEPT !.origin = "manual", !.force = force]
    <3>1. /\ new \in Job /\ new.choice = job[r].choice /\ new.sent = job[r].sent
          /\ new.serving = job[r].serving
      BY <1>0 DEF Job
    <3>2. job' = [job EXCEPT ![r] = new] /\ at[r] \in {"idle", "asked"}
      BY <2>1 DEF Ask
    <3> HIDE DEF new, Locals
    <3> QED
      BY <1>4a, <3>1, <3>2
  <2>2. \/ UNCHANGED job
        \/ at[r] \in {"idle", "asked"} /\ Deliver(r, "tick", FALSE)
        \/ at[r] \in {"idle", "asked"} /\ Deliver(r, "catchUp", FALSE)
        \/ \E force \in BOOLEAN : Ask(r, force)
    BY <1>5 DEF Begin, Tick, CatchUp
  <2> HIDE DEF Locals
  <2>3. CASE at[r] \in {"idle", "asked"} /\ Deliver(r, "tick", FALSE)
    BY <1>4, <2>3
  <2>4. CASE at[r] \in {"idle", "asked"} /\ Deliver(r, "catchUp", FALSE)
    BY <1>4, <2>4
  <2> QED
    BY <1>3, <2>1, <2>2, <2>3, <2>4
<1>6. ASSUME Launch(r) \/ Check(r) \/ ReadConfig(r) PROVE Locals
  <2>1. job[r].force \in BOOLEAN
    BY <1>0 DEF Job
  <2>2. \/ UNCHANGED job
        \/ at[r] \in {"idle", "asked"} /\ Deliver(r, "manual", job[r].force)
    BY <1>6 DEF Launch, Check, ReadConfig
  <2> HIDE DEF Locals
  <2> QED
    BY <1>3, <1>4, <2>1, <2>2
<1>7. ASSUME ReadRecipients(r) PROVE Locals
  BY <1>0, <1>7 DEF ReadRecipients, Job
<1>8. ASSUME LoadVoice(r) \/ Speak(r) \/ VoiceFails(r) PROVE Locals
  BY <1>0, <1>3, <1>8 DEF LoadVoice, Speak, VoiceFails, Job
<1>9. ASSUME NEW u \in Users, ChargeNext(r, u) PROVE Locals
  <2> DEFINE paid == [job[r] EXCEPT !.queue = @ \ {u}, !.serving = u,
                                    !.todo = PartsFor(u, job[r].choice[u], job[r].voice)]
             poor == [job[r] EXCEPT !.queue = @ \ {u}, !.serving = u]
  <2>1. /\ paid \in Job /\ paid.choice = job[r].choice /\ paid.sent = job[r].sent
        /\ paid.day = job[r].day /\ paid.force = job[r].force
    BY <1>0, PartsForTyped DEF Job
  <2>2. /\ poor \in Job /\ poor.choice = job[r].choice /\ poor.sent = job[r].sent
        /\ poor.day = job[r].day /\ poor.force = job[r].force
    BY <1>0 DEF Job
  <2>3. job' = [job EXCEPT ![r] = paid] \/ job' = [job EXCEPT ![r] = poor]
    BY <1>9 DEF ChargeNext
  <2>4. at[r] \notin Early
    BY <1>9 DEF ChargeNext, Early
  <2> HIDE DEF paid, poor, Locals
  <2> QED
    BY <1>4a, <2>1, <2>2, <2>3, <2>4
<1>10. ASSUME ClaimNotice(r) \/ Warn(r) PROVE Locals
  <2> DEFINE new == [job[r] EXCEPT !.serving = Nobody]
  <2>1. /\ new \in Job /\ new.choice = job[r].choice /\ new.sent = job[r].sent
        /\ new.day = job[r].day /\ new.force = job[r].force
    BY <1>0 DEF Job
  <2>2. UNCHANGED job \/ job' = [job EXCEPT ![r] = new]
    BY <1>10 DEF ClaimNotice, Warn
  <2>3. at[r] \notin Early
    BY <1>10 DEF ClaimNotice, Warn, Early
  <2> HIDE DEF new, Locals
  <2> QED
    BY <1>3, <1>4a, <2>1, <2>2, <2>3
<1>11. ASSUME SendPart(r) \/ PartFails(r) \/ BriefingFails(r) PROVE Locals
  BY <1>0, <1>11 DEF SendPart, PartFails, BriefingFails, Early, Job
<1>12. ASSUME Delivered(r) \/ Refund(r) PROVE Locals
  <2>1. at[r] \notin Early
    BY <1>12 DEF Delivered, Refund, Early
  <2>2. CASE Delivered(r)
    BY <1>0, <2>1, <2>2 DEF Delivered, Job
  <2>3. CASE Refund(r)
    BY <1>0, <1>3, <2>1, <2>3 DEF Refund, Job
  <2> QED
    BY <1>12, <2>2, <2>3
<1>13. ASSUME LoopEnds(r) \/ WriteLog(r) \/ WriteSkip(r) \/ WriteAbortLog(r) \/ StatementFails(r) PROVE Locals
  BY <1>3, <1>13 DEF LoopEnds, WriteLog, WriteSkip, WriteAbortLog, StatementFails
<1>14. Locals
  <2> HIDE DEF Locals
  <2> QED
    BY <1>5, <1>6, <1>7, <1>8, <1>9, <1>10, <1>11, <1>12, <1>13 DEF StepOf, Continue
<1> QED
  BY <1>1, <1>2, <1>14 DEF Effects

(* Who writes the log, and what.                                           *)
LEMMA LogWriters ==
    ASSUME Inv, NEW r \in Runs, StepOf(r)
    PROVE  \/ UNCHANGED log
           \/ Active(r) /\ at'[r] = "done" /\ Upsert(job[r].day, Cardinality(job[r].sent), Cardinality(job[r].failed))
           \/ Active(r) /\ at'[r] = "done" /\ Upsert(job[r].day, 0, 0)
           \/ at'[r] = "aborted" /\ Upsert(clock.day, 0, 0)
<1>0. at \in [Runs -> Places]
  BY DEF Inv, TypeOK
<1>1. ASSUME WriteLog(r) PROVE Active(r) /\ at'[r] = "done"
  BY <1>0, <1>1 DEF WriteLog, Finish, Goto, Active, Inside
<1>2. ASSUME WriteSkip(r) PROVE Active(r) /\ at'[r] = "done"
  BY <1>0, <1>2 DEF WriteSkip, Finish, Goto, Active, Inside
<1>3. ASSUME WriteAbortLog(r) PROVE at'[r] = "aborted"
  BY <1>0, <1>3 DEF WriteAbortLog, Goto
<1>4. ASSUME ~WriteLog(r), ~WriteSkip(r), ~WriteAbortLog(r) PROVE UNCHANGED log
  BY <1>4 DEF StepOf, Begin, Tick, CatchUp, Ask, Continue, Launch, Check, ReadConfig,
         ReadRecipients, LoadVoice, Speak, ChargeNext, ClaimNotice, Warn, SendPart, PartFails,
         BriefingFails, Delivered, Refund, LoopEnds, VoiceFails, StatementFails, rowVars
<1> QED
  BY <1>1, <1>2, <1>3, <1>4 DEF WriteLog, WriteSkip, WriteAbortLog

(* How a run comes past its check.                                         *)
LEMMA ComesPastCheck ==
    ASSUME Inv, NEW r \in Runs, StepOf(r), PastCheck(r)'
    PROVE  \/ PastCheck(r) /\ job'[r].day = job[r].day /\ job'[r].force = job[r].force
           \/ at[r] = "check" /\ log[job[r].day].sent = 0 /\ job'[r].day = job[r].day
           \/ job'[r].force
<1>0. at \in [Runs -> Places] /\ job \in [Runs -> Job] /\ Effects(r)
  BY StepEffects DEF Inv, TypeOK
<1>1. CASE PastCheck(r)
  BY <1>0, <1>1 DEF Effects, PastCheck, Active, Inside
<1>2. CASE at[r] = "check"
  <2>1. Check(r) \/ StatementFails(r)
    BY <1>2 DEF StepOf, Begin, Tick, CatchUp, Ask, Continue, Launch, ReadConfig,
           ReadRecipients, LoadVoice, Speak, ChargeNext, ClaimNotice, Warn, SendPart, PartFails,
           BriefingFails, Delivered, Refund, LoopEnds, WriteLog, WriteSkip, WriteAbortLog,
           VoiceFails
  <2>2. ~StatementFails(r)
    <3>1. Throws(r) => at'[r] \in {"abortLog", "aborted", "gone"}
      BY <1>0, <1>2 DEF Throws, Finish, Goto, Restart
    <3> QED
      BY <3>1 DEF StatementFails, PastCheck, Active, Inside
  <2>3. ~(log[job[r].day].sent > 0) /\ job' = job
    BY <1>0, <2>1, <2>2 DEF Check, Finish, Goto, PastCheck, Active, Inside
  <2>4. log[job[r].day].sent \in Nat
    BY <1>0 DEF Inv, TypeOK, Job, Counts
  <2> QED
    BY <1>2, <2>3, <2>4
<1>3. CASE ~Active(r)
  <2>1. Begin(r) \/ Launch(r) \/ WriteAbortLog(r)
    BY <1>3 DEF Active, Inside, StepOf, Continue, Check, ReadConfig,
           ReadRecipients, LoadVoice, Speak, ChargeNext, ClaimNotice, Warn, SendPart, PartFails,
           BriefingFails, Delivered, Refund, LoopEnds, WriteLog, WriteSkip,
           VoiceFails, StatementFails
  <2>2. ASSUME NEW origin \in {"tick", "catchUp", "manual"}, NEW force \in BOOLEAN,
               Deliver(r, origin, force)
        PROVE  job'[r].force
    <3>1. at'[r] = IF force THEN "config" ELSE "check"
      BY <1>0, <2>2 DEF Deliver, Goto
    <3>2. force
      BY <3>1 DEF PastCheck
    <3>3. job'[r].force = force
      BY <1>0, <2>2 DEF Deliver, Job
    <3> QED
      BY <3>2, <3>3
  <2>3. ASSUME NEW p \in {"asked", "done", "aborted"}, Goto(r, p) PROVE FALSE
    BY <1>0, <2>3 DEF Goto, PastCheck, Active, Inside
  <2>4. UNCHANGED at => PastCheck(r)
    BY DEF PastCheck, Active
  <2>5. job[r].force \in BOOLEAN
    BY <1>0 DEF Job
  <2>6. CASE Tick(r)
    BY <2>2, <2>6 DEF Tick
  <2>7. CASE CatchUp(r)
    BY <1>3, <2>2, <2>4, <2>7 DEF CatchUp, PastCheck
  <2>8. ASSUME NEW force \in BOOLEAN, Ask(r, force) PROVE FALSE
    BY <2>3, <2>8 DEF Ask
  <2>9. CASE Launch(r)
    BY <2>2, <2>3, <2>5, <2>9 DEF Launch
  <2>10. CASE WriteAbortLog(r)
    BY <2>3, <2>10 DEF WriteAbortLog
  <2> QED
    BY <2>1, <2>6, <2>7, <2>8, <2>9, <2>10 DEF Begin
<1> QED
  BY <1>1, <1>2, <1>3 DEF PastCheck

LEMMA UnsentStays ==
    ASSUME Inv, AutomaticRunsServeUnsentDays, NEW r \in Runs, StepOf(r)
    PROVE  AutomaticRunsServeUnsentDays'
<1>0. Effects(r) /\ at \in [Runs -> Places] /\ log \in [Days -> Counts]
  BY StepEffects DEF Inv, TypeOK
<1> SUFFICES ASSUME NEW q \in Runs, PastCheck(q)', ~job'[q].force
             PROVE  log'[job'[q].day].sent = 0
  BY DEF AutomaticRunsServeUnsentDays
<1>1. log[job'[q].day].sent = 0 /\ (q # r => Active(q))
  <2>1. CASE q = r
    BY <2>1, ComesPastCheck DEF AutomaticRunsServeUnsentDays
  <2>2. CASE q # r
    <3>1. job'[q] = job[q] /\ at'[q] = at[q]
      BY <1>0, <2>2 DEF Effects, PastCheck, Active, Inside
    <3>2. PastCheck(q)
      BY <3>1 DEF PastCheck, Active
    <3> QED
      BY <3>1, <3>2 DEF AutomaticRunsServeUnsentDays, PastCheck
  <2> QED
    BY <2>1, <2>2
<1>2. ASSUME NEW d \in Days, Upsert(d, 0, 0) PROVE log'[job'[q].day].sent = 0
  BY <1>0, <1>1, <1>2 DEF Upsert, Counts
<1>3. ASSUME Active(r), at'[r] = "done" PROVE FALSE
  <2>1. q # r
    BY <1>3 DEF PastCheck, Active, Inside
  <2> QED
    BY <1>1, <1>3, <2>1, OthersAreOutside
<1>4. clock.day \in Days
  BY DEF Inv, TypeOK
<1> QED
  BY <1>1, <1>2, <1>3, <1>4, LogWriters

(* What reaches a chat: a warning only from a run that is about to send    *)
(* one, and then that one alone.                                           *)
LEMMA WarningsSent ==
    ASSUME Inv, NEW r \in Runs, StepOf(r)
    PROVE  \/ \A u \in Users, d \in Days : Warnings(u, d)' = Warnings(u, d)
           \/ /\ at[r] = "warn" /\ job[r].serving \in Users
              /\ at'[r] = "next" /\ UNCHANGED notices
              /\ \A u \in Users, d \in Days :
                    Warnings(u, d)' =
                        IF u = job[r].serving /\ d = job[r].day
                        THEN Warnings(u, d) \cup {[day |-> d, run |-> r, part |-> "warning"]}
                        ELSE Warnings(u, d)
<1>0. /\ inbox \in [Users -> SUBSET Message] /\ at \in [Runs -> Places] /\ job[r] \in Job
      /\ at[r] \in AtUser => job[r].serving \in Users
  BY DEF Inv, TypeOK, RunSound
<1>1. ASSUME UNCHANGED inbox
      PROVE  \A u \in Users, d \in Days : Warnings(u, d)' = Warnings(u, d)
  BY <1>1 DEF Warnings
<1>2. ASSUME at[r] = "send", NEW part \in Parts, Put(job[r].serving, r, part)
      PROVE  \A u \in Users, d \in Days : Warnings(u, d)' = Warnings(u, d)
  <2>1. job[r].serving \in Users /\ part # "warning"
    BY <1>0, <1>2 DEF AtUser, Parts
  <2> DEFINE m == [day |-> job[r].day, run |-> r, part |-> part]
  <2>2. inbox' = [inbox EXCEPT ![job[r].serving] = @ \cup {m}]
    BY <1>2 DEF Put
  <2>3. m.part # "warning"
    BY <2>1
  <2> HIDE DEF m
  <2> QED
    BY <1>0, <2>1, <2>2, <2>3 DEF Warnings
<1>3. ASSUME SendPart(r) \/ PartFails(r)
      PROVE  \A u \in Users, d \in Days : Warnings(u, d)' = Warnings(u, d)
  <2>1. /\ at[r] = "send" /\ Head(job[r].todo) \in Parts
        /\ UNCHANGED inbox \/ Put(job[r].serving, r, Head(job[r].todo))
    BY <1>0, <1>3 DEF SendPart, PartFails, Job
  <2> QED
    BY <1>1, <1>2, <2>1
<1>4. ASSUME Warn(r), ~UNCHANGED inbox
      PROVE  /\ at[r] = "warn" /\ job[r].serving \in Users
             /\ at'[r] = "next" /\ UNCHANGED notices
             /\ \A u \in Users, d \in Days :
                   Warnings(u, d)' =
                       IF u = job[r].serving /\ d = job[r].day
                       THEN Warnings(u, d) \cup {[day |-> d, run |-> r, part |-> "warning"]}
                       ELSE Warnings(u, d)
  <2>1. /\ at[r] = "warn" /\ job[r].serving \in Users /\ at'[r] = "next" /\ UNCHANGED notices
        /\ Put(job[r].serving, r, "warning")
    BY <1>0, <1>4 DEF Warn, Goto, AtUser, rowVars
  <2> DEFINE m == [day |-> job[r].day, run |-> r, part |-> "warning"]
  <2>2. inbox' = [inbox EXCEPT ![job[r].serving] = @ \cup {m}]
    BY <2>1 DEF Put
  <2>3. m.part = "warning" /\ m.day = job[r].day
    OBVIOUS
  <2>4. ASSUME NEW u \in Users, NEW d \in Days
        PROVE  Warnings(u, d)' =
                   IF u = job[r].serving /\ d = job[r].day
                   THEN Warnings(u, d) \cup {m} ELSE Warnings(u, d)
    <3> HIDE DEF m
    <3> QED
      BY <1>0, <2>1, <2>2, <2>3 DEF Warnings
  <2> QED
    BY <2>1, <2>4
<1>5. ASSUME ~SendPart(r), ~PartFails(r), ~Warn(r) PROVE UNCHANGED inbox
  BY <1>5 DEF StepOf, Begin, Tick, CatchUp, Ask, Continue, Launch, Check, ReadConfig,
         ReadRecipients, LoadVoice, Speak, ChargeNext, ClaimNotice,
         BriefingFails, Delivered, Refund, LoopEnds, WriteLog, WriteSkip, WriteAbortLog,
         VoiceFails, StatementFails
<1> QED
  BY <1>1, <1>3, <1>4, <1>5

(* How a run comes to send a warning: it has just claimed the day's row.   *)
LEMMA ComesToWarn ==
    ASSUME Inv, NEW r \in Runs, StepOf(r), at'[r] = "warn"
    PROVE  /\ \A u \in Users, d \in Days : Warnings(u, d)' = Warnings(u, d)
           /\ <<job'[r].serving, job'[r].day>> \notin notices
           /\ notices' = notices \cup {<<job'[r].serving, job'[r].day>>}
           /\ job'[r].serving \in Users /\ job'[r].day \in Days
<1>0. at \in [Runs -> Places] /\ RunSound(r) /\ job[r] \in Job
  BY DEF Inv, TypeOK
<1>1. ASSUME Throws(r) \/ Restart PROVE FALSE
  BY <1>0, <1>1 DEF Throws, Finish, Goto, Restart
<1>2. ASSUME NEW p, p # "warn", Goto(r, p) PROVE FALSE
  BY <1>0, <1>2 DEF Goto
<1>3. CASE UNCHANGED at
  <2>1. at[r] = "warn"
    BY <1>3
  <2> QED
    BY <1>1, <1>2, <1>3, <2>1
       DEF StepOf, Begin, Tick, CatchUp, Ask, Continue, Launch, Check, ReadConfig,
         ReadRecipients, LoadVoice, Speak, ChargeNext, ClaimNotice, Warn, SendPart, PartFails,
         BriefingFails, Delivered, Refund, LoopEnds, WriteLog, WriteSkip, WriteAbortLog,
         VoiceFails, StatementFails
<1>4. CASE ClaimNotice(r)
  <2>1. /\ <<job[r].serving, job[r].day>> \notin notices
        /\ notices' = notices \cup {<<job[r].serving, job[r].day>>}
        /\ UNCHANGED job /\ UNCHANGED inbox /\ at[r] = "notice"
    BY <1>2, <1>4 DEF ClaimNotice
  <2>2. job[r].serving \in Users /\ job[r].day \in Days
    BY <1>0, <2>1 DEF RunSound, AtUser, Job
  <2> QED
    BY <2>1, <2>2 DEF Warnings
<1>5. CASE ~UNCHANGED at /\ ~ClaimNotice(r)
  BY <1>1, <1>2, <1>5
     DEF StepOf, Begin, Tick, CatchUp, Ask, Deliver, Finish, Continue, Launch, Check, ReadConfig,
         ReadRecipients, LoadVoice, Speak, ChargeNext, Warn, SendPart, PartFails,
         BriefingFails, Delivered, Refund, LoopEnds, WriteLog, WriteSkip, WriteAbortLog,
         VoiceFails, StatementFails
<1> QED
  BY <1>3, <1>4, <1>5

LEMMA WarningsStay ==
    ASSUME Inv, WarningsClaimed, WarnedOnceADay, NEW r \in Runs, StepOf(r)
    PROVE  WarningsClaimed' /\ WarnedOnceADay'
<1>0. /\ Effects(r) /\ at \in [Runs -> Places] /\ job \in [Runs -> Job]
      /\ inbox \in [Users -> SUBSET Message] /\ inbox' \in [Users -> SUBSET Message]
  BY StepEffects, StepInv DEF Inv, TypeOK, StepOf, Next
<1>1. notices \subseteq notices'
  BY DEF StepOf, Begin, Tick, CatchUp, Ask, Continue, Launch, Check, ReadConfig,
         ReadRecipients, LoadVoice, Speak, ChargeNext, ClaimNotice, Warn, SendPart, PartFails,
         BriefingFails, Delivered, Refund, LoopEnds, WriteLog, WriteSkip, WriteAbortLog,
         VoiceFails, StatementFails, rowVars
<1>2. \A u \in Users, d \in Days : Warnings(u, d)' # {} => <<u, d>> \in notices'
  BY <1>1, WarningsSent DEF WarningsClaimed
<1>3. ASSUME NEW q \in Runs, NEW u \in Users, NEW d \in Days,
             at'[q] = "warn", u = job'[q].serving, d = job'[q].day
      PROVE  <<u, d>> \in notices' /\ Warnings(u, d)' = {}
  <2>1. CASE q = r
    <3>1. /\ Warnings(u, d)' = Warnings(u, d)
          /\ <<u, d>> \notin notices /\ <<u, d>> \in notices'
      BY <1>3, <2>1, ComesToWarn
    <3> QED
      BY <3>1 DEF WarningsClaimed
  <2>2. CASE q # r
    <3>1. at[q] = "warn" /\ job'[q] = job[q]
      BY <1>0, <1>3, <2>2 DEF Effects
    <3>2. at[r] # "warn"
      BY <2>2, <3>1, OthersAreOutside DEF Active, Inside
    <3>3. Warnings(u, d)' = Warnings(u, d)
      BY <3>2, WarningsSent
    <3> QED
      BY <1>1, <1>3, <3>1, <3>3 DEF WarningsClaimed
  <2> QED
    BY <2>1, <2>2
<1>4. WarningsClaimed'
  BY <1>2, <1>3 DEF WarningsClaimed
<1>5. ASSUME NEW u \in Users, NEW d \in Days
      PROVE  \A m, n \in Warnings(u, d)' : m = n
  <2>1. \A m, n \in Warnings(u, d) : m = n
    BY DEF WarnedOnceADay, Warnings
  <2>2. CASE Warnings(u, d)' = Warnings(u, d)
    BY <2>1, <2>2
  <2>3. CASE Warnings(u, d)' # Warnings(u, d)
    <3>1. /\ at[r] = "warn" /\ u = job[r].serving /\ d = job[r].day
          /\ Warnings(u, d)' = Warnings(u, d) \cup {[day |-> d, run |-> r, part |-> "warning"]}
      BY <2>3, WarningsSent
    <3>2. Warnings(u, d) = {}
      BY <3>1 DEF WarningsClaimed
    <3> QED
      BY <3>1, <3>2
  <2> QED
    BY <2>2, <2>3
<1>6. WarnedOnceADay'
  <2> SUFFICES ASSUME NEW u \in Users, NEW m \in inbox'[u], NEW n \in inbox'[u],
                      m.part = "warning", n.part = "warning", m.day = n.day
               PROVE  m = n
    BY DEF WarnedOnceADay
  <2>1. m.day \in Days
    BY <1>0 DEF Message
  <2>2. m \in Warnings(u, m.day)' /\ n \in Warnings(u, m.day)'
    BY DEF Warnings
  <2> QED
    BY <1>5, <2>1, <2>2
<1> QED
  BY <1>4, <1>6

(* Nobody stops being served, and the log counts only those who are.       *)
LEMMA ServedStay ==
    ASSUME Inv, \A r \in Runs : job'[r] = job[r] \/ StepOf(r)
    PROVE  \A d \in Days : Served(d) \subseteq Served(d)'
<1> SUFFICES ASSUME NEW d \in Days, NEW u \in Users, NEW q \in Runs,
                    job[q].day = d, u \in job[q].sent
             PROVE  job'[q].day = d /\ u \in job'[q].sent
  BY DEF Served
<1>1. CASE job'[q] = job[q]
  BY <1>1
<1>2. CASE StepOf(q)
  <2>1. Effects(q) /\ RunSound(q)
    BY <1>2, StepEffects DEF Inv
  <2>2. at[q] \notin {"idle", "asked"}
    BY <2>1 DEF RunSound, Early
  <2> QED
    BY <2>1, <2>2 DEF Effects
<1> QED
  BY <1>1, <1>2

LEMMA CountsStay ==
    ASSUME Inv, LogCountsDeliveries, \A d \in Days : Served(d) \subseteq Served(d)', NEW d \in Days
    PROVE  /\ log[d].sent <= Cardinality(Served(d)') /\ 0 <= Cardinality(Served(d)')
           /\ log[d].sent \in Nat
<1>1. Served(d) \subseteq Served(d)' /\ Served(d)' \subseteq Users
  BY DEF Served
<1>2. IsFiniteSet(Served(d)')
  BY <1>1, FS_Subset, DigestAssumption
<1>3. Cardinality(Served(d)) <= Cardinality(Served(d)')
  BY <1>1, <1>2, FS_Subset
<1>4. Cardinality(Served(d)) \in Nat /\ Cardinality(Served(d)') \in Nat
  BY <1>1, CountTyped
<1>5. log[d].sent \in Nat /\ log[d].sent <= Cardinality(Served(d))
  BY DEF Inv, TypeOK, Counts, LogCountsDeliveries
<1> QED
  BY <1>3, <1>4, <1>5

LEMMA LogStays ==
    ASSUME Inv, LogCountsDeliveries, NEW r \in Runs, StepOf(r)
    PROVE  LogCountsDeliveries'
<1>0. Effects(r) /\ log \in [Days -> Counts] /\ job[r] \in Job /\ clock.day \in Days
  BY StepEffects DEF Inv, TypeOK
<1>1. \A d \in Days : Served(d) \subseteq Served(d)'
  <2>1. \A q \in Runs : job'[q] = job[q] \/ StepOf(q)
    BY <1>0 DEF Effects
  <2> QED
    BY <2>1, ServedStay
<1> SUFFICES ASSUME NEW d \in Days PROVE log'[d].sent <= Cardinality(Served(d)')
  BY DEF LogCountsDeliveries
<1>2. /\ log[d].sent <= Cardinality(Served(d)') /\ 0 <= Cardinality(Served(d)')
  BY <1>1, CountsStay
<1>3. ASSUME NEW e \in Days, Upsert(e, 0, 0)
      PROVE  log'[d].sent <= Cardinality(Served(d)')
  BY <1>0, <1>2, <1>3 DEF Upsert
<1>4. ASSUME Upsert(job[r].day, Cardinality(job[r].sent), Cardinality(job[r].failed))
      PROVE  log'[d].sent <= Cardinality(Served(d)')
  <2>1. CASE d = job[r].day
    <3>1. job[r].sent \subseteq Served(d)
      BY <1>0, <2>1 DEF Served, Job
    <3>2. job[r].sent \subseteq Served(d)' /\ IsFiniteSet(Served(d)')
      <4>1. Served(d)' \subseteq Users
        BY DEF Served
      <4> QED
        BY <1>1, <3>1, <4>1, FS_Subset, DigestAssumption
    <3>3. Cardinality(job[r].sent) <= Cardinality(Served(d)')
      BY <3>2, FS_Subset
    <3>4. log'[d].sent = Cardinality(job[r].sent)
      BY <1>0, <1>4, <2>1 DEF Upsert
    <3> QED
      BY <3>3, <3>4
  <2>2. CASE d # job[r].day
    <3>1. log'[d] = log[d]
      BY <1>0, <1>4, <2>2 DEF Upsert
    <3> QED
      BY <1>2, <3>1
  <2> QED
    BY <2>1, <2>2
<1>5. job[r].day \in Days /\ (UNCHANGED log => log'[d].sent <= Cardinality(Served(d)'))
  BY <1>0, <1>2 DEF Job
<1> QED
  BY <1>0, <1>3, <1>4, <1>5, LogWriters

(* What happens outside the runs touches neither the log nor the chats.    *)
LEMMA DayRests ==
    ASSUME Inv, DayInv, UNCHANGED <<log, notices, inbox, job>>,
           \A q \in Runs : at'[q] \in {at[q], "gone"}
    PROVE  DayInv'
<1>1. AutomaticRunsServeUnsentDays'
  BY DEF DayInv, DayIsAccountedFor, AutomaticRunsServeUnsentDays, PastCheck, Active, Inside
<1>2. WarnedOnceADay' /\ WarningsClaimed'
  BY DEF DayInv, DayIsAccountedFor, WarnedOnceADay, WarningsClaimed, Warnings
<1>3. LogCountsDeliveries'
  BY DEF DayInv, DayIsAccountedFor, LogCountsDeliveries, Served
<1> QED
  BY <1>1, <1>2, <1>3 DEF DayInv, DayIsAccountedFor

LEMMA StepDay == Inv /\ DayInv /\ [Next]_vars => DayInv'
<1> SUFFICES ASSUME Inv, DayInv, [Next]_vars PROVE DayInv'
  OBVIOUS
<1>1. ASSUME NEW r \in Runs, StepOf(r) PROVE DayInv'
  BY <1>1, UnsentStays, WarningsStay, LogStays DEF DayInv, DayIsAccountedFor
<1>2. CASE Crash
  BY <1>2, DayRests, PlacesAfterRestart DEF Crash, rowVars
<1>3. CASE Environment /\ ~Crash
  <2>1. UNCHANGED <<log, notices, inbox, job, at>>
    BY <1>3 DEF Environment, Minute, SaveConfig, Choose, AdminCredit, rowVars, runVars
  <2> QED
    BY <2>1, DayRests
<1>4. CASE UNCHANGED vars
  BY <1>4, DayRests DEF vars, rowVars, runVars
<1> QED
  BY <1>1, <1>2, <1>3, <1>4 DEF Next, StepOf

LEMMA InitDay == Init => DayInv
<1> SUFFICES ASSUME Init PROVE DayInv
  OBVIOUS
<1>1. \A r \in Runs : at[r] = "idle"
  BY DEF Init
<1>2. \A u \in Users : inbox[u] = {}
  BY DEF Init
<1>3. ASSUME NEW d \in Days PROVE log[d].sent <= Cardinality(Served(d))
  <2>1. log[d].sent = 0
    BY DEF Init
  <2>2. Cardinality(Served(d)) \in Nat
    BY CountTyped DEF Served
  <2> QED
    BY <2>1, <2>2
<1>4. AutomaticRunsServeUnsentDays /\ WarningsClaimed
  BY <1>1, <1>2 DEF AutomaticRunsServeUnsentDays, PastCheck, Active, Inside, WarningsClaimed, Warnings
<1>5. WarnedOnceADay
  BY <1>2 DEF WarnedOnceADay
<1> QED
  BY <1>3, <1>4, <1>5 DEF DayInv, DayIsAccountedFor, LogCountsDeliveries

(* The log of a day and its notices agree with what was delivered: an      *)
(* automatic run works on an unsent day, a user is warned once a day, and  *)
(* the log never counts a message that did not arrive.                     *)
THEOREM DigestDayIsAccountedFor == Spec => []DayIsAccountedFor
<1>1. DayInv => DayIsAccountedFor
  BY DEF DayInv
<1> QED
  BY <1>1, AlwaysInv, InitDay, StepDay, PTL DEF Spec

----------------------------------------------------------------------------
(* What is still to come of a message, with what has arrived, makes the    *)
(* message complete; whom a run counts as sent has a complete one.         *)
Has(s, part) == \E i \in DOMAIN s : s[i] = part
Due(r, u, part) == Has(job[r].todo, part) \/ Got(r, u, part)
Complete(r, u) ==
    LET sections == job[r].choice[u] IN
    /\ "news" \in sections => Due(r, u, "text")
    /\ "portfolio" \in sections =>
          IF u \in Holders
          THEN Due(r, u, "advice") /\ (Due(r, u, "chart") \/ Due(r, u, "caption"))
          ELSE Due(r, u, "summary")

MessagesInv ==
    \A r \in Runs, u \in Users :
        /\ at[r] = "send" /\ u = job[r].serving => Complete(r, u)
        /\ u \in job[r].sent => Arrived(r, u)

(* The elements of a sequence that is taken apart or put together.         *)
LEMMA TailHas ==
    ASSUME NEW s \in Seq(Parts), s # << >>, NEW part, Has(s, part), part # Head(s)
    PROVE  Has(Tail(s), part)
<1>1. PICK i \in DOMAIN s : s[i] = part
  BY DEF Has
<1>2. i \in 2..Len(s)
  BY <1>1
<1>3. i - 1 \in DOMAIN Tail(s) /\ Tail(s)[i - 1] = s[i]
  BY <1>2
<1> QED
  BY <1>1, <1>3 DEF Has

LEMMA JoinHas ==
    ASSUME NEW s \in Seq(Parts), NEW t \in Seq(Parts), NEW part, Has(s, part) \/ Has(t, part)
    PROVE  Has(s \o t, part)
<1>1. CASE Has(s, part)
  <2>1. PICK i \in DOMAIN s : s[i] = part
    BY <1>1 DEF Has
  <2>2. i \in DOMAIN (s \o t) /\ (s \o t)[i] = part
    BY <2>1
  <2> QED
    BY <2>2 DEF Has
<1>2. CASE Has(t, part)
  <2>1. PICK i \in DOMAIN t : t[i] = part
    BY <1>2 DEF Has
  <2>2. Len(s) + i \in DOMAIN (s \o t) /\ (s \o t)[Len(s) + i] = part
    BY <2>1
  <2> QED
    BY <2>2 DEF Has
<1> QED
  BY <1>1, <1>2

(* The parts of a message hold what makes it complete.                     *)
LEMMA PartsForHave ==
    ASSUME NEW u, NEW sections, NEW voice
    PROVE  /\ "news" \in sections => Has(PartsFor(u, sections, voice), "text")
           /\ "portfolio" \in sections /\ u \in Holders =>
                 /\ Has(PartsFor(u, sections, voice), "advice")
                 /\ Has(PartsFor(u, sections, voice), "chart")
           /\ "portfolio" \in sections /\ u \notin Holders =>
                 Has(PartsFor(u, sections, voice), "summary")
<1> DEFINE a == IF "portfolio" \in sections
                THEN IF u \in Holders THEN <<"chart", "advice", "plan">> ELSE <<"summary", "plan">>
                ELSE << >>
           b == IF "news" \in sections THEN <<"text">> ELSE << >>
           c == IF "news" \in sections /\ voice THEN <<"voice">> ELSE << >>
<1>0. {"chart", "advice", "summary", "plan", "text", "voice"} \subseteq Parts
  BY DEF Parts
<1>1. a \in Seq(Parts) /\ b \in Seq(Parts) /\ c \in Seq(Parts)
  <2>1. <<"chart", "advice", "plan">> \in Seq(Parts) /\ <<"summary", "plan">> \in Seq(Parts)
    BY <1>0
  <2>2. <<"text">> \in Seq(Parts) /\ <<"voice">> \in Seq(Parts) /\ << >> \in Seq(Parts)
    BY <1>0
  <2> QED
    BY <2>1, <2>2
<1>2. PartsFor(u, sections, voice) = (a \o b) \o c
  BY DEF PartsFor
<1>3. "news" \in sections => Has(b, "text")
  <2>1. Has(<<"text">>, "text")
    BY DEF Has
  <2> QED
    BY <2>1
<1>4. "portfolio" \in sections /\ u \in Holders => Has(a, "advice") /\ Has(a, "chart")
  <2> DEFINE t == <<"chart", "advice", "plan">>
  <2>1. DOMAIN t = 1..3 /\ t[1] = "chart" /\ t[2] = "advice"
    OBVIOUS
  <2>2. Has(t, "advice") /\ Has(t, "chart")
    BY <2>1 DEF Has
  <2> QED
    BY <2>2
<1>5. "portfolio" \in sections /\ u \notin Holders => Has(a, "summary")
  <2> DEFINE t == <<"summary", "plan">>
  <2>1. DOMAIN t = 1..2 /\ t[1] = "summary"
    OBVIOUS
  <2>2. Has(t, "summary")
    BY <2>1 DEF Has
  <2> QED
    BY <2>2
<1> HIDE DEF a, b, c
<1>6. a \o b \in Seq(Parts)
  BY <1>1, JoinTyped
<1>7. \A part : Has(a, part) \/ Has(b, part) => Has((a \o b) \o c, part)
  BY <1>1, <1>6, JoinHas
<1> QED
  BY <1>2, <1>3, <1>4, <1>5, <1>7

(* What has arrived stays, so a message that others receive stays complete. *)
LEMMA OthersComplete ==
    ASSUME Inv, MessagesInv, NEW q \in Runs, NEW u \in Users, job'[q] = job[q],
           inbox[u] \subseteq inbox'[u], at'[q] \in {at[q], "gone"}
    PROVE  /\ at'[q] = "send" /\ u = job'[q].serving => Complete(q, u)'
           /\ u \in job'[q].sent => Arrived(q, u)'
<1>1. \A part : Got(q, u, part) => Got(q, u, part)'
  BY DEF Got
<1>2. \A part : Due(q, u, part) => Due(q, u, part)'
  BY <1>1 DEF Due
<1>3. u \in job'[q].sent => Arrived(q, u)'
  BY <1>1 DEF MessagesInv, Arrived
<1>4. at'[q] = "send" /\ u = job'[q].serving => Complete(q, u)'
  BY <1>2 DEF MessagesInv, Complete
<1> QED
  BY <1>3, <1>4

(* How a run comes to be sending: it has just charged, or it goes on.      *)
LEMMA ComesToSend ==
    ASSUME Inv, NEW r \in Runs, StepOf(r), at'[r] = "send"
    PROVE  (\E v \in Users : ChargeNext(r, v)) \/ SendPart(r) \/ PartFails(r)
<1>0. at \in [Runs -> Places]
  BY DEF Inv, TypeOK
<1>1. ASSUME Throws(r) \/ Restart PROVE FALSE
  BY <1>0, <1>1 DEF Throws, Finish, Goto, Restart
<1>2. ASSUME NEW p, p # "send", Goto(r, p) PROVE FALSE
  BY <1>0, <1>2 DEF Goto
<1>3. CASE UNCHANGED at
  <2>1. at[r] = "send"
    BY <1>3
  <2> QED
    BY <1>1, <1>2, <1>3, <2>1
       DEF StepOf, Begin, Tick, CatchUp, Ask, Continue, Launch, Check, ReadConfig,
         ReadRecipients, LoadVoice, Speak, ClaimNotice, Warn,
         BriefingFails, Delivered, Refund, LoopEnds, WriteLog, WriteSkip, WriteAbortLog,
         VoiceFails, StatementFails
<1>4. CASE ~UNCHANGED at
  BY <1>1, <1>2, <1>4
     DEF StepOf, Begin, Tick, CatchUp, Ask, Deliver, Finish, Continue, Launch, Check, ReadConfig,
         ReadRecipients, LoadVoice, Speak, ClaimNotice, Warn,
         BriefingFails, Delivered, Refund, LoopEnds, WriteLog, WriteSkip, WriteAbortLog,
         VoiceFails, StatementFails
<1> QED
  BY <1>3, <1>4

(* A part that reaches the chat of the user being served.                  *)
LEMMA PutGot ==
    ASSUME Inv, NEW r \in Runs, NEW u \in Users, NEW part, Put(u, r, part),
           job'[r].day = job[r].day
    PROVE  Got(r, u, part)'
<1> DEFINE m == [day |-> job[r].day, run |-> r, part |-> part]
<1>1. inbox' = [inbox EXCEPT ![u] = @ \cup {m}]
  BY DEF Put
<1>2. m \in inbox'[u]
  <2> HIDE DEF m
  <2> QED
    BY <1>1 DEF Inv, TypeOK
<1> QED
  BY <1>2 DEF Got

(* The message a run is sending stays complete until it is delivered.      *)
LEMMA SendingComplete ==
    ASSUME Inv, MessagesInv, NEW r \in Runs, StepOf(r), NEW u \in Users,
           at'[r] = "send", u = job'[r].serving
    PROVE  Complete(r, u)'
<1>0. /\ at \in [Runs -> Places] /\ job \in [Runs -> Job] /\ job[r] \in Job
      /\ Effects(r) /\ job[r].todo \in Seq(Parts)
  BY StepEffects DEF Inv, TypeOK, Job
<1>1. ASSUME NEW v \in Users, ChargeNext(r, v) PROVE Complete(r, u)'
  <2> DEFINE todo == PartsFor(v, job[r].choice[v], job[r].voice)
             new == [job[r] EXCEPT !.queue = @ \ {v}, !.serving = v, !.todo = todo]
  <2>1. job' = [job EXCEPT ![r] = new]
    <3>1. ~Goto(r, "notice")
      BY <1>0 DEF Goto
    <3> QED
      BY <1>1, <3>1 DEF ChargeNext
  <2>2. new.serving = v /\ new.todo = todo /\ new.choice = job[r].choice
    BY <1>0 DEF Job
  <2>3. u = v /\ job'[r].todo = todo /\ job'[r].choice = job[r].choice
    <3> HIDE DEF new, todo
    <3> QED
      BY <1>0, <2>1, <2>2
  <2> QED
    BY <2>3, PartsForHave DEF Complete, Due
<1>2. ASSUME SendPart(r) \/ PartFails(r) PROVE Complete(r, u)'
  <2>0. at[r] = "send" /\ job[r].todo # << >>
    BY <1>2 DEF SendPart, PartFails
  <2> DEFINE rest == Tail(job[r].todo)
  <2>2. PICK part \in Parts : part = Head(job[r].todo)
    BY <1>0, <2>0
  <2>2a. rest \in Seq(Parts) /\ <<"caption">> \in Seq(Parts)
    BY <1>0, <2>0 DEF Parts
  <2>1. /\ at[r] = "send" /\ job[r].todo # << >>
        /\ \/ job' = [job EXCEPT ![r].todo = rest] /\ Put(job[r].serving, r, part)
           \/ part = "chart" /\ job' = [job EXCEPT ![r].todo = <<"caption">> \o rest]
           \/ part \in Optional /\ job' = [job EXCEPT ![r].todo = rest]
    <3>1. CASE SendPart(r)
      BY <2>2, <3>1 DEF SendPart
    <3>2. CASE PartFails(r)
      <4>1. at[r] = "send" /\ job[r].todo # << >>
        BY <3>2 DEF PartFails
      <4>2. part \in Optional \cup {"chart"}
        <5>1. ~Goto(r, "refund")
          BY <1>0 DEF Goto
        <5> QED
          BY <2>2, <3>2, <5>1 DEF PartFails
      <4>3. CASE part = "chart"
        BY <2>2, <3>2, <4>1, <4>3 DEF PartFails, Optional
      <4>4. CASE part # "chart"
        BY <2>2, <3>2, <4>1, <4>2, <4>4 DEF PartFails, Optional
      <4> QED
        BY <4>3, <4>4
    <3> QED
      BY <1>2, <3>1, <3>2
  <2>3. /\ job'[r].serving = job[r].serving /\ job'[r].choice = job[r].choice
        /\ job'[r].day = job[r].day
    BY <1>0, <2>1, <2>2a DEF Job
  <2>4. u = job[r].serving /\ Complete(r, u)
    BY <2>1, <2>3 DEF MessagesInv
  <2>5. \A p : Got(r, u, p) => Got(r, u, p)'
    BY <1>0, <2>3 DEF Got, Effects
  <2>6. ASSUME NEW p, p # part, Due(r, u, p) PROVE Due(r, u, p)'
    <3>1. CASE Got(r, u, p)
      BY <2>5, <3>1 DEF Due
    <3>2. CASE Has(job[r].todo, p)
      <4>1. Has(rest, p) /\ Has(<<"caption">> \o rest, p)
        BY <1>0, <2>1, <2>2, <2>2a, <2>6, <3>2, TailHas, JoinHas
      <4>2. job'[r].todo = rest \/ job'[r].todo = <<"caption">> \o rest
        BY <1>0, <2>1, <2>2a DEF Job
      <4> QED
        BY <4>1, <4>2 DEF Due
    <3> QED
      BY <2>6, <3>1, <3>2 DEF Due
  <2>7. CASE Put(job[r].serving, r, part)
    <3>1. Got(r, u, part)'
      BY <2>3, <2>4, <2>7, PutGot
    <3>2. \A p : Due(r, u, p) => Due(r, u, p)'
      BY <2>6, <3>1 DEF Due
    <3> QED
      BY <2>3, <2>4, <3>2 DEF Complete
  <2>8. CASE part = "chart" /\ job' = [job EXCEPT ![r].todo = <<"caption">> \o rest]
    <3>1. job'[r].todo = <<"caption">> \o rest
      BY <1>0, <2>8 DEF Job
    <3>2. Has(<<"caption">>, "caption")
      BY DEF Has
    <3>3. Due(r, u, "caption")'
      BY <2>2a, <3>1, <3>2, JoinHas DEF Due
    <3>4. \A p \in {"text", "advice", "summary"} : Due(r, u, p) => Due(r, u, p)'
      BY <2>6, <2>8
    <3> QED
      BY <2>3, <2>4, <3>3, <3>4 DEF Complete
  <2>9. CASE part \in Optional
    <3>1. \A p \in {"text", "advice", "summary", "chart", "caption"} : Due(r, u, p) => Due(r, u, p)'
      BY <2>6, <2>9 DEF Optional
    <3> QED
      BY <2>3, <2>4, <3>1 DEF Complete
  <2> QED
    BY <2>1, <2>7, <2>8, <2>9
<1> QED
  BY <1>1, <1>2, ComesToSend

LEMMA SentArrived ==
    ASSUME Inv, MessagesInv, NEW r \in Runs, StepOf(r), NEW u \in Users, u \in job'[r].sent
    PROVE  Arrived(r, u)'
<1>0. Effects(r) /\ RunSound(r)
  BY StepEffects DEF Inv
<1>1. Arrived(r, u) /\ at[r] \notin Early
  <2>1. CASE u \in job[r].sent
    BY <1>0, <2>1 DEF MessagesInv, RunSound
  <2>2. CASE u \notin job[r].sent
    <3>1. at[r] = "send" /\ job[r].todo = << >> /\ u = job[r].serving
      BY <1>0, <2>2 DEF Effects, Delivered
    <3>2. Complete(r, u)
      BY <3>1 DEF MessagesInv
    <3>3. \A part : ~Has(job[r].todo, part)
      BY <3>1 DEF Has
    <3>4. \A part : Due(r, u, part) => Got(r, u, part)
      BY <3>3 DEF Due
    <3> QED
      BY <3>1, <3>2, <3>4 DEF Complete, Arrived, Early
  <2> QED
    BY <2>1, <2>2
<1>2. job'[r].day = job[r].day /\ job'[r].choice = job[r].choice
  BY <1>0, <1>1 DEF Effects, Early
<1>3. \A part : Got(r, u, part) => Got(r, u, part)'
  BY <1>0, <1>2 DEF Got, Effects
<1> QED
  BY <1>1, <1>2, <1>3 DEF Arrived

LEMMA StepMessages == Inv /\ MessagesInv /\ [Next]_vars => MessagesInv'
<1> SUFFICES ASSUME Inv, MessagesInv, [Next]_vars, NEW q \in Runs, NEW u \in Users
             PROVE  /\ at'[q] = "send" /\ u = job'[q].serving => Complete(q, u)'
                    /\ u \in job'[q].sent => Arrived(q, u)'
  BY DEF MessagesInv
<1>1. ASSUME NEW r \in Runs, StepOf(r)
      PROVE  /\ at'[q] = "send" /\ u = job'[q].serving => Complete(q, u)'
             /\ u \in job'[q].sent => Arrived(q, u)'
  <2>1. CASE q = r
    BY <1>1, <2>1, SendingComplete, SentArrived
  <2>2. CASE q # r
    <3>1. job'[q] = job[q] /\ at'[q] \in {at[q], "gone"} /\ inbox[u] \subseteq inbox'[u]
      BY <1>1, <2>2, StepEffects DEF Effects
    <3> QED
      BY <3>1, OthersComplete
  <2> QED
    BY <2>1, <2>2
<1>2. CASE Crash
  BY <1>2, OthersComplete, PlacesAfterRestart DEF Crash
<1>3. CASE Environment /\ ~Crash
  <2>1. UNCHANGED <<inbox, job, at>>
    BY <1>3 DEF Environment, Minute, SaveConfig, Choose, AdminCredit, rowVars, runVars
  <2> QED
    BY <2>1, OthersComplete
<1>4. CASE UNCHANGED vars
  BY <1>4, OthersComplete DEF vars, runVars
<1> QED
  BY <1>1, <1>2, <1>3, <1>4 DEF Next, StepOf

----------------------------------------------------------------------------
(* What a run has booked on a user: nothing, a fee, or a fee given back.   *)
One(S) == \E i : S = {i}
Unbooked(r, u) == Charges(r, u) = {} /\ Refunds(r, u) = {}
Charged(r, u) == One(Charges(r, u)) /\ Refunds(r, u) = {}
GivenBack(r, u) == One(Charges(r, u)) /\ One(Refunds(r, u))

FeesOf(r, u) ==
    /\ Unbooked(r, u) \/ Charged(r, u) \/ GivenBack(r, u)
    /\ Fee = 0 => Unbooked(r, u)
    /\ Fee > 0 /\ u \in job[r].sent => Charged(r, u)
    /\ Charged(r, u) => u \in job[r].sent \/ u = job[r].serving
    /\ at[r] \in Early \/ u \in job[r].queue => Unbooked(r, u)
    /\ u \in job[r].queue => u \notin job[r].sent /\ u # job[r].serving
    /\ u = job[r].serving => u \notin job[r].sent
    /\ at[r] \in {"notice", "warn"} /\ u = job[r].serving => Unbooked(r, u)
    /\ at[r] \in {"send", "refund"} /\ u = job[r].serving /\ Fee > 0 => Charged(r, u)

FeesInv == \A r \in Runs, u \in Users : FeesOf(r, u)

(* The rows of a run after a movement: one more if it is the run's.        *)
LEMMA PostBooks ==
    ASSUME Inv, NEW v \in Users, NEW kind, NEW amount, NEW ref, Post(v, kind, amount, ref),
           NEW r \in Runs, NEW u \in Users
    PROVE  /\ ~(u = v /\ ref = r /\ kind = "TELEGRAM") => Charges(r, u)' = Charges(r, u)
           /\ ~(u = v /\ ref = r /\ kind = "REFUND") => Refunds(r, u)' = Refunds(r, u)
           /\ u = v /\ ref = r /\ kind = "TELEGRAM" =>
                 Charges(r, u)' = Charges(r, u) \cup {Len(ledger[u]) + 1}
           /\ u = v /\ ref = r /\ kind = "REFUND" =>
                 Refunds(r, u)' = Refunds(r, u) \cup {Len(ledger[u]) + 1}
<1> DEFINE row == [kind |-> kind, amount |-> amount, after |-> balance[v] + amount, ref |-> ref]
           n == Len(ledger[v]) + 1
<1>0. ledger \in [Users -> Seq(TransactionRow)]
  BY DEF Inv, TypeOK, LedgerTypeOK
<1>1. ledger' = [ledger EXCEPT ![v] = Append(ledger[v], row)] /\ row.kind = kind /\ row.ref = ref
  BY DEF Post
<1> HIDE DEF row
<1>2. CASE u # v
  <2>1. ledger'[u] = ledger[u]
    BY <1>0, <1>1, <1>2
  <2> QED
    BY <1>2, <2>1 DEF Charges, Refunds
<1>3. CASE u = v
  <2>1. ledger'[u] = Append(ledger[u], row) /\ ledger[u] \in Seq(TransactionRow)
    BY <1>0, <1>1, <1>3
  <2>2. /\ DOMAIN ledger'[u] = DOMAIN ledger[u] \cup {n} /\ n \notin DOMAIN ledger[u]
        /\ \A i \in DOMAIN ledger[u] : ledger'[u][i] = ledger[u][i]
        /\ ledger'[u][n] = row
    BY <1>3, <2>1
  <2>3. Charges(r, u)' = Charges(r, u) \cup (IF ref = r /\ kind = "TELEGRAM" THEN {n} ELSE {})
    BY <1>1, <2>2 DEF Charges
  <2>4. Refunds(r, u)' = Refunds(r, u) \cup (IF ref = r /\ kind = "REFUND" THEN {n} ELSE {})
    BY <1>1, <2>2 DEF Refunds
  <2> QED
    BY <1>3, <2>3, <2>4
<1> QED
  BY <1>2, <1>3

BooksRest(q, u) == Charges(q, u)' = Charges(q, u) /\ Refunds(q, u)' = Refunds(q, u)

(* Only a charge and a refund are booked on a run, and only on the run     *)
(* that takes the step.                                                    *)
LEMMA StepBooks ==
    ASSUME Inv, NEW r \in Runs, StepOf(r), NEW q \in Runs, NEW u \in Users
    PROVE  \/ BooksRest(q, u)
           \/ /\ q = r /\ Fee > 0 /\ ChargeNext(r, u) /\ at'[r] = "send"
              /\ Refunds(q, u)' = Refunds(q, u)
              /\ Charges(q, u)' = Charges(q, u) \cup {Len(ledger[u]) + 1}
           \/ /\ q = r /\ Fee > 0 /\ Refund(r) /\ at'[r] = "next" /\ u = job[r].serving
              /\ Charges(q, u)' = Charges(q, u)
              /\ Refunds(q, u)' = Refunds(q, u) \cup {Len(ledger[u]) + 1}
<1>0. /\ at \in [Runs -> Places] /\ Fee \in Nat
      /\ at[r] \in AtUser => job[r].serving \in Users
  BY FeeTyped DEF Inv, TypeOK, RunSound
<1>1. ASSUME UNCHANGED ledger PROVE BooksRest(q, u)
  BY <1>1 DEF BooksRest, Charges, Refunds
<1>2. ASSUME NEW v \in Users, ChargeNext(r, v), ~UNCHANGED ledger
      PROVE  \/ BooksRest(q, u)
             \/ /\ q = r /\ Fee > 0 /\ ChargeNext(r, u) /\ at'[r] = "send"
                /\ Refunds(q, u)' = Refunds(q, u)
                /\ Charges(q, u)' = Charges(q, u) \cup {Len(ledger[u]) + 1}
  <2>1. Fee > 0 /\ Post(v, "TELEGRAM", -Fee, r) /\ at'[r] = "send"
    BY <1>0, <1>2 DEF ChargeNext, TakeFee, Debit, Goto, ledgerVars
  <2> QED
    BY <1>2, <2>1, PostBooks DEF BooksRest
<1>3. ASSUME Refund(r), ~UNCHANGED ledger
      PROVE  \/ BooksRest(q, u)
             \/ /\ q = r /\ Fee > 0 /\ Refund(r) /\ at'[r] = "next" /\ u = job[r].serving
                /\ Charges(q, u)' = Charges(q, u)
                /\ Refunds(q, u)' = Refunds(q, u) \cup {Len(ledger[u]) + 1}
  <2>1. PICK v \in Users : v = job[r].serving
    BY <1>0, <1>3 DEF Refund, AtUser
  <2>2. Fee > 0 /\ Post(v, "REFUND", Fee, r) /\ at'[r] = "next"
    BY <1>0, <1>3, <2>1 DEF Refund, Credit, Goto, ledgerVars
  <2> QED
    BY <1>3, <2>1, <2>2, PostBooks DEF BooksRest
<1>4. ASSUME ~Refund(r), \A v \in Users : ~ChargeNext(r, v) PROVE UNCHANGED ledger
  BY <1>4 DEF StepOf, Begin, Tick, CatchUp, Ask, Continue, Launch, Check, ReadConfig,
         ReadRecipients, LoadVoice, Speak, ClaimNotice, Warn, SendPart, PartFails,
         BriefingFails, Delivered, LoopEnds, WriteLog, WriteSkip, WriteAbortLog,
         VoiceFails, StatementFails, ledgerVars
<1> QED
  BY <1>1, <1>2, <1>3, <1>4

(* A run that only changes its place, to one where nothing is asked of it, *)
(* or its parts.                                                           *)
LEMMA FeesRest ==
    ASSUME NEW r \in Runs, NEW u \in Users, FeesOf(r, u), BooksRest(r, u),
           job'[r].queue = job[r].queue, job'[r].sent = job[r].sent,
           job'[r].serving = job[r].serving,
           at'[r] \in {at[r], "gone", "aborted", "abortLog", "log", "done"}
    PROVE  FeesOf(r, u)'
BY DEF FeesOf, BooksRest, Unbooked, Charged, GivenBack, Early

(* A run that has booked nothing yet and serves nobody.                    *)
LEMMA FeesEarly ==
    ASSUME NEW r \in Runs, NEW u \in Users, Unbooked(r, u), BooksRest(r, u),
           job'[r].sent = {}, job'[r].serving = Nobody
    PROVE  FeesOf(r, u)'
<1>1. Unbooked(r, u)' /\ ~Charged(r, u)' /\ u # job'[r].serving /\ u \notin job'[r].sent
  BY DigestAssumption DEF BooksRest, Unbooked, Charged, One
<1> QED
  BY <1>1 DEF FeesOf

LEMMA OwnFees ==
    ASSUME Inv, FeesInv, NEW r \in Runs, StepOf(r), NEW u \in Users
    PROVE  FeesOf(r, u)'
<1>0. /\ at \in [Runs -> Places] /\ job \in [Runs -> Job] /\ job[r] \in Job
      /\ Effects(r) /\ RunSound(r) /\ FeesOf(r, u)
      /\ Nobody \notin Users /\ Fee \in Nat
  BY StepEffects, DigestAssumption, FeeTyped DEF Inv, TypeOK, FeesInv
<1>1. CASE at[r] \in Early
  <2>1. Unbooked(r, u)
    BY <1>0, <1>1 DEF FeesOf
  <2>2. BooksRest(r, u)
    BY <1>1, StepBooks DEF Early, ChargeNext, Refund
  <2>3. job'[r].sent = {} /\ job'[r].serving = Nobody
    BY <1>0, <1>1 DEF Effects, RunSound, Delivered, Early
  <2> QED
    BY <2>1, <2>2, <2>3, FeesEarly
<1>2. ASSUME UNCHANGED job, at'[r] \in {at[r], "gone", "aborted", "abortLog", "log", "done"},
             BooksRest(r, u)
      PROVE  FeesOf(r, u)'
  BY <1>0, <1>2, FeesRest
<1>3. ASSUME StatementFails(r) \/ LoopEnds(r) \/ WriteLog(r) \/ WriteAbortLog(r)
      PROVE  FeesOf(r, u)'
  <2>1. BooksRest(r, u) /\ UNCHANGED job
    BY <1>3 DEF StatementFails, LoopEnds, WriteLog, WriteAbortLog, BooksRest, Charges, Refunds, ledgerVars
  <2>2. Throws(r) => at'[r] \in {at[r], "gone", "aborted", "abortLog"}
    BY <1>0 DEF Throws, Finish, Goto, Restart
  <2>3. at'[r] \in {at[r], "gone", "aborted", "abortLog", "log", "done"}
    BY <1>0, <1>3, <2>2 DEF StatementFails, LoopEnds, WriteLog, WriteAbortLog, Finish, Goto
  <2> QED
    BY <1>2, <2>1, <2>3
<1>4. ASSUME NEW v \in Users, ChargeNext(r, v) PROVE FeesOf(r, u)'
  <2>1. /\ job'[r].queue = job[r].queue \ {v} /\ job'[r].serving = v /\ job'[r].sent = job[r].sent
    <3> DEFINE paid == [job[r] EXCEPT !.queue = @ \ {v}, !.serving = v,
                                      !.todo = PartsFor(v, job[r].choice[v], job[r].voice)]
               poor == [job[r] EXCEPT !.queue = @ \ {v}, !.serving = v]
    <3>1. /\ paid.queue = job[r].queue \ {v} /\ paid.serving = v /\ paid.sent = job[r].sent
          /\ poor.queue = job[r].queue \ {v} /\ poor.serving = v /\ poor.sent = job[r].sent
      BY <1>0 DEF Job
    <3>2. job' = [job EXCEPT ![r] = paid] \/ job' = [job EXCEPT ![r] = poor]
      BY <1>4 DEF ChargeNext
    <3> HIDE DEF paid, poor
    <3> QED
      BY <1>0, <3>1, <3>2
  <2>2. at[r] = "next" /\ job[r].serving = Nobody /\ v \in job[r].queue /\ FeesOf(r, v)
    BY <1>0, <1>4 DEF ChargeNext, RunSound, FeesInv
  <2>3. CASE u # v
    <3>1. BooksRest(r, u)
      <4>1. ~ChargeNext(r, u) \/ BooksRest(r, u)
        <5> SUFFICES ASSUME ChargeNext(r, u) PROVE FALSE
          OBVIOUS
        <5> DEFINE w == job'[r].serving
        <5>1. job'[r].serving = u
          <6> DEFINE paid == [job[r] EXCEPT !.queue = @ \ {u}, !.serving = u,
                                            !.todo = PartsFor(u, job[r].choice[u], job[r].voice)]
                     poor == [job[r] EXCEPT !.queue = @ \ {u}, !.serving = u]
          <6>1. paid.serving = u /\ poor.serving = u
            BY <1>0 DEF Job
          <6>2. job' = [job EXCEPT ![r] = paid] \/ job' = [job EXCEPT ![r] = poor]
            BY DEF ChargeNext
          <6> HIDE DEF paid, poor
          <6> QED
            BY <1>0, <6>1, <6>2
        <5> QED
          BY <2>1, <2>3, <5>1
      <4> QED
        BY <2>2, <4>1, StepBooks DEF Refund
    <3>2. at'[r] \in {"send", "notice"}
      BY <1>0, <1>4 DEF ChargeNext, Goto
    <3> QED
      BY <1>0, <2>1, <2>2, <2>3, <3>1, <3>2
         DEF FeesOf, BooksRest, Unbooked, Charged, GivenBack, Early
  <2>4. CASE u = v
    <3>1. Unbooked(r, u) /\ u \notin job[r].sent
      BY <2>2, <2>4 DEF FeesOf
    <3>2. CASE at'[r] = "send"
      <4>1. TakeFee(r, u)
        BY <1>0, <1>4, <2>4, <3>2 DEF ChargeNext, Goto
      <4>2. CASE Fee = 0
        <5>1. BooksRest(r, u)
          BY <4>2, StepBooks
        <5>2. Unbooked(r, u)' /\ ~Charged(r, u)'
          BY <3>1, <5>1 DEF Unbooked, BooksRest, Charged, One
        <5> QED
          BY <2>1, <2>4, <3>1, <3>2, <4>2, <5>2 DEF FeesOf, Early
      <4>3. CASE Fee > 0
        <5>1. Post(u, "TELEGRAM", -Fee, r)
          BY <1>0, <4>1, <4>3 DEF TakeFee, Debit
        <5>a. /\ Charges(r, u)' = Charges(r, u) \cup {Len(ledger[u]) + 1}
              /\ Refunds(r, u)' = Refunds(r, u)
          BY <5>1, PostBooks
        <5>b. Charges(r, u)' = {Len(ledger[u]) + 1} /\ Refunds(r, u)' = {}
          BY <3>1, <5>a DEF Unbooked
        <5>2. Charged(r, u)'
          BY <5>b DEF Charged, One
        <5> QED
          BY <2>1, <2>4, <3>1, <3>2, <4>3, <5>2 DEF FeesOf, Early
      <4> QED
        BY <1>0, <4>2, <4>3
    <3>3. CASE at'[r] # "send"
      <4>1. at'[r] = "notice"
        BY <1>0, <1>4, <3>3 DEF ChargeNext, Goto
      <4>2. BooksRest(r, u)
        BY <2>2, <3>3, StepBooks DEF Refund
      <4>3. Unbooked(r, u)' /\ ~Charged(r, u)'
        BY <3>1, <4>2 DEF Unbooked, BooksRest, Charged, One
      <4> QED
        BY <2>1, <2>4, <3>1, <4>1, <4>3 DEF FeesOf, Early
    <3> QED
      BY <3>2, <3>3
  <2> QED
    BY <2>3, <2>4
<1>5. ASSUME ClaimNotice(r) \/ Warn(r) PROVE FeesOf(r, u)'
  <2>1. BooksRest(r, u)
    BY <1>5 DEF ClaimNotice, Warn, BooksRest, Charges, Refunds, ledgerVars
  <2>2. at[r] \in {"notice", "warn"}
    BY <1>5 DEF ClaimNotice, Warn
  <2>3. \/ UNCHANGED job /\ at'[r] = "warn"
        \/ job' = [job EXCEPT ![r].serving = Nobody] /\ at'[r] = "next"
    BY <1>0, <1>5 DEF ClaimNotice, Warn, Goto
  <2>4. CASE UNCHANGED job /\ at'[r] = "warn"
    BY <1>0, <2>1, <2>2, <2>4 DEF FeesOf, BooksRest, Unbooked, Charged, GivenBack, Early
  <2>5. CASE job' = [job EXCEPT ![r].serving = Nobody] /\ at'[r] = "next"
    <3>1. /\ job'[r].queue = job[r].queue /\ job'[r].sent = job[r].sent /\ job'[r].serving = Nobody
      BY <1>0, <2>5 DEF Job
    <3>2. Charged(r, u) => u # job[r].serving
      BY <1>0, <2>2 DEF FeesOf, Unbooked, Charged, One
    <3> QED
      BY <1>0, <2>1, <2>5, <3>1, <3>2 DEF FeesOf, BooksRest, Unbooked, Charged, GivenBack, Early
  <2> QED
    BY <2>3, <2>4, <2>5
<1>6. ASSUME SendPart(r) \/ PartFails(r) \/ BriefingFails(r) PROVE FeesOf(r, u)'
  <2>1. BooksRest(r, u) /\ at[r] = "send"
    BY <1>6 DEF SendPart, PartFails, BriefingFails, BooksRest, Charges, Refunds, ledgerVars
  <2>2. at'[r] \in {"send", "refund"}
    BY <1>0, <1>6 DEF SendPart, PartFails, BriefingFails, Goto
  <2>3. /\ job'[r].queue = job[r].queue /\ job'[r].sent = job[r].sent
        /\ job'[r].serving = job[r].serving
    BY <1>0, <1>6 DEF SendPart, PartFails, BriefingFails, Job
  <2> QED
    BY <1>0, <2>1, <2>2, <2>3 DEF FeesOf, BooksRest, Unbooked, Charged, GivenBack, Early
<1>7. ASSUME Delivered(r) PROVE FeesOf(r, u)'
  <2>1. BooksRest(r, u) /\ at[r] = "send" /\ at'[r] = "next"
    BY <1>0, <1>7 DEF Delivered, Goto, BooksRest, Charges, Refunds, ledgerVars
  <2>2. /\ job'[r].queue = job[r].queue /\ job'[r].sent = job[r].sent \cup {job[r].serving}
        /\ job'[r].serving = Nobody
    BY <1>0, <1>7 DEF Delivered, Job
  <2> QED
    BY <1>0, <2>1, <2>2 DEF FeesOf, BooksRest, Unbooked, Charged, GivenBack, Early
<1>8. ASSUME Refund(r) PROVE FeesOf(r, u)'
  <2>0. at[r] = "refund"
    BY <1>8 DEF Refund
  <2>1. CASE Throws(r) /\ UNCHANGED job /\ UNCHANGED ledgerVars
    <3>1. BooksRest(r, u)
      BY <2>1 DEF BooksRest, Charges, Refunds, ledgerVars
    <3>2. at'[r] \in {at[r], "gone", "aborted", "abortLog"}
      BY <1>0, <2>1 DEF Throws, Finish, Goto, Restart
    <3> QED
      BY <1>2, <2>1, <3>1, <3>2
  <2>2. CASE /\ job' = [job EXCEPT ![r].failed = @ \cup {job[r].serving}, ![r].serving = Nobody]
             /\ Goto(r, "next")
             /\ IF Fee = 0 THEN UNCHANGED ledgerVars ELSE Credit(job[r].serving, "REFUND", Fee, r)
    <3> DEFINE new == [job[r] EXCEPT !.failed = @ \cup {job[r].serving}, !.serving = Nobody]
    <3>1. new.queue = job[r].queue /\ new.sent = job[r].sent /\ new.serving = Nobody
      BY <1>0 DEF Job
    <3>2. job' = [job EXCEPT ![r] = new]
      BY <2>2
    <3> HIDE DEF new
    <3>3. /\ job'[r].queue = job[r].queue /\ job'[r].sent = job[r].sent
          /\ job'[r].serving = Nobody /\ at'[r] = "next"
      BY <1>0, <2>2, <3>1, <3>2 DEF Goto
    <3>4. CASE u = job[r].serving /\ Fee > 0
      <4>1. Post(u, "REFUND", Fee, r)
        BY <1>0, <2>2, <3>4 DEF Credit
      <4>2. Charged(r, u) /\ u \notin job[r].sent /\ u \notin job[r].queue
        BY <1>0, <2>0, <3>4 DEF FeesOf
      <4>3. Charges(r, u)' = Charges(r, u) /\ Refunds(r, u)' = {Len(ledger[u]) + 1}
        BY <4>1, <4>2, PostBooks DEF Charged
      <4>4. GivenBack(r, u)' /\ ~Charged(r, u)'
        BY <4>2, <4>3 DEF GivenBack, Charged, One
      <4> QED
        BY <1>0, <3>3, <3>4, <4>2, <4>4 DEF FeesOf, Early
    <3>5. CASE ~(u = job[r].serving /\ Fee > 0)
      <4>1. BooksRest(r, u)
        BY <2>0, <3>5, StepBooks DEF ChargeNext
      <4>2. Charged(r, u) => u # job[r].serving
        BY <1>0, <3>5 DEF FeesOf, Unbooked, Charged, One
      <4> QED
        BY <1>0, <3>3, <4>1, <4>2 DEF FeesOf, BooksRest, Unbooked, Charged, GivenBack, Early
    <3> QED
      BY <3>4, <3>5
  <2> QED
    BY <1>8, <2>1, <2>2 DEF Refund
<1>9. ASSUME at[r] \notin Early
      PROVE  \/ StatementFails(r) \/ LoopEnds(r) \/ WriteLog(r) \/ WriteAbortLog(r)
             \/ \E v \in Users : ChargeNext(r, v)
             \/ ClaimNotice(r) \/ Warn(r)
             \/ SendPart(r) \/ PartFails(r) \/ BriefingFails(r)
             \/ Delivered(r) \/ Refund(r)
  BY <1>9 DEF StepOf, Begin, Tick, CatchUp, Ask, Continue, Launch, Check, ReadConfig,
         ReadRecipients, LoadVoice, Speak, WriteSkip, VoiceFails, Early
<1> QED
  BY <1>1, <1>3, <1>4, <1>5, <1>6, <1>7, <1>8, <1>9

LEMMA StepFees == Inv /\ FeesInv /\ [Next]_vars => FeesInv'
<1> SUFFICES ASSUME Inv, FeesInv, [Next]_vars, NEW q \in Runs, NEW u \in Users
             PROVE  FeesOf(q, u)'
  BY DEF FeesInv
<1>0. FeesOf(q, u)
  BY DEF FeesInv
<1>1. ASSUME NEW r \in Runs, StepOf(r) PROVE FeesOf(q, u)'
  <2>1. CASE q = r
    BY <1>1, <2>1, OwnFees
  <2>2. CASE q # r
    <3>1. BooksRest(q, u)
      BY <1>1, <2>2, StepBooks
    <3>2. job'[q] = job[q] /\ at'[q] \in {at[q], "gone"}
      BY <1>1, <2>2, StepEffects DEF Effects
    <3> QED
      BY <1>0, <3>1, <3>2, FeesRest
  <2> QED
    BY <2>1, <2>2
<1>2. ASSUME UNCHANGED ledger, UNCHANGED job, at'[q] \in {at[q], "gone"} PROVE FeesOf(q, u)'
  <2>1. BooksRest(q, u)
    BY <1>2 DEF BooksRest, Charges, Refunds
  <2> QED
    BY <1>0, <1>2, <2>1, FeesRest
<1>3. CASE Crash
  BY <1>2, <1>3, PlacesAfterRestart DEF Crash, ledgerVars
<1>4. ASSUME NEW v \in Users, NEW amount \in Amounts, AdminCredit(v, amount) PROVE FeesOf(q, u)'
  <2>1. BooksRest(q, u)
    <3>1. Post(v, "ADMIN", amount, NoRef) /\ q # NoRef
      BY <1>4, DigestAssumption, LedgerAssumption DEF AdminCredit, Credit
    <3> QED
      BY <3>1, PostBooks DEF BooksRest
  <2> QED
    BY <1>0, <1>4, <2>1, FeesRest DEF AdminCredit, runVars
<1>5. ASSUME Environment, ~Crash, \A v \in Users, amount \in Amounts : ~AdminCredit(v, amount)
      PROVE  FeesOf(q, u)'
  BY <1>2, <1>5 DEF Environment, Minute, SaveConfig, Choose, runVars, ledgerVars
<1>6. CASE UNCHANGED vars
  BY <1>2, <1>6 DEF vars, runVars, ledgerVars
<1> QED
  BY <1>1, <1>3, <1>4, <1>5, <1>6 DEF Next, StepOf, Environment

LEMMA InitFees == Init => FeesInv /\ MessagesInv
<1> SUFFICES ASSUME Init PROVE FeesInv /\ MessagesInv
  OBVIOUS
<1>1. ASSUME NEW r \in Runs
      PROVE  at[r] = "idle" /\ job[r].sent = {} /\ job[r].queue = {} /\ job[r].serving = Nobody
  BY DEF Init
<1>2. ASSUME NEW r \in Runs, NEW u \in Users PROVE Unbooked(r, u)
  <2>1. NoRef # r
    BY DigestAssumption, LedgerAssumption
  <2>2. \A i \in DOMAIN ledger[u] : ledger[u][i].ref = NoRef
    <3>1. ledger[u] = OpeningRows("ADMIN", balance[u])
      BY DEF Init
    <3> QED
      BY <3>1 DEF OpeningRows
  <2> QED
    BY <2>1, <2>2 DEF Unbooked, Charges, Refunds
<1>3. FeesInv
  <2> SUFFICES ASSUME NEW r \in Runs, NEW u \in Users PROVE FeesOf(r, u)
    BY DEF FeesInv
  <2>1. Nobody \notin Users
    BY DigestAssumption
  <2>2. ~Charged(r, u)
    BY <1>2 DEF Unbooked, Charged, One
  <2> QED
    BY <1>1, <1>2, <2>1, <2>2 DEF FeesOf
<1>4. MessagesInv
  BY <1>1 DEF MessagesInv
<1> QED
  BY <1>3, <1>4

(* A fee is kept for a message that arrived, or for the one user who was   *)
(* being served when a run was cut short; nobody pays twice in a run.      *)
THEOREM DigestFeesAreEarned == Spec => []FeesAreEarned
<1>1. Inv /\ FeesInv /\ MessagesInv => FeesAreEarned
  <2> SUFFICES ASSUME Inv, FeesInv, MessagesInv, NEW r \in Runs, NEW u \in Users
               PROVE  /\ Kept(r, u) \in {0, 1}
                      /\ Fee > 0 /\ u \in job[r].sent => Kept(r, u) = 1
                      /\ Kept(r, u) = 1 => u \in job[r].sent \/ u = job[r].serving
                      /\ u \in job[r].sent => Arrived(r, u)
                      /\ at[r] = "done" => job[r].serving = Nobody
    BY DEF FeesAreEarned
  <2>1. FeesOf(r, u)
    BY DEF FeesInv
  <2>2. Cardinality({}) = 0 /\ \A i : Cardinality({i}) = 1
    BY FS_EmptySet, FS_Singleton
  <2>3. Unbooked(r, u) => Kept(r, u) = 0
    BY <2>2 DEF Unbooked, Kept
  <2>4. ASSUME Charged(r, u) PROVE Kept(r, u) = 1
    <3>1. Cardinality(Charges(r, u)) = 1 /\ Cardinality(Refunds(r, u)) = 0
      <4>1. PICK i : Charges(r, u) = {i}
        BY <2>4 DEF Charged, One
      <4>2. Refunds(r, u) = {}
        BY <2>4 DEF Charged
      <4> QED
        BY <2>2, <4>1, <4>2
    <3> QED
      BY <3>1 DEF Kept
  <2>5. ASSUME GivenBack(r, u) PROVE Kept(r, u) = 0
    <3>1. Cardinality(Charges(r, u)) = 1 /\ Cardinality(Refunds(r, u)) = 1
      <4>1. PICK i : Charges(r, u) = {i}
        BY <2>5 DEF GivenBack, One
      <4>2. PICK j : Refunds(r, u) = {j}
        BY <2>5 DEF GivenBack, One
      <4> QED
        BY <2>2, <4>1, <4>2
    <3> QED
      BY <3>1 DEF Kept
  <2>6. at[r] = "done" => job[r].serving = Nobody
    BY DEF Inv, RunSound
  <2> QED
    BY <2>1, <2>3, <2>4, <2>5, <2>6 DEF FeesOf, MessagesInv
<1> QED
  BY <1>1, AlwaysInv, InitFees, StepFees, StepMessages, PTL DEF Spec
=============================================================================
