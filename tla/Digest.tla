------------------------------- MODULE Digest -------------------------------
(***************************************************************************)
(* The daily Telegram message: when it is sent, who pays for it, and what  *)
(* a failure half-way leaves behind.                                       *)
(*                                                                         *)
(* A run is one call of deliverToday, started by the minute tick, by the   *)
(* catch-up 25 s after a restart, or by an admin.  A step of a run is what *)
(* runs between two awaits: a database statement, a call of the speech     *)
(* model, or one Telegram message.  The wallet's own races are in Wallet;  *)
(* here a credit reads and writes the balance in one step.                 *)
(***************************************************************************)
EXTENDS WalletLedger, FiniteSets

CONSTANTS
    Runs,          \* each is one call of deliverToday
    Nobody,
    LastDay,       \* the days are 1..LastDay
    Minutes,       \* minutes of a day
    RetryAfter,    \* the 15 minutes after which an unsent day is tried again
    Fee,           \* what the wallet takes for a daily message
    Configs,       \* what an admin saves for the bot
    Choices,       \* what a user may have switched on
    Holders,       \* users with something in their portfolio
    Amounts,       \* what an admin credits
    Opening,       \* balances the accounts may start from
    Operations,    \* "tick", "manual", "configure", "choose", "credit"
    Failures       \* "statement", "telegram", "answer", "speech", "crash"

Days == 1..LastDay
Sections == {"portfolio", "news"}

ASSUME DigestAssumption ==
    /\ Nobody \notin Users /\ IsFiniteSet(Users)
    /\ LastDay \in Nat \ {0} /\ Minutes \in Nat \ {0} /\ RetryAfter \in Nat \ {0}
    /\ Fee \in 0..MaxBalance
    /\ Amounts \subseteq 1..MaxBalance
    /\ Opening \subseteq 0..MaxBalance
    /\ Choices \subseteq SUBSET Sections
    /\ Holders \subseteq Users
    /\ Configs \subseteq [ready: BOOLEAN, sendAt: Nat, weekdays: SUBSET Days]
    /\ {"TELEGRAM", "ADMIN", "REFUND"} \subseteq Kinds
    /\ Runs \subseteq Refs

VARIABLES
    cfg,         \* the bot's row: enabled with a token, and its schedule
    choice,      \* what each linked user receives; nothing when not linked
    log,         \* telegram_digest_log: the counts of a day, if it has a row
    notices,     \* wallet_notices: who was warned of an empty wallet, and when
    stored,      \* telegram_shared_digest: days whose voice file is saved
    clock,       \* Tehran's day and minute
    ticked,      \* the cron has fired in this minute
    restarted,   \* the catch-up of a restart is still to come
    busy,        \* sendInFlight
    voiceTask,   \* sharedVoiceTask
    at,          \* where each run is
    job,         \* the locals of each run
    inbox        \* external: what has reached each user's chat

rowVars == <<cfg, choice, log, notices, stored>>
clockVars == <<clock, ticked, restarted>>
runVars == <<busy, voiceTask, at, job>>
vars == <<ledgerVars, rowVars, clockVars, runVars, inbox>>

Config == [ready: BOOLEAN, sendAt: Nat, weekdays: SUBSET Days]
Counts == [written: BOOLEAN, sent: Nat, failed: Nat]
Parts == {"chart", "caption", "advice", "summary", "plan", "text", "voice"}
Message == [day: Days, run: Runs, part: Parts \cup {"warning"}]
Job == [origin: {"tick", "catchUp", "manual"}, force: BOOLEAN, day: Days,
        queue: SUBSET Users, choice: [Users -> SUBSET Sections], voice: BOOLEAN,
        serving: Users \cup {Nobody}, todo: Seq(Parts),
        sent: SUBSET Users, failed: SUBSET Users]
Inside == {"check", "config", "skip", "recipients", "voice", "speak", "next",
           "notice", "warn", "send", "refund", "log"}
Places == Inside \cup {"idle", "asked", "abortLog", "done", "aborted", "gone"}
NoTask == [day |-> 0, state |-> "none"]

Init ==
    /\ cfg \in Configs
    /\ choice \in [Users -> Choices]
    /\ balance \in [Users -> Opening]
    /\ ledger = [u \in Users |-> OpeningRows("ADMIN", balance[u])]
    /\ log = [d \in Days |-> [written |-> FALSE, sent |-> 0, failed |-> 0]]
    /\ notices = {}
    /\ stored = {}
    /\ clock = [day |-> 1, minute |-> 0]
    /\ ticked = FALSE
    /\ restarted = FALSE
    /\ busy = FALSE
    /\ voiceTask = NoTask
    /\ at = [r \in Runs |-> "idle"]
    /\ job = [r \in Runs |->
                [origin |-> "tick", force |-> FALSE, day |-> 1, queue |-> {},
                 choice |-> [u \in Users |-> {}], voice |-> FALSE, serving |-> Nobody,
                 todo |-> << >>, sent |-> {}, failed |-> {}]]
    /\ inbox = [u \in Users |-> {}]

----------------------------------------------------------------------------
Goto(r, place) == at' = [at EXCEPT ![r] = place]

(* The finally block of deliverToday releases the flag.                    *)
Finish(r, place) == Goto(r, place) /\ busy' = FALSE

(* process.exit on an unhandled rejection, or a crash: memory is lost, the *)
(* container comes up again and will look for a message it missed.         *)
Restart ==
    /\ at' = [r \in Runs |-> IF at[r] \in {"idle", "done", "aborted"} THEN at[r] ELSE "gone"]
    /\ busy' = FALSE
    /\ voiceTask' = NoTask
    /\ restarted' = TRUE

(* An exception leaves deliverToday.  Nest logs one that leaves a tick, an *)
(* admin's run writes an empty log row, and nobody catches the catch-up's. *)
Throws(r) ==
    \/ /\ job[r].origin # "catchUp"
       /\ Finish(r, IF job[r].origin = "manual" THEN "abortLog" ELSE "aborted")
       /\ UNCHANGED <<voiceTask, restarted>>
    \/ job[r].origin = "catchUp" /\ Restart

----------------------------------------------------------------------------
(* isSendSlot: the minute itself or the retry, if that is the same day; or *)
(* any later minute for the catch-up.                                      *)
SendSlot ==
    /\ clock.day \in cfg.weekdays
    /\ \/ clock.minute = cfg.sendAt
       \/ cfg.sendAt + RetryAfter < Minutes /\ clock.minute = cfg.sendAt + RetryAfter

SlotPassed == clock.day \in cfg.weekdays /\ clock.minute >= cfg.sendAt

(* deliverToday up to its first await.                                     *)
Deliver(r, origin, force) ==
    /\ busy' = TRUE
    /\ job' = [job EXCEPT ![r].origin = origin, ![r].force = force, ![r].day = clock.day]
    /\ Goto(r, IF force THEN "config" ELSE "check")

(* A second tick of a day, or one while a run is on, is refused at once.   *)
Tick(r) ==
    /\ "tick" \in Operations
    /\ at[r] = "idle" /\ ~ticked
    /\ cfg.ready /\ SendSlot /\ ~busy
    /\ Deliver(r, "tick", FALSE)
    /\ ticked' = TRUE
    /\ UNCHANGED <<ledgerVars, rowVars, clock, restarted, voiceTask, inbox>>

CatchUp(r) ==
    /\ at[r] = "idle" /\ restarted
    /\ restarted' = FALSE
    /\ IF cfg.ready /\ SlotPassed /\ ~busy
       THEN Deliver(r, "catchUp", FALSE)
       ELSE UNCHANGED <<busy, at, job>>
    /\ UNCHANGED <<ledgerVars, rowVars, clock, ticked, voiceTask, inbox>>

(* The admin's button looks at the flag, reads the configuration, and      *)
(* calls deliverToday, which looks at the flag again.                      *)
Ask(r, force) ==
    /\ "manual" \in Operations
    /\ at[r] = "idle" /\ ~busy
    /\ job' = [job EXCEPT ![r].origin = "manual", ![r].force = force]
    /\ Goto(r, "asked")
    /\ UNCHANGED <<ledgerVars, rowVars, clockVars, busy, voiceTask, inbox>>

(* Mutant: the flag is tested before the configuration is read, only.      *)
LaunchUnchecked(r) ==
    /\ at[r] = "asked"
    /\ IF cfg.ready
       THEN Deliver(r, "manual", job[r].force)
       ELSE Goto(r, "done") /\ UNCHANGED <<busy, job>>
    /\ UNCHANGED <<ledgerVars, rowVars, clockVars, voiceTask, inbox>>

Launch(r) ==
    /\ at[r] = "asked"
    /\ IF cfg.ready /\ ~busy
       THEN Deliver(r, "manual", job[r].force)
       ELSE Goto(r, "done") /\ UNCHANGED <<busy, job>>
    /\ UNCHANGED <<ledgerVars, rowVars, clockVars, voiceTask, inbox>>

(* Mutant: a day with one message sent still counts as unsent.             *)
CheckOffByOne(r) ==
    /\ at[r] = "check"
    /\ IF log[job[r].day].sent > 1 THEN Finish(r, "done")
                                   ELSE Goto(r, "config") /\ UNCHANGED busy
    /\ UNCHANGED <<ledgerVars, rowVars, clockVars, voiceTask, job, inbox>>

Check(r) ==
    /\ at[r] = "check"
    /\ IF log[job[r].day].sent > 0 THEN Finish(r, "done")
                                   ELSE Goto(r, "config") /\ UNCHANGED busy
    /\ UNCHANGED <<ledgerVars, rowVars, clockVars, voiceTask, job, inbox>>

ReadConfig(r) ==
    /\ at[r] = "config"
    /\ Goto(r, IF cfg.ready THEN "recipients" ELSE "skip")
    /\ UNCHANGED <<ledgerVars, rowVars, clockVars, busy, voiceTask, job, inbox>>

(* The audience is read once; later changes of choice are not seen.        *)
ReadRecipients(r) ==
    LET audience == {u \in Users : choice[u] # {}} IN
    /\ at[r] = "recipients"
    /\ job' = [job EXCEPT ![r].queue = audience, ![r].choice = choice]
    /\ Goto(r, IF audience = {} THEN "skip"
               ELSE IF \E u \in audience : "news" \in choice[u] THEN "voice" ELSE "next")
    /\ UNCHANGED <<ledgerVars, rowVars, clockVars, busy, voiceTask, inbox>>

(* sharedNewsVoice: the promise of this day is shared, even a rejected one. *)
LoadVoice(r) ==
    LET today == voiceTask.day = job[r].day IN
    /\ at[r] = "voice"
    /\ IF today /\ voiceTask.state = "rejected"
       THEN /\ Throws(r)
            /\ UNCHANGED job
       ELSE IF (today /\ voiceTask.state = "ready") \/ job[r].day \in stored
       THEN /\ voiceTask' = [day |-> job[r].day, state |-> "ready"]
            /\ job' = [job EXCEPT ![r].voice = TRUE]
            /\ Goto(r, "next")
            /\ UNCHANGED <<busy, restarted>>
       ELSE /\ Goto(r, "speak")
            /\ UNCHANGED <<busy, restarted, voiceTask, job>>
    /\ UNCHANGED <<ledgerVars, rowVars, clock, ticked, inbox>>

(* A statement fails in loadOrBuildSharedVoice outside its try block: the  *)
(* promise is rejected, and stays where the next run will find it.         *)
VoiceFails(r) ==
    /\ "statement" \in Failures
    /\ at[r] \in {"voice", "speak"}
    /\ ~(voiceTask.day = job[r].day /\ voiceTask.state \in {"ready", "rejected"})
    /\ UNCHANGED job
    /\ IF job[r].origin = "catchUp" THEN Restart
       ELSE /\ Finish(r, IF job[r].origin = "manual" THEN "abortLog" ELSE "aborted")
            /\ voiceTask' = [day |-> job[r].day, state |-> "rejected"]
            /\ UNCHANGED restarted
    /\ UNCHANGED <<ledgerVars, rowVars, clock, ticked, inbox>>

(* Speech that fails, or cannot be saved, is dropped with its script.      *)
Speak(r) ==
    /\ at[r] = "speak"
    /\ \/ /\ stored' = stored \cup {job[r].day}
          /\ voiceTask' = [day |-> job[r].day, state |-> "ready"]
          /\ job' = [job EXCEPT ![r].voice = TRUE]
       \/ /\ "speech" \in Failures
          /\ voiceTask' = NoTask
          /\ UNCHANGED <<stored, job>>
    /\ Goto(r, "next")
    /\ UNCHANGED <<ledgerVars, cfg, choice, log, notices, clockVars, busy, inbox>>

----------------------------------------------------------------------------
(* The messages of a user, in order.  The caption stands in for a chart    *)
(* that fails; the plan and the voice file may be lost; what else fails    *)
(* ends the message.                                                       *)
Optional == {"plan", "voice"}
PartsFor(u, sections, voice) ==
    (IF "portfolio" \in sections
     THEN IF u \in Holders THEN <<"chart", "advice", "plan">> ELSE <<"summary", "plan">>
     ELSE << >>)
    \o (IF "news" \in sections THEN <<"text">> ELSE << >>)
    \o (IF "news" \in sections /\ voice THEN <<"voice">> ELSE << >>)

TakeFee(r, u) == IF Fee = 0 THEN UNCHANGED ledgerVars ELSE Debit(u, "TELEGRAM", Fee, r)

(* tryCharge for the next user of the loop.                                *)
ChargeNext(r, u) ==
    /\ at[r] = "next" /\ u \in job[r].queue
    /\ \/ /\ TakeFee(r, u)
          /\ job' = [job EXCEPT ![r].queue = @ \ {u}, ![r].serving = u,
                                ![r].todo = PartsFor(u, job[r].choice[u], job[r].voice)]
          /\ Goto(r, "send")
       \/ /\ balance[u] < Fee
          /\ job' = [job EXCEPT ![r].queue = @ \ {u}, ![r].serving = u]
          /\ Goto(r, "notice")
          /\ UNCHANGED ledgerVars
    /\ UNCHANGED <<rowVars, clockVars, busy, voiceTask, inbox>>

(* Mutant: the notice is sent without claiming its row.                    *)
NoticeUnclaimed(r) ==
    /\ at[r] = "notice"
    /\ notices' = notices \cup {<<job[r].serving, job[r].day>>}
    /\ Goto(r, "warn")
    /\ UNCHANGED <<ledgerVars, cfg, choice, log, stored, clockVars, busy, voiceTask, job, inbox>>

(* claimDailyNotice: the unique row is inserted before the message is sent; *)
(* a failing insert, whatever its reason, means no message.                *)
ClaimNotice(r) ==
    LET row == <<job[r].serving, job[r].day>> IN
    /\ at[r] = "notice"
    /\ \/ /\ row \notin notices
          /\ notices' = notices \cup {row}
          /\ Goto(r, "warn")
          /\ UNCHANGED job
       \/ /\ row \in notices \/ "statement" \in Failures
          /\ job' = [job EXCEPT ![r].serving = Nobody]
          /\ Goto(r, "next")
          /\ UNCHANGED notices
    /\ UNCHANGED <<ledgerVars, cfg, choice, log, stored, clockVars, busy, voiceTask, inbox>>

Put(u, r, part) ==
    inbox' = [inbox EXCEPT ![u] = @ \cup {[day |-> job[r].day, run |-> r, part |-> part]}]

Warn(r) ==
    /\ at[r] = "warn"
    /\ Put(job[r].serving, r, "warning") \/ ("telegram" \in Failures /\ UNCHANGED inbox)
    /\ job' = [job EXCEPT ![r].serving = Nobody]
    /\ Goto(r, "next")
    /\ UNCHANGED <<ledgerVars, rowVars, clockVars, busy, voiceTask>>

SendPart(r) ==
    LET part == Head(job[r].todo) IN
    /\ at[r] = "send" /\ job[r].todo # << >>
    /\ job' = [job EXCEPT ![r].todo = Tail(@)]
    /\ Put(job[r].serving, r, part)
    /\ UNCHANGED <<ledgerVars, rowVars, clockVars, busy, voiceTask, at>>

(* Telegram refuses the message, or its answer is lost on the way back.    *)
PartFails(r) ==
    LET part == Head(job[r].todo)
        rest == Tail(job[r].todo)
        left == CASE part = "chart"     -> <<"caption">> \o rest
                  [] part \in Optional -> rest
                  [] OTHER              -> << >> IN
    /\ at[r] = "send" /\ job[r].todo # << >>
    /\ \/ "telegram" \in Failures /\ UNCHANGED inbox
       \/ "answer" \in Failures /\ Put(job[r].serving, r, part)
    /\ job' = [job EXCEPT ![r].todo = left]
    /\ IF part \in Optional \cup {"chart"} THEN UNCHANGED at ELSE Goto(r, "refund")
    /\ UNCHANGED <<ledgerVars, rowVars, clockVars, busy, voiceTask>>

(* The portfolio is read and analysed before its first message.            *)
BriefingFails(r) ==
    /\ "statement" \in Failures
    /\ at[r] = "send" /\ job[r].todo # << >>
    /\ Head(job[r].todo) \in {"chart", "summary"}
    /\ job' = [job EXCEPT ![r].todo = << >>]
    /\ Goto(r, "refund")
    /\ UNCHANGED <<ledgerVars, rowVars, clockVars, busy, voiceTask, inbox>>

Delivered(r) ==
    /\ at[r] = "send" /\ job[r].todo = << >>
    /\ job' = [job EXCEPT ![r].sent = @ \cup {job[r].serving}, ![r].serving = Nobody]
    /\ Goto(r, "next")
    /\ UNCHANGED <<ledgerVars, rowVars, clockVars, busy, voiceTask, inbox>>

(* Mutant: the failed user is counted and not refunded.                    *)
RefundForgotten(r) ==
    /\ at[r] = "refund"
    /\ job' = [job EXCEPT ![r].failed = @ \cup {job[r].serving}, ![r].serving = Nobody]
    /\ Goto(r, "next")
    /\ UNCHANGED <<ledgerVars, rowVars, clockVars, busy, voiceTask, inbox>>

(* A refund that the balance limit refuses throws out of the loop.         *)
Refund(r) ==
    LET u == job[r].serving IN
    /\ at[r] = "refund"
    /\ IF UnderCap(balance[u], Fee)
       THEN /\ IF Fee = 0 THEN UNCHANGED ledgerVars ELSE Credit(u, "REFUND", Fee, r)
            /\ job' = [job EXCEPT ![r].failed = @ \cup {u}, ![r].serving = Nobody]
            /\ Goto(r, "next")
            /\ UNCHANGED <<busy, voiceTask, restarted>>
       ELSE /\ UNCHANGED job
            /\ Throws(r)
            /\ UNCHANGED ledgerVars
    /\ UNCHANGED <<rowVars, clock, ticked, inbox>>

LoopEnds(r) ==
    /\ at[r] = "next" /\ job[r].queue = {}
    /\ Goto(r, "log")
    /\ UNCHANGED <<ledgerVars, rowVars, clockVars, busy, voiceTask, job, inbox>>

(* upsertLog replaces the counts of the day.                               *)
Upsert(d, sent, failed) ==
    log' = [log EXCEPT ![d] = [written |-> TRUE, sent |-> sent, failed |-> failed]]

(* Mutant: failed messages are counted as sent.                            *)
WriteLogAll(r) ==
    /\ at[r] = "log"
    /\ Upsert(job[r].day, Cardinality(job[r].sent \cup job[r].failed), 0)
    /\ Finish(r, "done")
    /\ UNCHANGED <<ledgerVars, cfg, choice, notices, stored, clockVars, voiceTask, job, inbox>>

WriteLog(r) ==
    /\ at[r] = "log"
    /\ Upsert(job[r].day, Cardinality(job[r].sent), Cardinality(job[r].failed))
    /\ Finish(r, "done")
    /\ UNCHANGED <<ledgerVars, cfg, choice, notices, stored, clockVars, voiceTask, job, inbox>>

WriteSkip(r) ==
    /\ at[r] = "skip"
    /\ Upsert(job[r].day, 0, 0)
    /\ Finish(r, "done")
    /\ UNCHANGED <<ledgerVars, cfg, choice, notices, stored, clockVars, voiceTask, job, inbox>>

(* The admin's run that threw: an empty row for the day it is by now.      *)
WriteAbortLog(r) ==
    /\ at[r] = "abortLog"
    /\ Upsert(clock.day, 0, 0) \/ ("statement" \in Failures /\ UNCHANGED log)
    /\ Goto(r, "aborted")
    /\ UNCHANGED <<ledgerVars, cfg, choice, notices, stored, clockVars, busy, voiceTask, job, inbox>>

----------------------------------------------------------------------------
(* Mutant: the flag is released on the normal path only.                   *)
StatementFailsBusy(r) ==
    /\ "statement" \in Failures
    /\ at[r] \in {"check", "config", "recipients", "next", "refund", "log", "skip"}
    /\ UNCHANGED job
    /\ Goto(r, "aborted")
    /\ UNCHANGED <<ledgerVars, rowVars, clockVars, busy, voiceTask, inbox>>

(* Any other statement of a run may fail, and nothing in it catches that.  *)
StatementFails(r) ==
    /\ "statement" \in Failures
    /\ at[r] \in {"check", "config", "recipients", "next", "refund", "log", "skip"}
    /\ UNCHANGED job
    /\ Throws(r)
    /\ UNCHANGED <<ledgerVars, rowVars, clock, ticked, inbox>>

Crash ==
    /\ "crash" \in Failures
    /\ Restart
    /\ UNCHANGED <<ledgerVars, rowVars, clock, ticked, job, inbox>>

Minute ==
    /\ \/ /\ clock.minute + 1 < Minutes
          /\ clock' = [clock EXCEPT !.minute = @ + 1]
       \/ /\ clock.minute + 1 = Minutes /\ clock.day < LastDay
          /\ clock' = [day |-> clock.day + 1, minute |-> 0]
    /\ ticked' = FALSE
    /\ UNCHANGED <<ledgerVars, rowVars, restarted, runVars, inbox>>

SaveConfig(new) ==
    /\ "configure" \in Operations
    /\ cfg' = new
    /\ UNCHANGED <<ledgerVars, choice, log, notices, stored, clockVars, runVars, inbox>>

(* A user links or unlinks the chat, or an admin sets what is sent to it.  *)
Choose(u, sections) ==
    /\ "choose" \in Operations
    /\ choice' = [choice EXCEPT ![u] = sections]
    /\ UNCHANGED <<ledgerVars, cfg, log, notices, stored, clockVars, runVars, inbox>>

AdminCredit(u, amount) ==
    /\ "credit" \in Operations
    /\ UnderCap(balance[u], amount)
    /\ Credit(u, "ADMIN", amount, NoRef)
    /\ UNCHANGED <<rowVars, clockVars, runVars, inbox>>

----------------------------------------------------------------------------
Continue(r) ==
    \/ Launch(r)
    \/ Check(r)
    \/ ReadConfig(r)
    \/ ReadRecipients(r)
    \/ LoadVoice(r)
    \/ Speak(r)
    \/ \E u \in Users : ChargeNext(r, u)
    \/ ClaimNotice(r)
    \/ Warn(r)
    \/ SendPart(r)
    \/ PartFails(r)
    \/ BriefingFails(r)
    \/ Delivered(r)
    \/ Refund(r)
    \/ LoopEnds(r)
    \/ WriteLog(r)
    \/ WriteSkip(r)
    \/ WriteAbortLog(r)

Begin(r) == Tick(r) \/ CatchUp(r) \/ \E force \in BOOLEAN : Ask(r, force)

Environment ==
    \/ Minute
    \/ Crash
    \/ \E new \in Configs : SaveConfig(new)
    \/ \E u \in Users, sections \in Choices : Choose(u, sections)
    \/ \E u \in Users, amount \in Amounts : AdminCredit(u, amount)

Next ==
    \/ \E r \in Runs : Begin(r) \/ Continue(r) \/ VoiceFails(r) \/ StatementFails(r)
    \/ Environment

Spec == Init /\ [][Next]_vars

(* The event loop runs what its awaits have settled; every call a run      *)
(* waits for, of Telegram, of the models or of the database, times out.    *)
FairSpec == Spec /\ \A r \in Runs : WF_vars(Continue(r))

----------------------------------------------------------------------------
TypeOK ==
    /\ LedgerTypeOK
    /\ cfg \in Config
    /\ choice \in [Users -> SUBSET Sections]
    /\ log \in [Days -> Counts]
    /\ notices \subseteq Users \X Days
    /\ stored \subseteq Days
    /\ clock \in [day: Days, minute: 0..(Minutes - 1)]
    /\ ticked \in BOOLEAN /\ restarted \in BOOLEAN /\ busy \in BOOLEAN
    /\ voiceTask \in [day: Days \cup {0}, state: {"none", "ready", "rejected"}]
    /\ at \in [Runs -> Places]
    /\ job \in [Runs -> Job]
    /\ inbox \in [Users -> SUBSET Message]

Active(r) == at[r] \in Inside

(* The flag is set exactly while a run is inside deliverToday, and two     *)
(* runs never are: whatever starts, throws, is refused or dies             *)
(* (sendInFlight).                                                         *)
OneRunAtATime ==
    /\ busy <=> \E r \in Runs : Active(r)
    /\ \A q, r \in Runs : Active(q) /\ Active(r) => q = r

(* An automatic run past its check works on a day nobody has been served:  *)
(* what it read of the log stays true until it ends.                       *)
PastCheck(r) == Active(r) /\ at[r] # "check"
AutomaticRunsServeUnsentDays ==
    \A r \in Runs : PastCheck(r) /\ ~job[r].force => log[job[r].day].sent = 0

(* What a run has taken from a user: its charge, less its refund.          *)
Charges(r, u) ==
    {i \in DOMAIN ledger[u] : ledger[u][i].ref = r /\ ledger[u][i].kind = "TELEGRAM"}
Refunds(r, u) ==
    {i \in DOMAIN ledger[u] : ledger[u][i].ref = r /\ ledger[u][i].kind = "REFUND"}
Kept(r, u) == Cardinality(Charges(r, u)) - Cardinality(Refunds(r, u))

(* What a complete message must have brought to the chat of u.             *)
Got(r, u, part) == [day |-> job[r].day, run |-> r, part |-> part] \in inbox[u]
Arrived(r, u) ==
    LET sections == job[r].choice[u] IN
    /\ "news" \in sections => Got(r, u, "text")
    /\ "portfolio" \in sections =>
          IF u \in Holders
          THEN Got(r, u, "advice") /\ (Got(r, u, "chart") \/ Got(r, u, "caption"))
          ELSE Got(r, u, "summary")

(* A fee is kept for a message that arrived, and for one user more: the    *)
(* one being served, or the one left over when the run was cut short.      *)
(* Nobody else has paid, and nobody has paid twice in a run.               *)
FeesAreEarned ==
    \A r \in Runs, u \in Users :
        /\ Kept(r, u) \in {0, 1}
        /\ Fee > 0 /\ u \in job[r].sent => Kept(r, u) = 1
        /\ Kept(r, u) = 1 => u \in job[r].sent \/ u = job[r].serving
        /\ u \in job[r].sent => Arrived(r, u)
        /\ at[r] = "done" => job[r].serving = Nobody

(* However many runs a day has, restarts among them, a user is told once   *)
(* that the wallet is empty (claimDailyNotice).                            *)
WarnedOnceADay ==
    \A u \in Users : \A m, n \in inbox[u] :
        m.part = "warning" /\ n.part = "warning" /\ m.day = n.day => m = n

(* The log never claims a message that did not arrive: as many users have  *)
(* the day's message as its count says, or more.                           *)
Served(d) == {u \in Users : \E r \in Runs : job[r].day = d /\ u \in job[r].sent}
LogCountsDeliveries == \A d \in Days : log[d].sent <= Cardinality(Served(d))

(* What is kept of a day - its log, its notices - agrees with what was     *)
(* delivered, and automatic runs go by it.                                 *)
DayIsAccountedFor == AutomaticRunsServeUnsentDays /\ WarnedOnceADay /\ LogCountsDeliveries

(* A run that has begun ends and releases the flag, so that the next       *)
(* minute's tick is not refused for ever.                                  *)
FlagIsReleased == busy ~> ~busy
=============================================================================
