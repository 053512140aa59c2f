------------------------------- MODULE Market -------------------------------
(***************************************************************************)
(* The market's prices: when they are fetched, by whom, and whether the    *)
(* day ends up stored.                                                     *)
(*                                                                         *)
(* The minute tick and the catch-up of a restart call syncMarketIfDue; it  *)
(* and an admin's two buttons start ingests, which run on in the           *)
(* background behind one flag.  A step of a call or of an ingest is a      *)
(* statement or a request together with what the program does with its     *)
(* answer, up to the next await.                                           *)
(***************************************************************************)
EXTENDS Naturals, FiniteSets, FiniteSetsExt

CONSTANTS
    Syncs,         \* each is one call of syncMarketIfDue at a time
    Ingests,       \* each is one ingest in the background at a time
    Symbols,       \* what the exchange lists
    LastDate,       \* calendar days are 1..LastDay
    TradingDays,   \* those which are not a Thursday or a Friday
    FirstDay,      \* the day and the minute at which the program starts
    FirstMinute,
    LastMinute,    \* minutes of a day are 0..LastMinute
    AtMinute,      \* the minute of the ingest that the admin has set
    RetryGap,      \* the 60 minutes between the slots of a day
    Backoff,       \* the 15 minutes without another automatic ingest
    MaxDays,       \* trading days of one ingest: 5
    Lookback,      \* days that are looked back for them: 14
    MaxIncidents,  \* how many troubled ingests, crashes, and uses of a button
    Faults       \* "statement", "row", "blank", "source", "options", "crash"

Calendar == 1..LastDate

ASSUME MarketAssumption ==
    /\ LastDate \in Nat /\ FirstDay \in Calendar
    /\ TradingDays \subseteq Calendar
    /\ \A d \in FirstDay..LastDate : \E x \in TradingDays : x <= d /\ d <= x + Lookback
    /\ LastMinute \in Nat /\ {AtMinute, FirstMinute} \subseteq 0..LastMinute
    /\ RetryGap \in Nat \ {0}
    /\ Backoff \in Nat \ {0} /\ MaxDays \in Nat \ {0} /\ Lookback \in Nat
    /\ MaxIncidents \in Nat

VARIABLES
    day, minute,   \* Tehran's clock
    cool,          \* minutes until marketRetryAfter
    busy,          \* ingestInFlight
    armed,         \* the catch-up of the start is still to come
    bars,          \* price_bars of stocks, gold and funds by day
    options,       \* price_bars of option contracts by day
    status,        \* market_ingest_status
    button,        \* optionsRefresh, which the admin's page asks for
    sync,          \* the calls of syncMarketIfDue
    ingest,        \* the ingests
    calm,          \* history: minutes since the last automatic ingest began
    incidents           \* disturbances that may still come

clockVars == <<day, minute>>
flagVars == <<cool, busy, armed, button>>
dataVars == <<bars, options, status>>
marketVars == <<clockVars, flagVars, dataVars, sync, ingest, calm, incidents>>

(* A stored bar may have no price: the source's empty number is stored too. *)
Bar == {"none", "blank", "priced"}
NoSync == [at |-> "idle", clock |-> FALSE, retry |-> FALSE, day |-> FirstDay]
NoIngest == [at |-> "idle", kind |-> "full", auto |-> FALSE, days |-> {}, rows |-> {},
             saved |-> FALSE, troubled |-> FALSE]
Sync == [at: {"idle", "schedule", "count", "countOptions"},
         clock: BOOLEAN, retry: BOOLEAN, day: Calendar]
Ingest == [at: {"idle", "fetch", "rows", "options", "indices", "status", "failed"},
           kind: {"full", "button", "missing"}, auto: BOOLEAN,
           days: SUBSET Calendar, rows: SUBSET Symbols, saved: BOOLEAN, troubled: BOOLEAN]

MarketInit ==
    /\ day = FirstDay /\ minute = FirstMinute
    /\ cool = 0 /\ busy = FALSE /\ armed = TRUE /\ button = "none"
    /\ bars = [d \in Calendar |-> [s \in Symbols |-> "none"]]
    /\ options = [d \in Calendar |-> "none"]
    /\ status = "none"
    /\ sync = [t \in Syncs |-> NoSync]
    /\ ingest = [i \in Ingests |-> NoIngest]
    /\ calm = Backoff
    /\ incidents = MaxIncidents

----------------------------------------------------------------------------
(* latestTradingDEven, and the days of runIngestCatchUp.                   *)
RecentTradingDays(d) == {x \in TradingDays : x <= d /\ d <= x + Lookback}
LatestTradingDay(d) == Max(RecentTradingDays(d))
Window(d) ==
    {x \in RecentTradingDays(d) : Cardinality({y \in RecentTradingDays(d) : y > x}) < MaxDays}

(* isRefreshSlot; a retry that would fall behind midnight is left out.     *)
Slot ==
    IF minute = AtMinute THEN "exact"
    ELSE IF \E n \in {1, 2} : minute = AtMinute + n * RetryGap THEN "retry"
    ELSE "none"

(* Mutant: a bar without a price counts.                                   *)
HasAnyBars(d) == \E s \in Symbols : bars[d][s] # "none"

(* hasBarsForLatestTradingDay: one priced bar is enough.                   *)
HasBars(d) == \E s \in Symbols : bars[d][s] = "priced"

(* Disturbances are bounded.  Whether something goes wrong with an ingest  *)
(* is settled when it begins, so that what it meets counts as one.         *)
Incident(n) == n <= incidents /\ incidents' = incidents - n
Trouble(i, what) == what \in Faults /\ ingest[i].troubled

Leave(t) == sync' = [sync EXCEPT ![t] = NoSync]
IngestRuns(i) == ingest[i].at # "idle"

(* The process is gone with its memory and starts anew.                    *)
RestartProcess ==
    /\ sync' = [t \in Syncs |-> NoSync]
    /\ ingest' = [i \in Ingests |-> NoIngest]
    /\ busy' = FALSE /\ cool' = 0 /\ armed' = TRUE /\ button' = "none"
    /\ calm' = Backoff

(* beginIngest, or one of the two that fetch options only: the flag is set *)
(* and the work goes on in the background.                                 *)
BeginIngest(job, cost) ==
    /\ busy' = TRUE
    /\ \E i \in Ingests, troubled \in BOOLEAN :
        /\ ~IngestRuns(i)
        /\ ingest' = [ingest EXCEPT ![i] = [job EXCEPT !.troubled = troubled]]
        /\ Incident(IF troubled THEN cost + 1 ELSE cost)

BeginFull(auto, cost) ==
    BeginIngest([NoIngest EXCEPT !.at = "fetch", !.auto = auto, !.days = Window(day)], cost)

BeginOptions(kind, d, cost) ==
    BeginIngest([NoIngest EXCEPT !.at = "options", !.kind = kind, !.days = {d}], cost)

(* What syncMarketIfDue does in both of its places that start an ingest.   *)
BeginAutomatic(t) ==
    /\ Leave(t)
    /\ IF busy \/ cool > 0
       THEN UNCHANGED <<busy, cool, calm, ingest, incidents>>
       ELSE /\ BeginFull(TRUE, 0)
            /\ cool' = Backoff
            /\ calm' = 0

----------------------------------------------------------------------------

(* The cron, once a minute.  The last evening never ends.                  *)
Tick(t) ==
    /\ sync[t].at = "idle"
    /\ IF minute < LastMinute THEN minute' = minute + 1 /\ UNCHANGED day
       ELSE IF day < LastDate THEN minute' = 0 /\ day' = day + 1
       ELSE UNCHANGED <<minute, day>>
    /\ cool' = IF cool > 0 THEN cool - 1 ELSE 0
    /\ calm' = IF calm < Backoff THEN calm + 1 ELSE Backoff
    /\ sync' = [sync EXCEPT ![t].at = "schedule", ![t].clock = TRUE]
    /\ UNCHANGED <<busy, armed, button, dataVars, ingest, incidents>>

(* onModuleInit's timer.                                                   *)
CatchUp(t) ==
    /\ armed /\ sync[t].at = "idle"
    /\ armed' = FALSE
    /\ sync' = [sync EXCEPT ![t].at = "schedule"]
    /\ UNCHANGED <<clockVars, cool, busy, button, dataVars, ingest, calm, incidents>>

(* readRefreshSchedule has answered, and the clock is read.                *)
Decide(t) ==
    /\ sync[t].at = "schedule"
    /\ IF minute < AtMinute
       THEN Leave(t) /\ UNCHANGED <<busy, cool, calm, ingest, incidents>>
       ELSE IF sync[t].clock /\ Slot = "exact"
       THEN BeginAutomatic(t)
       ELSE /\ sync' = [sync EXCEPT ![t].at = "count", ![t].retry = (Slot = "retry"),
                                    ![t].day = LatestTradingDay(day)]
            /\ UNCHANGED <<busy, cool, calm, ingest, incidents>>
    /\ UNCHANGED <<clockVars, armed, button, dataVars>>

(* Mutant: a day without bars is fetched again without setting             *)
(* marketRetryAfter.                                                       *)
CountNoBackoff(t) ==
    /\ sync[t].at = "count"
    /\ IF ~HasBars(sync[t].day)
       THEN /\ Leave(t)
            /\ IF busy \/ cool > 0 THEN UNCHANGED <<busy, ingest, calm, incidents>>
                                   ELSE BeginFull(TRUE, 0) /\ calm' = 0
       ELSE /\ IF sync[t].clock /\ sync[t].retry /\ ~busy
               THEN sync' = [sync EXCEPT ![t].at = "countOptions", ![t].day = LatestTradingDay(day)]
               ELSE Leave(t)
            /\ UNCHANGED <<busy, calm, ingest, incidents>>
    /\ UNCHANGED <<clockVars, cool, armed, button, dataVars>>

(* The day's bars are counted: fetch them, or go on to the options if this *)
(* is a retry, or leave.                                                   *)
Count(t) ==
    /\ sync[t].at = "count"
    /\ IF ~HasBars(sync[t].day)
       THEN BeginAutomatic(t)
       ELSE /\ IF sync[t].clock /\ sync[t].retry /\ ~busy
               THEN sync' = [sync EXCEPT ![t].at = "countOptions", ![t].day = LatestTradingDay(day)]
               ELSE Leave(t)
            /\ UNCHANGED <<busy, cool, calm, ingest, incidents>>
    /\ UNCHANGED <<clockVars, armed, button, dataVars>>

(* ingestOptionsIfMissing: the flag was looked at before the options were  *)
(* counted and is not looked at again.  The values of the indices, which   *)
(* are refreshed next, are not modelled.                                   *)
CountOptions(t) ==
    /\ sync[t].at = "countOptions"
    /\ Leave(t)
    /\ IF options[sync[t].day] = "priced" THEN UNCHANGED <<busy, ingest, incidents>>
                                          ELSE BeginOptions("missing", sync[t].day, 0)
    /\ UNCHANGED <<clockVars, cool, armed, button, dataVars, calm>>

(* A statement fails.  Nest logs what leaves a tick; nobody catches what   *)
(* leaves the catch-up, and the process exits.                             *)
SyncFails(t) ==
    /\ sync[t].at \in {"schedule", "count", "countOptions"}
    /\ "statement" \in Faults /\ Incident(1)
    /\ IF sync[t].clock THEN Leave(t) /\ UNCHANGED <<flagVars, ingest, calm>> ELSE RestartProcess
    /\ UNCHANGED <<clockVars, dataVars>>

----------------------------------------------------------------------------
(* The admin's buttons; while the flag is set they are refused at once.    *)
IngestButton ==
    /\ ~busy
    /\ BeginFull(FALSE, 1)
    /\ UNCHANGED <<clockVars, cool, armed, button, dataVars, sync, calm>>

OptionsButton ==
    /\ ~busy
    /\ BeginOptions("button", day, 1)
    /\ button' = "running"
    /\ UNCHANGED <<clockVars, cool, armed, dataVars, sync, calm>>

----------------------------------------------------------------------------
GotoIngest(i, place) == ingest' = [ingest EXCEPT ![i].at = place]

(* The finally block.                                                      *)
Finish(i) == ingest' = [ingest EXCEPT ![i] = NoIngest] /\ busy' = FALSE

(* The next day of the window; behind its last are the options and, when   *)
(* they are through, the indices.                                          *)
NextDay(i, job) ==
    ingest' = [ingest EXCEPT ![i] =
        IF Cardinality(job.days) = 1 THEN [job EXCEPT !.at = "options", !.rows = {}]
        ELSE [job EXCEPT !.at = "fetch", !.rows = {}, !.days = @ \ {Min(@)}]]

(* fetchRowsForDate asks its sources one after the other and takes the     *)
(* first answer; a day for which none answers is passed over.              *)
FetchRows(i) ==
    /\ ingest[i].at = "fetch"
    /\ \/ ingest' = [ingest EXCEPT ![i].at = "rows", ![i].rows = Symbols]
       \/ Trouble(i, "source") /\ NextDay(i, ingest[i])
    /\ UNCHANGED <<clockVars, flagVars, dataVars, sync, calm, incidents>>

(* One row of ingestForDate: its bar is written over, with or without a    *)
(* price; an instrument that cannot be saved is skipped.                   *)
StoreRow(i, s) ==
    LET d == Min(ingest[i].days)
        Advance(job) == IF job.rows = {} THEN NextDay(i, job)
                                         ELSE ingest' = [ingest EXCEPT ![i] = job] IN
    /\ ingest[i].at = "rows" /\ s \in ingest[i].rows
    /\ \/ /\ bars' = [bars EXCEPT ![d][s] = "priced"]
          /\ Advance([ingest[i] EXCEPT !.rows = @ \ {s}, !.saved = TRUE])
       \/ /\ Trouble(i, "blank")
          /\ bars' = [bars EXCEPT ![d][s] = "blank"]
          /\ Advance([ingest[i] EXCEPT !.rows = @ \ {s}, !.saved = TRUE])
       \/ /\ Trouble(i, "row")
          /\ Advance([ingest[i] EXCEPT !.rows = @ \ {s}])
          /\ UNCHANGED bars
    /\ UNCHANGED <<clockVars, flagVars, options, status, sync, calm, incidents>>

(* ingestOptions; a full ingest goes on when it throws.                    *)
StoreOptions(i) ==
    LET d == Min(ingest[i].days)
        full == ingest[i].kind = "full" IN
    /\ ingest[i].at = "options"
    /\ \/ /\ \/ options' = [options EXCEPT ![d] = "priced"]
             \/ Trouble(i, "blank") /\ options' = [options EXCEPT ![d] = "blank"]
          /\ IF full
             THEN /\ ingest' = [ingest EXCEPT ![i].at = "indices", ![i].saved = TRUE]
                  /\ UNCHANGED <<busy, button>>
             ELSE /\ Finish(i)
                  /\ button' = IF ingest[i].kind = "button" THEN "done" ELSE button
       \/ /\ Trouble(i, "options")
          /\ GotoIngest(i, IF full THEN "indices" ELSE "failed")
          /\ UNCHANGED <<options, busy, button>>
    /\ UNCHANGED <<clockVars, cool, armed, bars, status, sync, calm, incidents>>

(* Mutant: an ingest which has stored nothing is not told from the others. *)
ConcludeAnyway(i) ==
    /\ ingest[i].at = "indices"
    /\ GotoIngest(i, "status")
    /\ UNCHANGED <<clockVars, flagVars, dataVars, sync, calm, incidents>>

(* ingestIndices, whose errors are swallowed; then an ingest which has     *)
(* stored nothing throws.                                                  *)
Conclude(i) ==
    /\ ingest[i].at = "indices"
    /\ GotoIngest(i, IF ingest[i].saved THEN "status" ELSE "failed")
    /\ UNCHANGED <<clockVars, flagVars, dataVars, sync, calm, incidents>>

WriteStatus(i) ==
    /\ ingest[i].at = "status"
    /\ status' = "ok"
    /\ Finish(i)
    /\ UNCHANGED <<clockVars, cool, armed, button, bars, options, sync, calm, incidents>>

(* A statement fails which no inner block catches.                         *)
IngestFails(i) ==
    /\ \/ ingest[i].at \in {"rows", "status"}
       \/ ingest[i].at \in {"fetch", "options"} /\ ingest[i].kind = "full"
    /\ Trouble(i, "statement")
    /\ GotoIngest(i, "failed")
    /\ UNCHANGED <<clockVars, flagVars, dataVars, sync, calm, incidents>>

(* The catch blocks: the error is logged and told to the admin, except if  *)
(* the statement that tells it fails as well, which is swallowed.          *)
RecordFailure(i) ==
    /\ ingest[i].at = "failed"
    /\ Finish(i)
    /\ IF ingest[i].kind = "full"
       THEN /\ \/ status' = "failed"
               \/ Trouble(i, "statement") /\ UNCHANGED status
            /\ UNCHANGED button
       ELSE /\ button' = IF ingest[i].kind = "button" THEN "error" ELSE button
            /\ UNCHANGED status
    /\ UNCHANGED <<clockVars, cool, armed, bars, options, sync, calm, incidents>>

Crash ==
    /\ "crash" \in Faults /\ Incident(1)
    /\ RestartProcess
    /\ UNCHANGED <<clockVars, dataVars>>

----------------------------------------------------------------------------
GoOnSync(t) ==
    Decide(t) \/ Count(t) \/ CountOptions(t)

GoOnIngest(i) ==
    \/ FetchRows(i) \/ StoreOptions(i) \/ Conclude(i) \/ WriteStatus(i) \/ RecordFailure(i)
    \/ \E s \in Symbols : StoreRow(i, s)

MarketNext ==
    \/ \E t \in Syncs : Tick(t) \/ CatchUp(t) \/ GoOnSync(t) \/ SyncFails(t)
    \/ \E i \in Ingests : GoOnIngest(i) \/ IngestFails(i)
    \/ IngestButton \/ OptionsButton
    \/ Crash

MarketSpec == MarketInit /\ [][MarketNext]_marketVars

(* The minutes go by, and every await has an end: requests to the sources  *)
(* time out after 45 seconds.                                              *)
FairSpec ==
    /\ MarketSpec
    /\ WF_marketVars(\E t \in Syncs : Tick(t))
    /\ \A t \in Syncs : WF_marketVars(GoOnSync(t))
    /\ \A i \in Ingests : WF_marketVars(GoOnIngest(i))

----------------------------------------------------------------------------
MarketIsTyped ==
    /\ day \in FirstDay..LastDate /\ minute \in 0..LastMinute
    /\ cool \in 0..Backoff /\ calm \in 0..Backoff
    /\ busy \in BOOLEAN /\ armed \in BOOLEAN
    /\ button \in {"none", "running", "done", "error"}
    /\ bars \in [Calendar -> [Symbols -> Bar]]
    /\ options \in [Calendar -> Bar]
    /\ status \in {"none", "ok", "failed"}
    /\ sync \in [Syncs -> Sync]
    /\ ingest \in [Ingests -> Ingest]
    /\ incidents \in 0..MaxIncidents

(* The flag is never left behind: while it is set, some ingest is under    *)
(* way that will clear it, also when ingests overlap.                      *)
FlagHasOwner == busy => \E i \in Ingests : IngestRuns(i)

(* The sources are not hammered: between two automatic ingests of one life *)
(* of the process lie fifteen minutes, whichever of the tick, a late tick  *)
(* and the catch-up starts them.                                           *)
AutomaticIngestsAreApart ==
    [][\A i \in Ingests :
        ~IngestRuns(i) /\ ingest'[i].at = "fetch" /\ ingest'[i].auto => calm = Backoff]_marketVars

(* The health page says "ok" only if something of the market is stored.    *)
OkIsBacked ==
    status = "ok" => \/ \E d \in Calendar : options[d] # "none"
                     \/ \E d \in Calendar, s \in Symbols : bars[d][s] # "none"

(* What the tick is for: whatever fails on the way, a crash included, the  *)
(* last trading day ends up stored and stays stored.                       *)
DayIsStored == <>[](\E s \in Symbols : bars[LatestTradingDay(LastDate)][s] = "priced")
=============================================================================
