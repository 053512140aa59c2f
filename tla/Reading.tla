------------------------------- MODULE Reading -------------------------------
(***************************************************************************)
(* The jobs of NewsService, LessonsService, FundsService and ForexService: *)
(* what the platform reads, or is given to read, and keeps.  One fund has  *)
(* its reports; lessons are told apart by their titles.                    *)
(***************************************************************************)
EXTENDS Quotes

CONSTANTS
    Months,     \* of reports
    Keep        \* KEEP_SNAPSHOTS

ASSUME ReadingAssumption == Keep \in Nat \ {0}

VARIABLES
    batch,      \* EconomicNewsBatch and its items, by day
    reads,      \* history: jobs of the clock that asked for the news of a day
    fund,       \* FundDefinition.isActive
    reports,    \* FundReport and what hangs on it
    insights,   \* FundTimelineInsight
    snaps       \* ForexSnapshot: who captured it, and when, as a rank

readingVars == <<batch, reads, fund, reports, insights, snaps>>

NoBatch == [is |-> FALSE, items |-> {}]

InitReading ==
    /\ batch = [d \in Days |-> NoBatch]
    /\ reads = [d \in Days |-> {}]
    /\ fund = TRUE
    /\ reports = {}
    /\ insights = {}
    /\ snaps = {}

ReadModelSteps == <<"askNews", "findBatch", "deleteItems", "updateBatch", "createItems">>
TimelineSteps == <<"readReports", "compare">>
ScriptOfReading(kind) ==
    CASE kind = "newsTick"  -> << <<"claimNews", "seeBatch", "createBatch">> \o ReadModelSteps>>
      [] kind = "newsForce" -> <<ReadModelSteps>>
      [] kind = "lesson"    -> << <<"write", "readTitles", "addLessons">> >>
      [] kind = "pdf"       -> << <<"askPdf", "readTitles", "addLessons">> >>
      [] kind = "unlesson"  -> << <<"findLesson", "deleteLesson">> >>
      [] kind = "upload"    -> << <<"findFund", "analyze", "createReport", "reportLessons",
                                    "deleteHoldings", "createHoldings">>, TimelineSteps>>
      [] kind = "unreport"  -> << <<"findReport", "deleteReport">>, TimelineSteps>>
      [] kind = "define"    -> << <<"switchFund">> >>
      [] kind = "forex"     -> << <<"claimForex", "quotes", "capture", "readOld", "deleteOld">> >>
ReadingKinds == {"newsTick", "newsForce", "lesson", "pdf", "unlesson", "upload", "unreport",
                 "define", "forex"}

----------------------------------------------------------------------------
(* runScheduledRefresh: the row of the day's batch is the claim.           *)
ClaimNews(j) ==
    /\ Step(j, "claimNews")
    /\ IF "news" \in flags THEN Finishes(j) ELSE Claims(j, "news")
    /\ UNCHANGED <<quoteVars, readingVars>> /\ Elsewhere

SeeBatch(j) ==
    /\ Step(j, "seeBatch")
    /\ IF batch[job[j].day].is THEN Finishes(j) ELSE Continues(j)
    /\ UNCHANGED <<quoteVars, readingVars>> /\ Elsewhere

(* The batch is unique by day; whoever comes second gives up.              *)
CreateBatch(j) ==
    LET d == job[j].day IN
    /\ Step(j, "createBatch")
    /\ IF batch[d].is
       THEN Finishes(j) /\ UNCHANGED batch
       ELSE Continues(j) /\ batch' = [batch EXCEPT ![d].is = TRUE]
    /\ UNCHANGED <<quoteVars, reads, fund, reports, insights, snaps>> /\ Elsewhere

(* readNewsFromModel: an error of the model counts as no news.  Found news *)
(* are the job's; a clock's job that finds none leaves the batch alone.    *)
AskNews(j) ==
    /\ Step(j, "askNews")
    /\ \E found \in BOOLEAN : Onward(j, [Saw(j) EXCEPT !.titles = IF found THEN {"news"} ELSE {}])
    /\ reads' = IF job[j].kind = "newsTick" THEN [reads EXCEPT ![job[j].day] = @ \cup {j}] ELSE reads
    /\ UNCHANGED <<quoteVars, batch, fund, reports, insights, snaps>> /\ Elsewhere

FindBatch(j) ==
    /\ Step(j, "findBatch")
    /\ IF Saw(j).titles = {} /\ job[j].kind = "newsTick" THEN Finishes(j)
       ELSE IF batch[job[j].day].is THEN Continues(j)
       ELSE Goes(j, << <<"insertBatch", "createItems">> >>, Saw(j))
    /\ UNCHANGED <<quoteVars, readingVars>> /\ Elsewhere

InsertBatch(j) ==
    LET d == job[j].day IN
    /\ Step(j, "insertBatch")
    /\ IF batch[d].is
       THEN Throws(j) /\ UNCHANGED batch
       ELSE Continues(j) /\ batch' = [batch EXCEPT ![d].is = TRUE]
    /\ UNCHANGED <<quoteVars, reads, fund, reports, insights, snaps>> /\ Elsewhere

DeleteItems(j) ==
    /\ Step(j, "deleteItems")
    /\ batch' = [batch EXCEPT ![job[j].day].items = {}]
    /\ Continues(j)
    /\ UNCHANGED <<quoteVars, reads, fund, reports, insights, snaps>> /\ Elsewhere

(* The summary, of which nothing is kept here.                             *)
UpdateBatch(j) ==
    /\ Step(j, "updateBatch")
    /\ Continues(j)
    /\ UNCHANGED <<quoteVars, readingVars>> /\ Elsewhere

CreateItems(j) ==
    /\ Step(j, "createItems")
    /\ batch' = [batch EXCEPT ![job[j].day].items = IF Saw(j).titles = {} THEN @ ELSE @ \cup {j}]
    /\ Continues(j)
    /\ UNCHANGED <<quoteVars, reads, fund, reports, insights, snaps>> /\ Elsewhere

----------------------------------------------------------------------------
(* createManual and ingestIranEconomyPdf; the second goes on with the      *)
(* parts of the file that the model could read.                            *)
Write(j) ==
    /\ Step(j, "write")
    /\ \E t \in Lucid : Onward(j, [Saw(j) EXCEPT !.titles = {t}])
    /\ UNCHANGED <<quoteVars, readingVars>> /\ Elsewhere

AskPdf(j) ==
    /\ Step(j, "askPdf")
    /\ \E titles \in SUBSET Lucid :
          IF titles = {} THEN Throws(j) ELSE Onward(j, [Saw(j) EXCEPT !.titles = titles])
    /\ UNCHANGED <<quoteVars, readingVars>> /\ Elsewhere

FindLesson(j) ==
    /\ Step(j, "findLesson")
    /\ \/ \E t \in Lucid : lessons[t] > 0 /\ Onward(j, [Saw(j) EXCEPT !.titles = {t}])
       \/ Throws(j)
    /\ UNCHANGED <<quoteVars, readingVars>> /\ Elsewhere

(* A row that is gone by now is an error.                                  *)
DeleteLesson(j) ==
    LET t == CHOOSE u \in Saw(j).titles : TRUE IN
    /\ Step(j, "deleteLesson")
    /\ IF lessons[t] = 0 THEN Throws(j) /\ UNCHANGED lessons
       ELSE Continues(j) /\ lessons' = [lessons EXCEPT ![t] = @ - 1]
    /\ UNCHANGED <<spot, known, macro, bar, dollar, world, worldNews, readingVars>> /\ Elsewhere

----------------------------------------------------------------------------
(* uploadAndAnalyze: the report first, then row by row what the model read *)
(* in it, each row bound to the report.                                    *)
Report(j) == {r \in reports : r.by = j}
Amend(j, field, value) == reports' = (reports \ Report(j)) \cup {[r EXCEPT ![field] = value] : r \in Report(j)}

FindFund(j) ==
    /\ Step(j, "findFund")
    /\ IF fund THEN Continues(j) ELSE Throws(j)
    /\ UNCHANGED <<quoteVars, readingVars>> /\ Elsewhere

(* runFundAnalysis: without the model, a report without lessons.           *)
Analyze(j) ==
    /\ Step(j, "analyze")
    /\ \E found \in BOOLEAN : Onward(j, [Saw(j) EXCEPT !.titles = IF found THEN {"report"} ELSE {}])
    /\ UNCHANGED <<quoteVars, readingVars>> /\ Elsewhere

CreateReport(j) ==
    /\ Step(j, "createReport")
    /\ \E m \in Months :
          reports' = reports \cup {[by |-> j, month |-> m, lessons |-> FALSE, holdings |-> FALSE]}
    /\ Continues(j)
    /\ UNCHANGED <<quoteVars, batch, reads, fund, insights, snaps>> /\ Elsewhere

(* What is bound to a report that is gone cannot be stored.                *)
ReportLessons(j) ==
    /\ Step(j, "reportLessons")
    /\ IF Saw(j).titles # {} /\ Report(j) = {}
       THEN Throws(j) /\ UNCHANGED reports
       ELSE Continues(j) /\ Amend(j, "lessons", Saw(j).titles # {})
    /\ UNCHANGED <<quoteVars, batch, reads, fund, insights, snaps>> /\ Elsewhere

DeleteHoldings(j) ==
    /\ Step(j, "deleteHoldings")
    /\ IF Saw(j).titles = {} THEN LeavesBlock(j) ELSE Continues(j)
    /\ Amend(j, "holdings", FALSE)
    /\ UNCHANGED <<quoteVars, batch, reads, fund, insights, snaps>> /\ Elsewhere

CreateHoldings(j) ==
    /\ Step(j, "createHoldings")
    /\ IF Report(j) = {}
       THEN Throws(j) /\ UNCHANGED reports
       ELSE Continues(j) /\ Amend(j, "holdings", TRUE)
    /\ UNCHANGED <<quoteVars, batch, reads, fund, insights, snaps>> /\ Elsewhere

(* remove: the report goes with its lessons and holdings.                  *)
FindReport(j) ==
    /\ Step(j, "findReport")
    /\ \/ \E r \in reports : Onward(j, [Saw(j) EXCEPT !.reports = {r.by}])
       \/ Throws(j)
    /\ UNCHANGED <<quoteVars, readingVars>> /\ Elsewhere

DeleteReport(j) ==
    LET gone == {r \in reports : r.by \in Saw(j).reports} IN
    /\ Step(j, "deleteReport")
    /\ IF gone = {} THEN Throws(j) ELSE Onward(j, [Saw(j) EXCEPT !.reports = {}])
    /\ reports' = reports \ gone
    /\ UNCHANGED <<quoteVars, batch, reads, fund, insights, snaps>> /\ Elsewhere

(* analyzeTimeline: the last two months of which there is a report.        *)
LatestTwo(S) ==
    {T \in SUBSET S : Cardinality(T) = 2 /\ \A r \in T, s \in S \ T : s.month <= r.month}

ReadReports(j) ==
    /\ Step(j, "readReports")
    /\ IF Cardinality(reports) < 2 THEN LeavesBlock(j)
       ELSE \E T \in LatestTwo(reports) : Onward(j, [Saw(j) EXCEPT !.reports = T])
    /\ UNCHANGED <<quoteVars, readingVars>> /\ Elsewhere

Compare(j) ==
    /\ Step(j, "compare")
    /\ insights' = insights \cup {[by |-> j, months |-> {r.month : r \in Saw(j).reports}]}
    /\ Continues(j)
    /\ UNCHANGED <<quoteVars, batch, reads, fund, reports, snaps>> /\ Elsewhere

SwitchFund(j) ==
    /\ Step(j, "switchFund")
    /\ fund' = ~fund
    /\ Continues(j)
    /\ UNCHANGED <<quoteVars, batch, reads, reports, insights, snaps>> /\ Elsewhere

----------------------------------------------------------------------------
(* refresh of the exchange graph: who comes while one is under way waits   *)
(* for its answer, and does nothing.                                       *)
ClaimForex(j) ==
    /\ Step(j, "claimForex")
    /\ IF "forex" \in flags THEN Finishes(j) ELSE Claims(j, "forex")
    /\ UNCHANGED <<quoteVars, readingVars>> /\ Elsewhere

AskQuotes(j) ==
    /\ Step(j, "quotes")
    /\ Continues(j) \/ ("source" \in Failures /\ Throws(j))
    /\ UNCHANGED <<quoteVars, readingVars>> /\ Elsewhere

(* A graph bears the time of its capture, as a rank.                       *)
Latest == IF snaps = {} THEN 0 ELSE (CHOOSE s \in snaps : \A t \in snaps : t.n <= s.n).n

Capture(j) ==
    /\ Step(j, "capture")
    /\ snaps' = snaps \cup {[by |-> j, n |-> Latest + 1]}
    /\ Continues(j)
    /\ UNCHANGED <<quoteVars, batch, reads, fund, reports, insights>> /\ Elsewhere

(* pruneOld: all but the newest are looked up and then deleted.            *)
ReadOld(j) ==
    LET old == {s \in snaps : Cardinality({t \in snaps : t.n > s.n}) >= Keep} IN
    /\ Step(j, "readOld")
    /\ IF old = {} THEN Finishes(j) ELSE Onward(j, [Saw(j) EXCEPT !.titles = old])
    /\ UNCHANGED <<quoteVars, readingVars>> /\ Elsewhere

DeleteOld(j) ==
    /\ Step(j, "deleteOld")
    /\ snaps' = snaps \ Saw(j).titles
    /\ Continues(j)
    /\ UNCHANGED <<quoteVars, batch, reads, fund, reports, insights>> /\ Elsewhere

ReadingStep(j) ==
    \/ ClaimNews(j) \/ SeeBatch(j) \/ CreateBatch(j) \/ AskNews(j) \/ FindBatch(j) \/ InsertBatch(j)
    \/ DeleteItems(j) \/ UpdateBatch(j) \/ CreateItems(j)
    \/ Write(j) \/ AskPdf(j) \/ FindLesson(j) \/ DeleteLesson(j)
    \/ FindFund(j) \/ Analyze(j) \/ CreateReport(j) \/ ReportLessons(j)
    \/ DeleteHoldings(j) \/ CreateHoldings(j) \/ FindReport(j) \/ DeleteReport(j)
    \/ ReadReports(j) \/ Compare(j) \/ SwitchFund(j)
    \/ ClaimForex(j) \/ AskQuotes(j) \/ Capture(j) \/ ReadOld(j) \/ DeleteOld(j)
=============================================================================
