------------------------------- MODULE Quotes --------------------------------
(***************************************************************************)
(* The jobs of PricesService, WorldMarketsService and MacroController, and *)
(* the part of MarketService that stores indices.  One coin stands for the *)
(* world's markets, one index for those of Tehran; a number stands for a   *)
(* price.                                                                  *)
(***************************************************************************)
EXTENDS ContentJobs

CONSTANTS
    Rates,      \* of the dollar
    Quoted,     \* a dollar, gold, or both: what is answered for spot prices
    Points,     \* of the index
    Coins,      \* prices of the coin
    Interest,   \* what an admin notes of the economy
    Lucid       \* titles of the lessons that news may teach

\* A stored bar has a value.
ASSUME QuotesAssumption == Unset \notin Points

VARIABLES
    spot,       \* SpotPriceDaily, by day
    known,      \* history: the rates and the points each day ever had
    macro,      \* MacroSnapshot, by day
    bar,        \* PriceBar of the index
    dollar,     \* PriceBar of the index in dollars
    world,      \* WorldMarket and WorldMarketRefresh
    worldNews,  \* day of the rows of WorldMacroNews
    lessons     \* Lesson: how many rows have a title

quoteVars == <<spot, known, macro, bar, dollar, world, worldNews, lessons>>

NoRow == [points |-> Unset, rate |-> Unset]
NoMacro == [is |-> FALSE, usd |-> Unset, interest |-> Unset]
NoWorld == [price |-> Unset, day |-> Unset, diff |-> Unset]

InitQuotes ==
    /\ spot = [d \in Days |-> [usd |-> Unset, gold |-> Unset]]
    /\ known = [rates |-> [d \in Days |-> {}], points |-> [d \in Days |-> {}]]
    /\ macro = [d \in 0..LastDay |-> NoMacro]
    /\ bar = [d \in Days |-> Unset]
    /\ dollar = [d \in Days |-> NoRow]
    /\ world = NoWorld
    /\ worldNews = Unset
    /\ lessons = [t \in Lucid |-> 0]

SyncSteps == <<"readRates", "readBars", "writeRows", "pruneRows">>
SpotSteps == <<"upsertSpot", "macroPrev", "macroUsd">>
WorldSteps == <<"claimWorld", "pages", "replace">>
NewsSteps == <<"countNews", "askWorld", "storeWorldNews", "readTitles", "addLessons">>
ScriptOfQuotes(kind) ==
    CASE kind = "world"    -> <<WorldSteps, SpotSteps \o SyncSteps, NewsSteps>>
      [] kind = "catchUp"  -> << <<"checkWorld">> \o WorldSteps, SpotSteps \o SyncSteps>>
      [] kind = "backfill" -> << <<"claimYahoo", "yahoo", "writeDiffs">> >>
      [] kind = "spot"     -> << <<"checkSpot", "claimSpot", "fetchSpot">> \o SpotSteps, SyncSteps>>
      [] kind = "manual"   -> << <<"enter">> \o SpotSteps, SyncSteps>>
      [] kind = "macro"    -> << <<"enter">> \o SpotSteps, SyncSteps, <<"macroBase", "macroPut">> >>
      [] kind = "index"    -> << <<"history">>, <<"live">> \o SyncSteps, SyncSteps>>
QuoteKinds == {"world", "catchUp", "backfill", "spot", "manual", "macro", "index"}

Saw(j) == job[j].seen
Elsewhere == UNCHANGED <<today, scene, left>>

----------------------------------------------------------------------------
(* persistSpot and upsertManualSpot: a rate that is not given leaves the   *)
(* stored one alone.  The day is that of the statement.                    *)
Given(new, old) == IF new = Unset THEN old ELSE new
SpotRow(old, usd, gold) == [usd |-> Given(usd, old.usd), gold |-> Given(gold, old.gold)]
Learn(rate) == [known EXCEPT !.rates[today] = @ \cup ({rate} \ {Unset})]

(* The manual form hands on what the row holds by then, the others what    *)
(* was given to them; without a dollar nothing else follows.               *)
UpsertSpot(j) ==
    LET row == SpotRow(spot[today], Saw(j).usd, Saw(j).gold)
        usd == IF job[j].kind \in {"manual", "macro"} THEN row.usd ELSE Saw(j).usd
        rec == [job[j] EXCEPT !.seen.usd = usd, !.rateDay = today] IN
    /\ Step(j, "upsertSpot")
    /\ IF Saw(j).usd = Unset /\ Saw(j).gold = Unset
       THEN Fails(j, Len(ScriptOfQuotes(job[j].kind))) /\ UNCHANGED <<spot, known>>
       ELSE /\ spot' = [spot EXCEPT ![today] = row]
            /\ known' = Learn(Saw(j).usd)
            /\ IF usd # Unset THEN Becomes(j, [rec EXCEPT !.todo = Rest(j)])
               ELSE IF job[j].kind = "world" THEN LeavesBlock(j) ELSE Finishes(j)
    /\ UNCHANGED <<macro, bar, dollar, world, worldNews, lessons>> /\ Elsewhere

LatestMacro ==
    LET stored == {d \in DOMAIN macro : macro[d].is} IN
    IF stored = {} THEN NoMacro ELSE macro[CHOOSE d \in stored : \A e \in stored : e <= d]

(* syncMacroUsd: the row of the day takes the dollar; a new row takes the  *)
(* rest from the latest one, which was read before.                        *)
MacroPrev(j) ==
    /\ Step(j, "macroPrev")
    /\ Onward(j, [Saw(j) EXCEPT !.interest = LatestMacro.interest])
    /\ UNCHANGED quoteVars /\ Elsewhere

MacroUsd(j) ==
    LET d == job[j].rateDay IN
    /\ Step(j, "macroUsd")
    /\ macro' = [macro EXCEPT ![d] =
           [is |-> TRUE, usd |-> Saw(j).usd, interest |-> IF @.is THEN @.interest ELSE Saw(j).interest]]
    /\ Onward(j, [Saw(j) EXCEPT !.interest = Unset])
    /\ UNCHANGED <<spot, known, bar, dollar, world, worldNews, lessons>> /\ Elsewhere

----------------------------------------------------------------------------
(* syncUsdIndexBars.                                                       *)
ReadRates(j) ==
    LET rates == [d \in Days |-> spot[d].usd] IN
    /\ Step(j, "readRates")
    /\ IF \E d \in Days : rates[d] # Unset
       THEN Onward(j, [Saw(j) EXCEPT !.rates = rates, !.written = {}])
       ELSE LeavesBlock(j)
    /\ UNCHANGED quoteVars /\ Elsewhere

ReadBars(j) ==
    /\ Step(j, "readBars")
    /\ IF \E d \in Days : bar[d] # Unset
       THEN Onward(j, [Saw(j) EXCEPT !.points = bar])
       ELSE LeavesBlock(j)
    /\ UNCHANGED quoteVars /\ Elsewhere

(* Mutant: a day without a rate of its own takes the latest one.           *)
RateOfAnyDay(j, d) ==
    LET had == {e \in Days : Saw(j).rates[e] # Unset} IN
    Saw(j).rates[CHOOSE e \in had : \A f \in had : f <= e]

RateOf(j, d) == Saw(j).rates[d]
Due(j) == {d \in Days \ Saw(j).written : Saw(j).points[d] # Unset /\ RateOf(j, d) # Unset}

(* The rows are upserted one after the other, the oldest first.            *)
WriteRow(j) ==
    LET d == CHOOSE d \in Due(j) : \A e \in Due(j) : d <= e IN
    /\ Step(j, "writeRows")
    /\ IF Due(j) = {}
       THEN Continues(j) /\ UNCHANGED dollar
       ELSE /\ dollar' = [dollar EXCEPT ![d] = [points |-> Saw(j).points[d], rate |-> RateOf(j, d)]]
            /\ job' = [job EXCEPT ![j].seen.written = @ \cup {d}]
            /\ UNCHANGED flags
    /\ UNCHANGED <<spot, known, macro, bar, world, worldNews, lessons>> /\ Elsewhere

(* The rows of all other days are deleted.                                 *)
PruneRows(j) ==
    /\ Step(j, "pruneRows")
    /\ dollar' = [d \in Days |-> IF d \in Saw(j).written THEN dollar[d] ELSE NoRow]
    /\ Onward(j, [Saw(j) EXCEPT !.rates = << >>, !.points = << >>, !.written = {}])
    /\ UNCHANGED <<spot, known, macro, bar, world, worldNews, lessons>> /\ Elsewhere

----------------------------------------------------------------------------
(* scheduledRefresh of the prices: the field is looked at before two reads *)
(* and set after them.                                                     *)
CheckSpot(j) ==
    /\ Step(j, "checkSpot")
    /\ IF flags \cap {"spot", "spotDelayed"} # {} THEN Finishes(j) ELSE Continues(j)
    /\ UNCHANGED quoteVars /\ Elsewhere

ClaimSpot(j) ==
    /\ Step(j, "claimSpot")
    /\ \/ Claims(j, "spot")
       \/ (\E d \in Days : spot[d] # [usd |-> Unset, gold |-> Unset]) /\ Finishes(j)
    /\ UNCHANGED quoteVars /\ Elsewhere

(* What Bitpin or else the configured address answers.                     *)
FetchSpot(j) ==
    /\ Step(j, "fetchSpot")
    /\ \/ \E q \in Quoted : Onward(j, [Saw(j) EXCEPT !.usd = q.usd, !.gold = q.gold])
       \/ "source" \in Failures /\ Throws(j)
    /\ UNCHANGED quoteVars /\ Elsewhere

(* The admin's two forms.  Without a dollar the form of the economy takes  *)
(* that of the latest day and goes to its own row at once, which is dated  *)
(* in UTC and not in Tehran.                                               *)
LatestUsd ==
    LET stored == {d \in Days : spot[d] # [usd |-> Unset, gold |-> Unset]} IN
    IF stored = {} THEN Unset ELSE spot[CHOOSE d \in stored : \A e \in stored : e <= d].usd

Enter(j) ==
    /\ Step(j, "enter")
    /\ \/ /\ job[j].kind = "manual"
          /\ \E q \in Quoted : Onward(j, [Saw(j) EXCEPT !.usd = q.usd, !.gold = q.gold])
       \/ /\ job[j].kind = "macro"
          /\ \E utc \in {today - 1, today} :
              \/ \E u \in Rates : Onward(j, [Saw(j) EXCEPT !.usd = u, !.utc = utc])
              \/ Goes(j, <<ScriptOfQuotes("macro")[3]>>, [Saw(j) EXCEPT !.usd = LatestUsd, !.utc = utc])
    /\ UNCHANGED quoteVars /\ Elsewhere

MacroBase(j) ==
    /\ Step(j, "macroBase")
    /\ Onward(j, [Saw(j) EXCEPT !.interest = LatestMacro.interest])
    /\ UNCHANGED quoteVars /\ Elsewhere

MacroPut(j) ==
    LET d == Saw(j).utc IN
    /\ Step(j, "macroPut")
    /\ \E i \in Interest \cup {Unset} :
          macro' = [macro EXCEPT ![d] =
              [is |-> TRUE, usd |-> Given(Saw(j).usd, @.usd),
               interest |-> Given(i, IF @.is THEN @.interest ELSE Saw(j).interest)]]
    /\ Continues(j)
    /\ UNCHANGED <<spot, known, bar, dollar, world, worldNews, lessons>> /\ Elsewhere

----------------------------------------------------------------------------
(* ingestIndices: the history, then the snapshot of the moment.  A source  *)
(* that has nothing leaves the stored rows alone.                          *)
Bars(new) == [d \in Days |-> IF d \in DOMAIN new THEN new[d] ELSE bar[d]]
LearnPoints(new) == [known EXCEPT !.points =
    [d \in Days |-> IF d \in DOMAIN new THEN @[d] \cup {new[d]} ELSE @[d]]]

StoreBars(j, name, days) ==
    /\ Step(j, name)
    /\ \E D \in SUBSET days : \E new \in [D -> Points] :
          bar' = Bars(new) /\ known' = LearnPoints(new)
    /\ Continues(j)
    /\ UNCHANGED <<spot, macro, dollar, world, worldNews, lessons>> /\ Elsewhere

History(j) == StoreBars(j, "history", 1 .. (today - 1))
Live(j) == StoreBars(j, "live", {today})

----------------------------------------------------------------------------
(* refreshFromBitpin.                                                      *)
CheckWorld(j) ==
    /\ Step(j, "checkWorld")
    /\ IF world.price # Unset /\ world.day = today THEN Finishes(j) ELSE Continues(j)
    /\ UNCHANGED quoteVars /\ Elsewhere

(* Mutant: nobody asks whether a refresh is already under way.             *)
ClaimWorldAnyway(j) ==
    /\ Step(j, "claimWorld")
    /\ Claims(j, "world")
    /\ UNCHANGED quoteVars /\ Elsewhere

ClaimWorld(j) ==
    /\ Step(j, "claimWorld")
    /\ IF "world" \in flags THEN Throws(j) ELSE Claims(j, "world")
    /\ UNCHANGED quoteVars /\ Elsewhere

(* fetchAllPages: prices of the coin, none at all, or an error.            *)
Pages(j) ==
    /\ Step(j, "pages")
    /\ \/ \E p \in Coins \cup {Unset} :
             Becomes(j, [job[j] EXCEPT !.todo = Rest(j), !.seen.price = p, !.day = today])
       \/ "source" \in Failures /\ Throws(j)
    /\ UNCHANGED quoteVars /\ Elsewhere

(* Mutant: an answer without markets replaces what is stored.              *)
ReplaceByNothing(j) ==
    /\ Step(j, "replace")
    /\ \E q \in Quoted : Onward(j, [Saw(j) EXCEPT !.price = Unset, !.usd = q.usd, !.gold = q.gold])
    /\ world' = [price |-> Saw(j).price, day |-> job[j].day, diff |-> Saw(j).price]
    /\ UNCHANGED <<spot, known, macro, bar, dollar, worldNews, lessons>> /\ Elsewhere

(* All rows are replaced in one transaction.  Yahoo may be out of reach,   *)
(* and then they have no difference.                                       *)
Replace(j) ==
    /\ Step(j, "replace")
    /\ IF Saw(j).price = Unset
       THEN Throws(j) /\ UNCHANGED world
       ELSE /\ \E diff \in {Saw(j).price, Unset} :
                  world' = [price |-> Saw(j).price, day |-> job[j].day, diff |-> diff]
            /\ \E q \in Quoted : Onward(j, [Saw(j) EXCEPT !.price = Unset, !.usd = q.usd, !.gold = q.gold])
    /\ UNCHANGED <<spot, known, macro, bar, dollar, worldNews, lessons>> /\ Elsewhere

(* Mutant: the stored news are compared with the day it is by now.         *)
CountNewsToday(j) ==
    /\ Step(j, "countNews")
    /\ IF worldNews = today THEN LeavesBlock(j) ELSE Continues(j)
    /\ UNCHANGED quoteVars /\ Elsewhere

(* refreshMacroNews: nothing is asked when news of the day are stored.     *)
CountNews(j) ==
    /\ Step(j, "countNews")
    /\ IF worldNews = job[j].day THEN LeavesBlock(j) ELSE Continues(j)
    /\ UNCHANGED quoteVars /\ Elsewhere

AskWorld(j) ==
    /\ Step(j, "askWorld")
    /\ \/ \E titles \in SUBSET Lucid : Onward(j, [Saw(j) EXCEPT !.titles = titles])
       \/ LeavesBlock(j)
    /\ UNCHANGED quoteVars /\ Elsewhere

StoreWorldNews(j) ==
    /\ Step(j, "storeWorldNews")
    /\ worldNews' = job[j].day
    /\ Continues(j)
    /\ UNCHANGED <<spot, known, macro, bar, dollar, world, lessons>> /\ Elsewhere

----------------------------------------------------------------------------
(* ensureYahooDiffs: who opens the page starts it, and does not wait.  The *)
(* differences are made from what was read, and written to the row of the  *)
(* same code.                                                              *)
ClaimYahoo(j) ==
    /\ Step(j, "claimYahoo")
    /\ IF world.price = Unset \/ world.diff # Unset \/ flags \cap {"yahoo", "yahooMissed"} # {}
       THEN Finishes(j) /\ UNCHANGED quoteVars
       ELSE /\ job' = [job EXCEPT ![j].todo = Rest(j), ![j].holds = {"yahoo"}, ![j].seen.price = world.price]
            /\ flags' = flags \cup {"yahoo"}
            /\ UNCHANGED quoteVars
    /\ Elsewhere

Yahoo(j) ==
    /\ Step(j, "yahoo")
    /\ Continues(j) \/ Throws(j)
    /\ UNCHANGED quoteVars /\ Elsewhere

WriteDiffs(j) ==
    /\ Step(j, "writeDiffs")
    /\ world' = [world EXCEPT !.diff = Saw(j).price]
    /\ Continues(j)
    /\ UNCHANGED <<spot, known, macro, bar, dollar, worldNews, lessons>> /\ Elsewhere

----------------------------------------------------------------------------
(* Mutant: what the table holds is not looked at.                          *)
ReadTitlesBlindly(j) ==
    /\ Step(j, "readTitles")
    /\ IF Saw(j).titles = {} THEN Finishes(j) ELSE Continues(j)
    /\ UNCHANGED quoteVars /\ Elsewhere

(* Titles that are there are left out; the rest is created row by row.     *)
ReadTitles(j) ==
    /\ Step(j, "readTitles")
    /\ LET new == {t \in Saw(j).titles : lessons[t] = 0} IN
          IF new = {} THEN Finishes(j) ELSE Onward(j, [Saw(j) EXCEPT !.titles = new])
    /\ UNCHANGED quoteVars /\ Elsewhere

AddLesson(j) ==
    /\ Step(j, "addLessons")
    /\ \E t \in Saw(j).titles :
          /\ lessons' = [lessons EXCEPT ![t] = @ + 1]
          /\ IF Saw(j).titles = {t} THEN Finishes(j)
             ELSE job' = [job EXCEPT ![j].seen.titles = @ \ {t}] /\ UNCHANGED flags
    /\ UNCHANGED <<spot, known, macro, bar, dollar, world, worldNews>> /\ Elsewhere

QuoteStep(j) ==
    \/ UpsertSpot(j) \/ MacroPrev(j) \/ MacroUsd(j)
    \/ ReadRates(j) \/ ReadBars(j) \/ WriteRow(j) \/ PruneRows(j)
    \/ CheckSpot(j) \/ ClaimSpot(j) \/ FetchSpot(j) \/ Enter(j) \/ MacroBase(j) \/ MacroPut(j)
    \/ History(j) \/ Live(j)
    \/ CheckWorld(j) \/ ClaimWorld(j) \/ Pages(j) \/ Replace(j)
    \/ CountNews(j) \/ AskWorld(j) \/ StoreWorldNews(j)
    \/ ClaimYahoo(j) \/ Yahoo(j) \/ WriteDiffs(j)
    \/ ReadTitles(j) \/ AddLesson(j)
=============================================================================
