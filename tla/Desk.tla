-------------------------------- MODULE Desk --------------------------------
(***************************************************************************)
(* The calculations of the program, one question at a time; the three jobs  *)
(* that go through several steps: a video with its subtitles, the lists of  *)
(* instruments while days pass, a conversation; and the pages of the web    *)
(* client that show and change what is stored.  One of them at a time.      *)
(*                                                                          *)
(* A question is a record with a kind; its answer is what the code returns. *)
(* Nothing but the question decides the answer, so each property says what  *)
(* an answer must be in words of its own, not with the operators that       *)
(* computed it.                                                             *)
(***************************************************************************)
EXTENDS Sizing, Advice, Routes, Subtitles, Listing, Chats, Forms, Lists, PortfolioPage

CONSTANTS Jobs,           \* the questions asked
          Rooms,          \* the conversations held: of "portfolio" and "market"
          OpenPages       \* the pages opened: "form", "list" and "portfolio"

VARIABLES job, answer

pages == << formVars, listVars, pageVars >>
vars == << job, answer, video, shelf, chatVars, pages >>
aside == << video, shelf, chatVars, pages >>

NoJob == [kind |-> "none"]
Unanswered == [kind |-> "none"]

NoPages == Opened(NoSection) /\ OpenedList(NothingListed) /\ InitPage("none")
Page(kind) ==
  /\ IF kind = "form" THEN \E s \in Sections : Opened(s) ELSE Opened(NoSection)
  /\ IF kind = "list" THEN \E l \in Lists : OpenedList(l) ELSE OpenedList(NothingListed)
  /\ IF kind = "portfolio" THEN InitPage("open") ELSE InitPage("none")

Init ==
  /\ answer = Unanswered
  /\ \/ job \in Jobs /\ video = NoVideo /\ shelf = NoShelf /\ InitChats("none") /\ NoPages
     \/ job = NoJob /\ video = NewVideo /\ shelf = NoShelf /\ InitChats("none") /\ NoPages
     \/ job = NoJob /\ video = NoVideo /\ shelf = NewShelf /\ InitChats("none") /\ NoPages
     \/ job = NoJob /\ video = NoVideo /\ shelf = NoShelf /\ (\E r \in Rooms : InitChats(r)) /\ NoPages
     \/ job = NoJob /\ video = NoVideo /\ shelf = NoShelf /\ InitChats("none") /\ \E kind \in OpenPages : Page(kind)

Pending(kind) == job.kind = kind /\ answer = Unanswered
Answers(a) ==
  /\ answer' = [f \in DOMAIN a \cup {"kind"} |-> IF f = "kind" THEN job.kind ELSE a[f]]
  /\ UNCHANGED << job, aside >>

ReadCalendar == Pending("calendar") /\ Answers(Dated(job.today, job.titles))

\* The page of the board, and what it does to suggested items and to one stock.
ReadBoard ==
  /\ Pending("board")
  /\ LET board == BuildBoard(job.rows, job.today)
     IN  Answers([board |-> board, suggested |-> Suggested(job.items, board, job.fees),
                  options |-> ValuableFor(job.rows[1], job.rows, job.today)])

\* A suggestion and the snapshot made of it.
SizeSuggestion ==
  /\ Pending("sizing")
  /\ LET suggestion == Suggestion(job.capital, job.answers, job.picks, job.funds, job.low)
     IN  Answers([suggestion |-> suggestion,
                  rows |-> MaterializeItems(suggestion.items, job.capital, job.price, job.low)])

\* Puts for the holdings of a portfolio, from those that may cover them.
SizeHedge ==
  /\ Pending("hedge")
  /\ LET covers == SelectSeq(job.picks, LAMBDA p : IsCover(p.row, p.holding, job.today))
     IN  Answers([covers |-> covers,
                  chosen |-> FillHedge([i \in DOMAIN covers |->
                    [base |-> covers[i].holding.symbol, symbol |-> covers[i].row.symbol,
                     held |-> covers[i].holding.quantity, unit |-> covers[i].row.size,
                     noul |-> covers[i].noul, size |-> covers[i].size]])])

ReadAdvice ==
  /\ Pending("advice")
  /\ Answers(Advise(job.holdings, job.cash, Facts(job.spots, job.rates, job.geo, job.bearish, job.bullish),
                    job.risk, job.inflation, job.values))

ReadRoutes == Pending("routes") /\ Answers(Analysis(job.quotes, job.names))

Next ==
  \/ ReadCalendar \/ ReadBoard \/ SizeSuggestion \/ SizeHedge \/ ReadAdvice \/ ReadRoutes
  \/ NextVideo /\ UNCHANGED << job, answer, shelf, chatVars, pages >>
  \/ NextShelf /\ UNCHANGED << job, answer, video, chatVars, pages >>
  \/ NextChats /\ UNCHANGED << job, answer, video, shelf, pages >>
  \/ NextForm /\ UNCHANGED << job, answer, video, shelf, chatVars, listVars, pageVars >>
  \/ NextList /\ UNCHANGED << job, answer, video, shelf, chatVars, formVars, pageVars >>
  \/ NextPortfolioPage /\ UNCHANGED << job, answer, video, shelf, chatVars, formVars, listVars >>

Spec == Init /\ [][Next]_vars

-----------------------------------------------------------------------------
(* Properties *)

\* The days that are asked for, listed on and named in titles lie in the years whose
\* leap years are known, and have a day after them.
DatesAreKnown ==
  /\ \A j \in Jobs : j.kind = "calendar" => j.today \in GregorianDays /\ j.today.y < 2033 /\ j.titles \subseteq JalaliDays
  /\ \A i \in DOMAIN Days : Days[i] \in GregorianDays
  /\ \A c \in Contracts : c.title \in JalaliDays \cup {NoDate}

\* Days follow each other: the Jalali date of the next day is the next date of a
\* calendar with leap years 1391, 1395, ..., 1403, 1408; a day is the same day in
\* both calendars; the days left to the date of any title fall by one, and are
\* none on the date itself; and the lists, which compare dates as digits, let a title
\* pass when it has none left (option-board.ts: gregorianToJalali, jalaliToJulianDay,
\* daysLeftFromLabels, nameExpiredOptionIds).
DaysFollowEachOther ==
  /\ shelf.on => TitlesAgree
  /\ answer.kind = "calendar" =>
      LET today == job.today
          tomorrow == NextGregorian(today)
          j == answer.jalali
      IN  /\ j.m \in 1..12 /\ j.d \in 1..JalaliLength(j.y, j.m)
          /\ GregorianToJalali(tomorrow) = NextJalali(j)
          /\ JalaliToJulianDay(j) = GregorianToJulianDay(today)
          /\ DaysLeft(j, today) = 0
          /\ \A t \in job.titles : DaysLeft(t, tomorrow) = answer.left[t] - 1

RowNamed(symbol) == CHOOSE r \in ToSet(job.rows) : r.symbol = symbol

\* What the board offers can be traded: an option offered as worthwhile, or in
\* place of a queued stock, is of that stock, is a call for a buy queue and a put
\* for a sell queue, was traded, stands in no queue itself and has not expired,
\* by its title or by what was stored.  After the redirection no entry names a
\* stock that has a note, and every entry promises more than it costs
\* (option-board.ts: buildOptionBoard, redirectAnalysisSuggestion; trade-fees).
EntriesAvoidQueues ==
  answer.kind = "board" =>
    LET live(symbol) ==
          LET r == RowNamed(symbol)
          IN  /\ r.kind = "OPTION" /\ r.volume # 0 /\ Price(r) > 0
              /\ DetectQueue(r, Price(r)) = "none"
              /\ ~NamePassed(r, job.today) /\ (r.stored = None \/ r.stored > 0)
        queued == { answer.board.replacements[i].symbol : i \in DOMAIN answer.board.replacements }
    IN  /\ \A i \in DOMAIN answer.board.ideas : live(answer.board.ideas[i].symbol)
        /\ \A i \in DOMAIN answer.board.replacements :
             LET r == answer.board.replacements[i]
             IN  /\ r.queue # "none"
                 /\ r.by # NoName =>
                      /\ live(r.by) /\ RowNamed(r.by).base = r.symbol
                      /\ RowNamed(r.by).side = IF r.queue = "buy" THEN "CALL" ELSE "PUT"
        /\ \A i \in DOMAIN answer.suggested :
             LET s == answer.suggested[i]
             IN  s.action \in EntryActions =>
                   /\ s.symbol \notin queued
                   /\ s.kind \in {"STOCK", "OPTION"} /\ job.fees.stock > 0 => s.profit > job.fees.stock
        /\ \A i \in DOMAIN answer.options :
             /\ ~NamePassed(RowNamed(answer.options[i].symbol), job.today)
             /\ i > 1 /\ answer.options[i].known =>
                  answer.options[i - 1].known /\ answer.options[i - 1].profit >= answer.options[i].profit

\* A suggestion uses the capital, all of it and no more: the rows of the snapshot
\* sum to the capital, what is bought on the market is whole units at its price,
\* and no row but cash is larger than the share it was given; a stock below one
\* half is not bought, the stocks stay within their share of the capital, and
\* what the sleeve chose is what the rows hold, but for the one unit a quotient
\* computed a little low may cost (suggest-system-one.ts: fillStockSleeve;
\* portfolios.service.ts: buildStrategySuggestions, materializeItems).  Puts
\* cover no more shares of a stock than are held (fillHedge).
CapitalIsConserved ==
  /\ answer.kind = "sizing" =>
       LET rows == answer.rows
           items == answer.suggestion.items
           sum == TotalOf(items, LAMBDA i : i.weight)
           itemOf(r) == CHOOSE i \in ToSet(items) : i.symbol = r.symbol
           stocks == ToSet(SelectSeq(rows, LAMBDA r : r.type = "STOCK"))
           sleeve == answer.suggestion.sleeve
       IN  /\ rows # <<>> => TotalOf(rows, LAMBDA r : r.amount) = job.capital
           /\ \A i \in DOMAIN rows :
                /\ rows[i].amount > 0
                /\ rows[i].type \in BoardTypes => rows[i].amount % job.price[rows[i].symbol] = 0
                /\ rows[i].type # "CASH" => rows[i].amount * sum <= itemOf(rows[i]).weight * job.capital
           /\ \A s \in stocks : \E p \in ToSet(job.picks) : p.symbol = s.symbol /\ p.noul >= MinStockProbability
           /\ TotalOf(sleeve, LAMBDA s : s.amount) <= job.capital
           /\ \A i \in DOMAIN sleeve :
                LET s == sleeve[i]
                    bought == { r \in stocks : r.symbol = s.symbol }
                IN  Positive(job.price[s.symbol]) /\ ~job.low /\ s.amount % job.price[s.symbol] = 0 =>
                      \E r \in bought : r.amount = s.amount
  /\ answer.kind = "hedge" =>
       \A i \in DOMAIN answer.covers :
         LET h == answer.covers[i].holding
         IN  TotalOf(SelectSeq(answer.chosen, LAMBDA c : c.base = h.symbol), LAMBDA c : c.shares) <= h.quantity

\* The advice says what its rules promise: a target is a whole portfolio; weights
\* are the shares of what is held, to two tenths of a percent; a regime other than
\* neutral has two signs that point its way, and the plan then holds no more shares
\* (and for a risk-off one no less gold) than the plan without it; the largest fall
\* is the largest one between any two recorded values (intelligence/engine.ts:
\* buildPlan, weightsFromAmounts, classifyRegime, maxDrawdownPct).
AdviceIsSound ==
  answer.kind = "advice" =>
    LET a == answer
        worths == Worths(job.holdings, job.cash)
        held(c) == TotalOf(SelectSeq(worths, LAMBDA r : BucketAsset(r.type) = c /\ r.amount > 0), LAMBDA r : r.amount)
        total == SumOver(Classes, [c \in Classes |-> held(c)])
        base == BaseOf(job.risk)
        facts == Facts(job.spots, job.rates, job.geo, job.bearish, job.bullish)
        up == Cardinality(Pointing(Signs(facts), "up"))
        down == Cardinality(Pointing(Signs(facts), "down"))
        positive == SelectSeq(job.values, LAMBDA v : v > 0)
        falls == { Round(1000 * (positive[p[1]] - positive[p[2]]), positive[p[1]]) :
                     p \in { q \in (DOMAIN positive) \X (DOMAIN positive) : q[1] <= q[2] /\ positive[q[1]] >= positive[q[2]] } }
    IN  /\ SumOver(Classes, a.plan.target) = 1000
        /\ total > 0 => \A c \in Classes : Abs(a.weights[c] * total - 1000 * held(c)) <= 2 * total
        /\ a.regime.regime # "NEUTRAL" => a.regime.enough /\ (IF a.regime.regime = "RISK_ON" THEN down ELSE up) >= 2
        /\ a.plan.tilted => IF a.regime.regime = "RISK_ON" THEN a.plan.target["equity"] >= 10 * base["equity"]
                            ELSE /\ a.plan.target["equity"] <= 10 * base["equity"]
                                 /\ a.plan.target["gold"] >= 10 * base["gold"]
        /\ a.risk # None => a.risk \in 30..80 /\ a.health \in 0..100
        /\ Len(positive) >= 5 => a.drawdown = LargestOf(falls)

\* The rings of trades: every simple way round three or four of the currencies, as
\* the sequence of its currencies.
RateOf(q, from, to) == IF q.base = from THEN q.rate ELSE -q.rate
Between(quotes, a, b) == { q \in ToSet(quotes) : {q.base, q.quote} = {a, b} }
IsRing(quotes, nodes) ==
  /\ \A i, k \in DOMAIN nodes : nodes[i] = nodes[k] => i = k
  /\ \A i \in DOMAIN nodes : Between(quotes, nodes[i], nodes[(i % Len(nodes)) + 1]) # {}
RingRate(quotes, nodes) ==
  FoldLeft(LAMBDA sum, i : sum + RateOf(CHOOSE q \in Between(quotes, nodes[i], nodes[(i % Len(nodes)) + 1]) : TRUE,
                                       nodes[i], nodes[(i % Len(nodes)) + 1]),
           0, [i \in DOMAIN nodes |-> i])

\* Routes and rings tell the same story: the rings found are exactly the ways round
\* three or four currencies that return more than they took, each once; two
\* currencies of such a ring differ by at least its gain between their two best
\* routes; quotes that agree give neither; nothing is recommended that does not
\* pay its costs, and what is recommended comes best first (forex-analyze.ts:
\* enumeratePaths, findCycles, buildWeightedGraph; forex-quotes.ts: mergeQuotes).
RoutesAgree ==
  answer.kind = "routes" =>
    LET m == answer.merged
        codes == ToSet(CodesOf(m))
        rings == { s \in UNION { [1..n -> codes] : n \in 3..4 } : IsRing(m, s) /\ RingRate(m, s) > 0 }
        found == { answer.cycles[i].nodes : i \in DOMAIN answer.cycles }
    IN  /\ \A s \in rings : \E f \in found : SameRing(f, s)
        /\ \A f \in found : f \in rings
        /\ \A i, k \in DOMAIN answer.cycles : SameRing(answer.cycles[i].nodes, answer.cycles[k].nodes) => i = k
        /\ \A i, k \in DOMAIN m : {m[i].base, m[i].quote} = {m[k].base, m[k].quote} => i = k
        /\ \A s \in rings : \A i \in DOMAIN s : \E o \in ToSet(answer.all) :
             {o.from, o.to} = {s[i], s[(i % Len(s)) + 1]} /\ o.gross >= RingRate(m, s)
        /\ rings = {} => answer.all = <<>>
        /\ \A i \in DOMAIN answer.opportunities :
             /\ answer.opportunities[i].net > 0 /\ answer.opportunities[i].net < answer.opportunities[i].gross
             /\ i > 1 => answer.opportunities[i].net <= answer.opportunities[i - 1].net

\* When the translation of a video is over the file of subtitles can be made: every
\* segment of the transcript has a translation and lasts, in the order of time, and
\* the questions together covered each segment once, none longer than a question
\* may be unless it is one segment (youtube-subs: translateAll, chunkSegments,
\* buildPersianSrt).
SubtitlesAreComplete ==
  video.step \in {"srt", "burn", "made"} =>
    /\ CanBuild(video.segments, video.translated)
    /\ FlattenSeq(Chunks) = video.segments
    /\ \A i \in DOMAIN Chunks : Len(Chunks[i]) > 1 => TotalOf(Chunks[i], LAMBDA s : s.len) <= MaxChars
    /\ \A i \in DOMAIN video.segments : i > 1 => video.segments[i - 1].start <= video.segments[i].start

\* What a list with a sort shows can be opened and the other way round, on every day;
\* and the list by name, whose titles are read once a day, hides nothing that can
\* be opened (market.service.ts: listLatest, getInstrument).
ListedOpens ==
  LET open == { r.id : r \in { s \in shelf.stored : Opens(s) } }
  IN  /\ shelf.shown.by = "ratio" => shelf.shown.ids \subseteq open
      /\ shelf.shown.by = "name" => open \ { r.id : r \in { s \in shelf.stored : StoredExpired(s) } } \subseteq shelf.shown.ids

\* An answer is the only one to its question and comes after it; about the market it
\* is based on the question, and on every listed instrument the question names
\* (portfolios.service.ts, market.service.ts: postChat; findMentionedInstruments).
Named(q) == { i.symbol : i \in { k \in ToSet(Instruments) : k.symbol \in q.names } }
\* The search finds what a question names, when that is not too much.
MentionsAreFound ==
  \A question \in Questions :
    Cardinality(Named(question)) <= MaxMentioned => Named(question) \subseteq SymbolsOf(MentionedIn(question))
QuestionAt(q) == CHOOSE i \in DOMAIN talk : talk[i].role = "user" /\ talk[i].q = q
AnswersKnowTheirQuestion ==
  \A i \in DOMAIN talk : talk[i].role = "assistant" =>
    LET q == talk[i].q
        names == Named(talk[QuestionAt(q)].question)
    IN  /\ QuestionAt(q) < i
        /\ \A k \in DOMAIN talk : talk[k].role = "assistant" /\ talk[k].q = q => k = i
        /\ room = "market" => q \in talk[i].seen
        /\ room = "market" /\ Cardinality(names) <= MaxMentioned => names \subseteq talk[i].about
=============================================================================
