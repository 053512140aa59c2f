------------------------------- MODULE MCDesk -------------------------------
(* Questions for Desk: every day of eight years; boards, suggestions,       *)
(* portfolios and quotes at the edges of the rules.                         *)
EXTENDS Desk

\* What the theorem about the chats supposes holds for the questions below.
ASSUME MCMentions == MentionsAreFound
\* So does what the theorem about the calendar supposes.
ASSUME MCDates == DatesAreKnown

\* The rows of a table are alike.
RowSymmetry == Permutations(Rows)

\* Calendar: the years in which both calendars have leap years, 2024/1403 and the
\* five-year step 1403 to 1408 among them.
Titles == {[y |-> 1403, m |-> 12, d |-> 30], [y |-> 1404, m |-> 1, d |-> 1], [y |-> 1408, m |-> 6, d |-> 31]}
CalendarJobs ==
  { [kind |-> "calendar", today |-> [y |-> y, m |-> m, d |-> d], titles |-> Titles] :
      y \in 2024..2031, m \in 1..12, d \in 1..28 }
  \cup { [kind |-> "calendar", today |-> [y |-> y, m |-> m, d |-> GregorianLength(y, m)], titles |-> Titles] :
      y \in 2024..2031, m \in 1..12 }

\* Board: 19 November 2025 is 28 Aban 1404.
BoardDay == [y |-> 2025, m |-> 11, d |-> 19]
Aban(d) == [y |-> 1404, m |-> 8, d |-> d]
Stock(symbol, last, max, min, sellers, buyers, status) ==
  [id |-> symbol, kind |-> "STOCK", symbol |-> symbol, last |-> last, close |-> 990, volume |-> 500,
   max |-> max, min |-> min, sellers |-> sellers, buyers |-> buyers, status |-> status, title |-> NoDate,
   stored |-> None, side |-> NoName, base |-> NoName, strike |-> None, basePrice |-> None, size |-> None,
   label |-> symbol, code |-> symbol]
Option(symbol, side, base, strike, last, volume, status, title, kept) ==
  [id |-> symbol, kind |-> "OPTION", symbol |-> symbol, last |-> last, close |-> 30, volume |-> volume,
   max |-> None, min |-> None, sellers |-> None, buyers |-> None, status |-> status, title |-> title,
   stored |-> kept, side |-> side, base |-> base, strike |-> strike, basePrice |-> 1000, size |-> 100,
   label |-> NoName, code |-> NoName]
Stocks == { Stock("folad", 1000, 1000, 900, 0, 50, "none"), Stock("folad", 1000, 1100, 1000, 7, None, "none"),
            Stock("folad", 1000, 1100, 900, 5, 5, "buy"), Stock("folad", 1000, 1000, 900, 10, 0, "none"),
            Stock("folad", None, 993, 900, None, None, "none") }
Others == { Stock("shasta", 50, 50, 40, 0, 9, "none"), Stock("shasta", 45, 50, 40, 3, 9, "none") }
Calls == { Option("zA", "CALL", "folad", 1010, last, volume, status, title, kept) :
             last \in {None, 40, 160}, volume \in {0, 5}, status \in {"none", "buy"},
             title \in {NoDate, Aban(28)}, kept \in {None, 0, 20} }
Puts == { Option("tA", "PUT", "folad", strike, 45, 5, status, Aban(30), 2) :
            strike \in {1000, 1130}, status \in {"none", "sell"} }
Items == << [symbol |-> "folad", kind |-> "STOCK", action |-> "ADD", profit |-> 3],
            [symbol |-> "folad", kind |-> "STOCK", action |-> "REMOVE", profit |-> None],
            [symbol |-> "shasta", kind |-> "STOCK", action |-> "INCREASE", profit |-> None],
            [symbol |-> "PHYSICAL_USD", kind |-> "PHYSICAL_USD", action |-> "ADD", profit |-> 3] >>
LaterCall == Option("zB", "CALL", "folad", 1020, 35, 5, "none", Aban(30), 2)
BoardJobs ==
  { [kind |-> "board", rows |-> << s, o, c, p, LaterCall >>, today |-> BoardDay, items |-> Items,
     fees |-> [stock |-> 2, usd |-> 4, gold |-> 4]] :
      s \in Stocks, o \in Others, c \in Calls, p \in Puts }

\* Sizing: a stock judged at 100 and one whose last price is not its closing one.
NoAnswers == [c \in ClassIds |-> None]
ClassAnswers ==
  { NoAnswers, [NoAnswers EXCEPT !["stock"] = 18],
    [NoAnswers EXCEPT !["stock"] = 13, !["cash"] = 4], [NoAnswers EXCEPT !["stock"] = 9, !["fund"] = 7, !["gold_etf"] = 3],
    [NoAnswers EXCEPT !["deposit"] = 6, !["physical_gold"] = 5, !["physical_usd"] = 1, !["stock"] = 8] }
Bar(last, close, volume) ==
  [last |-> last, close |-> close, volume |-> volume, max |-> None, min |-> None, sellers |-> None, buyers |-> None, status |-> "none"]
Bars == { Bar(100, 90, 5), Bar(0, 90, None), Bar(None, 130, 3), Bar(70, 70, 0) }
Pick(symbol, noul, level, bar) == [symbol |-> symbol, noul |-> noul, size |-> LevelValue(level, SizeLevels), price |-> JudgedPrice(bar)]
SizingJobs ==
  { [kind |-> "sizing", capital |-> capital, answers |-> a, low |-> low,
     picks |-> SelectSeq(<< Pick("folad", noul, 17, b), Pick("shasta", 60, level, Bar(33, 33, 9)),
                            Pick("khodro", 49, 18, Bar(10, 10, 9)) >>, LAMBDA p : p.price # None),
     funds |-> [gold_etf |-> "ayar", fund |-> fund],
     price |-> [s \in {"folad", "shasta", "khodro", "ayar", "sepehr", "deposit", "PHYSICAL_GOLD", "PHYSICAL_USD", "CASH"} |->
                  CASE s = "folad" -> BoughtPrice(b) [] s = "shasta" -> 33 [] s = "khodro" -> 10
                    [] s = "ayar" -> 41 [] s = "sepehr" -> 10 [] OTHER -> None]] :
      capital \in {0, 1, 997, 1000, 2400}, a \in ClassAnswers, noul \in {50, 60, 80}, level \in {2, 9, 18},
      b \in Bars, fund \in {NoName, "sepehr"}, low \in BOOLEAN }

PutOn(symbol, size, volume, title) ==
  [Option(symbol, "PUT", "folad", 950, 20, volume, "none", title, None) EXCEPT !.size = size]
HedgeJobs ==
  { [kind |-> "hedge", today |-> BoardDay,
     picks |-> << [row |-> PutOn("tA", size, 5, Aban(30)), noul |-> noul, size |-> level,
                   holding |-> [symbol |-> "folad", code |-> "folad", spot |-> 1000, quantity |-> held]],
                  [row |-> PutOn("tB", 100, volume, title), noul |-> 70, size |-> 140,
                   holding |-> [symbol |-> "folad", code |-> "folad", spot |-> 1000, quantity |-> held]] >>] :
      size \in {None, 1, 100}, noul \in {49, 70, 90}, level \in {0, 70, 140}, volume \in {0, 5},
      title \in {NoDate, Aban(28), Aban(30)}, held \in {0, 99, 100, 250} }

\* Advice
Holding(type, live, unit, quantity, amount, expired) ==
  [type |-> type, live |-> live, unit |-> unit, quantity |-> quantity, amount |-> amount, expired |-> expired]
Portfolios ==
  { <<>>, << Holding("STOCK", 10, 9, 30, 270, FALSE) >>,
    << Holding("STOCK", None, 9, 37, 270, FALSE), Holding("GOLD_ETF", 7, 7, 11, 70, FALSE), Holding("DEPOSIT", None, None, 0, 100, FALSE),
       Holding("PHYSICAL_USD", None, None, 0, 55, FALSE) >>,
    << Holding("OPTION", 4, 4, 10, 40, TRUE), Holding("FUND", 10, 10, 3, 30, FALSE), Holding("CASH", None, None, 0, 70, FALSE) >> }
Spot(usd, gold) == [usd |-> usd, gold |-> gold]
SpotRows == { <<>>, << Spot(1000, 500), Spot(1030, 515) >>, << Spot(1000, 500), Spot(970, None) >>,
              << Spot(1, 1), Spot(1000, 500), Spot(1001, 501), Spot(1002, 501), Spot(1003, 501), Spot(1004, 501),
                 Spot(1005, 501), Spot(1006, 501), Spot(1010, 484) >> }
Histories == { <<>>, << 100, 120, 90, 130, 91 >>, << 100, 100, 100, 100, 100 >>, << 0, 50, 60, 30, 45, 20, 80 >>, << 9, 8, 7 >> }
AdviceOf(h, cash, s, rates, geo, bear, bull, risk, v) ==
  [kind |-> "advice", holdings |-> h, cash |-> cash, spots |-> s, rates |-> rates, geo |-> geo, bearish |-> bear,
   bullish |-> bull, risk |-> risk, inflation |-> bear = 0, values |-> v]
AdviceJobs ==
  { AdviceOf(<< Holding("STOCK", 10, 9, 30, 270, FALSE) >>, 130, s, rates, geo, bear, bull, risk, <<>>) :
      s \in SpotRows, rates \in {<<>>, << 2350, 2300 >>, << 2200, 2300 >>}, geo \in {None, 2, 7, 9},
      bear \in {0, 3}, bull \in {0, 4}, risk \in {1, 5, 9} }
  \cup
  { AdviceOf(h, cash, <<>>, <<>>, None, bear, 0, 5, v) :
      h \in Portfolios, cash \in {0, 130}, bear \in {0, 3}, v \in Histories }

\* Routes: the rates of five pairs of four currencies around values that agree.
Pair(base, quote, bucket) == [base |-> base, quote |-> quote, bucket |-> bucket]
Quotes(d1, d2, d3, bid) ==
  << Quoted(Pair("EUR", "USD", "MAJOR"), 8000, None, None), Quoted(Pair("GBP", "USD", "MAJOR"), 24000 + d1, None, None),
     Quoted(Pair("EUR", "GBP", "CROSS"), -16000 + d2, None, None), Quoted(Pair("BTC", "USD", "CRYPTO"), 1000000, None, None),
     Quoted(Pair("BTC", "EUR", "CRYPTO"), 992000 + d3, 991900, 991990), Quoted(Pair("EUR", "USD", "MAJOR"), 8000, bid, 8002) >>
RouteJobs ==
  { [kind |-> "routes", quotes |-> SubSeq(Quotes(d1, d2, d3, bid), 1, n), names |-> << "BTC", "EUR", "GBP", "USD" >>] :
      d1 \in {-300, 0, 200}, d2 \in {-300, 0, 500}, d3 \in {-900, 600}, bid \in {None, 7999}, n \in {3, 6} }

MCJobs == CalendarJobs \cup BoardJobs \cup SizingJobs \cup HedgeJobs \cup AdviceJobs \cup RouteJobs

\* A video: rows out of order, one that does not last, blank ones, a long one.
Line(start, end, len) == [start |-> start, end |-> end, len |-> len]
MCTranscripts ==
  { <<>>, << Line(0, 20, 4) >>, << Line(30, 30, 3), Line(0, 20, 4), Line(25, 28, 0) >>,
    << Line(-5, 0, 2), Line(0, 20, 3), Line(21, 40, 9), Line(100, 110, 2) >> }

\* Contracts that expire today, tomorrow and later.
MCDays == << [y |-> 2025, m |-> 3, d |-> 19], [y |-> 2025, m |-> 3, d |-> 20], [y |-> 2025, m |-> 3, d |-> 21] >>
MCContracts == {[id |-> "zA", title |-> [y |-> 1403, m |-> 12, d |-> 29]], [id |-> "zB", title |-> [y |-> 1403, m |-> 12, d |-> 30]],
                [id |-> "tC", title |-> [y |-> 1404, m |-> 1, d |-> 1]]}

MCQuestions == {[names |-> {"folad"}, gold |-> FALSE, index |-> FALSE], [names |-> {"sekeh"}, gold |-> TRUE, index |-> FALSE],
                [names |-> {"bank"}, gold |-> FALSE, index |-> TRUE], [names |-> {}, gold |-> FALSE, index |-> FALSE]}
MCInstruments == << [symbol |-> "folad", label |-> "steel", type |-> "STOCK"], [symbol |-> "ayar", label |-> "gold", type |-> "GOLD_ETF"],
                    [symbol |-> "vabmelat", label |-> "bank", type |-> "STOCK"], [symbol |-> "TEDPIX", label |-> "total", type |-> "INDEX"] >>
MCReported == << "sekeh", "folad" >>
=============================================================================
