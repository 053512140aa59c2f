------------------------------- MODULE Board -------------------------------
(***************************************************************************)
(* The option board of market/option-board.ts and the lists of              *)
(* market.service.ts: which stocks stand in a buy or sell queue, which      *)
(* options are live, tradable and fairly priced, what replaces a queued     *)
(* stock in a suggestion, and which instruments a list shows at all.        *)
(*                                                                          *)
(* A row is an instrument with its last price bar:                          *)
(*   kind     STOCK (also funds and gold funds) or OPTION                   *)
(*   last, close, volume, max, min, sellers, buyers   numbers or None       *)
(*   status   what the state text says: "buy", "sell" or "none"             *)
(*   title    for an option, the date in its title, NoDate when none        *)
(*   stored   the days left the source gave when the row was stored         *)
(*   side, base, strike, basePrice, size   of the contract, None unknown    *)
(*   label    the stock its name or symbol is made from                     *)
(* Texts are read by the code with several spellings of one field; a field  *)
(* here is the first of them that is there.                                 *)
(***************************************************************************)
EXTENDS Calendar, SequencesExt

CONSTANTS MaxQueues,      \* queued stocks listed on a side: 12 in the code
          MaxIdeas,       \* options listed as worthwhile: 8
          MaxReplaced     \* queued stocks of a side that get a note: 8

ASSUME BoardBounds == MaxReplaced \in 1..MaxQueues /\ MaxIdeas \in Nat

None == -9999
NoName == "none"
NoDate == [y |-> 0, m |-> 0, d |-> 0]

Positive(n) == n # None /\ n > 0
OrZero(n) == IF n = None THEN 0 ELSE n
LesserOf(a, b) == IF a < b THEN a ELSE b
Abs(n) == IF n < 0 THEN -n ELSE n
FirstKnown(s) == LET known == { i \in DOMAIN s : s[i] # None }
                 IN  IF known = {} THEN None ELSE s[Min(known)]
FirstPositive(s) == FirstKnown(SelectSeq(s, Positive))
FirstOf(s, n) == SubSeq(s, 1, IF Len(s) < n THEN Len(s) ELSE n)

\* The sort of the code: equal elements keep their order.
SortedBy(s, Before(_, _)) ==
  LET order == SetToSortSeq(DOMAIN s,
                 LAMBDA i, j : Before(s[i], s[j]) \/ (~Before(s[j], s[i]) /\ i < j))
  IN  [i \in DOMAIN s |-> s[order[i]]]

Price(row) == FirstKnown(<< row.last, row.close >>)
\* optionTradePrice: the last positive price, else the closing one.
TradePrice(row) == FirstPositive(<< row.last, row.close >>)

-----------------------------------------------------------------------------
(* Expiry *)

Expired(days) == days # None /\ days <= 0
TitleDays(row, today) == IF row.title = NoDate THEN None ELSE DaysLeft(row.title, today)
\* The date in the title goes before the days the source gave.
ParsedDays(row, today) == FirstKnown(<< TitleDays(row, today), row.stored >>)

\* optionMetaExpired with the labels of the row, and without them.
LabelExpired(row, today) == row.kind = "OPTION" /\ Expired(ParsedDays(row, today))
StoredExpired(row) == row.kind = "OPTION" /\ Expired(row.stored)

\* Mutant: an option is still listed on the day its title names.
NamePassedLater(row, today) ==
  LET now == GregorianToJalali(today)
      digits(j) == j.y * 10000 + j.m * 100 + j.d
  IN  row.title # NoDate /\ digits(row.title) < digits(now)

\* Is the date of the title today's or an earlier one?  The lists compare the two
\* as eight digits, inside the query.
NamePassed(row, today) ==
  LET now == GregorianToJalali(today)
      digits(j) == j.y * 10000 + j.m * 100 + j.d
  IN  row.title # NoDate /\ digits(row.title) <= digits(now)

\* listedOptionSql, and the same with the titles read once a day.
Listed(row, today) == row.kind = "OPTION" => ~StoredExpired(row) /\ ~NamePassed(row, today)
ListedWith(row, passed) == row.kind = "OPTION" => ~StoredExpired(row) /\ row.id \notin passed

-----------------------------------------------------------------------------
(* Queues *)

\* detectQueue: the state text decides; without one, a price at the limit of the
\* day with nobody on the other side.
DetectQueue(row, price) ==
  CASE ~Positive(price) -> "none"
    [] Positive(price) /\ row.status # "none" -> row.status
    [] OTHER ->
         IF Positive(row.max) /\ 1000 * price >= 997 * row.max /\ ~Positive(row.sellers) THEN "buy"
         ELSE IF Positive(row.min) /\ 1000 * price <= 1003 * row.min /\ ~Positive(row.buyers)
         THEN "sell" ELSE "none"

Queues(rows) ==
  SortedBy(SelectSeq(rows, LAMBDA r : r.kind = "STOCK" /\ DetectQueue(r, Price(r)) # "none"),
           LAMBDA a, b : OrZero(a.volume) > OrZero(b.volume))
QueueOf(rows, side) ==
  FirstOf(SelectSeq(Queues(rows), LAMBDA r : DetectQueue(r, Price(r)) = side), MaxQueues)

-----------------------------------------------------------------------------
(* What an option is worth *)

Intrinsic(side, strike, spot) ==
  LET gain == IF side = "CALL" THEN spot - strike ELSE strike - spot
  IN  IF gain > 0 THEN gain ELSE 0

\* judgeOption.  Distances and premiums are compared as fractions of the spot price.
Judge(side, strike, premium, spot, days) ==
  LET away == Abs(strike - spot)
      inside == Intrinsic(side, strike, spot)
  IN  CASE ~Positive(premium) \/ ~Positive(spot) -> "no price"
        [] OTHER ->
             IF Expired(days) THEN "expired"
             ELSE IF 100 * away > 12 * spot THEN "far"
             ELSE IF 100 * premium > 15 * spot THEN "dear"
             ELSE IF 10000 * premium < 15 * spot THEN "odd"
             ELSE IF days # None /\ days > 120 THEN "late"
             ELSE IF inside > 0 /\ 100 * premium > 145 * inside THEN "dear"
             ELSE IF inside = 0 /\ (100 * premium > 5 * spot \/ 100 * away > 8 * spot) THEN "dear"
             ELSE "worthwhile"

\* The price of the stock on the board, else the one the contract came with.
SpotOf(rows, row) ==
  LET at == SelectSeq(rows, LAMBDA r : r.kind = "STOCK" /\ r.symbol = row.base /\ Positive(Price(r)))
  IN  IF at # <<>> THEN Price(Last(at)) ELSE FirstPositive(<< row.basePrice >>)

IsContract(row) ==
  row.kind = "OPTION" /\ row.side # NoName /\ row.base # NoName /\ Positive(row.strike)

\* An option the board goes on to judge.
Tradable(row, today) ==
  /\ ~Expired(ParsedDays(row, today)) /\ ~StoredExpired(row)
  /\ Positive(Price(row)) /\ DetectQueue(row, Price(row)) = "none" /\ row.volume # 0

IdeaOf(rows, row, today) ==
  [symbol |-> row.symbol, side |-> row.side, base |-> row.base, strike |-> row.strike,
   premium |-> Price(row), spot |-> SpotOf(rows, row), days |-> ParsedDays(row, today)]

Worthwhile(rows, row, today) ==
  /\ IsContract(row) /\ Tradable(row, today)
  /\ Judge(row.side, row.strike, Price(row), SpotOf(rows, row), ParsedDays(row, today)) = "worthwhile"

\* scoreOption, times a thousand and times the spot price; the percentage is
\* rounded to tenths before it counts.
Score(idea) ==
  2000 * Abs(idea.strike - idea.spot) + ((2000 * idea.premium + idea.spot) \div (2 * idea.spot)) * idea.spot
Better(a, b) == Score(a) * b.spot < Score(b) * a.spot

Ideas(rows, today) ==
  LET fit == SelectSeq(rows, LAMBDA r : Worthwhile(rows, r, today))
  IN  SortedBy([i \in DOMAIN fit |-> IdeaOf(rows, fit[i], today)], Better)

-----------------------------------------------------------------------------
(* The board and what it does to a suggestion *)

\* Mutant: the first option of the stock replaces it, whatever its side.
ReplacementOfAnySide(row, ideas) ==
  LET fit == SelectSeq(ideas, LAMBDA i : i.base = row.symbol)
  IN  [symbol |-> row.symbol, queue |-> DetectQueue(row, Price(row)),
       by |-> IF fit = <<>> THEN NoName ELSE Head(fit).symbol]

ReplacementOf(row, ideas) ==
  LET side == IF DetectQueue(row, Price(row)) = "buy" THEN "CALL" ELSE "PUT"
      fit == SelectSeq(ideas, LAMBDA i : i.side = side /\ i.base = row.symbol)
  IN  [symbol |-> row.symbol, queue |-> DetectQueue(row, Price(row)),
       by |-> IF fit = <<>> THEN NoName ELSE Head(fit).symbol]

BuildBoard(rows, today) ==
  LET ideas == Ideas(rows, today)
      noted == FirstOf(QueueOf(rows, "buy"), MaxReplaced) \o FirstOf(QueueOf(rows, "sell"), MaxReplaced)
  IN  [buy |-> QueueOf(rows, "buy"), sell |-> QueueOf(rows, "sell"),
       ideas |-> FirstOf(ideas, MaxIdeas),
       replacements |-> [i \in DOMAIN noted |-> ReplacementOf(noted[i], ideas)]]

\* redirectAnalysisSuggestion: a suggestion to enter a queued stock becomes one of
\* its option, or none.
Redirect(item, board) ==
  LET hits == SelectSeq(board.replacements, LAMBDA r : r.symbol = item.symbol)
  IN  IF item.action \in {"SKIP", "REMOVE", "DECREASE"} \/ hits = <<>> THEN item
      ELSE IF Head(hits).by = NoName THEN [item EXCEPT !.action = "SKIP"]
      ELSE [item EXCEPT !.symbol = Head(hits).by, !.kind = "OPTION"]

\* roundTripPct: what buying and selling costs together; an option costs what a
\* stock does, cash and deposits nothing.
RoundTripPct(fees, kind) ==
  CASE kind = "PHYSICAL_USD" -> fees.usd
    [] kind = "PHYSICAL_GOLD" -> fees.gold
    [] kind \in {"CASH", "DEPOSIT"} -> 0
    [] OTHER -> fees.stock

EntryActions == {"ADD", "INCREASE", "SET"}
\* clearsRoundTripFee and suggestionClearsFees: an entry must promise more than
\* buying and selling costs; no promise is not enough for an entry.
ClearsFees(item, fees) ==
  \/ item.action = "SKIP" \/ RoundTripPct(fees, item.kind) <= 0
  \/ item.profit # None /\ item.profit > RoundTripPct(fees, item.kind)
  \/ item.profit = None /\ item.action \notin EntryActions

\* analyzeCurrent: redirected first, then held against the fees of what it became.
Suggested(items, board, fees) ==
  SelectSeq([i \in DOMAIN items |-> Redirect(items[i], board)], LAMBDA s : ClearsFees(s, fees))

-----------------------------------------------------------------------------
(* The options of one stock *)

\* optionBelongsToUnderlying
Belongs(row, symbol, code) ==
  row.base = symbol \/ (code # NoName /\ row.code = code) \/ row.label = symbol

\* listValuableOptions: live options by what exercising them now would leave; one
\* without a price for itself or its stock comes last.
ValueOf(rows, row, today) ==
  LET spot == SpotOf(rows, row)
      premium == TradePrice(row)
      size == IF Positive(row.size) THEN row.size ELSE 1
  IN  [symbol |-> row.symbol, days |-> ParsedDays(row, today), spot |-> spot, premium |-> premium,
       known |-> spot # None /\ premium # None,
       profit |-> IF spot = None \/ premium = None THEN 0
                  ELSE (Intrinsic(row.side, row.strike, spot) - premium) * size]
MoreValuable(a, b) == a.known /\ (~b.known \/ a.profit > b.profit)

ListValuable(rows, today) ==
  LET fit == SelectSeq(rows, LAMBDA r : IsContract(r) /\ ~Expired(ParsedDays(r, today)) /\ ~StoredExpired(r))
  IN  SortedBy([i \in DOMAIN fit |-> ValueOf(rows, fit[i], today)], MoreValuable)

\* valuableOptionsForUnderlying: the options of the stock, as contracts on it.
ValuableFor(stock, rows, today) ==
  LET mine == SelectSeq(rows, LAMBDA r : /\ r.kind = "OPTION" /\ Belongs(r, stock.symbol, stock.code)
                                         /\ ~LabelExpired(r, today))
  IN  ListValuable(<< stock >> \o [i \in DOMAIN mine |-> [mine[i] EXCEPT !.base = stock.symbol]], today)
=============================================================================
