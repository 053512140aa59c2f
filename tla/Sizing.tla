------------------------------- MODULE Sizing -------------------------------
(***************************************************************************)
(* How portfolios.service.ts and suggest-system-one.ts turn the scores of   *)
(* the decision model into amounts: shares of the capital, whole shares     *)
(* within a sleeve, the rows of a snapshot, puts that cover held shares.    *)
(*                                                                          *)
(* Amounts are rials.  A score is counted in halves, a probability in       *)
(* percent, a size in halves of a percent; None is no usable answer.        *)
(* Weights are exact fractions over one denominator.  The code computes     *)
(* them in floating point, where a quotient that should be whole may come   *)
(* out a little less, so that rounding down loses one: `low' says whether   *)
(* it does.                                                                 *)
(***************************************************************************)
EXTENDS Board

ClassLevels == << 0, 5, 10, 15, 20, 30, 40, 55, 75, 100 >>
SizeLevels == << 0, 2, 5, 8, 12, 18, 25, 35, 50, 70 >>
MinStockProbability == 50

ClassIds == {"cash", "deposit", "physical_gold", "physical_usd", "gold_etf", "fund", "stock"}
\* Types that are bought in whole units at a price of the market.
BoardTypes == {"STOCK", "GOLD_ETF", "OPTION", "FUND"}
\* Types that are held as an amount, with or without a price.
AmountTypes == {"PHYSICAL_GOLD", "PHYSICAL_USD", "DEPOSIT", "CASH"}

TotalOf(s, Amount(_)) == FoldLeft(LAMBDA sum, x : sum + Amount(x), 0, s)

\* Math.floor of n/d as the program computes it.
Floor(n, d, low) == IF low /\ n > 0 /\ n % d = 0 THEN n \div d - 1 ELSE n \div d

-----------------------------------------------------------------------------
(* Scores *)

\* levelValue, for a score of h halves, in halves of a percent: between two levels
\* the value lies between theirs.
LevelValue(h, levels) ==
  LET top == 2 * (Len(levels) - 1)
      c == IF h > top THEN top ELSE h
      next == LesserOf(Len(levels), c \div 2 + 2)
  IN  IF h = None \/ h <= 0 THEN 2 * levels[1]
      ELSE 2 * levels[c \div 2 + 1] + (levels[next] - levels[c \div 2 + 1]) * (c % 2)

\* normalizeClassWeights: the weight of a class is .of[class] / .whole.
NormalizeClassWeights(answers) ==
  LET raw == [c \in ClassIds |-> LevelValue(answers[c], ClassLevels)]
      sum == FoldFunctionOnSet(LAMBDA a, b : a + b, 0, raw, ClassIds)
  IN  IF sum > 0 THEN [of |-> raw, whole |-> sum]
      ELSE [of |-> [c \in ClassIds |-> IF c = "cash" THEN 1 ELSE 0], whole |-> 1]

-----------------------------------------------------------------------------
(* The stock sleeve *)

\* tradableOnLatest: the price a stock is judged at, None when it is left out.
JudgedPrice(bar) ==
  LET price == IF Positive(bar.last) THEN bar.last ELSE bar.close
  IN  IF Positive(price) /\ (bar.volume = None \/ bar.volume > 0) /\ DetectQueue(bar, price) = "none"
      THEN price ELSE None
\* buildUniverse and attachMissingPrices: the price a stock is bought at.
BoughtPrice(bar) == Price(bar)

Likelier(a, b) == a.noul > b.noul \/ (a.noul = b.noul /\ a.size > b.size)

\* fillStockSleeve: best first, none below one half; each as many whole shares as
\* its size and what is left of the budget allow.  The budget is num/den rials.
FillStockSleeve(picks, num, den, low) ==
  LET take(sleeve, pick) ==
        LET desired == Floor(num * pick.size, den * 200, low)
            quantity == LesserOf(desired, sleeve.left) \div pick.price
        IN  IF ~Positive(pick.price) \/ pick.size <= 0 \/ sleeve.left < pick.price \/ quantity < 1
            THEN sleeve
            ELSE [left |-> sleeve.left - quantity * pick.price,
                  chosen |-> Append(sleeve.chosen, [symbol |-> pick.symbol, amount |-> quantity * pick.price])]
      likely == SelectSeq(SortedBy(picks, Likelier), LAMBDA p : p.noul >= MinStockProbability)
  IN  FoldLeft(take, [left |-> Floor(num, den, low), chosen |-> <<>>], likely).chosen

-----------------------------------------------------------------------------
(* A suggestion *)

TypeOfClass == [deposit |-> "DEPOSIT", physical_gold |-> "PHYSICAL_GOLD", physical_usd |-> "PHYSICAL_USD",
                gold_etf |-> "GOLD_ETF", fund |-> "FUND", cash |-> "CASH", stock |-> "STOCK"]

\* buildStrategySuggestions, after the answers: the classes in their order, then
\* the chosen stocks, then cash for what is left when it is more than 0.05 %.
\* A weight of `whole' is all the capital.  funds[c] is the symbol of the busiest
\* fund of that class, NoName when none can be bought.
Suggestion(capital, answers, picks, funds, low) ==
  LET weights == NormalizeClassWeights(answers)
      whole == weights.whole * capital
      item(class, symbol) == [symbol |-> symbol, type |-> TypeOfClass[class], weight |-> weights.of[class] * capital]
      classes == << item("deposit", "deposit"), item("physical_gold", "PHYSICAL_GOLD"),
                    item("physical_usd", "PHYSICAL_USD"), item("gold_etf", funds["gold_etf"]),
                    item("fund", funds["fund"]) >>
      sleeve == FillStockSleeve(picks, capital * weights.of["stock"], weights.whole, low)
      items == SelectSeq(classes, LAMBDA i : i.weight > 0 /\ i.symbol # NoName)
               \o [i \in DOMAIN sleeve |-> [symbol |-> sleeve[i].symbol, type |-> "STOCK",
                                            weight |-> sleeve[i].amount * weights.whole]]
      rest == whole - TotalOf(items, LAMBDA i : i.weight)
  IN  [whole |-> whole, sleeve |-> sleeve,
       items |-> IF 2000 * rest > whole
                 THEN Append(items, [symbol |-> "CASH", type |-> "CASH", weight |-> rest]) ELSE items]

\* materializeItems: each item gets its share of the capital, rounded down, in
\* whole units where it has a price of the market; what is left becomes cash.
\* (The scaling down of rows that exceed the capital never has anything to do:
\* CapitalIsConserved.)  price[symbol] is None for an unknown price.
Bought(item, share, price, left) ==
  LET target == LesserOf(share, left)
      units == IF Positive(price) THEN target \div price ELSE 0
  IN  IF target <= 0 THEN 0
      ELSE IF item.type \in AmountTypes THEN target
      ELSE units * price

MaterializeItems(items, capital, price, low) ==
  LET prepared == SelectSeq(items, LAMBDA i : i.weight > 0)
      sum == TotalOf(prepared, LAMBDA i : i.weight)
      buy(rows, item) ==
        LET left == capital - TotalOf(rows, LAMBDA r : r.amount)
            amount == Bought(item, Floor(item.weight * capital, sum, low), price[item.symbol], left)
        IN  IF amount <= 0 THEN rows
            ELSE Append(rows, [symbol |-> item.symbol, type |-> item.type, amount |-> amount])
      rows == FoldLeft(buy, <<>>, prepared)
      rest == capital - TotalOf(rows, LAMBDA r : r.amount)
      cash == { i \in DOMAIN rows : rows[i].type = "CASH" }
  IN  IF capital <= 0 \/ prepared = <<>> THEN <<>>
      ELSE IF rest <= 0 THEN rows
      ELSE IF cash = {} THEN Append(rows, [symbol |-> "CASH", type |-> "CASH", amount |-> rest])
      ELSE [i \in DOMAIN rows |-> IF i \in cash /\ \A j \in cash : i <= j
                                  THEN [rows[i] EXCEPT !.amount = @ + rest] ELSE rows[i]]

-----------------------------------------------------------------------------
(* Puts that cover held shares *)

\* livePutsForHoldings: the puts that may cover the holding of one stock.
IsCover(row, holding, today) ==
  /\ row.kind = "OPTION" /\ row.side = "PUT" /\ Belongs(row, holding.symbol, holding.code)
  /\ Positive(row.strike) /\ Positive(holding.spot)
  /\ ParsedDays(row, today) # None /\ ~LabelExpired(row, today)
  /\ Positive(TradePrice(row)) /\ (row.volume = None \/ row.volume > 0)
  /\ DetectQueue(row, TradePrice(row)) = "none"

\* Mutant: every put may cover the whole holding again.
FillHedgeAgain(picks) ==
  LET take(chosen, pick) ==
        LET unit == IF Positive(pick.unit) THEN pick.unit ELSE 1
            contracts == ((pick.held * pick.size) \div 200) \div unit
        IN  IF pick.size <= 0 \/ contracts < 1 THEN chosen
            ELSE Append(chosen, [base |-> pick.base, symbol |-> pick.symbol, shares |-> contracts * unit])
      likely == SelectSeq(SortedBy(picks, Likelier), LAMBDA p : p.noul >= MinStockProbability)
  IN  FoldLeft(take, <<>>, likely)

\* fillHedge: whole contracts, and never more shares of a stock than are held.
FillHedge(picks) ==
  LET covered(chosen, base) == TotalOf(SelectSeq(chosen, LAMBDA c : c.base = base), LAMBDA c : c.shares)
      take(chosen, pick) ==
        LET room == pick.held - covered(chosen, pick.base)
            unit == IF Positive(pick.unit) THEN pick.unit ELSE 1
            contracts == LesserOf((pick.held * pick.size) \div 200, room) \div unit
        IN  IF pick.size <= 0 \/ room < 1 \/ contracts < 1 THEN chosen
            ELSE Append(chosen, [base |-> pick.base, symbol |-> pick.symbol, shares |-> contracts * unit])
      likely == SelectSeq(SortedBy(picks, Likelier), LAMBDA p : p.noul >= MinStockProbability)
  IN  FoldLeft(take, <<>>, likely)
=============================================================================
