------------------------------- MODULE Advice -------------------------------
(***************************************************************************)
(* The rules of intelligence/engine.ts and what intelligence.service.ts     *)
(* feeds them: the weights of a portfolio, the regime of the market, the    *)
(* plan towards target weights, the scores of risk and health, the largest  *)
(* fall of its value.  "Auditable rules", the source says: every number is  *)
(* computed from the input.                                                 *)
(*                                                                          *)
(* Weights are in tenths of a percent, changes in hundredths of a percent,  *)
(* rates in hundredths of a point; None is a figure that is not there.      *)
(***************************************************************************)
EXTENDS Board

ClassKeys == << "equity", "fixed", "gold", "usd", "cash" >>
Classes == { ClassKeys[i] : i \in DOMAIN ClassKeys }
SumOver(S, f) == FoldFunctionOnSet(LAMBDA a, b : a + b, 0, f, S)
LargestOf(S) == CHOOSE n \in S : \A k \in S : k <= n
\* Math.round of n/d: the nearest, a half upwards.
Round(n, d) == (2 * n + d) \div (2 * d)
Clamp(n, low, high) == IF n < low THEN low ELSE IF n > high THEN high ELSE n

BucketAsset(type) ==
  CASE type \in {"GOLD_ETF", "PHYSICAL_GOLD"} -> "gold"
    [] type = "PHYSICAL_USD" -> "usd"
    [] type = "CASH" -> "cash"
    [] type \in {"DEPOSIT", "FUND"} -> "fixed"
    [] OTHER -> "equity"

\* The shares of `part' in tenths of a percent; the last class gets what is left.
Shares(part, whole) ==
  LET first == [c \in Classes \ {"cash"} |-> Round(1000 * part[c], whole)]
      left == 1000 - SumOver(Classes \ {"cash"}, first)
  IN  [c \in Classes |-> IF c = "cash" THEN IF left > 0 THEN left ELSE 0 ELSE first[c]]

-----------------------------------------------------------------------------
(* The weights of a portfolio *)

\* portfolioWeights: a holding counts with its live price, else its own, else the
\* amount written down; options past their date are left out, and the cash of the
\* account counts when no row is cash.
ValueOfHolding(h) ==
  IF Positive(h.live) /\ h.quantity > 0 THEN h.live * h.quantity
  ELSE IF Positive(h.unit) /\ h.quantity > 0 THEN h.unit * h.quantity
  ELSE OrZero(h.amount)
Worths(holdings, cash) ==
  LET kept == SelectSeq(holdings, LAMBDA h : ~(h.type = "OPTION" /\ h.expired))
      rows == [i \in DOMAIN kept |-> [type |-> kept[i].type, amount |-> ValueOfHolding(kept[i])]]
  IN  IF (\A i \in DOMAIN rows : rows[i].type # "CASH") /\ cash > 0
      THEN Append(rows, [type |-> "CASH", amount |-> cash]) ELSE rows

\* weightsFromAmounts
WeightsFromAmounts(rows) ==
  LET of(c) == { i \in DOMAIN rows : BucketAsset(rows[i].type) = c /\ rows[i].amount > 0 }
      sums == [c \in Classes |-> SumOver(of(c), [i \in DOMAIN rows |-> rows[i].amount])]
      total == SumOver(Classes, sums)
  IN  IF total <= 0 THEN [c \in Classes |-> 0] ELSE Shares(sums, total)

-----------------------------------------------------------------------------
(* The regime of the market *)

\* pctChange, in hundredths of a percent.
PctChange(older, newer) ==
  IF older = None \/ newer = None \/ older = 0 THEN None
  ELSE Round(10000 * (newer - older), older)

\* loadFacts, from the last days of prices, the last two macro rows and the news.
Facts(spots, rates, geo, bearish, bullish) ==
  LET n == Len(spots)
      older == IF n - 8 > 0 THEN n - 7 ELSE 1
      change(f(_)) == IF n >= 2 THEN PctChange(f(spots[older]), f(spots[n])) ELSE None
  IN  [usd |-> change(LAMBDA s : s.usd), gold |-> change(LAMBDA s : s.gold),
       rate |-> IF Len(rates) = 2 /\ rates[1] # None /\ rates[2] # None THEN rates[1] - rates[2] ELSE None,
       geo |-> geo, bearish |-> bearish, bullish |-> bullish]

\* Which way a figure points: up is risk, down is relief.
Sign(n, high, low) == CASE n # None /\ n >= high -> "up" [] n # None /\ n <= low -> "down" [] OTHER -> "none"
NewsSign(facts) ==
  CASE facts.bearish >= 2 /\ facts.bearish > facts.bullish + 1 -> "up"
    [] facts.bullish >= 2 /\ facts.bullish > facts.bearish + 1 -> "down"
    [] OTHER -> "none"
Signs(facts) ==
  [usd |-> Sign(facts.usd, 300, -300), rate |-> Sign(facts.rate, 50, -50), geo |-> Sign(facts.geo, 7, 3),
   gold |-> Sign(facts.gold, 300, -300), news |-> NewsSign(facts)]
Pointing(signs, way) == { s \in DOMAIN signs : signs[s] = way }

\* classifyRegime
ClassifyRegime(facts) ==
  LET signs == Signs(facts)
      off == Cardinality(Pointing(signs, "up"))
      on == Cardinality(Pointing(signs, "down"))
      regime ==
        IF off + on < 2 THEN "NEUTRAL"
        ELSE IF facts.geo >= 8 /\ off >= 2 THEN "CRISIS"
        ELSE IF {"gold", "usd"} \subseteq Pointing(signs, "up") THEN "INFLATIONARY"
        ELSE IF off >= 2 /\ off > on THEN "RISK_OFF"
        ELSE IF on >= 2 /\ on > off THEN "RISK_ON"
        ELSE IF off = 1 /\ on = 0 THEN "DEFENSIVE"
        ELSE "NEUTRAL"
  IN  [regime |-> regime, enough |-> off + on >= 2,
       confidence |-> IF off + on >= 2 THEN Clamp(35 + 10 * (off + on), 0, 85) ELSE None]

-----------------------------------------------------------------------------
(* The plan *)

BaseByRisk ==
  [low  |-> [equity |-> 20, fixed |-> 40, gold |-> 15, usd |-> 10, cash |-> 15],
   mid  |-> [equity |-> 40, fixed |-> 25, gold |-> 15, usd |-> 10, cash |-> 10],
   high |-> [equity |-> 55, fixed |-> 15, gold |-> 12, usd |-> 8, cash |-> 10]]
BaseOf(risk) == IF risk <= 3 THEN BaseByRisk.low ELSE IF risk >= 7 THEN BaseByRisk.high ELSE BaseByRisk.mid

\* What a regime moves between the classes.
Tilted(base, regime) ==
  CASE regime \in {"RISK_OFF", "DEFENSIVE", "CRISIS"} ->
         [base EXCEPT !.equity = @ - 8, !.gold = @ + 4, !.cash = @ + 4]
    [] regime = "RISK_ON" -> [base EXCEPT !.equity = @ + 6, !.cash = @ - 3, !.gold = @ - 3]
    [] regime = "INFLATIONARY" ->
         [base EXCEPT !.gold = @ + 5, !.usd = @ + 3, !.equity = @ - 4, !.fixed = @ - 4]
    [] OTHER -> base

Renormalize(raw) ==
  LET clamped == [c \in Classes |-> Clamp(raw[c], 0, 75)]
      sum == SumOver(Classes, clamped)
  IN  Shares(clamped, IF sum = 0 THEN 1 ELSE sum)

\* buildPlan: the target of every class and how far the portfolio is from it.
BuildPlan(risk, weights, regime) ==
  LET tilt == regime.confidence >= 45 /\ regime.regime # "NEUTRAL"
      base == BaseOf(risk)
      target == Renormalize(IF tilt THEN Tilted(base, regime.regime) ELSE base)
      move(diff) == IF diff >= 20 THEN "INCREASE" ELSE IF diff <= -20 THEN "DECREASE" ELSE "HOLD"
  IN  [tilted |-> tilt, target |-> target,
       diff |-> [c \in Classes |-> target[c] - weights[c]],
       action |-> [c \in Classes |-> move(target[c] - weights[c])]]

-----------------------------------------------------------------------------
(* Scores *)

LevelFromShare(w, low, high) == IF w >= high THEN "HIGH" ELSE IF w >= low THEN "MEDIUM" ELSE "LOW"
LevelBelow(w, high, medium) == IF w < high THEN "HIGH" ELSE IF w < medium THEN "MEDIUM" ELSE "LOW"
Points == [LOW |-> 3, MEDIUM |-> 6, HIGH |-> 8]

\* The sum of the squared weights: a million when all is in one class.
Squares(weights) == SumOver(Classes, [c \in Classes |-> weights[c] * weights[c]])
TopOf(weights) == LargestOf({ weights[c] : c \in Classes })

\* scoreRisk, in tenths; inflation counts only when the macro data has it.
RiskLevels(weights, inflationKnown) ==
  [part \in {"concentration", "market", "fx", "liquidity"} \cup (IF inflationKnown THEN {"inflation"} ELSE {}) |->
     CASE part = "concentration" ->
            IF Squares(weights) >= 350000 \/ TopOf(weights) >= 450 THEN "HIGH"
            ELSE IF Squares(weights) >= 220000 \/ TopOf(weights) >= 300 THEN "MEDIUM" ELSE "LOW"
       [] part = "market" -> LevelFromShare(weights["equity"], 300, 550)
       [] part = "fx" -> LevelFromShare(weights["usd"], 80, 200)
       [] part = "liquidity" -> LevelBelow(weights["cash"], 50, 150)
       [] part = "inflation" -> LevelBelow(weights["gold"] + weights["usd"], 100, 250)]
ScoreRisk(weights, inflationKnown) ==
  LET levels == RiskLevels(weights, inflationKnown)
  IN  IF SumOver(Classes, weights) = 0 THEN None
      ELSE Round(10 * SumOver(DOMAIN levels, [p \in DOMAIN levels |-> Points[levels[p]]]),
                 Cardinality(DOMAIN levels))

\* healthScore: the mean of the parts that have data.
HealthScore(weights, risk) ==
  LET parts == << Round(1000000 - Squares(weights), 10000), Round(1000 - TopOf(weights), 10),
                  Round(LesserOf(1000, weights["cash"] * 4), 10),
                  Round(LesserOf(1000, (weights["gold"] + weights["usd"]) * 3), 10) >>
               \o (IF risk = None THEN <<>> ELSE << Clamp(100 - risk, 0, 100) >>)
      bounded == [i \in DOMAIN parts |-> Clamp(parts[i], 0, 100)]
  IN  IF SumOver(Classes, weights) = 0 THEN None
      ELSE Round(FoldLeft(LAMBDA a, b : a + b, 0, bounded), Len(parts))

\* buildAlerts
BuildAlerts(regime, weights, plan) ==
  (IF regime.enough /\ regime.regime # "NEUTRAL" THEN {"regime"} ELSE {})
  \cup (IF TopOf(weights) >= 400 THEN {"concentration"} ELSE {})
  \cup (IF Abs(plan.diff["equity"]) >= 100 THEN {"gap"} ELSE {})

\* A fall is the fraction [lost, from].
Deeper(a, b) == a.lost * b.from > b.lost * a.from

\* Mutant: the fall is measured from the first value, not from the highest.
MaxDrawdownFromFirst(values) ==
  LET series == SelectSeq(values, LAMBDA v : v > 0)
      pass(at, v) ==
        LET fall == [lost |-> at.peak - v, from |-> at.peak]
        IN  [peak |-> at.peak, worst |-> IF Deeper(fall, at.worst) THEN fall ELSE at.worst]
      end == FoldLeft(pass, [peak |-> series[1], worst |-> [lost |-> 0, from |-> 1]], series)
  IN  IF Len(series) < 5 THEN None ELSE Round(1000 * end.worst.lost, end.worst.from)

\* maxDrawdownPct: one pass over the values recorded, from the highest so far, in
\* tenths of a percent.
MaxDrawdown(values) ==
  LET series == SelectSeq(values, LAMBDA v : v > 0)
      pass(at, v) ==
        LET peak == IF v > at.peak THEN v ELSE at.peak
            fall == [lost |-> peak - v, from |-> peak]
        IN  [peak |-> peak, worst |-> IF Deeper(fall, at.worst) THEN fall ELSE at.worst]
      end == FoldLeft(pass, [peak |-> series[1], worst |-> [lost |-> 0, from |-> 1]], series)
  IN  IF Len(series) < 5 THEN None ELSE Round(1000 * end.worst.lost, end.worst.from)

\* portfolio: everything the page of one portfolio shows.
Advise(holdings, cash, facts, risk, inflationKnown, values) ==
  LET weights == WeightsFromAmounts(Worths(holdings, cash))
      regime == ClassifyRegime(facts)
      plan == BuildPlan(Clamp(risk, 1, 10), weights, regime)
      score == ScoreRisk(weights, inflationKnown)
  IN  [weights |-> weights, regime |-> regime, plan |-> plan, risk |-> score,
       health |-> HealthScore(weights, score), alerts |-> BuildAlerts(regime, weights, plan),
       drawdown |-> MaxDrawdown(values)]
=============================================================================
