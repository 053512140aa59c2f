------------------------------ MODULE Calendar ------------------------------
(***************************************************************************)
(* The Jalali calendar of market/option-board.ts: the day a contract        *)
(* expires is written in its title in that calendar, and the days it has    *)
(* left decide whether it is shown, suggested or bought at all.             *)
(*                                                                          *)
(* A date is a record [y, m, d].  div of the code rounds towards zero and   *)
(* mod takes the sign of its first argument: TLA+'s \div and % round down,  *)
(* so the two are written out.                                              *)
(***************************************************************************)
EXTENDS Integers, Sequences

Trunc(a, b) == IF a >= 0 THEN a \div b ELSE -((-a) \div b)
Rem(a, b) == a - Trunc(a, b) * b

\* The years in which the 33-year rule of leap years starts afresh.
Breaks == << -61, 9, 38, 199, 426, 686, 756, 818, 1111, 1181, 1210, 1635, 2060,
             2097, 2192, 2262, 2324, 2394, 2456, 3178 >>

\* The period of jy: the last break not after it (the loop of the code leaves
\* the last period when no later one starts).
PeriodOf(jy) == CHOOSE i \in 1..(Len(Breaks) - 1) : Breaks[i] <= jy /\ jy < Breaks[i + 1]

\* Leap days of the whole periods before the i-th.
LeapsBefore[i \in 1..Len(Breaks)] ==
  IF i = 1 THEN -14
  ELSE LET jump == Breaks[i] - Breaks[i - 1]
       IN  LeapsBefore[i - 1] + (jump \div 33) * 8 + (jump % 33) \div 4

\* Mutant: a leap day every fourth year of the cycle, without the three years' start.
LeapsInPlain(n, jump) == (n \div 33) * 8 + (n % 33) \div 4

\* Leap days up to the n-th year of a period of jump years.
LeapsIn(n, jump) ==
  (n \div 33) * 8 + ((n % 33) + 3) \div 4 + (IF jump % 33 = 4 /\ jump - n = 4 THEN 1 ELSE 0)

\* The leap days of the Gregorian years up to gy, less those of the centuries.
GregorianLeaps(gy) == Trunc(gy, 4) - Trunc((Trunc(gy, 100) + 1) * 3, 4) - 150

\* jalCal: the Gregorian year and the day of March on which jy begins, and how
\* many years ago the last leap year was (0 for a leap year itself).
JalCal(jy) ==
  LET i == PeriodOf(jy)
      jump == Breaks[i + 1] - Breaks[i]
      n == jy - Breaks[i]
      m == IF jump - n < 6 THEN n - jump + ((jump + 4) \div 33) * 33 ELSE n
      leap == Rem(Rem(m + 1, 33) - 1, 4)
  IN  [gy |-> jy + 621,
       march |-> 20 + LeapsBefore[i] + LeapsIn(n, jump) - GregorianLeaps(jy + 621),
       leap |-> IF leap = -1 THEN 4 ELSE leap]

GregorianToJulianDay(g) ==
  LET y == g.y + Trunc(g.m - 8, 6) + 100100
  IN  Trunc(y * 1461, 4) + Trunc(153 * Rem(g.m + 9, 12) + 2, 5) + g.d - 34840408
      - Trunc(Trunc(y, 100) * 3, 4) + 752

\* A date of the first half of the year lies in months of 31 days, one of the
\* second half in months of 30; a date before the new year belongs to the year
\* before, whose second half is a day longer after a leap year.
GregorianToJalali(g) ==
  LET r == JalCal(g.y - 621)
      k == GregorianToJulianDay(g) - GregorianToJulianDay([y |-> g.y, m |-> 3, d |-> r.march])
      late(y, day) == [y |-> y, m |-> 7 + day \div 30, d |-> (day % 30) + 1]
  IN  IF k < 0 THEN late(g.y - 622, k + 179 + (IF r.leap = 1 THEN 1 ELSE 0))
      ELSE IF k <= 185 THEN [y |-> g.y - 621, m |-> 1 + k \div 31, d |-> (k % 31) + 1]
      ELSE late(g.y - 621, k - 186)

JalaliToJulianDay(j) ==
  LET r == JalCal(j.y)
  IN  GregorianToJulianDay([y |-> r.gy, m |-> 3, d |-> r.march])
      + (j.m - 1) * 31 - (j.m \div 7) * (j.m - 7) + j.d - 1

\* daysLeftFromLabels: from today, a Gregorian date of Tehran, to the date in a title.
DaysLeft(title, today) == JalaliToJulianDay(title) - JalaliToJulianDay(GregorianToJalali(today))

-----------------------------------------------------------------------------
(* What a calendar is, written without the arithmetic above. *)

GregorianLeap(y) == y % 4 = 0 /\ (y % 100 # 0 \/ y % 400 = 0)
GregorianLength(y, m) ==
  CASE m = 2 -> IF GregorianLeap(y) THEN 29 ELSE 28
    [] m \in {4, 6, 9, 11} -> 30
    [] OTHER -> 31
\* The leap years of the years the program meets, one in four or, when the
\* cycle ends, five years after the one before.
JalaliLeaps == {1391, 1395, 1399, 1403, 1408, 1412}
JalaliLength(y, m) == IF m <= 6 THEN 31 ELSE IF m <= 11 \/ y \in JalaliLeaps THEN 30 ELSE 29

Following(day, Length(_, _)) ==
  IF day.d < Length(day.y, day.m) THEN [y |-> day.y, m |-> day.m, d |-> day.d + 1]
  ELSE IF day.m < 12 THEN [y |-> day.y, m |-> day.m + 1, d |-> 1]
  ELSE [y |-> day.y + 1, m |-> 1, d |-> 1]
NextGregorian(g) == Following(g, GregorianLength)
NextJalali(j) == Following(j, JalaliLength)

\* The dates of those years.
GregorianDays == { g \in [y : 2013..2033, m : 1..12, d : 1..31] : g.d <= GregorianLength(g.y, g.m) }
Years == 1391..1412
JalaliDays == { j \in [y : Years, m : 1..12, d : 1..31] : j.d <= JalaliLength(j.y, j.m) }

\* What a question about one day returns: its Jalali date and the days left from
\* it to the dates of titles.
Dated(today, titles) ==
  [jalali |-> GregorianToJalali(today), left |-> [t \in titles |-> DaysLeft(t, today)]]
=============================================================================
