--------------------------- MODULE ContentProofs ----------------------------
(***************************************************************************)
(* Proofs about what is brought into the database: about Content for any   *)
(* jobs, days, sources and failures, and about Market, whose names are     *)
(* its own, for any calendar, schedule, sources and failures.              *)
(***************************************************************************)
EXTENDS Content, Market, FiniteSetTheorems, SequenceTheorems, WellFoundedInduction, TLAPS

----------------------------------------------------------------------------
(* The steps of a job, and how they follow each other.                      *)

StepNames ==
    {"checkWorld", "claimWorld", "pages", "replace", "upsertSpot", "macroPrev", "macroUsd",
     "readRates", "readBars", "writeRows", "pruneRows", "countNews", "askWorld",
     "storeWorldNews", "readTitles", "addLessons", "claimYahoo", "yahoo", "writeDiffs",
     "checkSpot", "claimSpot", "fetchSpot", "enter", "macroBase", "macroPut", "history",
     "live", "claimNews", "seeBatch", "createBatch", "askNews", "findBatch", "deleteItems",
     "updateBatch", "createItems", "insertBatch", "write", "askPdf", "findLesson",
     "deleteLesson", "findFund", "analyze", "createReport", "reportLessons",
     "deleteHoldings", "createHoldings", "readReports", "compare", "findReport",
     "deleteReport", "switchFund", "claimForex", "quotes", "capture", "readOld", "deleteOld"}

(* The next step of the same block.                                         *)
Way(k, s, t) ==
    \/ k \in {"world", "catchUp"} /\ <<s, t>> \in {<<"claimWorld", "pages">>, <<"pages", "replace">>}
    \/ k = "catchUp" /\ <<s, t>> = <<"checkWorld", "claimWorld">>
    \/ k = "world" /\ <<s, t>> \in {<<"countNews", "askWorld">>, <<"askWorld", "storeWorldNews">>,
                                    <<"storeWorldNews", "readTitles">>}
    \/ k = "backfill" /\ <<s, t>> \in {<<"claimYahoo", "yahoo">>, <<"yahoo", "writeDiffs">>}
    \/ k = "spot" /\ <<s, t>> \in {<<"checkSpot", "claimSpot">>, <<"claimSpot", "fetchSpot">>, <<"fetchSpot", "upsertSpot">>}
    \/ k \in {"manual", "macro"} /\ <<s, t>> = <<"enter", "upsertSpot">>
    \/ k \in {"world", "catchUp", "spot", "manual", "macro"} /\
          <<s, t>> \in {<<"upsertSpot", "macroPrev">>, <<"macroPrev", "macroUsd">>}
    \/ k \in {"world", "catchUp"} /\ <<s, t>> = <<"macroUsd", "readRates">>
    \/ k = "index" /\ <<s, t>> = <<"live", "readRates">>
    \/ k \in {"world", "catchUp", "spot", "manual", "macro", "index"} /\
          <<s, t>> \in {<<"readRates", "readBars">>, <<"readBars", "writeRows">>, <<"writeRows", "pruneRows">>}
    \/ k = "macro" /\ <<s, t>> = <<"macroBase", "macroPut">>
    \/ k \in {"world", "lesson", "pdf"} /\ <<s, t>> = <<"readTitles", "addLessons">>
    \/ k = "newsTick" /\ <<s, t>> \in {<<"claimNews", "seeBatch">>, <<"seeBatch", "createBatch">>, <<"createBatch", "askNews">>}
    \/ k \in {"newsTick", "newsForce"} /\
          <<s, t>> \in {<<"askNews", "findBatch">>, <<"findBatch", "deleteItems">>, <<"deleteItems", "updateBatch">>,
                      <<"updateBatch", "createItems">>, <<"insertBatch", "createItems">>}
    \/ k = "lesson" /\ <<s, t>> = <<"write", "readTitles">>
    \/ k = "pdf" /\ <<s, t>> = <<"askPdf", "readTitles">>
    \/ k = "unlesson" /\ <<s, t>> = <<"findLesson", "deleteLesson">>
    \/ k = "upload" /\ <<s, t>> \in {<<"findFund", "analyze">>, <<"analyze", "createReport">>, <<"createReport", "reportLessons">>,
                                     <<"reportLessons", "deleteHoldings">>, <<"deleteHoldings", "createHoldings">>}
    \/ k = "unreport" /\ <<s, t>> = <<"findReport", "deleteReport">>
    \/ k \in {"upload", "unreport"} /\ <<s, t>> = <<"readReports", "compare">>
    \/ k = "forex" /\ <<s, t>> \in {<<"claimForex", "quotes">>, <<"quotes", "capture">>, <<"capture", "readOld">>, <<"readOld", "deleteOld">>}

(* The steps a later block may begin with, and the first one of all.        *)
Door(k, s) ==
    \/ k \in {"world", "catchUp"} /\ s = "upsertSpot"
    \/ k = "world" /\ s = "countNews"
    \/ k \in {"spot", "manual", "macro", "index"} /\ s = "readRates"
    \/ k = "macro" /\ s = "macroBase"
    \/ k = "index" /\ s = "live"
    \/ k \in {"newsTick", "newsForce"} /\ s = "insertBatch"
    \/ k \in {"upload", "unreport"} /\ s = "readReports"
FirstStep(k, s) ==
    \/ k = "world" /\ s = "claimWorld"
    \/ k = "catchUp" /\ s = "checkWorld"
    \/ k = "backfill" /\ s = "claimYahoo"
    \/ k = "spot" /\ s = "checkSpot"
    \/ k \in {"manual", "macro"} /\ s = "enter"
    \/ k = "index" /\ s = "history"
    \/ k = "newsTick" /\ s = "claimNews"
    \/ k = "newsForce" /\ s = "askNews"
    \/ k = "lesson" /\ s = "write"
    \/ k = "pdf" /\ s = "askPdf"
    \/ k = "unlesson" /\ s = "findLesson"
    \/ k = "upload" /\ s = "findFund"
    \/ k = "unreport" /\ s = "findReport"
    \/ k = "define" /\ s = "switchFund"
    \/ k = "forex" /\ s = "claimForex"

Midst ==
    {"checkWorld", "checkSpot", "claimWorld", "claimYahoo", "claimSpot", "claimNews", "claimForex", "pages", "upsertSpot"}
Block(k, b) ==
    /\ b \in Seq(StepNames) /\ b # << >> /\ b[Len(b)] \notin Midst
    /\ \A i \in 1 .. Len(b) - 1 : Way(k, b[i], b[i + 1])
Path(k, todo) ==
    /\ todo \in Seq(Seq(StepNames)) /\ todo # << >>
    /\ \A i \in 1 .. Len(todo) : Block(k, todo[i])
    /\ \A i \in 2 .. Len(todo) : Door(k, Head(todo[i]))

LEMMA BlockOf1 ==
    ASSUME NEW k, NEW a \in StepNames,
           a \notin Midst
    PROVE  Block(k, <<a>>) /\ Head(<<a>>) = a
<1> DEFINE b1 == <<a>>
<1>1. b1 \in Seq(StepNames) /\ b1 # << >> /\ Len(b1) = 1 /\ Head(b1) = a
  OBVIOUS
<1>2. b1[1] = a
  OBVIOUS
<1> HIDE DEF b1
<1>3. \A i \in 1 .. Len(b1) - 1 : Way(k, b1[i], b1[i + 1])
  BY <1>1
<1>4. Block(k, b1) /\ Head(b1) = a
  BY <1>1, <1>2, <1>3 DEF Block
<1> QED
  BY <1>4 DEF b1

LEMMA BlockOf2 ==
    ASSUME NEW k, NEW a \in StepNames, NEW b \in StepNames,
           Way(k, a, b), b \notin Midst
    PROVE  Block(k, <<a, b>>) /\ Head(<<a, b>>) = a
<1> DEFINE b1 == <<a, b>>
<1>1. b1 \in Seq(StepNames) /\ b1 # << >> /\ Len(b1) = 2 /\ Head(b1) = a
  OBVIOUS
<1>2. b1[1] = a /\ b1[2] = b
  OBVIOUS
<1> HIDE DEF b1
<1>3. \A i \in 1 .. Len(b1) - 1 : Way(k, b1[i], b1[i + 1])
  <2> SUFFICES ASSUME NEW i \in 1 .. Len(b1) - 1 PROVE Way(k, b1[i], b1[i + 1])
    OBVIOUS
  <2>1. CASE i = 1
    BY <1>2, <2>1
  <2> QED
    BY <1>1, <2>1
<1>4. Block(k, b1) /\ Head(b1) = a
  BY <1>1, <1>2, <1>3 DEF Block
<1> QED
  BY <1>4 DEF b1

LEMMA BlockOf3 ==
    ASSUME NEW k, NEW a \in StepNames, NEW b \in StepNames, NEW c \in StepNames,
           Way(k, a, b), Way(k, b, c), c \notin Midst
    PROVE  Block(k, <<a, b, c>>) /\ Head(<<a, b, c>>) = a
<1> DEFINE b1 == <<a, b, c>>
<1>1. b1 \in Seq(StepNames) /\ b1 # << >> /\ Len(b1) = 3 /\ Head(b1) = a
  OBVIOUS
<1>2. b1[1] = a /\ b1[2] = b /\ b1[3] = c
  OBVIOUS
<1> HIDE DEF b1
<1>3. \A i \in 1 .. Len(b1) - 1 : Way(k, b1[i], b1[i + 1])
  <2> SUFFICES ASSUME NEW i \in 1 .. Len(b1) - 1 PROVE Way(k, b1[i], b1[i + 1])
    OBVIOUS
  <2>1. CASE i = 1
    BY <1>2, <2>1
  <2>2. CASE i = 2
    BY <1>2, <2>2
  <2> QED
    BY <1>1, <2>1, <2>2
<1>4. Block(k, b1) /\ Head(b1) = a
  BY <1>1, <1>2, <1>3 DEF Block
<1> QED
  BY <1>4 DEF b1

LEMMA BlockOf4 ==
    ASSUME NEW k, NEW a \in StepNames, NEW b \in StepNames, NEW c \in StepNames, NEW d \in StepNames,
           Way(k, a, b), Way(k, b, c), Way(k, c, d), d \notin Midst
    PROVE  Block(k, <<a, b, c, d>>) /\ Head(<<a, b, c, d>>) = a
<1> DEFINE b1 == <<a, b, c, d>>
<1>1. b1 \in Seq(StepNames) /\ b1 # << >> /\ Len(b1) = 4 /\ Head(b1) = a
  OBVIOUS
<1>2. b1[1] = a /\ b1[2] = b /\ b1[3] = c /\ b1[4] = d
  OBVIOUS
<1> HIDE DEF b1
<1>3. \A i \in 1 .. Len(b1) - 1 : Way(k, b1[i], b1[i + 1])
  <2> SUFFICES ASSUME NEW i \in 1 .. Len(b1) - 1 PROVE Way(k, b1[i], b1[i + 1])
    OBVIOUS
  <2>1. CASE i = 1
    BY <1>2, <2>1
  <2>2. CASE i = 2
    BY <1>2, <2>2
  <2>3. CASE i = 3
    BY <1>2, <2>3
  <2> QED
    BY <1>1, <2>1, <2>2, <2>3
<1>4. Block(k, b1) /\ Head(b1) = a
  BY <1>1, <1>2, <1>3 DEF Block
<1> QED
  BY <1>4 DEF b1

LEMMA BlockOf5 ==
    ASSUME NEW k, NEW a \in StepNames, NEW b \in StepNames, NEW c \in StepNames, NEW d \in StepNames, NEW e \in StepNames,
           Way(k, a, b), Way(k, b, c), Way(k, c, d), Way(k, d, e), e \notin Midst
    PROVE  Block(k, <<a, b, c, d, e>>) /\ Head(<<a, b, c, d, e>>) = a
<1> DEFINE b1 == <<a, b, c, d, e>>
<1>1. b1 \in Seq(StepNames) /\ b1 # << >> /\ Len(b1) = 5 /\ Head(b1) = a
  OBVIOUS
<1>2. b1[1] = a /\ b1[2] = b /\ b1[3] = c /\ b1[4] = d /\ b1[5] = e
  OBVIOUS
<1> HIDE DEF b1
<1>3. \A i \in 1 .. Len(b1) - 1 : Way(k, b1[i], b1[i + 1])
  <2> SUFFICES ASSUME NEW i \in 1 .. Len(b1) - 1 PROVE Way(k, b1[i], b1[i + 1])
    OBVIOUS
  <2>1. CASE i = 1
    BY <1>2, <2>1
  <2>2. CASE i = 2
    BY <1>2, <2>2
  <2>3. CASE i = 3
    BY <1>2, <2>3
  <2>4. CASE i = 4
    BY <1>2, <2>4
  <2> QED
    BY <1>1, <2>1, <2>2, <2>3, <2>4
<1>4. Block(k, b1) /\ Head(b1) = a
  BY <1>1, <1>2, <1>3 DEF Block
<1> QED
  BY <1>4 DEF b1

LEMMA BlockOf6 ==
    ASSUME NEW k, NEW a \in StepNames, NEW b \in StepNames, NEW c \in StepNames, NEW d \in StepNames, NEW e \in StepNames, NEW f \in StepNames,
           Way(k, a, b), Way(k, b, c), Way(k, c, d), Way(k, d, e), Way(k, e, f), f \notin Midst
    PROVE  Block(k, <<a, b, c, d, e, f>>) /\ Head(<<a, b, c, d, e, f>>) = a
<1> DEFINE b1 == <<a, b, c, d, e, f>>
<1>1. b1 \in Seq(StepNames) /\ b1 # << >> /\ Len(b1) = 6 /\ Head(b1) = a
  OBVIOUS
<1>2. b1[1] = a /\ b1[2] = b /\ b1[3] = c /\ b1[4] = d /\ b1[5] = e /\ b1[6] = f
  OBVIOUS
<1> HIDE DEF b1
<1>3. \A i \in 1 .. Len(b1) - 1 : Way(k, b1[i], b1[i + 1])
  <2> SUFFICES ASSUME NEW i \in 1 .. Len(b1) - 1 PROVE Way(k, b1[i], b1[i + 1])
    OBVIOUS
  <2>1. CASE i = 1
    BY <1>2, <2>1
  <2>2. CASE i = 2
    BY <1>2, <2>2
  <2>3. CASE i = 3
    BY <1>2, <2>3
  <2>4. CASE i = 4
    BY <1>2, <2>4
  <2>5. CASE i = 5
    BY <1>2, <2>5
  <2> QED
    BY <1>1, <2>1, <2>2, <2>3, <2>4, <2>5
<1>4. Block(k, b1) /\ Head(b1) = a
  BY <1>1, <1>2, <1>3 DEF Block
<1> QED
  BY <1>4 DEF b1

LEMMA BlockOf7 ==
    ASSUME NEW k, NEW a \in StepNames, NEW b \in StepNames, NEW c \in StepNames, NEW d \in StepNames, NEW e \in StepNames, NEW f \in StepNames, NEW g \in StepNames,
           Way(k, a, b), Way(k, b, c), Way(k, c, d), Way(k, d, e), Way(k, e, f), Way(k, f, g), g \notin Midst
    PROVE  Block(k, <<a, b, c, d, e, f, g>>) /\ Head(<<a, b, c, d, e, f, g>>) = a
<1> DEFINE b1 == <<a, b, c, d, e, f, g>>
<1>1. b1 \in Seq(StepNames) /\ b1 # << >> /\ Len(b1) = 7 /\ Head(b1) = a
  OBVIOUS
<1>2. b1[1] = a /\ b1[2] = b /\ b1[3] = c /\ b1[4] = d /\ b1[5] = e /\ b1[6] = f /\ b1[7] = g
  OBVIOUS
<1> HIDE DEF b1
<1>3. \A i \in 1 .. Len(b1) - 1 : Way(k, b1[i], b1[i + 1])
  <2> SUFFICES ASSUME NEW i \in 1 .. Len(b1) - 1 PROVE Way(k, b1[i], b1[i + 1])
    OBVIOUS
  <2>1. CASE i = 1
    BY <1>2, <2>1
  <2>2. CASE i = 2
    BY <1>2, <2>2
  <2>3. CASE i = 3
    BY <1>2, <2>3
  <2>4. CASE i = 4
    BY <1>2, <2>4
  <2>5. CASE i = 5
    BY <1>2, <2>5
  <2>6. CASE i = 6
    BY <1>2, <2>6
  <2> QED
    BY <1>1, <2>1, <2>2, <2>3, <2>4, <2>5, <2>6
<1>4. Block(k, b1) /\ Head(b1) = a
  BY <1>1, <1>2, <1>3 DEF Block
<1> QED
  BY <1>4 DEF b1

LEMMA BlockOf8 ==
    ASSUME NEW k, NEW a \in StepNames, NEW b \in StepNames, NEW c \in StepNames, NEW d \in StepNames, NEW e \in StepNames, NEW f \in StepNames, NEW g \in StepNames, NEW h \in StepNames,
           Way(k, a, b), Way(k, b, c), Way(k, c, d), Way(k, d, e), Way(k, e, f), Way(k, f, g), Way(k, g, h), h \notin Midst
    PROVE  Block(k, <<a, b, c, d, e, f, g, h>>) /\ Head(<<a, b, c, d, e, f, g, h>>) = a
<1> DEFINE b1 == <<a, b, c, d, e, f, g, h>>
<1>1. b1 \in Seq(StepNames) /\ b1 # << >> /\ Len(b1) = 8 /\ Head(b1) = a
  OBVIOUS
<1>2. b1[1] = a /\ b1[2] = b /\ b1[3] = c /\ b1[4] = d /\ b1[5] = e /\ b1[6] = f /\ b1[7] = g /\ b1[8] = h
  OBVIOUS
<1> HIDE DEF b1
<1>3. \A i \in 1 .. Len(b1) - 1 : Way(k, b1[i], b1[i + 1])
  <2> SUFFICES ASSUME NEW i \in 1 .. Len(b1) - 1 PROVE Way(k, b1[i], b1[i + 1])
    OBVIOUS
  <2>1. CASE i = 1
    BY <1>2, <2>1
  <2>2. CASE i = 2
    BY <1>2, <2>2
  <2>3. CASE i = 3
    BY <1>2, <2>3
  <2>4. CASE i = 4
    BY <1>2, <2>4
  <2>5. CASE i = 5
    BY <1>2, <2>5
  <2>6. CASE i = 6
    BY <1>2, <2>6
  <2>7. CASE i = 7
    BY <1>2, <2>7
  <2> QED
    BY <1>1, <2>1, <2>2, <2>3, <2>4, <2>5, <2>6, <2>7
<1>4. Block(k, b1) /\ Head(b1) = a
  BY <1>1, <1>2, <1>3 DEF Block
<1> QED
  BY <1>4 DEF b1

LEMMA PathOf1 ==
    ASSUME NEW k, NEW x, Block(k, x)
    PROVE  Path(k, <<x>>) /\ Head(<<x>>) = x /\ Len(<<x>>) = 1
<1> DEFINE todo == <<x>>
<1>0. x \in Seq(StepNames)
  BY DEF Block
<1>1. todo \in Seq(Seq(StepNames)) /\ todo # << >> /\ Len(todo) = 1 /\ todo[1] = x /\ Head(todo) = x
  BY <1>0
<1> HIDE DEF todo
<1>2. (\A i \in 1 .. Len(todo) : Block(k, todo[i])) /\ \A i \in 2 .. Len(todo) : Door(k, Head(todo[i]))
  BY <1>1
<1>3. Path(k, todo) /\ Head(todo) = x /\ Len(todo) = 1
  BY <1>1, <1>2 DEF Path
<1> QED
  BY <1>3 DEF todo

LEMMA PathOf2 ==
    ASSUME NEW k, NEW x, NEW y, Block(k, x), Block(k, y), Door(k, Head(y))
    PROVE  Path(k, <<x, y>>) /\ Head(<<x, y>>) = x /\ Len(<<x, y>>) = 2
<1> DEFINE todo == <<x, y>>
<1>0. x \in Seq(StepNames) /\ y \in Seq(StepNames)
  BY DEF Block
<1>1. todo \in Seq(Seq(StepNames)) /\ todo # << >> /\ Len(todo) = 2 /\ todo[1] = x /\ todo[2] = y /\ Head(todo) = x
  BY <1>0
<1> HIDE DEF todo
<1>2. (\A i \in 1 .. Len(todo) : Block(k, todo[i])) /\ \A i \in 2 .. Len(todo) : Door(k, Head(todo[i]))
  BY <1>1
<1>3. Path(k, todo) /\ Head(todo) = x /\ Len(todo) = 2
  BY <1>1, <1>2 DEF Path
<1> QED
  BY <1>3 DEF todo

LEMMA PathOf3 ==
    ASSUME NEW k, NEW x, NEW y, NEW z, Block(k, x), Block(k, y), Block(k, z), Door(k, Head(y)), Door(k, Head(z))
    PROVE  Path(k, <<x, y, z>>) /\ Head(<<x, y, z>>) = x /\ Len(<<x, y, z>>) = 3
<1> DEFINE todo == <<x, y, z>>
<1>0. x \in Seq(StepNames) /\ y \in Seq(StepNames) /\ z \in Seq(StepNames)
  BY DEF Block
<1>1. /\ todo \in Seq(Seq(StepNames)) /\ todo # << >> /\ Len(todo) = 3
      /\ todo[1] = x /\ todo[2] = y /\ todo[3] = z /\ Head(todo) = x
  BY <1>0
<1> HIDE DEF todo
<1>2. (\A i \in 1 .. Len(todo) : Block(k, todo[i])) /\ \A i \in 2 .. Len(todo) : Door(k, Head(todo[i]))
  BY <1>1
<1>3. Path(k, todo) /\ Head(todo) = x /\ Len(todo) = 3
  BY <1>1, <1>2 DEF Path
<1> QED
  BY <1>3 DEF todo

(* What is left when a step is done, and when a block is left.              *)
After(todo) == IF Len(Head(todo)) = 1 THEN Tail(todo) ELSE <<Tail(Head(todo))>> \o Tail(todo)

LEMMA PathHead ==
    ASSUME NEW k, NEW todo, Path(k, todo)
    PROVE  /\ Head(todo) \in Seq(StepNames) /\ Block(k, Head(todo)) /\ Len(Head(todo)) \in Nat \ {0}
           /\ Head(Head(todo)) \in StepNames /\ Len(todo) \in Nat \ {0}
<1>1. todo \in Seq(Seq(StepNames)) /\ todo # << >> /\ Len(todo) \in Nat \ {0} /\ Head(todo) = todo[1] /\ 1 \in 1 .. Len(todo)
  BY DEF Path
<1>2. Block(k, Head(todo))
  BY <1>1 DEF Path
<1>3. Head(todo) \in Seq(StepNames) /\ Head(todo) # << >>
  BY <1>2 DEF Block
<1> QED
  BY <1>1, <1>2, <1>3

LEMMA PathTail ==
    ASSUME NEW k, NEW todo, Path(k, todo), Tail(todo) # << >>
    PROVE  Path(k, Tail(todo)) /\ Door(k, Head(Head(Tail(todo))))
<1> DEFINE rest == Tail(todo)
<1>1. todo \in Seq(Seq(StepNames)) /\ todo # << >> /\ Len(todo) \in Nat \ {0}
  BY DEF Path
<1>2. /\ rest \in Seq(Seq(StepNames)) /\ Len(rest) = Len(todo) - 1 /\ rest # << >>
      /\ \A i \in 1 .. Len(rest) : rest[i] = todo[i + 1]
  BY <1>1
<1>3. Len(rest) \in Nat \ {0}
  BY <1>2, EmptySeq
<1> HIDE DEF rest
<1>4. ASSUME NEW i \in 1 .. Len(rest) PROVE Block(k, rest[i]) /\ Door(k, Head(rest[i]))
  <2>0. i \in Nat /\ Len(todo) \in Nat /\ Len(rest) = Len(todo) - 1 /\ 1 <= i /\ i <= Len(rest)
    BY <1>1, <1>2, <1>3
  <2>1. i + 1 \in 2 .. Len(todo) /\ i + 1 \in 1 .. Len(todo) /\ rest[i] = todo[i + 1]
    BY <2>0, <1>2
  <2> QED
    BY <2>1 DEF Path
<1>5. Head(rest) = rest[1] /\ 1 \in 1 .. Len(rest) /\ 2 .. Len(rest) \subseteq 1 .. Len(rest)
  BY <1>2, <1>3
<1>6. Path(k, rest) /\ Door(k, Head(Head(rest)))
  BY <1>2, <1>4, <1>5 DEF Path
<1> QED
  BY <1>6 DEF rest

LEMMA PathAfter ==
    ASSUME NEW k, NEW todo, Path(k, todo), After(todo) # << >>
    PROVE  /\ Path(k, After(todo))
           /\ \/ Door(k, Head(Head(After(todo)))) /\ After(todo) = Tail(todo)
              \/ Way(k, Head(Head(todo)), Head(Head(After(todo)))) /\ Len(After(todo)) = Len(todo)
<1>1. CASE Len(Head(todo)) = 1
  <2>1. After(todo) = Tail(todo)
    BY <1>1 DEF After
  <2> QED
    BY <2>1, PathTail
<1>2. CASE Len(Head(todo)) # 1
  <2> DEFINE first == Head(todo)
             short == Tail(first)
             rest == <<short>> \o Tail(todo)
  <2>1. todo \in Seq(Seq(StepNames)) /\ todo # << >> /\ Len(todo) \in Nat \ {0} /\ first = todo[1]
    BY DEF Path
  <2>2. first \in Seq(StepNames) /\ Block(k, first) /\ Len(first) \in Nat \ {0}
    BY PathHead
  <2> HIDE DEF first
  <2>3. /\ short \in Seq(StepNames) /\ Len(short) = Len(first) - 1
        /\ \A i \in 1 .. Len(short) : short[i] = first[i + 1]
    BY <2>2
  <2>4. Len(short) \in Nat \ {0} /\ first \in Seq(StepNames)
    BY <1>2, <2>2, <2>3 DEF first
  <2> HIDE DEF short
  <2>5. /\ Head(short) = first[2] /\ Head(first) = first[1] /\ short # << >> /\ 1 \in 1 .. Len(first) - 1
        /\ 1 \in 1 .. Len(short)
    BY <2>2, <2>3, <2>4
  <2>6. Block(k, short)
    <3>0. short[Len(short)] = first[Len(first)] /\ first[Len(first)] \notin Midst
      BY <2>2, <2>3, <2>4 DEF Block
    <3> SUFFICES ASSUME NEW i \in 1 .. Len(short) - 1 PROVE Way(k, short[i], short[i + 1])
      BY <2>3, <2>5, <3>0 DEF Block
    <3>1. i + 1 \in 1 .. Len(first) - 1 /\ short[i] = first[i + 1] /\ short[i + 1] = first[(i + 1) + 1]
      BY <2>2, <2>3, <2>4
    <3> QED
      BY <2>2, <3>1 DEF Block
  <2>7. Way(k, Head(first), Head(short))
    BY <2>2, <2>5 DEF Block
  <2>8. /\ Tail(todo) \in Seq(Seq(StepNames)) /\ Len(Tail(todo)) = Len(todo) - 1
        /\ \A i \in 1 .. Len(Tail(todo)) : Tail(todo)[i] = todo[i + 1]
    BY <2>1
  <2>9. /\ rest \in Seq(Seq(StepNames)) /\ Len(rest) = Len(todo) /\ rest[1] = short
        /\ \A i \in 2 .. Len(rest) : rest[i] = todo[i]
    BY <2>1, <2>3, <2>8
  <2> HIDE DEF rest
  <2>10. Head(rest) = short /\ rest # << >>
    BY <2>1, <2>9
  <2>11. Path(k, rest)
    <3>1. ASSUME NEW i \in 1 .. Len(rest) PROVE Block(k, rest[i])
      <4>1. CASE i = 1
        BY <2>6, <2>9, <4>1
      <4>2. CASE i # 1
        <5>1. i \in 2 .. Len(rest) /\ i \in 1 .. Len(todo)
          BY <2>1, <2>9, <4>2
        <5> QED
          BY <2>9, <5>1 DEF Path
      <4> QED
        BY <4>1, <4>2
    <3>2. ASSUME NEW i \in 2 .. Len(rest) PROVE Door(k, Head(rest[i]))
      BY <2>9, <3>2 DEF Path
    <3> QED
      BY <2>9, <2>10, <3>1, <3>2 DEF Path
  <2>12. After(todo) = rest
    BY <1>2 DEF After, rest, short, first
  <2> QED
    BY <2>7, <2>9, <2>10, <2>11, <2>12 DEF first
<1> QED
  BY <1>1, <1>2
Kinds == QuoteKinds \cup ReadingKinds

(* The scripts keep to these ways.                                          *)
LEMMA Joined ==
    ASSUME NEW S, NEW s \in Seq(S), NEW t \in Seq(S), NEW u \in Seq(S), Len(u) = Len(s) + Len(t),
           \A i \in 1 .. Len(s) : u[i] = s[i], \A i \in 1 .. Len(t) : u[Len(s) + i] = t[i]
    PROVE  s \o t = u
<1>1. s \o t \in Seq(S) /\ Len(s \o t) = Len(u)
  OBVIOUS
<1>2. ASSUME NEW i \in 1 .. Len(u) PROVE (s \o t)[i] = u[i]
  <2>1. CASE i <= Len(s)
    BY <2>1
  <2>2. CASE i > Len(s)
    <3>1. i - Len(s) \in 1 .. Len(t) /\ Len(s) + (i - Len(s)) = i
      BY <2>2
    <3>2. (s \o t)[i] = t[i - Len(s)]
      BY <2>2
    <3> QED
      BY <3>1, <3>2
  <2> QED
    BY <2>1, <2>2
<1> QED
  BY <1>1, <1>2, SeqEqual

LEMMA Blocks ==
    /\ SpotSteps \o SyncSteps
         = <<"upsertSpot", "macroPrev", "macroUsd", "readRates", "readBars", "writeRows", "pruneRows">>
    /\ <<"checkWorld">> \o WorldSteps
         = <<"checkWorld", "claimWorld", "pages", "replace">>
    /\ <<"checkSpot", "claimSpot", "fetchSpot">> \o SpotSteps
         = <<"checkSpot", "claimSpot", "fetchSpot", "upsertSpot", "macroPrev", "macroUsd">>
    /\ <<"enter">> \o SpotSteps
         = <<"enter", "upsertSpot", "macroPrev", "macroUsd">>
    /\ <<"live">> \o SyncSteps
         = <<"live", "readRates", "readBars", "writeRows", "pruneRows">>
    /\ <<"claimNews", "seeBatch", "createBatch">> \o ReadModelSteps
         = <<"claimNews", "seeBatch", "createBatch", "askNews", "findBatch", "deleteItems", "updateBatch", "createItems">>
<1>1. SpotSteps \o SyncSteps
       = <<"upsertSpot", "macroPrev", "macroUsd", "readRates", "readBars", "writeRows", "pruneRows">>
  <2> DEFINE s == <<"upsertSpot", "macroPrev", "macroUsd">>
             t == <<"readRates", "readBars", "writeRows", "pruneRows">>
             u == <<"upsertSpot", "macroPrev", "macroUsd", "readRates", "readBars", "writeRows", "pruneRows">>
  <2>1. s \in Seq(StepNames) /\ t \in Seq(StepNames) /\ u \in Seq(StepNames)
    BY DEF StepNames
  <2>2. Len(s) = 3 /\ Len(t) = 4 /\ Len(u) = 7
    OBVIOUS
  <2>3. u[1] = s[1] /\ u[2] = s[2] /\ u[3] = s[3]
    OBVIOUS
  <2>4. u[4] = t[1] /\ u[5] = t[2] /\ u[6] = t[3] /\ u[7] = t[4]
    OBVIOUS
  <2> HIDE DEF s, t, u
  <2>5. /\ Len(u) = Len(s) + Len(t)
        /\ (\A i \in 1 .. Len(s) : u[i] = s[i]) /\ \A i \in 1 .. Len(t) : u[Len(s) + i] = t[i]
    BY <2>2, <2>3, <2>4
  <2>6. s \o t = u
    BY <2>1, <2>5, Joined
  <2> QED
    BY <2>6 DEF s, t, u, SpotSteps, SyncSteps
<1>2. <<"checkWorld">> \o WorldSteps
       = <<"checkWorld", "claimWorld", "pages", "replace">>
  <2> DEFINE s == <<"checkWorld">>
             t == <<"claimWorld", "pages", "replace">>
             u == <<"checkWorld", "claimWorld", "pages", "replace">>
  <2>1. s \in Seq(StepNames) /\ t \in Seq(StepNames) /\ u \in Seq(StepNames)
    BY DEF StepNames
  <2>2. Len(s) = 1 /\ Len(t) = 3 /\ Len(u) = 4
    OBVIOUS
  <2>3. u[1] = s[1]
    OBVIOUS
  <2>4. u[2] = t[1] /\ u[3] = t[2] /\ u[4] = t[3]
    OBVIOUS
  <2> HIDE DEF s, t, u
  <2>5. /\ Len(u) = Len(s) + Len(t)
        /\ (\A i \in 1 .. Len(s) : u[i] = s[i]) /\ \A i \in 1 .. Len(t) : u[Len(s) + i] = t[i]
    BY <2>2, <2>3, <2>4
  <2>6. s \o t = u
    BY <2>1, <2>5, Joined
  <2> QED
    BY <2>6 DEF s, t, u, WorldSteps
<1>3. <<"checkSpot", "claimSpot", "fetchSpot">> \o SpotSteps
       = <<"checkSpot", "claimSpot", "fetchSpot", "upsertSpot", "macroPrev", "macroUsd">>
  <2> DEFINE s == <<"checkSpot", "claimSpot", "fetchSpot">>
             t == <<"upsertSpot", "macroPrev", "macroUsd">>
             u == <<"checkSpot", "claimSpot", "fetchSpot", "upsertSpot", "macroPrev", "macroUsd">>
  <2>1. s \in Seq(StepNames) /\ t \in Seq(StepNames) /\ u \in Seq(StepNames)
    BY DEF StepNames
  <2>2. Len(s) = 3 /\ Len(t) = 3 /\ Len(u) = 6
    OBVIOUS
  <2>3. u[1] = s[1] /\ u[2] = s[2] /\ u[3] = s[3]
    OBVIOUS
  <2>4. u[4] = t[1] /\ u[5] = t[2] /\ u[6] = t[3]
    OBVIOUS
  <2> HIDE DEF s, t, u
  <2>5. /\ Len(u) = Len(s) + Len(t)
        /\ (\A i \in 1 .. Len(s) : u[i] = s[i]) /\ \A i \in 1 .. Len(t) : u[Len(s) + i] = t[i]
    BY <2>2, <2>3, <2>4
  <2>6. s \o t = u
    BY <2>1, <2>5, Joined
  <2> QED
    BY <2>6 DEF s, t, u, SpotSteps
<1>4. <<"enter">> \o SpotSteps
       = <<"enter", "upsertSpot", "macroPrev", "macroUsd">>
  <2> DEFINE s == <<"enter">>
             t == <<"upsertSpot", "macroPrev", "macroUsd">>
             u == <<"enter", "upsertSpot", "macroPrev", "macroUsd">>
  <2>1. s \in Seq(StepNames) /\ t \in Seq(StepNames) /\ u \in Seq(StepNames)
    BY DEF StepNames
  <2>2. Len(s) = 1 /\ Len(t) = 3 /\ Len(u) = 4
    OBVIOUS
  <2>3. u[1] = s[1]
    OBVIOUS
  <2>4. u[2] = t[1] /\ u[3] = t[2] /\ u[4] = t[3]
    OBVIOUS
  <2> HIDE DEF s, t, u
  <2>5. /\ Len(u) = Len(s) + Len(t)
        /\ (\A i \in 1 .. Len(s) : u[i] = s[i]) /\ \A i \in 1 .. Len(t) : u[Len(s) + i] = t[i]
    BY <2>2, <2>3, <2>4
  <2>6. s \o t = u
    BY <2>1, <2>5, Joined
  <2> QED
    BY <2>6 DEF s, t, u, SpotSteps
<1>5. <<"live">> \o SyncSteps
       = <<"live", "readRates", "readBars", "writeRows", "pruneRows">>
  <2> DEFINE s == <<"live">>
             t == <<"readRates", "readBars", "writeRows", "pruneRows">>
             u == <<"live", "readRates", "readBars", "writeRows", "pruneRows">>
  <2>1. s \in Seq(StepNames) /\ t \in Seq(StepNames) /\ u \in Seq(StepNames)
    BY DEF StepNames
  <2>2. Len(s) = 1 /\ Len(t) = 4 /\ Len(u) = 5
    OBVIOUS
  <2>3. u[1] = s[1]
    OBVIOUS
  <2>4. u[2] = t[1] /\ u[3] = t[2] /\ u[4] = t[3] /\ u[5] = t[4]
    OBVIOUS
  <2> HIDE DEF s, t, u
  <2>5. /\ Len(u) = Len(s) + Len(t)
        /\ (\A i \in 1 .. Len(s) : u[i] = s[i]) /\ \A i \in 1 .. Len(t) : u[Len(s) + i] = t[i]
    BY <2>2, <2>3, <2>4
  <2>6. s \o t = u
    BY <2>1, <2>5, Joined
  <2> QED
    BY <2>6 DEF s, t, u, SyncSteps
<1>6. <<"claimNews", "seeBatch", "createBatch">> \o ReadModelSteps
       = <<"claimNews", "seeBatch", "createBatch", "askNews", "findBatch", "deleteItems", "updateBatch", "createItems">>
  <2> DEFINE s == <<"claimNews", "seeBatch", "createBatch">>
             t == <<"askNews", "findBatch", "deleteItems", "updateBatch", "createItems">>
             u == <<"claimNews", "seeBatch", "createBatch", "askNews", "findBatch", "deleteItems", "updateBatch", "createItems">>
  <2>1. s \in Seq(StepNames) /\ t \in Seq(StepNames) /\ u \in Seq(StepNames)
    BY DEF StepNames
  <2>2. Len(s) = 3 /\ Len(t) = 5 /\ Len(u) = 8
    OBVIOUS
  <2>3. u[1] = s[1] /\ u[2] = s[2] /\ u[3] = s[3]
    OBVIOUS
  <2>4. u[4] = t[1] /\ u[5] = t[2] /\ u[6] = t[3] /\ u[7] = t[4] /\ u[8] = t[5]
    OBVIOUS
  <2> HIDE DEF s, t, u
  <2>5. /\ Len(u) = Len(s) + Len(t)
        /\ (\A i \in 1 .. Len(s) : u[i] = s[i]) /\ \A i \in 1 .. Len(t) : u[Len(s) + i] = t[i]
    BY <2>2, <2>3, <2>4
  <2>6. s \o t = u
    BY <2>1, <2>5, Joined
  <2> QED
    BY <2>6 DEF s, t, u, ReadModelSteps
<1> QED
  BY <1>1, <1>2, <1>3, <1>4, <1>5, <1>6

LEMMA ScriptWorld ==
    LET todo == Script("world") IN Path("world", todo) /\ FirstStep("world", Head(Head(todo))) /\ Len(todo) = 3
<1> DEFINE x == <<"claimWorld", "pages", "replace">>
           y == <<"upsertSpot", "macroPrev", "macroUsd", "readRates", "readBars", "writeRows", "pruneRows">>
           z == <<"countNews", "askWorld", "storeWorldNews", "readTitles", "addLessons">>
<1>1. Block("world", x) /\ Head(x) = "claimWorld"
  <2>1. /\ Way("world", "claimWorld", "pages")
        /\ Way("world", "pages", "replace")
    BY DEF Way
  <2>2. "claimWorld" \in StepNames /\ "pages" \in StepNames /\ "replace" \in StepNames /\ "replace" \notin Midst
    BY DEF StepNames, Midst
  <2> QED
    BY <2>1, <2>2, BlockOf3
<1>2. Block("world", y) /\ Head(y) = "upsertSpot"
  <2>1. /\ Way("world", "upsertSpot", "macroPrev")
        /\ Way("world", "macroPrev", "macroUsd")
        /\ Way("world", "macroUsd", "readRates")
        /\ Way("world", "readRates", "readBars")
        /\ Way("world", "readBars", "writeRows")
        /\ Way("world", "writeRows", "pruneRows")
    BY DEF Way
  <2>2. /\ "upsertSpot" \in StepNames /\ "macroPrev" \in StepNames /\ "macroUsd" \in StepNames
        /\ "readRates" \in StepNames /\ "readBars" \in StepNames /\ "writeRows" \in StepNames
        /\ "pruneRows" \in StepNames
        /\ "pruneRows" \notin Midst
    BY DEF StepNames, Midst
  <2> QED
    BY <2>1, <2>2, BlockOf7
<1>3. Block("world", z) /\ Head(z) = "countNews"
  <2>1. /\ Way("world", "countNews", "askWorld")
        /\ Way("world", "askWorld", "storeWorldNews")
        /\ Way("world", "storeWorldNews", "readTitles")
        /\ Way("world", "readTitles", "addLessons")
    BY DEF Way
  <2>2. /\ "countNews" \in StepNames /\ "askWorld" \in StepNames /\ "storeWorldNews" \in StepNames
        /\ "readTitles" \in StepNames /\ "addLessons" \in StepNames
        /\ "addLessons" \notin Midst
    BY DEF StepNames, Midst
  <2> QED
    BY <2>1, <2>2, BlockOf5
<1>4. Script("world") = <<x, y, z>>
  BY Blocks DEF Script, QuoteKinds, ScriptOfQuotes, WorldSteps, NewsSteps, SyncSteps, SpotSteps
<1> HIDE DEF x, y, z
<1>5. FirstStep("world", Head(x)) /\ Door("world", Head(y)) /\ Door("world", Head(z))
  BY <1>1, <1>2, <1>3 DEF FirstStep, Door
<1> QED
  BY <1>1, <1>2, <1>3, <1>4, <1>5, PathOf3

LEMMA ScriptCatchUp ==
    LET todo == Script("catchUp") IN Path("catchUp", todo) /\ FirstStep("catchUp", Head(Head(todo))) /\ Len(todo) = 2
<1> DEFINE x == <<"checkWorld", "claimWorld", "pages", "replace">>
           y == <<"upsertSpot", "macroPrev", "macroUsd", "readRates", "readBars", "writeRows", "pruneRows">>
<1>1. Block("catchUp", x) /\ Head(x) = "checkWorld"
  <2>1. /\ Way("catchUp", "checkWorld", "claimWorld")
        /\ Way("catchUp", "claimWorld", "pages")
        /\ Way("catchUp", "pages", "replace")
    BY DEF Way
  <2>2. /\ "checkWorld" \in StepNames /\ "claimWorld" \in StepNames /\ "pages" \in StepNames
        /\ "replace" \in StepNames
        /\ "replace" \notin Midst
    BY DEF StepNames, Midst
  <2> QED
    BY <2>1, <2>2, BlockOf4
<1>2. Block("catchUp", y) /\ Head(y) = "upsertSpot"
  <2>1. /\ Way("catchUp", "upsertSpot", "macroPrev")
        /\ Way("catchUp", "macroPrev", "macroUsd")
        /\ Way("catchUp", "macroUsd", "readRates")
        /\ Way("catchUp", "readRates", "readBars")
        /\ Way("catchUp", "readBars", "writeRows")
        /\ Way("catchUp", "writeRows", "pruneRows")
    BY DEF Way
  <2>2. /\ "upsertSpot" \in StepNames /\ "macroPrev" \in StepNames /\ "macroUsd" \in StepNames
        /\ "readRates" \in StepNames /\ "readBars" \in StepNames /\ "writeRows" \in StepNames
        /\ "pruneRows" \in StepNames
        /\ "pruneRows" \notin Midst
    BY DEF StepNames, Midst
  <2> QED
    BY <2>1, <2>2, BlockOf7
<1>4. Script("catchUp") = <<x, y>>
  BY Blocks DEF Script, QuoteKinds, ScriptOfQuotes, WorldSteps, NewsSteps, SyncSteps, SpotSteps
<1> HIDE DEF x, y
<1>5. FirstStep("catchUp", Head(x)) /\ Door("catchUp", Head(y))
  BY <1>1, <1>2 DEF FirstStep, Door
<1> QED
  BY <1>1, <1>2, <1>4, <1>5, PathOf2

LEMMA ScriptBackfill ==
    LET todo == Script("backfill") IN Path("backfill", todo) /\ FirstStep("backfill", Head(Head(todo))) /\ Len(todo) = 1
<1> DEFINE x == <<"claimYahoo", "yahoo", "writeDiffs">>
<1>1. Block("backfill", x) /\ Head(x) = "claimYahoo"
  <2>1. /\ Way("backfill", "claimYahoo", "yahoo")
        /\ Way("backfill", "yahoo", "writeDiffs")
    BY DEF Way
  <2>2. "claimYahoo" \in StepNames /\ "yahoo" \in StepNames /\ "writeDiffs" \in StepNames /\ "writeDiffs" \notin Midst
    BY DEF StepNames, Midst
  <2> QED
    BY <2>1, <2>2, BlockOf3
<1>4. Script("backfill") = <<x>>
  BY Blocks DEF Script, QuoteKinds, ScriptOfQuotes, WorldSteps, NewsSteps, SyncSteps, SpotSteps
<1> HIDE DEF x
<1>5. FirstStep("backfill", Head(x))
  BY <1>1 DEF FirstStep, Door
<1> QED
  BY <1>1, <1>4, <1>5, PathOf1

LEMMA ScriptSpot ==
    LET todo == Script("spot") IN Path("spot", todo) /\ FirstStep("spot", Head(Head(todo))) /\ Len(todo) = 2
<1> DEFINE x == <<"checkSpot", "claimSpot", "fetchSpot", "upsertSpot", "macroPrev", "macroUsd">>
           y == <<"readRates", "readBars", "writeRows", "pruneRows">>
<1>1. Block("spot", x) /\ Head(x) = "checkSpot"
  <2>1. /\ Way("spot", "checkSpot", "claimSpot")
        /\ Way("spot", "claimSpot", "fetchSpot")
        /\ Way("spot", "fetchSpot", "upsertSpot")
        /\ Way("spot", "upsertSpot", "macroPrev")
        /\ Way("spot", "macroPrev", "macroUsd")
    BY DEF Way
  <2>2. /\ "checkSpot" \in StepNames /\ "claimSpot" \in StepNames /\ "fetchSpot" \in StepNames
        /\ "upsertSpot" \in StepNames /\ "macroPrev" \in StepNames /\ "macroUsd" \in StepNames
        /\ "macroUsd" \notin Midst
    BY DEF StepNames, Midst
  <2> QED
    BY <2>1, <2>2, BlockOf6
<1>2. Block("spot", y) /\ Head(y) = "readRates"
  <2>1. /\ Way("spot", "readRates", "readBars")
        /\ Way("spot", "readBars", "writeRows")
        /\ Way("spot", "writeRows", "pruneRows")
    BY DEF Way
  <2>2. /\ "readRates" \in StepNames /\ "readBars" \in StepNames /\ "writeRows" \in StepNames
        /\ "pruneRows" \in StepNames
        /\ "pruneRows" \notin Midst
    BY DEF StepNames, Midst
  <2> QED
    BY <2>1, <2>2, BlockOf4
<1>4. Script("spot") = <<x, y>>
  BY Blocks DEF Script, QuoteKinds, ScriptOfQuotes, WorldSteps, NewsSteps, SyncSteps, SpotSteps
<1> HIDE DEF x, y
<1>5. FirstStep("spot", Head(x)) /\ Door("spot", Head(y))
  BY <1>1, <1>2 DEF FirstStep, Door
<1> QED
  BY <1>1, <1>2, <1>4, <1>5, PathOf2

LEMMA ScriptManual ==
    LET todo == Script("manual") IN Path("manual", todo) /\ FirstStep("manual", Head(Head(todo))) /\ Len(todo) = 2
<1> DEFINE x == <<"enter", "upsertSpot", "macroPrev", "macroUsd">>
           y == <<"readRates", "readBars", "writeRows", "pruneRows">>
<1>1. Block("manual", x) /\ Head(x) = "enter"
  <2>1. /\ Way("manual", "enter", "upsertSpot")
        /\ Way("manual", "upsertSpot", "macroPrev")
        /\ Way("manual", "macroPrev", "macroUsd")
    BY DEF Way
  <2>2. /\ "enter" \in StepNames /\ "upsertSpot" \in StepNames /\ "macroPrev" \in StepNames
        /\ "macroUsd" \in StepNames
        /\ "macroUsd" \notin Midst
    BY DEF StepNames, Midst
  <2> QED
    BY <2>1, <2>2, BlockOf4
<1>2. Block("manual", y) /\ Head(y) = "readRates"
  <2>1. /\ Way("manual", "readRates", "readBars")
        /\ Way("manual", "readBars", "writeRows")
        /\ Way("manual", "writeRows", "pruneRows")
    BY DEF Way
  <2>2. /\ "readRates" \in StepNames /\ "readBars" \in StepNames /\ "writeRows" \in StepNames
        /\ "pruneRows" \in StepNames
        /\ "pruneRows" \notin Midst
    BY DEF StepNames, Midst
  <2> QED
    BY <2>1, <2>2, BlockOf4
<1>4. Script("manual") = <<x, y>>
  BY Blocks DEF Script, QuoteKinds, ScriptOfQuotes, WorldSteps, NewsSteps, SyncSteps, SpotSteps
<1> HIDE DEF x, y
<1>5. FirstStep("manual", Head(x)) /\ Door("manual", Head(y))
  BY <1>1, <1>2 DEF FirstStep, Door
<1> QED
  BY <1>1, <1>2, <1>4, <1>5, PathOf2

LEMMA ScriptMacro ==
    LET todo == Script("macro") IN Path("macro", todo) /\ FirstStep("macro", Head(Head(todo))) /\ Len(todo) = 3
<1> DEFINE x == <<"enter", "upsertSpot", "macroPrev", "macroUsd">>
           y == <<"readRates", "readBars", "writeRows", "pruneRows">>
           z == <<"macroBase", "macroPut">>
<1>1. Block("macro", x) /\ Head(x) = "enter"
  <2>1. /\ Way("macro", "enter", "upsertSpot")
        /\ Way("macro", "upsertSpot", "macroPrev")
        /\ Way("macro", "macroPrev", "macroUsd")
    BY DEF Way
  <2>2. /\ "enter" \in StepNames /\ "upsertSpot" \in StepNames /\ "macroPrev" \in StepNames
        /\ "macroUsd" \in StepNames
        /\ "macroUsd" \notin Midst
    BY DEF StepNames, Midst
  <2> QED
    BY <2>1, <2>2, BlockOf4
<1>2. Block("macro", y) /\ Head(y) = "readRates"
  <2>1. /\ Way("macro", "readRates", "readBars")
        /\ Way("macro", "readBars", "writeRows")
        /\ Way("macro", "writeRows", "pruneRows")
    BY DEF Way
  <2>2. /\ "readRates" \in StepNames /\ "readBars" \in StepNames /\ "writeRows" \in StepNames
        /\ "pruneRows" \in StepNames
        /\ "pruneRows" \notin Midst
    BY DEF StepNames, Midst
  <2> QED
    BY <2>1, <2>2, BlockOf4
<1>3. Block("macro", z) /\ Head(z) = "macroBase"
  <2>1. Way("macro", "macroBase", "macroPut")
    BY DEF Way
  <2>2. "macroBase" \in StepNames /\ "macroPut" \in StepNames /\ "macroPut" \notin Midst
    BY DEF StepNames, Midst
  <2> QED
    BY <2>1, <2>2, BlockOf2
<1>4. Script("macro") = <<x, y, z>>
  BY Blocks DEF Script, QuoteKinds, ScriptOfQuotes, WorldSteps, NewsSteps, SyncSteps, SpotSteps
<1> HIDE DEF x, y, z
<1>5. FirstStep("macro", Head(x)) /\ Door("macro", Head(y)) /\ Door("macro", Head(z))
  BY <1>1, <1>2, <1>3 DEF FirstStep, Door
<1> QED
  BY <1>1, <1>2, <1>3, <1>4, <1>5, PathOf3

LEMMA ScriptIndex ==
    LET todo == Script("index") IN Path("index", todo) /\ FirstStep("index", Head(Head(todo))) /\ Len(todo) = 3
<1> DEFINE x == <<"history">>
           y == <<"live", "readRates", "readBars", "writeRows", "pruneRows">>
           z == <<"readRates", "readBars", "writeRows", "pruneRows">>
<1>1. Block("index", x) /\ Head(x) = "history"
  <2>2. "history" \in StepNames /\ "history" \notin Midst
    BY DEF StepNames, Midst
  <2> QED
    BY <2>2, BlockOf1
<1>2. Block("index", y) /\ Head(y) = "live"
  <2>1. /\ Way("index", "live", "readRates")
        /\ Way("index", "readRates", "readBars")
        /\ Way("index", "readBars", "writeRows")
        /\ Way("index", "writeRows", "pruneRows")
    BY DEF Way
  <2>2. /\ "live" \in StepNames /\ "readRates" \in StepNames /\ "readBars" \in StepNames
        /\ "writeRows" \in StepNames /\ "pruneRows" \in StepNames
        /\ "pruneRows" \notin Midst
    BY DEF StepNames, Midst
  <2> QED
    BY <2>1, <2>2, BlockOf5
<1>3. Block("index", z) /\ Head(z) = "readRates"
  <2>1. /\ Way("index", "readRates", "readBars")
        /\ Way("index", "readBars", "writeRows")
        /\ Way("index", "writeRows", "pruneRows")
    BY DEF Way
  <2>2. /\ "readRates" \in StepNames /\ "readBars" \in StepNames /\ "writeRows" \in StepNames
        /\ "pruneRows" \in StepNames
        /\ "pruneRows" \notin Midst
    BY DEF StepNames, Midst
  <2> QED
    BY <2>1, <2>2, BlockOf4
<1>4. Script("index") = <<x, y, z>>
  BY Blocks DEF Script, QuoteKinds, ScriptOfQuotes, WorldSteps, NewsSteps, SyncSteps, SpotSteps
<1> HIDE DEF x, y, z
<1>5. FirstStep("index", Head(x)) /\ Door("index", Head(y)) /\ Door("index", Head(z))
  BY <1>1, <1>2, <1>3 DEF FirstStep, Door
<1> QED
  BY <1>1, <1>2, <1>3, <1>4, <1>5, PathOf3

LEMMA ScriptNewsTick ==
    LET todo == Script("newsTick") IN Path("newsTick", todo) /\ FirstStep("newsTick", Head(Head(todo))) /\ Len(todo) = 1
<1> DEFINE x == <<"claimNews", "seeBatch", "createBatch", "askNews", "findBatch", "deleteItems", "updateBatch", "createItems">>
<1>1. Block("newsTick", x) /\ Head(x) = "claimNews"
  <2>1. /\ Way("newsTick", "claimNews", "seeBatch")
        /\ Way("newsTick", "seeBatch", "createBatch")
        /\ Way("newsTick", "createBatch", "askNews")
        /\ Way("newsTick", "askNews", "findBatch")
        /\ Way("newsTick", "findBatch", "deleteItems")
        /\ Way("newsTick", "deleteItems", "updateBatch")
        /\ Way("newsTick", "updateBatch", "createItems")
    BY DEF Way
  <2>2. /\ "claimNews" \in StepNames /\ "seeBatch" \in StepNames /\ "createBatch" \in StepNames
        /\ "askNews" \in StepNames /\ "findBatch" \in StepNames /\ "deleteItems" \in StepNames
        /\ "updateBatch" \in StepNames /\ "createItems" \in StepNames
        /\ "createItems" \notin Midst
    BY DEF StepNames, Midst
  <2> QED
    BY <2>1, <2>2, BlockOf8
<1>4. Script("newsTick") = <<x>>
  BY Blocks DEF Script, QuoteKinds, ScriptOfReading, ReadModelSteps, TimelineSteps
<1> HIDE DEF x
<1>5. FirstStep("newsTick", Head(x))
  BY <1>1 DEF FirstStep, Door
<1> QED
  BY <1>1, <1>4, <1>5, PathOf1

LEMMA ScriptNewsForce ==
    LET todo == Script("newsForce") IN Path("newsForce", todo) /\ FirstStep("newsForce", Head(Head(todo))) /\ Len(todo) = 1
<1> DEFINE x == <<"askNews", "findBatch", "deleteItems", "updateBatch", "createItems">>
<1>1. Block("newsForce", x) /\ Head(x) = "askNews"
  <2>1. /\ Way("newsForce", "askNews", "findBatch")
        /\ Way("newsForce", "findBatch", "deleteItems")
        /\ Way("newsForce", "deleteItems", "updateBatch")
        /\ Way("newsForce", "updateBatch", "createItems")
    BY DEF Way
  <2>2. /\ "askNews" \in StepNames /\ "findBatch" \in StepNames /\ "deleteItems" \in StepNames
        /\ "updateBatch" \in StepNames /\ "createItems" \in StepNames
        /\ "createItems" \notin Midst
    BY DEF StepNames, Midst
  <2> QED
    BY <2>1, <2>2, BlockOf5
<1>4. Script("newsForce") = <<x>>
  BY Blocks DEF Script, QuoteKinds, ScriptOfReading, ReadModelSteps, TimelineSteps
<1> HIDE DEF x
<1>5. FirstStep("newsForce", Head(x))
  BY <1>1 DEF FirstStep, Door
<1> QED
  BY <1>1, <1>4, <1>5, PathOf1

LEMMA ScriptLesson ==
    LET todo == Script("lesson") IN Path("lesson", todo) /\ FirstStep("lesson", Head(Head(todo))) /\ Len(todo) = 1
<1> DEFINE x == <<"write", "readTitles", "addLessons">>
<1>1. Block("lesson", x) /\ Head(x) = "write"
  <2>1. /\ Way("lesson", "write", "readTitles")
        /\ Way("lesson", "readTitles", "addLessons")
    BY DEF Way
  <2>2. "write" \in StepNames /\ "readTitles" \in StepNames /\ "addLessons" \in StepNames /\ "addLessons" \notin Midst
    BY DEF StepNames, Midst
  <2> QED
    BY <2>1, <2>2, BlockOf3
<1>4. Script("lesson") = <<x>>
  BY Blocks DEF Script, QuoteKinds, ScriptOfReading, ReadModelSteps, TimelineSteps
<1> HIDE DEF x
<1>5. FirstStep("lesson", Head(x))
  BY <1>1 DEF FirstStep, Door
<1> QED
  BY <1>1, <1>4, <1>5, PathOf1

LEMMA ScriptPdf ==
    LET todo == Script("pdf") IN Path("pdf", todo) /\ FirstStep("pdf", Head(Head(todo))) /\ Len(todo) = 1
<1> DEFINE x == <<"askPdf", "readTitles", "addLessons">>
<1>1. Block("pdf", x) /\ Head(x) = "askPdf"
  <2>1. /\ Way("pdf", "askPdf", "readTitles")
        /\ Way("pdf", "readTitles", "addLessons")
    BY DEF Way
  <2>2. "askPdf" \in StepNames /\ "readTitles" \in StepNames /\ "addLessons" \in StepNames /\ "addLessons" \notin Midst
    BY DEF StepNames, Midst
  <2> QED
    BY <2>1, <2>2, BlockOf3
<1>4. Script("pdf") = <<x>>
  BY Blocks DEF Script, QuoteKinds, ScriptOfReading, ReadModelSteps, TimelineSteps
<1> HIDE DEF x
<1>5. FirstStep("pdf", Head(x))
  BY <1>1 DEF FirstStep, Door
<1> QED
  BY <1>1, <1>4, <1>5, PathOf1

LEMMA ScriptUnlesson ==
    LET todo == Script("unlesson") IN Path("unlesson", todo) /\ FirstStep("unlesson", Head(Head(todo))) /\ Len(todo) = 1
<1> DEFINE x == <<"findLesson", "deleteLesson">>
<1>1. Block("unlesson", x) /\ Head(x) = "findLesson"
  <2>1. Way("unlesson", "findLesson", "deleteLesson")
    BY DEF Way
  <2>2. "findLesson" \in StepNames /\ "deleteLesson" \in StepNames /\ "deleteLesson" \notin Midst
    BY DEF StepNames, Midst
  <2> QED
    BY <2>1, <2>2, BlockOf2
<1>4. Script("unlesson") = <<x>>
  BY Blocks DEF Script, QuoteKinds, ScriptOfReading, ReadModelSteps, TimelineSteps
<1> HIDE DEF x
<1>5. FirstStep("unlesson", Head(x))
  BY <1>1 DEF FirstStep, Door
<1> QED
  BY <1>1, <1>4, <1>5, PathOf1

LEMMA ScriptUpload ==
    LET todo == Script("upload") IN Path("upload", todo) /\ FirstStep("upload", Head(Head(todo))) /\ Len(todo) = 2
<1> DEFINE x == <<"findFund", "analyze", "createReport", "reportLessons", "deleteHoldings", "createHoldings">>
           y == <<"readReports", "compare">>
<1>1. Block("upload", x) /\ Head(x) = "findFund"
  <2>1. /\ Way("upload", "findFund", "analyze")
        /\ Way("upload", "analyze", "createReport")
        /\ Way("upload", "createReport", "reportLessons")
        /\ Way("upload", "reportLessons", "deleteHoldings")
        /\ Way("upload", "deleteHoldings", "createHoldings")
    BY DEF Way
  <2>2. /\ "findFund" \in StepNames /\ "analyze" \in StepNames /\ "createReport" \in StepNames
        /\ "reportLessons" \in StepNames /\ "deleteHoldings" \in StepNames /\ "createHoldings" \in StepNames
        /\ "createHoldings" \notin Midst
    BY DEF StepNames, Midst
  <2> QED
    BY <2>1, <2>2, BlockOf6
<1>2. Block("upload", y) /\ Head(y) = "readReports"
  <2>1. Way("upload", "readReports", "compare")
    BY DEF Way
  <2>2. "readReports" \in StepNames /\ "compare" \in StepNames /\ "compare" \notin Midst
    BY DEF StepNames, Midst
  <2> QED
    BY <2>1, <2>2, BlockOf2
<1>4. Script("upload") = <<x, y>>
  BY Blocks DEF Script, QuoteKinds, ScriptOfReading, ReadModelSteps, TimelineSteps
<1> HIDE DEF x, y
<1>5. FirstStep("upload", Head(x)) /\ Door("upload", Head(y))
  BY <1>1, <1>2 DEF FirstStep, Door
<1> QED
  BY <1>1, <1>2, <1>4, <1>5, PathOf2

LEMMA ScriptUnreport ==
    LET todo == Script("unreport") IN Path("unreport", todo) /\ FirstStep("unreport", Head(Head(todo))) /\ Len(todo) = 2
<1> DEFINE x == <<"findReport", "deleteReport">>
           y == <<"readReports", "compare">>
<1>1. Block("unreport", x) /\ Head(x) = "findReport"
  <2>1. Way("unreport", "findReport", "deleteReport")
    BY DEF Way
  <2>2. "findReport" \in StepNames /\ "deleteReport" \in StepNames /\ "deleteReport" \notin Midst
    BY DEF StepNames, Midst
  <2> QED
    BY <2>1, <2>2, BlockOf2
<1>2. Block("unreport", y) /\ Head(y) = "readReports"
  <2>1. Way("unreport", "readReports", "compare")
    BY DEF Way
  <2>2. "readReports" \in StepNames /\ "compare" \in StepNames /\ "compare" \notin Midst
    BY DEF StepNames, Midst
  <2> QED
    BY <2>1, <2>2, BlockOf2
<1>4. Script("unreport") = <<x, y>>
  BY Blocks DEF Script, QuoteKinds, ScriptOfReading, ReadModelSteps, TimelineSteps
<1> HIDE DEF x, y
<1>5. FirstStep("unreport", Head(x)) /\ Door("unreport", Head(y))
  BY <1>1, <1>2 DEF FirstStep, Door
<1> QED
  BY <1>1, <1>2, <1>4, <1>5, PathOf2

LEMMA ScriptDefine ==
    LET todo == Script("define") IN Path("define", todo) /\ FirstStep("define", Head(Head(todo))) /\ Len(todo) = 1
<1> DEFINE x == <<"switchFund">>
<1>1. Block("define", x) /\ Head(x) = "switchFund"
  <2>2. "switchFund" \in StepNames /\ "switchFund" \notin Midst
    BY DEF StepNames, Midst
  <2> QED
    BY <2>2, BlockOf1
<1>4. Script("define") = <<x>>
  BY Blocks DEF Script, QuoteKinds, ScriptOfReading, ReadModelSteps, TimelineSteps
<1> HIDE DEF x
<1>5. FirstStep("define", Head(x))
  BY <1>1 DEF FirstStep, Door
<1> QED
  BY <1>1, <1>4, <1>5, PathOf1

LEMMA ScriptForex ==
    LET todo == Script("forex") IN Path("forex", todo) /\ FirstStep("forex", Head(Head(todo))) /\ Len(todo) = 1
<1> DEFINE x == <<"claimForex", "quotes", "capture", "readOld", "deleteOld">>
<1>1. Block("forex", x) /\ Head(x) = "claimForex"
  <2>1. /\ Way("forex", "claimForex", "quotes")
        /\ Way("forex", "quotes", "capture")
        /\ Way("forex", "capture", "readOld")
        /\ Way("forex", "readOld", "deleteOld")
    BY DEF Way
  <2>2. /\ "claimForex" \in StepNames /\ "quotes" \in StepNames /\ "capture" \in StepNames
        /\ "readOld" \in StepNames /\ "deleteOld" \in StepNames
        /\ "deleteOld" \notin Midst
    BY DEF StepNames, Midst
  <2> QED
    BY <2>1, <2>2, BlockOf5
<1>4. Script("forex") = <<x>>
  BY Blocks DEF Script, QuoteKinds, ScriptOfReading, ReadModelSteps, TimelineSteps
<1> HIDE DEF x
<1>5. FirstStep("forex", Head(x))
  BY <1>1 DEF FirstStep, Door
<1> QED
  BY <1>1, <1>4, <1>5, PathOf1

LEMMA Scripts ==
    ASSUME NEW k \in Kinds
    PROVE  /\ Path(k, Script(k)) /\ FirstStep(k, Head(Head(Script(k))))
           /\ (k = "world" => Len(Script(k)) = 3) /\ (k = "catchUp" => Len(Script(k)) = 2)
BY ScriptWorld, ScriptCatchUp, ScriptBackfill, ScriptSpot, ScriptManual, ScriptMacro, ScriptIndex, ScriptNewsTick, ScriptNewsForce, ScriptLesson, ScriptPdf, ScriptUnlesson, ScriptUpload, ScriptUnreport, ScriptDefine, ScriptForex DEF Kinds, QuoteKinds, ReadingKinds

(* The blocks some jobs go on with out of turn.                             *)
LEMMA OutOfTurn ==
    /\ Path("macro", <<ScriptOfQuotes("macro")[3]>>) /\ Head(Head(<<ScriptOfQuotes("macro")[3]>>)) = "macroBase"
    /\ \A k \in {"newsTick", "newsForce"} :
          LET todo == << <<"insertBatch", "createItems">> >> IN Path(k, todo) /\ Head(Head(todo)) = "insertBatch"
<1>1. Block("macro", <<"macroBase", "macroPut">>) /\ Head(<<"macroBase", "macroPut">>) = "macroBase"
  <2>1. Way("macro", "macroBase", "macroPut") /\ "macroBase" \in StepNames /\ "macroPut" \in StepNames /\ "macroPut" \notin Midst
    BY DEF Way, StepNames, Midst
  <2> QED
    BY <2>1, BlockOf2
<1>2. ASSUME NEW k \in {"newsTick", "newsForce"}
      PROVE  Block(k, <<"insertBatch", "createItems">>) /\ Head(<<"insertBatch", "createItems">>) = "insertBatch"
  <2>1. Way(k, "insertBatch", "createItems") /\ "insertBatch" \in StepNames /\ "createItems" \in StepNames /\ "createItems" \notin Midst
    BY DEF Way, StepNames, Midst
  <2> QED
    BY <2>1, BlockOf2
<1>3. ScriptOfQuotes("macro")[3] = <<"macroBase", "macroPut">>
  BY DEF ScriptOfQuotes
<1> QED
  BY <1>1, <1>2, <1>3, PathOf1
----------------------------------------------------------------------------
(* What a job is.                                                           *)
Fields == {"at", "kind", "todo", "day", "rateDay", "holds", "alone", "seen"}
SeenFields == {"price", "usd", "gold", "utc", "interest", "rates", "points", "written", "titles", "reports"}
Shape(rec) == rec = [f \in Fields |-> rec[f]]
SeenShape(v) == v = [f \in SeenFields |-> v[f]]

Locks == {"world", "yahoo", "news", "forex"}
Holdings == {{}} \cup {{f} : f \in Locks \cup {"spot"}}
Place(k, s) == FirstStep(k, s) \/ Door(k, s) \/ \E r \in StepNames : Way(k, r, s)
Opening == {"checkWorld", "claimWorld", "pages", "replace"}

Running(rec) ==
    LET s == Head(Head(rec.todo)) IN
    /\ rec.kind \in Kinds /\ Path(rec.kind, rec.todo) /\ Place(rec.kind, s) /\ rec.holds \in Holdings
    /\ s \in Opening => Len(rec.todo) = Len(Script(rec.kind))
Sound(rec) ==
    /\ Shape(rec) /\ SeenShape(rec.seen) /\ rec.at \in {"idle", "run", "ok", "failed"} /\ rec.alone \in BOOLEAN
    /\ IF rec.at = "run" THEN Running(rec) ELSE rec.todo = << >> /\ rec.holds = {}
    /\ rec.at = "idle" => rec.kind = "none"
JobInv ==
    /\ job = [j \in Jobs |-> job[j]] /\ \A j \in Jobs : Sound(job[j])
    /\ today \in Days

At(j) == Head(Head(job[j].todo))

LEMMA Nothing == SeenShape(NothingSeen) /\ Shape(NoJob)
BY DEF SeenShape, SeenFields, NothingSeen, Shape, Fields, NoJob

----------------------------------------------------------------------------
(* What a step makes of the jobs and the fields of the services.            *)
Others(j) == job' = [k \in Jobs |-> job'[k]] /\ \A k \in Jobs \ {j} : job'[k] = job[k]
Same(j) == job'[j].kind = job[j].kind /\ job'[j].alone = job[j].alone
Remains(j) ==
    /\ Others(j) /\ Same(j) /\ Sound(job'[j]) /\ job'[j].at = "run"
    /\ job'[j].holds = job[j].holds /\ flags' = flags

Quits(j) ==
    /\ Others(j) /\ Same(j) /\ Sound(job'[j]) /\ job'[j].at \in {"ok", "failed"}
    /\ \A f \in Locks : f \in flags' <=> f \in flags /\ f \notin job[j].holds
    /\ "spot" \in flags' => "spot" \in flags /\ "spot" \notin job[j].holds

(* The job goes on with what it has seen: in the block, or in the next one. *)
Passes(j, seen) ==
    \/ Quits(j) /\ Len(Head(job[j].todo)) = 1
    \/ /\ Remains(j) /\ job'[j].seen = seen
       /\ job'[j].day = job[j].day /\ job'[j].rateDay = job[j].rateDay
       /\ Door(job[j].kind, At(j)') \/ Way(job[j].kind, At(j), At(j)')
Skips(j) ==
    \/ Quits(j)
    \/ /\ Remains(j) /\ job'[j].seen = job[j].seen
       /\ job'[j].day = job[j].day /\ job'[j].rateDay = job[j].rateDay
       /\ Door(job[j].kind, At(j)')
Takes(j, f) ==
    /\ Others(j) /\ Same(j) /\ Sound(job'[j]) /\ job'[j].at = "run"
    /\ job'[j].holds = {f} /\ flags' = flags \cup {f}
    /\ job'[j].day = job[j].day
    /\ Way(job[j].kind, At(j), At(j)')

LEMMA Becoming ==
    ASSUME JobInv, NEW j \in Jobs, Underway(j), NEW rec, Becomes(j, rec), Shape(rec), SeenShape(rec.seen),
           rec.kind = job[j].kind, rec.alone = job[j].alone, rec.holds = job[j].holds, rec.at \in {"run", "ok", "failed"}
    PROVE  /\ Others(j) /\ Same(j)
           /\ rec.at = "run" => job'[j] = rec /\ flags' = flags
           /\ rec.at # "run" => Quits(j)
<1>1. job = [k \in Jobs |-> job[k]] /\ Sound(job[j]) /\ job[j].at = "run" /\ job[j].holds \in Holdings /\ rec.alone \in BOOLEAN
  BY DEF JobInv, Underway, Sound, Running
<1> DEFINE next == Settled(rec)
<1>2. job' = [job EXCEPT ![j] = next]
  BY DEF Becomes
<1>3. /\ Shape(next) /\ SeenShape(next.seen) /\ next.at = rec.at /\ next.kind = rec.kind /\ next.alone = rec.alone
      /\ rec.at = "run" => next = rec
      /\ rec.at # "run" => next.todo = << >> /\ next.holds = {}
  <2>1. CASE rec.at = "run"
    BY <2>1 DEF Settled
  <2>2. CASE rec.at # "run"
    <3>1. next = [rec EXCEPT !.todo = << >>, !.holds = {}, !.seen = NothingSeen]
      BY <2>2 DEF Settled
    <3>2. /\ next.at = rec.at /\ next.kind = rec.kind /\ next.alone = rec.alone
          /\ next.todo = << >> /\ next.holds = {} /\ next.seen = NothingSeen /\ Shape(next)
      BY <3>1 DEF Shape, Fields
    <3> QED
      BY <2>2, <3>2, Nothing
  <2> QED
    BY <2>1, <2>2
<1> HIDE DEF next
<1>4. Others(j) /\ job'[j] = next
  BY <1>1, <1>2 DEF Others
<1>5. Same(j)
  BY <1>3, <1>4 DEF Same
<1>6. ASSUME rec.at # "run" PROVE Quits(j)
  <2>1. flags' = FlagsAfter(rec)
    BY <1>6 DEF Becomes
  <2>2. Sound(next) /\ next.at \in {"ok", "failed"}
    BY <1>1, <1>3, <1>6 DEF Sound
  <2>3. /\ \A f \in Locks : f \in flags' <=> f \in flags /\ f \notin job[j].holds
        /\ "spot" \in flags' => "spot" \in flags /\ "spot" \notin job[j].holds
    BY <1>1, <2>1 DEF FlagsAfter, Holdings, Locks
  <2> QED
    BY <1>4, <1>5, <2>2, <2>3 DEF Quits
<1> QED
  BY <1>3, <1>4, <1>5, <1>6 DEF Becomes

(* A job that remains is sound: it is where the ways lead.                  *)
LEMMA Remaining ==
    ASSUME JobInv, NEW j \in Jobs, Underway(j), Others(j), Same(j), NEW rec, job'[j] = rec, flags' = flags,
           Shape(rec), SeenShape(rec.seen), rec.at = "run", rec.holds = job[j].holds, Path(rec.kind, rec.todo),
           \/ Door(rec.kind, Head(Head(rec.todo)))
           \/ Way(rec.kind, At(j), Head(Head(rec.todo))) /\ Len(rec.todo) = Len(job[j].todo)
    PROVE  Remains(j)
<1>1. Sound(job[j]) /\ Running(job[j]) /\ rec.kind = job[j].kind /\ rec.alone = job[j].alone
  BY DEF JobInv, Underway, Sound, Same
<1>2. rec.kind \in Kinds /\ rec.holds \in Holdings /\ rec.alone \in BOOLEAN
  BY <1>1 DEF Running, Sound
<1> DEFINE s == Head(Head(rec.todo))
<1>3. At(j) \in StepNames
  BY <1>1, PathHead DEF Running, At
<1>4. Place(rec.kind, s)
  BY <1>3 DEF Place
<1>5. ASSUME s \in Opening PROVE Len(rec.todo) = Len(Script(rec.kind))
  <2>1. ~Door(rec.kind, s)
    BY <1>5 DEF Door, Opening
  <2>2. Way(rec.kind, At(j), s) /\ Len(rec.todo) = Len(job[j].todo)
    BY <2>1
  <2>3. At(j) \in Opening
    BY <1>5, <2>2 DEF Way, Opening
  <2> QED
    BY <1>1, <2>2, <2>3 DEF Running, At
<1>6. Running(rec)
  BY <1>2, <1>4, <1>5 DEF Running
<1>7. Sound(rec)
  BY <1>2, <1>6 DEF Sound
<1> QED
  BY <1>7 DEF Remains
LEMMA AfterBlock ==
    ASSUME NEW k, NEW todo, Path(k, todo), After(todo) = << >>
    PROVE  Len(Head(todo)) = 1
<1> SUFFICES ASSUME Len(Head(todo)) # 1 PROVE FALSE
  OBVIOUS
<1>1. Head(todo) \in Seq(StepNames) /\ Len(Head(todo)) \in Nat \ {0} /\ todo \in Seq(Seq(StepNames)) /\ Len(todo) \in Nat \ {0}
  BY PathHead DEF Path
<1>2. Tail(Head(todo)) \in Seq(StepNames) /\ Tail(todo) \in Seq(Seq(StepNames))
  <2>1. Head(todo) # << >> /\ todo # << >>
    BY <1>1, EmptySeq DEF Path
  <2> QED
    BY <1>1, <2>1
<1>3. Len(<<Tail(Head(todo))>> \o Tail(todo)) = 1 + Len(Tail(todo)) /\ Len(Tail(todo)) \in Nat
  BY <1>2
<1>4. After(todo) = <<Tail(Head(todo))>> \o Tail(todo)
  BY DEF After
<1>5. Len(After(todo)) = 1 + Len(Tail(todo))
  BY <1>3, <1>4
<1>6. Len(After(todo)) = 0
  OBVIOUS
<1> QED
  BY <1>3, <1>5, <1>6

LEMMA ClaimAfter ==
    ASSUME NEW k, NEW todo, Path(k, todo), Head(Head(todo)) \in Midst
    PROVE  /\ After(todo) # << >>
           /\ Way(k, Head(Head(todo)), Head(Head(After(todo)))) /\ Len(After(todo)) = Len(todo)
<1> DEFINE first == Head(todo)
<1>1. first \in Seq(StepNames) /\ Block(k, first) /\ Len(first) \in Nat \ {0} /\ todo \in Seq(Seq(StepNames)) /\ Len(todo) \in Nat \ {0}
  BY PathHead DEF Path
<1> HIDE DEF first
<1>2. Len(first) # 1
  <2>1. Head(first) = first[1] /\ Head(first) \in Midst
    BY <1>1 DEF first
  <2> QED
    BY <1>1, <2>1 DEF Block
<1>3. After(todo) # << >>
  BY <1>2, AfterBlock DEF first
<1>4. After(todo) = <<Tail(first)>> \o Tail(todo)
  BY <1>2 DEF After, first
<1>5. Tail(first) \in Seq(StepNames) /\ Tail(todo) \in Seq(Seq(StepNames)) /\ Len(Tail(todo)) = Len(todo) - 1
  BY <1>1 DEF Path, Block
<1>6. Len(After(todo)) = Len(todo)
  BY <1>1, <1>4, <1>5
<1>7. After(todo) # Tail(todo)
  BY <1>1, <1>5, <1>6
<1> QED
  BY <1>3, <1>6, <1>7, PathAfter

LEMMA GoesOn ==
    ASSUME JobInv, NEW j \in Jobs, Underway(j), NEW todo, NEW seen, SeenShape(seen), Goes(j, todo, seen),
           todo # << >> => /\ Path(job[j].kind, todo)
                           /\ \/ Door(job[j].kind, Head(Head(todo)))
                              \/ Way(job[j].kind, At(j), Head(Head(todo))) /\ Len(todo) = Len(job[j].todo)
    PROVE  /\ todo = << >> => Quits(j)
           /\ todo # << >> => /\ Remains(j) /\ job'[j].seen = seen /\ job'[j].todo = todo
                              /\ job'[j].day = job[j].day /\ job'[j].rateDay = job[j].rateDay
<1> DEFINE rec == [job[j] EXCEPT !.todo = todo, !.seen = seen, !.at = IF todo = << >> THEN "ok" ELSE "run"]
<1>1. Shape(job[j])
  BY DEF JobInv, Sound
<1>2. /\ Shape(rec) /\ rec.todo = todo /\ rec.seen = seen /\ rec.kind = job[j].kind /\ rec.alone = job[j].alone
      /\ rec.holds = job[j].holds /\ rec.day = job[j].day /\ rec.rateDay = job[j].rateDay
      /\ rec.at = IF todo = << >> THEN "ok" ELSE "run"
  BY <1>1 DEF Shape, Fields
<1>3. Becomes(j, rec)
  BY DEF Goes
<1> HIDE DEF rec
<1>4. /\ Others(j) /\ Same(j)
      /\ todo # << >> => job'[j] = rec /\ flags' = flags
      /\ todo = << >> => Quits(j)
  BY <1>2, <1>3, Becoming
<1>5. ASSUME todo # << >> PROVE Remains(j)
  BY <1>2, <1>4, <1>5, Remaining
<1> QED
  BY <1>2, <1>4, <1>5

LEMMA Ongoing ==
    ASSUME JobInv, NEW j \in Jobs, Underway(j)
    PROVE  /\ Path(job[j].kind, job[j].todo) /\ SeenShape(job[j].seen) /\ Shape(job[j]) /\ job[j].kind \in Kinds
           /\ Place(job[j].kind, At(j)) /\ job[j].holds \in Holdings /\ job[j].alone \in BOOLEAN
           /\ Rest(j) = After(job[j].todo)
           /\ At(j) \in Opening => Len(job[j].todo) = Len(Script(job[j].kind))
BY DEF JobInv, Underway, Sound, Running, At, Rest, After

LEMMA OnwardPasses ==
    ASSUME JobInv, NEW j \in Jobs, Underway(j), NEW seen, SeenShape(seen), Onward(j, seen)
    PROVE  Passes(j, seen)
<1> DEFINE rest == After(job[j].todo)
<1>1. Goes(j, rest, seen) /\ Path(job[j].kind, job[j].todo)
  BY Ongoing DEF Onward
<1>2. rest # << >> => /\ Path(job[j].kind, rest)
                      /\ \/ Door(job[j].kind, Head(Head(rest)))
                         \/ Way(job[j].kind, At(j), Head(Head(rest))) /\ Len(rest) = Len(job[j].todo)
  BY <1>1, PathAfter DEF At
<1>3. rest = << >> => Len(Head(job[j].todo)) = 1
  BY <1>1, AfterBlock
<1> HIDE DEF rest
<1>4. /\ rest = << >> => Quits(j)
      /\ rest # << >> => /\ Remains(j) /\ job'[j].seen = seen /\ job'[j].todo = rest
                         /\ job'[j].day = job[j].day /\ job'[j].rateDay = job[j].rateDay
  BY <1>1, <1>2, GoesOn
<1> QED
  BY <1>2, <1>3, <1>4 DEF Passes, At

LEMMA ContinuesPasses ==
    ASSUME JobInv, NEW j \in Jobs, Underway(j), Continues(j)
    PROVE  Passes(j, job[j].seen)
BY OnwardPasses, Ongoing DEF Continues

LEMMA LeavesSkips ==
    ASSUME JobInv, NEW j \in Jobs, Underway(j), LeavesBlock(j)
    PROVE  Skips(j)
<1> DEFINE rest == Tail(job[j].todo)
<1>1. Goes(j, rest, job[j].seen) /\ Path(job[j].kind, job[j].todo) /\ SeenShape(job[j].seen)
  BY Ongoing DEF LeavesBlock
<1>2. rest # << >> => Path(job[j].kind, rest) /\ Door(job[j].kind, Head(Head(rest)))
  BY <1>1, PathTail
<1> HIDE DEF rest
<1>3. /\ rest = << >> => Quits(j)
      /\ rest # << >> => /\ Remains(j) /\ job'[j].seen = job[j].seen /\ job'[j].todo = rest
                         /\ job'[j].day = job[j].day /\ job'[j].rateDay = job[j].rateDay
  BY <1>1, <1>2, GoesOn
<1> QED
  BY <1>2, <1>3 DEF Skips, At

LEMMA EndsQuit ==
    ASSUME JobInv, NEW j \in Jobs, Underway(j), Finishes(j) \/ Throws(j)
    PROVE  Quits(j)
<1>1. Shape(job[j]) /\ SeenShape(job[j].seen)
  BY Ongoing
<1>2. ASSUME NEW how \in {"ok", "failed"}, Becomes(j, [job[j] EXCEPT !.at = how]) PROVE Quits(j)
  <2> DEFINE rec == [job[j] EXCEPT !.at = how]
  <2>1. /\ Shape(rec) /\ rec.seen = job[j].seen /\ rec.kind = job[j].kind /\ rec.alone = job[j].alone
        /\ rec.holds = job[j].holds /\ rec.at = how
    BY <1>1 DEF Shape, Fields
  <2>2. Becomes(j, rec)
    BY <1>2
  <2> HIDE DEF rec
  <2> QED
    BY <1>1, <2>1, <2>2, Becoming
<1> QED
  BY <1>2 DEF Finishes, Throws

LEMMA FailsSkips ==
    ASSUME JobInv, NEW j \in Jobs, Underway(j), Fails(j, Len(Script(job[j].kind)))
    PROVE  Skips(j) /\ (At(j) \in Opening => Quits(j))
<1>1. Throws(j) \/ (LeavesBlock(j) /\ Len(job[j].todo) # Len(Script(job[j].kind)))
  BY DEF Fails
<1>2. Throws(j) => Quits(j)
  BY EndsQuit
<1> QED
  BY <1>1, <1>2, LeavesSkips, Ongoing DEF Skips

LEMMA ClaimsTakes ==
    ASSUME JobInv, NEW j \in Jobs, Underway(j), NEW rec, job' = [job EXCEPT ![j] = rec], NEW f \in Locks \cup {"spot"},
           Shape(rec), SeenShape(rec.seen), rec.at = "run", rec.todo = Rest(j), rec.holds = {f}, flags' = flags \cup {f},
           rec.kind = job[j].kind, rec.alone = job[j].alone, rec.day = job[j].day,
           At(j) \in Midst
    PROVE  Takes(j, f)
<1>1. job = [k \in Jobs |-> job[k]]
  BY DEF JobInv
<1>2. Others(j) /\ job'[j] = rec
  BY <1>1 DEF Others
<1>0. /\ rec.todo = After(job[j].todo) /\ rec.todo # << >>
      /\ Way(job[j].kind, At(j), Head(Head(rec.todo))) /\ Len(rec.todo) = Len(job[j].todo)
  BY Ongoing, ClaimAfter DEF At
<1>3. Path(rec.kind, rec.todo)
  BY <1>0, Ongoing, PathAfter
<1>4. At(j) \in StepNames
  BY Ongoing, PathHead DEF At
<1>5. Place(rec.kind, Head(Head(rec.todo)))
  BY <1>0, <1>4 DEF Place
<1>6. Head(Head(rec.todo)) \in Opening => Len(rec.todo) = Len(Script(rec.kind))
  <2>1. Head(Head(rec.todo)) \in Opening => At(j) \in Opening
    BY <1>0 DEF Way, Opening
  <2> QED
    BY <1>0, <2>1, Ongoing
<1>7. Running(rec)
  BY <1>3, <1>5, <1>6, Ongoing DEF Running, Holdings
<1>8. Sound(rec)
  BY <1>7, Ongoing DEF Sound
<1>9. At(j)' = Head(Head(rec.todo))
  BY <1>2 DEF At
<1> QED
  BY <1>0, <1>2, <1>8, <1>9 DEF Takes, Same

----------------------------------------------------------------------------
(* Each action is the step of its name, and leaves alone what is not its.   *)
Does(j) == (QuoteStep(j) /\ UNCHANGED readingVars) \/ ReadingStep(j)
Frame(s) ==
    /\ today' = today /\ scene' = scene /\ left' = left
    /\ s # "upsertSpot" => spot' = spot
    /\ s \notin {"upsertSpot", "history", "live"} => known' = known
    /\ s \notin {"macroUsd", "macroPut"} => macro' = macro
    /\ s \notin {"history", "live"} => bar' = bar
    /\ s \notin {"writeRows", "pruneRows"} => dollar' = dollar
    /\ s \notin {"replace", "writeDiffs"} => world' = world
    /\ s # "storeWorldNews" => worldNews' = worldNews
    /\ s \notin {"addLessons", "deleteLesson"} => lessons' = lessons
    /\ s \notin {"createBatch", "insertBatch", "deleteItems", "createItems"} => batch' = batch
    /\ s # "askNews" => reads' = reads
    /\ s \notin {"capture", "deleteOld"} => snaps' = snaps

LEMMA Named ==
    ASSUME NEW j
    PROVE  /\ UpsertSpot(j) => Underway(j) /\ At(j) = "upsertSpot"
           /\ MacroPrev(j) => Underway(j) /\ At(j) = "macroPrev"
           /\ MacroUsd(j) => Underway(j) /\ At(j) = "macroUsd"
           /\ ReadRates(j) => Underway(j) /\ At(j) = "readRates"
           /\ ReadBars(j) => Underway(j) /\ At(j) = "readBars"
           /\ WriteRow(j) => Underway(j) /\ At(j) = "writeRows"
           /\ PruneRows(j) => Underway(j) /\ At(j) = "pruneRows"
           /\ CheckSpot(j) => Underway(j) /\ At(j) = "checkSpot"
           /\ ClaimSpot(j) => Underway(j) /\ At(j) = "claimSpot"
           /\ FetchSpot(j) => Underway(j) /\ At(j) = "fetchSpot"
           /\ Enter(j) => Underway(j) /\ At(j) = "enter"
           /\ MacroBase(j) => Underway(j) /\ At(j) = "macroBase"
           /\ MacroPut(j) => Underway(j) /\ At(j) = "macroPut"
           /\ History(j) => Underway(j) /\ At(j) = "history"
           /\ Live(j) => Underway(j) /\ At(j) = "live"
           /\ CheckWorld(j) => Underway(j) /\ At(j) = "checkWorld"
           /\ ClaimWorld(j) => Underway(j) /\ At(j) = "claimWorld"
           /\ Pages(j) => Underway(j) /\ At(j) = "pages"
           /\ Replace(j) => Underway(j) /\ At(j) = "replace"
           /\ CountNews(j) => Underway(j) /\ At(j) = "countNews"
           /\ AskWorld(j) => Underway(j) /\ At(j) = "askWorld"
           /\ StoreWorldNews(j) => Underway(j) /\ At(j) = "storeWorldNews"
           /\ ClaimYahoo(j) => Underway(j) /\ At(j) = "claimYahoo"
           /\ Yahoo(j) => Underway(j) /\ At(j) = "yahoo"
           /\ WriteDiffs(j) => Underway(j) /\ At(j) = "writeDiffs"
           /\ ReadTitles(j) => Underway(j) /\ At(j) = "readTitles"
           /\ AddLesson(j) => Underway(j) /\ At(j) = "addLessons"
           /\ ClaimNews(j) => Underway(j) /\ At(j) = "claimNews"
           /\ SeeBatch(j) => Underway(j) /\ At(j) = "seeBatch"
           /\ CreateBatch(j) => Underway(j) /\ At(j) = "createBatch"
           /\ AskNews(j) => Underway(j) /\ At(j) = "askNews"
           /\ FindBatch(j) => Underway(j) /\ At(j) = "findBatch"
           /\ InsertBatch(j) => Underway(j) /\ At(j) = "insertBatch"
           /\ DeleteItems(j) => Underway(j) /\ At(j) = "deleteItems"
           /\ UpdateBatch(j) => Underway(j) /\ At(j) = "updateBatch"
           /\ CreateItems(j) => Underway(j) /\ At(j) = "createItems"
           /\ Write(j) => Underway(j) /\ At(j) = "write"
           /\ AskPdf(j) => Underway(j) /\ At(j) = "askPdf"
           /\ FindLesson(j) => Underway(j) /\ At(j) = "findLesson"
           /\ DeleteLesson(j) => Underway(j) /\ At(j) = "deleteLesson"
           /\ FindFund(j) => Underway(j) /\ At(j) = "findFund"
           /\ Analyze(j) => Underway(j) /\ At(j) = "analyze"
           /\ CreateReport(j) => Underway(j) /\ At(j) = "createReport"
           /\ ReportLessons(j) => Underway(j) /\ At(j) = "reportLessons"
           /\ DeleteHoldings(j) => Underway(j) /\ At(j) = "deleteHoldings"
           /\ CreateHoldings(j) => Underway(j) /\ At(j) = "createHoldings"
           /\ FindReport(j) => Underway(j) /\ At(j) = "findReport"
           /\ DeleteReport(j) => Underway(j) /\ At(j) = "deleteReport"
           /\ ReadReports(j) => Underway(j) /\ At(j) = "readReports"
           /\ Compare(j) => Underway(j) /\ At(j) = "compare"
           /\ SwitchFund(j) => Underway(j) /\ At(j) = "switchFund"
           /\ ClaimForex(j) => Underway(j) /\ At(j) = "claimForex"
           /\ AskQuotes(j) => Underway(j) /\ At(j) = "quotes"
           /\ Capture(j) => Underway(j) /\ At(j) = "capture"
           /\ ReadOld(j) => Underway(j) /\ At(j) = "readOld"
           /\ DeleteOld(j) => Underway(j) /\ At(j) = "deleteOld"
<1>1. UpsertSpot(j) => Underway(j) /\ At(j) = "upsertSpot"
  BY DEF UpsertSpot, Step, At
<1>2. MacroPrev(j) => Underway(j) /\ At(j) = "macroPrev"
  BY DEF MacroPrev, Step, At
<1>3. MacroUsd(j) => Underway(j) /\ At(j) = "macroUsd"
  BY DEF MacroUsd, Step, At
<1>4. ReadRates(j) => Underway(j) /\ At(j) = "readRates"
  BY DEF ReadRates, Step, At
<1>5. ReadBars(j) => Underway(j) /\ At(j) = "readBars"
  BY DEF ReadBars, Step, At
<1>6. WriteRow(j) => Underway(j) /\ At(j) = "writeRows"
  BY DEF WriteRow, Step, At
<1>7. PruneRows(j) => Underway(j) /\ At(j) = "pruneRows"
  BY DEF PruneRows, Step, At
<1>8. CheckSpot(j) => Underway(j) /\ At(j) = "checkSpot"
  BY DEF CheckSpot, Step, At
<1>9. ClaimSpot(j) => Underway(j) /\ At(j) = "claimSpot"
  BY DEF ClaimSpot, Step, At
<1>10. FetchSpot(j) => Underway(j) /\ At(j) = "fetchSpot"
  BY DEF FetchSpot, Step, At
<1>11. Enter(j) => Underway(j) /\ At(j) = "enter"
  BY DEF Enter, Step, At
<1>12. MacroBase(j) => Underway(j) /\ At(j) = "macroBase"
  BY DEF MacroBase, Step, At
<1>13. MacroPut(j) => Underway(j) /\ At(j) = "macroPut"
  BY DEF MacroPut, Step, At
<1>14. History(j) => Underway(j) /\ At(j) = "history"
  BY DEF History, Step, At, StoreBars
<1>15. Live(j) => Underway(j) /\ At(j) = "live"
  BY DEF Live, Step, At, StoreBars
<1>16. CheckWorld(j) => Underway(j) /\ At(j) = "checkWorld"
  BY DEF CheckWorld, Step, At
<1>17. ClaimWorld(j) => Underway(j) /\ At(j) = "claimWorld"
  BY DEF ClaimWorld, Step, At
<1>18. Pages(j) => Underway(j) /\ At(j) = "pages"
  BY DEF Pages, Step, At
<1>19. Replace(j) => Underway(j) /\ At(j) = "replace"
  BY DEF Replace, Step, At
<1>20. CountNews(j) => Underway(j) /\ At(j) = "countNews"
  BY DEF CountNews, Step, At
<1>21. AskWorld(j) => Underway(j) /\ At(j) = "askWorld"
  BY DEF AskWorld, Step, At
<1>22. StoreWorldNews(j) => Underway(j) /\ At(j) = "storeWorldNews"
  BY DEF StoreWorldNews, Step, At
<1>23. ClaimYahoo(j) => Underway(j) /\ At(j) = "claimYahoo"
  BY DEF ClaimYahoo, Step, At
<1>24. Yahoo(j) => Underway(j) /\ At(j) = "yahoo"
  BY DEF Yahoo, Step, At
<1>25. WriteDiffs(j) => Underway(j) /\ At(j) = "writeDiffs"
  BY DEF WriteDiffs, Step, At
<1>26. ReadTitles(j) => Underway(j) /\ At(j) = "readTitles"
  BY DEF ReadTitles, Step, At
<1>27. AddLesson(j) => Underway(j) /\ At(j) = "addLessons"
  BY DEF AddLesson, Step, At
<1>28. ClaimNews(j) => Underway(j) /\ At(j) = "claimNews"
  BY DEF ClaimNews, Step, At
<1>29. SeeBatch(j) => Underway(j) /\ At(j) = "seeBatch"
  BY DEF SeeBatch, Step, At
<1>30. CreateBatch(j) => Underway(j) /\ At(j) = "createBatch"
  BY DEF CreateBatch, Step, At
<1>31. AskNews(j) => Underway(j) /\ At(j) = "askNews"
  BY DEF AskNews, Step, At
<1>32. FindBatch(j) => Underway(j) /\ At(j) = "findBatch"
  BY DEF FindBatch, Step, At
<1>33. InsertBatch(j) => Underway(j) /\ At(j) = "insertBatch"
  BY DEF InsertBatch, Step, At
<1>34. DeleteItems(j) => Underway(j) /\ At(j) = "deleteItems"
  BY DEF DeleteItems, Step, At
<1>35. UpdateBatch(j) => Underway(j) /\ At(j) = "updateBatch"
  BY DEF UpdateBatch, Step, At
<1>36. CreateItems(j) => Underway(j) /\ At(j) = "createItems"
  BY DEF CreateItems, Step, At
<1>37. Write(j) => Underway(j) /\ At(j) = "write"
  BY DEF Write, Step, At
<1>38. AskPdf(j) => Underway(j) /\ At(j) = "askPdf"
  BY DEF AskPdf, Step, At
<1>39. FindLesson(j) => Underway(j) /\ At(j) = "findLesson"
  BY DEF FindLesson, Step, At
<1>40. DeleteLesson(j) => Underway(j) /\ At(j) = "deleteLesson"
  BY DEF DeleteLesson, Step, At
<1>41. FindFund(j) => Underway(j) /\ At(j) = "findFund"
  BY DEF FindFund, Step, At
<1>42. Analyze(j) => Underway(j) /\ At(j) = "analyze"
  BY DEF Analyze, Step, At
<1>43. CreateReport(j) => Underway(j) /\ At(j) = "createReport"
  BY DEF CreateReport, Step, At
<1>44. ReportLessons(j) => Underway(j) /\ At(j) = "reportLessons"
  BY DEF ReportLessons, Step, At
<1>45. DeleteHoldings(j) => Underway(j) /\ At(j) = "deleteHoldings"
  BY DEF DeleteHoldings, Step, At
<1>46. CreateHoldings(j) => Underway(j) /\ At(j) = "createHoldings"
  BY DEF CreateHoldings, Step, At
<1>47. FindReport(j) => Underway(j) /\ At(j) = "findReport"
  BY DEF FindReport, Step, At
<1>48. DeleteReport(j) => Underway(j) /\ At(j) = "deleteReport"
  BY DEF DeleteReport, Step, At
<1>49. ReadReports(j) => Underway(j) /\ At(j) = "readReports"
  BY DEF ReadReports, Step, At
<1>50. Compare(j) => Underway(j) /\ At(j) = "compare"
  BY DEF Compare, Step, At
<1>51. SwitchFund(j) => Underway(j) /\ At(j) = "switchFund"
  BY DEF SwitchFund, Step, At
<1>52. ClaimForex(j) => Underway(j) /\ At(j) = "claimForex"
  BY DEF ClaimForex, Step, At
<1>53. AskQuotes(j) => Underway(j) /\ At(j) = "quotes"
  BY DEF AskQuotes, Step, At
<1>54. Capture(j) => Underway(j) /\ At(j) = "capture"
  BY DEF Capture, Step, At
<1>55. ReadOld(j) => Underway(j) /\ At(j) = "readOld"
  BY DEF ReadOld, Step, At
<1>56. DeleteOld(j) => Underway(j) /\ At(j) = "deleteOld"
  BY DEF DeleteOld, Step, At
<1> QED
  BY <1>1, <1>2, <1>3, <1>4, <1>5, <1>6, <1>7, <1>8, <1>9, <1>10, <1>11, <1>12, <1>13, <1>14, <1>15, <1>16, <1>17, <1>18, <1>19, <1>20, <1>21, <1>22, <1>23, <1>24, <1>25, <1>26, <1>27, <1>28, <1>29, <1>30, <1>31, <1>32, <1>33, <1>34, <1>35, <1>36, <1>37, <1>38, <1>39, <1>40, <1>41, <1>42, <1>43, <1>44, <1>45, <1>46, <1>47, <1>48, <1>49, <1>50, <1>51, <1>52, <1>53, <1>54, <1>55, <1>56

LEMMA Framed ==
    ASSUME NEW j, Does(j)
    PROVE  Underway(j) /\ Frame(At(j))
<1>1. ASSUME UpsertSpot(j), UNCHANGED readingVars PROVE Frame("upsertSpot")
  BY <1>1 DEF UpsertSpot, Frame, quoteVars, readingVars, Elsewhere
<1>2. ASSUME MacroPrev(j), UNCHANGED readingVars PROVE Frame("macroPrev")
  BY <1>2 DEF MacroPrev, Frame, quoteVars, readingVars, Elsewhere
<1>3. ASSUME MacroUsd(j), UNCHANGED readingVars PROVE Frame("macroUsd")
  BY <1>3 DEF MacroUsd, Frame, quoteVars, readingVars, Elsewhere
<1>4. ASSUME ReadRates(j), UNCHANGED readingVars PROVE Frame("readRates")
  BY <1>4 DEF ReadRates, Frame, quoteVars, readingVars, Elsewhere
<1>5. ASSUME ReadBars(j), UNCHANGED readingVars PROVE Frame("readBars")
  BY <1>5 DEF ReadBars, Frame, quoteVars, readingVars, Elsewhere
<1>6. ASSUME WriteRow(j), UNCHANGED readingVars PROVE Frame("writeRows")
  BY <1>6 DEF WriteRow, Frame, quoteVars, readingVars, Elsewhere
<1>7. ASSUME PruneRows(j), UNCHANGED readingVars PROVE Frame("pruneRows")
  BY <1>7 DEF PruneRows, Frame, quoteVars, readingVars, Elsewhere
<1>8. ASSUME CheckSpot(j), UNCHANGED readingVars PROVE Frame("checkSpot")
  BY <1>8 DEF CheckSpot, Frame, quoteVars, readingVars, Elsewhere
<1>9. ASSUME ClaimSpot(j), UNCHANGED readingVars PROVE Frame("claimSpot")
  BY <1>9 DEF ClaimSpot, Frame, quoteVars, readingVars, Elsewhere
<1>10. ASSUME FetchSpot(j), UNCHANGED readingVars PROVE Frame("fetchSpot")
  BY <1>10 DEF FetchSpot, Frame, quoteVars, readingVars, Elsewhere
<1>11. ASSUME Enter(j), UNCHANGED readingVars PROVE Frame("enter")
  BY <1>11 DEF Enter, Frame, quoteVars, readingVars, Elsewhere
<1>12. ASSUME MacroBase(j), UNCHANGED readingVars PROVE Frame("macroBase")
  BY <1>12 DEF MacroBase, Frame, quoteVars, readingVars, Elsewhere
<1>13. ASSUME MacroPut(j), UNCHANGED readingVars PROVE Frame("macroPut")
  BY <1>13 DEF MacroPut, Frame, quoteVars, readingVars, Elsewhere
<1>14. ASSUME History(j), UNCHANGED readingVars PROVE Frame("history")
  BY <1>14 DEF History, Frame, quoteVars, readingVars, Elsewhere, StoreBars
<1>15. ASSUME Live(j), UNCHANGED readingVars PROVE Frame("live")
  BY <1>15 DEF Live, Frame, quoteVars, readingVars, Elsewhere, StoreBars
<1>16. ASSUME CheckWorld(j), UNCHANGED readingVars PROVE Frame("checkWorld")
  BY <1>16 DEF CheckWorld, Frame, quoteVars, readingVars, Elsewhere
<1>17. ASSUME ClaimWorld(j), UNCHANGED readingVars PROVE Frame("claimWorld")
  BY <1>17 DEF ClaimWorld, Frame, quoteVars, readingVars, Elsewhere
<1>18. ASSUME Pages(j), UNCHANGED readingVars PROVE Frame("pages")
  BY <1>18 DEF Pages, Frame, quoteVars, readingVars, Elsewhere
<1>19. ASSUME Replace(j), UNCHANGED readingVars PROVE Frame("replace")
  BY <1>19 DEF Replace, Frame, quoteVars, readingVars, Elsewhere
<1>20. ASSUME CountNews(j), UNCHANGED readingVars PROVE Frame("countNews")
  BY <1>20 DEF CountNews, Frame, quoteVars, readingVars, Elsewhere
<1>21. ASSUME AskWorld(j), UNCHANGED readingVars PROVE Frame("askWorld")
  BY <1>21 DEF AskWorld, Frame, quoteVars, readingVars, Elsewhere
<1>22. ASSUME StoreWorldNews(j), UNCHANGED readingVars PROVE Frame("storeWorldNews")
  BY <1>22 DEF StoreWorldNews, Frame, quoteVars, readingVars, Elsewhere
<1>23. ASSUME ClaimYahoo(j), UNCHANGED readingVars PROVE Frame("claimYahoo")
  BY <1>23 DEF ClaimYahoo, Frame, quoteVars, readingVars, Elsewhere
<1>24. ASSUME Yahoo(j), UNCHANGED readingVars PROVE Frame("yahoo")
  BY <1>24 DEF Yahoo, Frame, quoteVars, readingVars, Elsewhere
<1>25. ASSUME WriteDiffs(j), UNCHANGED readingVars PROVE Frame("writeDiffs")
  BY <1>25 DEF WriteDiffs, Frame, quoteVars, readingVars, Elsewhere
<1>26. ASSUME ReadTitles(j), UNCHANGED readingVars PROVE Frame("readTitles")
  BY <1>26 DEF ReadTitles, Frame, quoteVars, readingVars, Elsewhere
<1>27. ASSUME AddLesson(j), UNCHANGED readingVars PROVE Frame("addLessons")
  BY <1>27 DEF AddLesson, Frame, quoteVars, readingVars, Elsewhere
<1>28. ASSUME ClaimNews(j) PROVE Frame("claimNews")
  BY <1>28 DEF ClaimNews, Frame, quoteVars, readingVars, Elsewhere
<1>29. ASSUME SeeBatch(j) PROVE Frame("seeBatch")
  BY <1>29 DEF SeeBatch, Frame, quoteVars, readingVars, Elsewhere
<1>30. ASSUME CreateBatch(j) PROVE Frame("createBatch")
  BY <1>30 DEF CreateBatch, Frame, quoteVars, readingVars, Elsewhere
<1>31. ASSUME AskNews(j) PROVE Frame("askNews")
  BY <1>31 DEF AskNews, Frame, quoteVars, readingVars, Elsewhere
<1>32. ASSUME FindBatch(j) PROVE Frame("findBatch")
  BY <1>32 DEF FindBatch, Frame, quoteVars, readingVars, Elsewhere
<1>33. ASSUME InsertBatch(j) PROVE Frame("insertBatch")
  BY <1>33 DEF InsertBatch, Frame, quoteVars, readingVars, Elsewhere
<1>34. ASSUME DeleteItems(j) PROVE Frame("deleteItems")
  BY <1>34 DEF DeleteItems, Frame, quoteVars, readingVars, Elsewhere
<1>35. ASSUME UpdateBatch(j) PROVE Frame("updateBatch")
  BY <1>35 DEF UpdateBatch, Frame, quoteVars, readingVars, Elsewhere
<1>36. ASSUME CreateItems(j) PROVE Frame("createItems")
  BY <1>36 DEF CreateItems, Frame, quoteVars, readingVars, Elsewhere
<1>37. ASSUME Write(j) PROVE Frame("write")
  BY <1>37 DEF Write, Frame, quoteVars, readingVars, Elsewhere
<1>38. ASSUME AskPdf(j) PROVE Frame("askPdf")
  BY <1>38 DEF AskPdf, Frame, quoteVars, readingVars, Elsewhere
<1>39. ASSUME FindLesson(j) PROVE Frame("findLesson")
  BY <1>39 DEF FindLesson, Frame, quoteVars, readingVars, Elsewhere
<1>40. ASSUME DeleteLesson(j) PROVE Frame("deleteLesson")
  BY <1>40 DEF DeleteLesson, Frame, quoteVars, readingVars, Elsewhere
<1>41. ASSUME FindFund(j) PROVE Frame("findFund")
  BY <1>41 DEF FindFund, Frame, quoteVars, readingVars, Elsewhere
<1>42. ASSUME Analyze(j) PROVE Frame("analyze")
  BY <1>42 DEF Analyze, Frame, quoteVars, readingVars, Elsewhere
<1>43. ASSUME CreateReport(j) PROVE Frame("createReport")
  BY <1>43 DEF CreateReport, Frame, quoteVars, readingVars, Elsewhere
<1>44. ASSUME ReportLessons(j) PROVE Frame("reportLessons")
  BY <1>44 DEF ReportLessons, Frame, quoteVars, readingVars, Elsewhere
<1>45. ASSUME DeleteHoldings(j) PROVE Frame("deleteHoldings")
  BY <1>45 DEF DeleteHoldings, Frame, quoteVars, readingVars, Elsewhere
<1>46. ASSUME CreateHoldings(j) PROVE Frame("createHoldings")
  BY <1>46 DEF CreateHoldings, Frame, quoteVars, readingVars, Elsewhere
<1>47. ASSUME FindReport(j) PROVE Frame("findReport")
  BY <1>47 DEF FindReport, Frame, quoteVars, readingVars, Elsewhere
<1>48. ASSUME DeleteReport(j) PROVE Frame("deleteReport")
  BY <1>48 DEF DeleteReport, Frame, quoteVars, readingVars, Elsewhere
<1>49. ASSUME ReadReports(j) PROVE Frame("readReports")
  BY <1>49 DEF ReadReports, Frame, quoteVars, readingVars, Elsewhere
<1>50. ASSUME Compare(j) PROVE Frame("compare")
  BY <1>50 DEF Compare, Frame, quoteVars, readingVars, Elsewhere
<1>51. ASSUME SwitchFund(j) PROVE Frame("switchFund")
  BY <1>51 DEF SwitchFund, Frame, quoteVars, readingVars, Elsewhere
<1>52. ASSUME ClaimForex(j) PROVE Frame("claimForex")
  BY <1>52 DEF ClaimForex, Frame, quoteVars, readingVars, Elsewhere
<1>53. ASSUME AskQuotes(j) PROVE Frame("quotes")
  BY <1>53 DEF AskQuotes, Frame, quoteVars, readingVars, Elsewhere
<1>54. ASSUME Capture(j) PROVE Frame("capture")
  BY <1>54 DEF Capture, Frame, quoteVars, readingVars, Elsewhere
<1>55. ASSUME ReadOld(j) PROVE Frame("readOld")
  BY <1>55 DEF ReadOld, Frame, quoteVars, readingVars, Elsewhere
<1>56. ASSUME DeleteOld(j) PROVE Frame("deleteOld")
  BY <1>56 DEF DeleteOld, Frame, quoteVars, readingVars, Elsewhere
<1>57. CASE QuoteStep(j) /\ UNCHANGED readingVars
  BY <1>57, Named, <1>1, <1>2, <1>3, <1>4, <1>5, <1>6, <1>7, <1>8, <1>9, <1>10, <1>11, <1>12, <1>13, <1>14, <1>15, <1>16, <1>17, <1>18, <1>19, <1>20, <1>21, <1>22, <1>23, <1>24, <1>25, <1>26, <1>27 DEF QuoteStep
<1>58. CASE ReadingStep(j)
  BY <1>58, Named, <1>28, <1>29, <1>30, <1>31, <1>32, <1>33, <1>34, <1>35, <1>36, <1>37, <1>38, <1>39, <1>40, <1>41, <1>42, <1>43, <1>44, <1>45, <1>46, <1>47, <1>48, <1>49, <1>50, <1>51, <1>52, <1>53, <1>54, <1>55, <1>56 DEF ReadingStep
<1> QED
  BY <1>57, <1>58 DEF Does

(* What the steps make of the jobs.                                         *)
Claiming == {"claimWorld", "claimYahoo", "claimSpot", "claimNews", "claimForex"}
Moves(j) ==
    /\ Remains(j) /\ (At(j) # "pages" => job'[j].day = job[j].day)
    /\ \/ Door(job[j].kind, At(j)') \/ Way(job[j].kind, At(j), At(j)')
       \/ job'[j].todo = job[j].todo
Grabs(j, f) == Takes(j, f) /\ At(j) \in Claiming /\ (f \in Locks => f \notin flags)
Turns(j) == Quits(j) \/ Moves(j) \/ \E f \in Locks \cup {"spot"} : Grabs(j, f)

LEMMA Views ==
    ASSUME JobInv, NEW j \in Jobs, Underway(j), NEW u, NEW v, NEW w
    PROVE  /\ SeenShape(Saw(j)) /\ SeenShape([Saw(j) EXCEPT !.interest = v]) /\ SeenShape([Saw(j) EXCEPT !.points = v])
           /\ SeenShape([Saw(j) EXCEPT !.titles = v]) /\ SeenShape([Saw(j) EXCEPT !.reports = v])
           /\ SeenShape([Saw(j) EXCEPT !.usd = v, !.gold = w]) /\ SeenShape([Saw(j) EXCEPT !.usd = v, !.utc = w])
           /\ SeenShape([Saw(j) EXCEPT !.rates = v, !.written = w])
           /\ SeenShape([Saw(j) EXCEPT !.rates = u, !.points = v, !.written = w])
           /\ SeenShape([Saw(j) EXCEPT !.price = u, !.usd = v, !.gold = w])
<1>1. SeenShape(job[j].seen)
  BY Ongoing
<1> QED
  BY <1>1 DEF Saw, SeenShape, SeenFields

LEMMA Turn ==
    ASSUME JobInv, NEW j \in Jobs, Underway(j),
           \/ \E seen : SeenShape(seen) /\ Onward(j, seen)
           \/ Continues(j) \/ LeavesBlock(j) \/ Finishes(j) \/ Throws(j)
    PROVE  Turns(j)
<1>1. ASSUME NEW seen, SeenShape(seen), Onward(j, seen) PROVE Turns(j)
  <2>1. Passes(j, seen)
    BY <1>1, OnwardPasses
  <2> QED
    BY <2>1 DEF Passes, Turns, Moves
<1>2. CASE Continues(j)
  <2>1. Passes(j, job[j].seen)
    BY <1>2, ContinuesPasses
  <2> QED
    BY <2>1 DEF Passes, Turns, Moves
<1>3. CASE LeavesBlock(j)
  <2>1. Skips(j)
    BY <1>3, LeavesSkips
  <2> QED
    BY <2>1 DEF Skips, Turns, Moves
<1>4. CASE Finishes(j) \/ Throws(j)
  BY <1>4, EndsQuit DEF Turns
<1> QED
  BY <1>1, <1>2, <1>3, <1>4

LEMMA Turning0 ==
    ASSUME JobInv, NEW j \in Jobs
    PROVE  /\ MacroPrev(j) => Turns(j)
           /\ MacroUsd(j) => Turns(j)
           /\ ReadRates(j) => Turns(j)
           /\ ReadBars(j) => Turns(j)
           /\ PruneRows(j) => Turns(j)
           /\ CheckSpot(j) => Turns(j)
           /\ FetchSpot(j) => Turns(j)
           /\ MacroBase(j) => Turns(j)
           /\ MacroPut(j) => Turns(j)
           /\ History(j) => Turns(j)
           /\ Live(j) => Turns(j)
           /\ CheckWorld(j) => Turns(j)
           /\ Replace(j) => Turns(j)
           /\ CountNews(j) => Turns(j)
           /\ AskWorld(j) => Turns(j)
           /\ StoreWorldNews(j) => Turns(j)
           /\ Yahoo(j) => Turns(j)
           /\ WriteDiffs(j) => Turns(j)
           /\ ReadTitles(j) => Turns(j)
           /\ SeeBatch(j) => Turns(j)
           /\ CreateBatch(j) => Turns(j)
           /\ AskNews(j) => Turns(j)
           /\ InsertBatch(j) => Turns(j)
           /\ DeleteItems(j) => Turns(j)
           /\ UpdateBatch(j) => Turns(j)
           /\ CreateItems(j) => Turns(j)
           /\ Write(j) => Turns(j)
           /\ AskPdf(j) => Turns(j)
           /\ FindLesson(j) => Turns(j)
           /\ DeleteLesson(j) => Turns(j)
           /\ FindFund(j) => Turns(j)
           /\ Analyze(j) => Turns(j)
           /\ CreateReport(j) => Turns(j)
           /\ ReportLessons(j) => Turns(j)
           /\ DeleteHoldings(j) => Turns(j)
           /\ CreateHoldings(j) => Turns(j)
           /\ FindReport(j) => Turns(j)
           /\ DeleteReport(j) => Turns(j)
           /\ ReadReports(j) => Turns(j)
           /\ Compare(j) => Turns(j)
           /\ SwitchFund(j) => Turns(j)
           /\ AskQuotes(j) => Turns(j)
           /\ Capture(j) => Turns(j)
           /\ ReadOld(j) => Turns(j)
           /\ DeleteOld(j) => Turns(j)
<1>1. MacroPrev(j) => Turns(j)
  BY Zenon, Turn, Views DEF MacroPrev, Step
<1>2. MacroUsd(j) => Turns(j)
  BY Zenon, Turn, Views DEF MacroUsd, Step
<1>3. ReadRates(j) => Turns(j)
  BY Zenon, Turn, Views DEF ReadRates, Step
<1>4. ReadBars(j) => Turns(j)
  BY Zenon, Turn, Views DEF ReadBars, Step
<1>5. PruneRows(j) => Turns(j)
  BY Zenon, Turn, Views DEF PruneRows, Step
<1>6. CheckSpot(j) => Turns(j)
  BY Zenon, Turn, Views DEF CheckSpot, Step
<1>7. FetchSpot(j) => Turns(j)
  BY Zenon, Turn, Views DEF FetchSpot, Step
<1>8. MacroBase(j) => Turns(j)
  BY Zenon, Turn, Views DEF MacroBase, Step
<1>9. MacroPut(j) => Turns(j)
  BY Zenon, Turn, Views DEF MacroPut, Step
<1>10. History(j) => Turns(j)
  BY Zenon, Turn, Views DEF History, Step, StoreBars
<1>11. Live(j) => Turns(j)
  BY Zenon, Turn, Views DEF Live, Step, StoreBars
<1>12. CheckWorld(j) => Turns(j)
  BY Zenon, Turn, Views DEF CheckWorld, Step
<1>13. Replace(j) => Turns(j)
  BY Zenon, Turn, Views DEF Replace, Step
<1>14. CountNews(j) => Turns(j)
  BY Zenon, Turn, Views DEF CountNews, Step
<1>15. AskWorld(j) => Turns(j)
  BY Zenon, Turn, Views DEF AskWorld, Step
<1>16. StoreWorldNews(j) => Turns(j)
  BY Zenon, Turn, Views DEF StoreWorldNews, Step
<1>17. Yahoo(j) => Turns(j)
  BY Zenon, Turn, Views DEF Yahoo, Step
<1>18. WriteDiffs(j) => Turns(j)
  BY Zenon, Turn, Views DEF WriteDiffs, Step
<1>19. ReadTitles(j) => Turns(j)
  BY Zenon, Turn, Views DEF ReadTitles, Step
<1>20. SeeBatch(j) => Turns(j)
  BY Zenon, Turn, Views DEF SeeBatch, Step
<1>21. CreateBatch(j) => Turns(j)
  BY Zenon, Turn, Views DEF CreateBatch, Step
<1>22. AskNews(j) => Turns(j)
  BY Zenon, Turn, Views DEF AskNews, Step
<1>23. InsertBatch(j) => Turns(j)
  BY Zenon, Turn, Views DEF InsertBatch, Step
<1>24. DeleteItems(j) => Turns(j)
  BY Zenon, Turn, Views DEF DeleteItems, Step
<1>25. UpdateBatch(j) => Turns(j)
  BY Zenon, Turn, Views DEF UpdateBatch, Step
<1>26. CreateItems(j) => Turns(j)
  BY Zenon, Turn, Views DEF CreateItems, Step
<1>27. Write(j) => Turns(j)
  BY Zenon, Turn, Views DEF Write, Step
<1>28. AskPdf(j) => Turns(j)
  BY Zenon, Turn, Views DEF AskPdf, Step
<1>29. FindLesson(j) => Turns(j)
  BY Zenon, Turn, Views DEF FindLesson, Step
<1>30. DeleteLesson(j) => Turns(j)
  BY Zenon, Turn, Views DEF DeleteLesson, Step
<1>31. FindFund(j) => Turns(j)
  BY Zenon, Turn, Views DEF FindFund, Step
<1>32. Analyze(j) => Turns(j)
  BY Zenon, Turn, Views DEF Analyze, Step
<1>33. CreateReport(j) => Turns(j)
  BY Zenon, Turn, Views DEF CreateReport, Step
<1>34. ReportLessons(j) => Turns(j)
  BY Zenon, Turn, Views DEF ReportLessons, Step
<1>35. DeleteHoldings(j) => Turns(j)
  BY Zenon, Turn, Views DEF DeleteHoldings, Step
<1>36. CreateHoldings(j) => Turns(j)
  BY Zenon, Turn, Views DEF CreateHoldings, Step
<1>37. FindReport(j) => Turns(j)
  BY Zenon, Turn, Views DEF FindReport, Step
<1>38. DeleteReport(j) => Turns(j)
  BY Zenon, Turn, Views DEF DeleteReport, Step
<1>39. ReadReports(j) => Turns(j)
  BY Zenon, Turn, Views DEF ReadReports, Step
<1>40. Compare(j) => Turns(j)
  BY Zenon, Turn, Views DEF Compare, Step
<1>41. SwitchFund(j) => Turns(j)
  BY Zenon, Turn, Views DEF SwitchFund, Step
<1>42. AskQuotes(j) => Turns(j)
  BY Zenon, Turn, Views DEF AskQuotes, Step
<1>43. Capture(j) => Turns(j)
  BY Zenon, Turn, Views DEF Capture, Step
<1>44. ReadOld(j) => Turns(j)
  BY Zenon, Turn, Views DEF ReadOld, Step
<1>45. DeleteOld(j) => Turns(j)
  BY Zenon, Turn, Views DEF DeleteOld, Step
<1> QED
  BY <1>1, <1>2, <1>3, <1>4, <1>5, <1>6, <1>7, <1>8, <1>9, <1>10, <1>11, <1>12, <1>13, <1>14, <1>15, <1>16, <1>17, <1>18, <1>19, <1>20, <1>21, <1>22, <1>23, <1>24, <1>25, <1>26, <1>27, <1>28, <1>29, <1>30, <1>31, <1>32, <1>33, <1>34, <1>35, <1>36, <1>37, <1>38, <1>39, <1>40, <1>41, <1>42, <1>43, <1>44, <1>45

LEMMA ClaimsGrab ==
    ASSUME JobInv, NEW j \in Jobs, Underway(j), At(j) \in Claiming, NEW f \in Locks \cup {"spot"}, f \in Locks => f \notin flags,
           Claims(j, f)
    PROVE  Turns(j) /\ Grabs(j, f)
<1> DEFINE rec == [job[j] EXCEPT !.todo = Rest(j), !.holds = {f}]
<1>1. job = [k \in Jobs |-> job[k]]
  BY DEF JobInv
<1>2. job' = [job EXCEPT ![j] = rec] /\ flags' = flags \cup {f}
  BY <1>1 DEF Claims
<1>3. Shape(job[j]) /\ job[j].at = "run"
  BY Ongoing DEF Underway
<1>4. /\ Shape(rec) /\ rec.seen = job[j].seen /\ rec.at = "run" /\ rec.todo = Rest(j) /\ rec.holds = {f}
      /\ rec.kind = job[j].kind /\ rec.alone = job[j].alone /\ rec.day = job[j].day
  BY <1>3 DEF Shape, Fields
<1> HIDE DEF rec
<1>5. SeenShape(rec.seen) /\ At(j) \in Midst
  BY <1>4, Ongoing DEF Claiming, Midst
<1>6. Takes(j, f)
  BY <1>2, <1>4, <1>5, ClaimsTakes
<1> QED
  BY <1>6 DEF Grabs, Turns

LEMMA TurnClaims ==
    ASSUME JobInv, NEW j \in Jobs
    PROVE  /\ ClaimWorld(j) => Turns(j) /\ (Quits(j) \/ Grabs(j, "world"))
           /\ ClaimSpot(j) => Turns(j) /\ (Quits(j) \/ Grabs(j, "spot"))
           /\ ClaimNews(j) => Turns(j) /\ (Quits(j) \/ Grabs(j, "news"))
           /\ ClaimForex(j) => Turns(j) /\ (Quits(j) \/ Grabs(j, "forex"))
           /\ ClaimYahoo(j) => Turns(j) /\ (Quits(j) \/ Grabs(j, "yahoo"))
<1>1. ASSUME ClaimWorld(j) PROVE Turns(j) /\ (Quits(j) \/ Grabs(j, "world"))
  <2>1. Underway(j) /\ At(j) \in Claiming /\ "world" \in Locks
    BY <1>1 DEF ClaimWorld, Step, At, Claiming, Locks
  <2>2. Throws(j) \/ (Claims(j, "world") /\ "world" \notin flags)
    BY <1>1 DEF ClaimWorld
  <2> QED
    BY <2>1, <2>2, ClaimsGrab, EndsQuit DEF Turns
<1>2. ASSUME ClaimSpot(j) PROVE Turns(j) /\ (Quits(j) \/ Grabs(j, "spot"))
  <2>1. Underway(j) /\ At(j) \in Claiming /\ "spot" \notin Locks
    BY <1>2 DEF ClaimSpot, Step, At, Claiming, Locks
  <2>2. Finishes(j) \/ Claims(j, "spot")
    BY <1>2 DEF ClaimSpot
  <2> QED
    BY <2>1, <2>2, ClaimsGrab, EndsQuit DEF Turns
<1>3. ASSUME ClaimNews(j) PROVE Turns(j) /\ (Quits(j) \/ Grabs(j, "news"))
  <2>1. Underway(j) /\ At(j) \in Claiming /\ "news" \in Locks
    BY <1>3 DEF ClaimNews, Step, At, Claiming, Locks
  <2>2. Finishes(j) \/ (Claims(j, "news") /\ "news" \notin flags)
    BY <1>3 DEF ClaimNews
  <2> QED
    BY <2>1, <2>2, ClaimsGrab, EndsQuit DEF Turns
<1>4. ASSUME ClaimForex(j) PROVE Turns(j) /\ (Quits(j) \/ Grabs(j, "forex"))
  <2>1. Underway(j) /\ At(j) \in Claiming /\ "forex" \in Locks
    BY <1>4 DEF ClaimForex, Step, At, Claiming, Locks
  <2>2. Finishes(j) \/ (Claims(j, "forex") /\ "forex" \notin flags)
    BY <1>4 DEF ClaimForex
  <2> QED
    BY <2>1, <2>2, ClaimsGrab, EndsQuit DEF Turns
<1>5. ASSUME ClaimYahoo(j) PROVE Turns(j) /\ (Quits(j) \/ Grabs(j, "yahoo"))
  <2>1. Underway(j) /\ At(j) \in Claiming /\ At(j) \in Midst /\ "yahoo" \in Locks
    BY <1>5 DEF ClaimYahoo, Step, At, Claiming, Midst, Locks
  <2>2. CASE Finishes(j)
    BY <2>1, <2>2, EndsQuit DEF Turns
  <2>3. CASE ~Finishes(j)
    <3> DEFINE rec == [job[j] EXCEPT !.todo = Rest(j), !.holds = {"yahoo"}, !.seen.price = world.price]
    <3>1. job = [k \in Jobs |-> job[k]]
      BY DEF JobInv
    <3>2. job' = [job EXCEPT ![j] = rec] /\ flags' = flags \cup {"yahoo"} /\ "yahoo" \notin flags
      BY <1>5, <2>3, <3>1 DEF ClaimYahoo
    <3>3. Shape(job[j]) /\ job[j].at = "run" /\ SeenShape(job[j].seen)
      BY <2>1, Ongoing DEF Underway
    <3>4. /\ Shape(rec) /\ rec.seen = [job[j].seen EXCEPT !.price = world.price] /\ rec.at = "run" /\ rec.todo = Rest(j)
          /\ rec.holds = {"yahoo"} /\ rec.kind = job[j].kind /\ rec.alone = job[j].alone /\ rec.day = job[j].day
      BY <3>3 DEF Shape, Fields
    <3> HIDE DEF rec
    <3>5. SeenShape(rec.seen)
      BY <3>3, <3>4 DEF SeenShape, SeenFields
    <3>6. Takes(j, "yahoo")
      BY <2>1, <3>2, <3>4, <3>5, ClaimsTakes
    <3> QED
      BY <2>1, <3>2, <3>6 DEF Grabs, Turns
  <2> QED
    BY <2>2, <2>3
<1> QED
  BY <1>1, <1>2, <1>3, <1>4, <1>5

(* What lies between two steps of a block.                                  *)
LEMMA MidstAfter ==
    ASSUME JobInv, NEW j \in Jobs, Underway(j), At(j) \in Midst
    PROVE  /\ Rest(j) # << >> /\ Path(job[j].kind, Rest(j)) /\ Len(Rest(j)) = Len(job[j].todo)
           /\ Way(job[j].kind, At(j), Head(Head(Rest(j))))
<1>1. Path(job[j].kind, job[j].todo) /\ Rest(j) = After(job[j].todo)
  BY Ongoing
<1> QED
  BY <1>1, ClaimAfter, PathAfter DEF At

LEMMA TurnPages ==
    ASSUME JobInv, NEW j \in Jobs, Pages(j)
    PROVE  /\ Turns(j)
           /\ \/ Quits(j)
              \/ Remains(j) /\ job'[j].day = today /\ Way(job[j].kind, "pages", At(j)')
<1>1. Underway(j) /\ At(j) = "pages" /\ At(j) \in Midst
  BY DEF Pages, Step, At, Midst
<1>2. CASE Throws(j)
  BY <1>1, <1>2, EndsQuit DEF Turns
<1>3. ASSUME NEW p, Becomes(j, [job[j] EXCEPT !.todo = Rest(j), !.seen.price = p, !.day = today])
      PROVE  Remains(j) /\ job'[j].day = today /\ Way(job[j].kind, "pages", At(j)')
  <2> DEFINE rec == [job[j] EXCEPT !.todo = Rest(j), !.seen.price = p, !.day = today]
  <2>1. Shape(job[j]) /\ job[j].at = "run" /\ SeenShape(job[j].seen)
    BY <1>1, Ongoing DEF Underway
  <2>2. /\ Shape(rec) /\ rec.seen = [job[j].seen EXCEPT !.price = p] /\ rec.at = "run" /\ rec.todo = Rest(j)
        /\ rec.holds = job[j].holds /\ rec.kind = job[j].kind /\ rec.alone = job[j].alone /\ rec.day = today
    BY <2>1 DEF Shape, Fields
  <2>3. Becomes(j, rec)
    BY <1>3
  <2> HIDE DEF rec
  <2>4. SeenShape(rec.seen)
    BY <2>1, <2>2 DEF SeenShape, SeenFields
  <2>5. Others(j) /\ Same(j) /\ job'[j] = rec /\ flags' = flags
    BY <1>1, <2>2, <2>3, <2>4, Becoming
  <2>6. Path(rec.kind, rec.todo) /\ Way(rec.kind, At(j), Head(Head(rec.todo))) /\ Len(rec.todo) = Len(job[j].todo)
    BY <1>1, <2>2, MidstAfter
  <2>7. Remains(j)
    BY <1>1, <2>2, <2>4, <2>5, <2>6, Remaining
  <2> QED
    BY <1>1, <2>2, <2>5, <2>6, <2>7 DEF At
<1>4. Throws(j) \/ \E p : Becomes(j, [job[j] EXCEPT !.todo = Rest(j), !.seen.price = p, !.day = today])
  BY DEF Pages
<1> QED
  BY <1>1, <1>2, <1>3, <1>4, EndsQuit DEF Turns, Moves

LEMMA TurnUpsertSpot ==
    ASSUME JobInv, NEW j \in Jobs, UpsertSpot(j)
    PROVE  Turns(j)
<1>1. Underway(j) /\ At(j) = "upsertSpot" /\ At(j) \in Midst
  BY DEF UpsertSpot, Step, At, Midst
<1>2. CASE LeavesBlock(j) \/ Finishes(j)
  BY <1>1, <1>2, Turn
<1>3. ASSUME Fails(j, Len(ScriptOfQuotes(job[j].kind))) PROVE Turns(j)
  <2>1. Throws(j) \/ LeavesBlock(j)
    BY <1>3 DEF Fails
  <2> QED
    BY <1>1, <2>1, Turn
<1>4. ASSUME NEW u, Becomes(j, [[job[j] EXCEPT !.seen.usd = u, !.rateDay = today] EXCEPT !.todo = Rest(j)])
      PROVE  Turns(j)
  <2> DEFINE rec == [[job[j] EXCEPT !.seen.usd = u, !.rateDay = today] EXCEPT !.todo = Rest(j)]
  <2>1. Shape(job[j]) /\ job[j].at = "run" /\ SeenShape(job[j].seen)
    BY <1>1, Ongoing DEF Underway
  <2>2. /\ Shape(rec) /\ rec.seen = [job[j].seen EXCEPT !.usd = u] /\ rec.at = "run" /\ rec.todo = Rest(j)
        /\ rec.holds = job[j].holds /\ rec.kind = job[j].kind /\ rec.alone = job[j].alone /\ rec.day = job[j].day
    BY <2>1 DEF Shape, Fields
  <2>3. Becomes(j, rec)
    BY <1>4
  <2> HIDE DEF rec
  <2>4. SeenShape(rec.seen)
    BY <2>1, <2>2 DEF SeenShape, SeenFields
  <2>5. Others(j) /\ Same(j) /\ job'[j] = rec /\ flags' = flags
    BY <1>1, <2>2, <2>3, <2>4, Becoming
  <2>6. Path(rec.kind, rec.todo) /\ Way(rec.kind, At(j), Head(Head(rec.todo))) /\ Len(rec.todo) = Len(job[j].todo)
    BY <1>1, <2>2, MidstAfter
  <2>7. Remains(j)
    BY <1>1, <2>2, <2>4, <2>5, <2>6, Remaining
  <2> QED
    BY <1>1, <2>2, <2>5, <2>6, <2>7 DEF At, Turns, Moves
<1>5. \/ LeavesBlock(j) \/ Finishes(j) \/ Fails(j, Len(ScriptOfQuotes(job[j].kind)))
      \/ \E u : Becomes(j, [[job[j] EXCEPT !.seen.usd = u, !.rateDay = today] EXCEPT !.todo = Rest(j)])
  BY DEF UpsertSpot
<1> QED
  BY <1>2, <1>3, <1>4, <1>5

(* Out of turn.                                                             *)
LEMMA TurnsAside ==
    ASSUME JobInv, NEW j \in Jobs, Underway(j), NEW todo, NEW seen, SeenShape(seen), Goes(j, todo, seen), todo # << >>,
           Path(job[j].kind, todo), Door(job[j].kind, Head(Head(todo)))
    PROVE  Turns(j) /\ Moves(j) /\ At(j)' = Head(Head(todo))
<1>1. Remains(j) /\ job'[j].todo = todo /\ job'[j].day = job[j].day
  BY GoesOn, SMTT(30)
<1> QED
  BY <1>1 DEF Turns, Moves, At

LEMMA TurnEnter ==
    ASSUME JobInv, NEW j \in Jobs, Enter(j)
    PROVE  Turns(j)
<1>1. Underway(j)
  BY DEF Enter, Step
<1> DEFINE aside == <<ScriptOfQuotes("macro")[3]>>
<1>2. \/ \E u, v : Onward(j, [Saw(j) EXCEPT !.usd = u, !.gold = v])
      \/ \E u, v : Onward(j, [Saw(j) EXCEPT !.usd = u, !.utc = v])
      \/ job[j].kind = "macro" /\ \E u, v : Goes(j, aside, [Saw(j) EXCEPT !.usd = u, !.utc = v])
  BY DEF Enter
<1>3. Path("macro", aside) /\ Head(Head(aside)) = "macroBase" /\ aside # << >> /\ Door("macro", "macroBase")
  BY OutOfTurn, Zenon DEF Door
<1> HIDE DEF aside
<1>4. ASSUME NEW u, NEW v PROVE SeenShape([Saw(j) EXCEPT !.usd = u, !.gold = v]) /\ SeenShape([Saw(j) EXCEPT !.usd = u, !.utc = v])
  BY <1>1, Views
<1>5. CASE job[j].kind = "macro" /\ \E u, v : Goes(j, aside, [Saw(j) EXCEPT !.usd = u, !.utc = v])
  <2>1. PICK u, v : Goes(j, aside, [Saw(j) EXCEPT !.usd = u, !.utc = v])
    BY <1>5
  <2> QED
    BY <1>1, <1>3, <1>4, <1>5, <2>1, TurnsAside
<1> QED
  BY <1>1, <1>2, <1>4, <1>5, Turn

LEMMA TurnFindBatch ==
    ASSUME JobInv, NEW j \in Jobs, FindBatch(j)
    PROVE  Turns(j)
<1>1. Underway(j) /\ At(j) = "findBatch"
  BY Zenon DEF FindBatch, Step, At
<1>2. job[j].kind \in {"newsTick", "newsForce"} /\ SeenShape(Saw(j))
  BY <1>1, Ongoing, Views DEF Place, Way, Door, FirstStep
<1> DEFINE aside == << <<"insertBatch", "createItems">> >>
<1>3. \/ Finishes(j) \/ Continues(j) \/ Goes(j, aside, Saw(j))
  BY DEF FindBatch
<1>4. Path(job[j].kind, aside) /\ Head(Head(aside)) = "insertBatch" /\ aside # << >> /\ Door(job[j].kind, "insertBatch")
  BY <1>2, OutOfTurn DEF Door
<1> HIDE DEF aside
<1> QED
  BY <1>1, <1>2, <1>3, <1>4, TurnsAside, Turn

(* Rows are written and lessons created one by one.                         *)
LEMMA Stays ==
    ASSUME JobInv, NEW j \in Jobs, Underway(j), NEW v, SeenShape(v), job' = [job EXCEPT ![j].seen = v], flags' = flags
    PROVE  Turns(j) /\ Moves(j) /\ job'[j] = [job[j] EXCEPT !.seen = v]
<1> DEFINE rec == [job[j] EXCEPT !.seen = v]
<1>1. job = [k \in Jobs |-> job[k]] /\ Sound(job[j])
  BY DEF JobInv
<1>2. Others(j) /\ job'[j] = rec
  BY <1>1 DEF Others
<1>3. Shape(job[j]) /\ job[j].at = "run" /\ Running(job[j]) /\ job[j].alone \in BOOLEAN
  BY <1>1 DEF Underway, Sound
<1>4. /\ Shape(rec) /\ rec.seen = v /\ rec.at = "run" /\ rec.todo = job[j].todo /\ rec.holds = job[j].holds
      /\ rec.kind = job[j].kind /\ rec.alone = job[j].alone /\ rec.day = job[j].day
  BY <1>3 DEF Shape, Fields
<1>5. job'[j] = [job[j] EXCEPT !.seen = v]
  BY <1>2
<1> HIDE DEF rec
<1>6. Running(rec)
  BY <1>3, <1>4 DEF Running
<1>7. Sound(rec)
  BY <1>3, <1>4, <1>6 DEF Sound
<1> QED
  BY <1>2, <1>4, <1>5, <1>7 DEF Turns, Moves, Remains, Same

LEMMA TurnWriteRow ==
    ASSUME JobInv, NEW j \in Jobs, WriteRow(j)
    PROVE  Turns(j)
<1>1. Underway(j)
  BY DEF WriteRow, Step
<1>2. CASE Due(j) = {}
  BY <1>1, <1>2, Turn DEF WriteRow
<1>3. CASE Due(j) # {}
  <2> DEFINE d == CHOOSE d \in Due(j) : \A e \in Due(j) : d <= e
             v == [job[j].seen EXCEPT !.written = @ \cup {d}]
  <2>1. SeenShape(job[j].seen)
    BY <1>1, Ongoing
  <2>2. SeenShape(v)
    BY <2>1 DEF SeenShape, SeenFields
  <2>3. job' = [job EXCEPT ![j].seen = v] /\ flags' = flags
    BY <1>3 DEF WriteRow
  <2> HIDE DEF v
  <2> QED
    BY <1>1, <2>2, <2>3, Stays
<1> QED
  BY <1>2, <1>3

LEMMA TurnAddLesson ==
    ASSUME JobInv, NEW j \in Jobs, AddLesson(j)
    PROVE  Turns(j)
<1>1. Underway(j)
  BY DEF AddLesson, Step
<1>2. PICK t \in Saw(j).titles : Finishes(j) \/ (job' = [job EXCEPT ![j].seen.titles = @ \ {t}] /\ UNCHANGED flags)
  BY DEF AddLesson
<1>3. CASE Finishes(j)
  BY <1>1, <1>3, Turn
<1>4. CASE job' = [job EXCEPT ![j].seen.titles = @ \ {t}] /\ UNCHANGED flags
  <2> DEFINE v == [job[j].seen EXCEPT !.titles = @ \ {t}]
  <2>1. SeenShape(job[j].seen)
    BY <1>1, Ongoing
  <2>2. SeenShape(v)
    BY <2>1 DEF SeenShape, SeenFields
  <2>3. job' = [job EXCEPT ![j].seen = v] /\ flags' = flags
    BY <1>4
  <2> HIDE DEF v
  <2> QED
    BY <1>1, <2>2, <2>3, Stays
<1> QED
  BY <1>2, <1>3, <1>4

LEMMA Turning ==
    ASSUME JobInv, NEW j \in Jobs, Does(j)
    PROVE  Underway(j) /\ Turns(j)
<1>1. Underway(j)
  BY Framed
<1>2. UpsertSpot(j) => Turns(j)
  BY TurnUpsertSpot
<1>3. MacroPrev(j) => Turns(j)
  BY Turning0
<1>4. MacroUsd(j) => Turns(j)
  BY Turning0
<1>5. ReadRates(j) => Turns(j)
  BY Turning0
<1>6. ReadBars(j) => Turns(j)
  BY Turning0
<1>7. WriteRow(j) => Turns(j)
  BY TurnWriteRow
<1>8. PruneRows(j) => Turns(j)
  BY Turning0
<1>9. CheckSpot(j) => Turns(j)
  BY Turning0
<1>10. ClaimSpot(j) => Turns(j)
  BY TurnClaims
<1>11. FetchSpot(j) => Turns(j)
  BY Turning0
<1>12. Enter(j) => Turns(j)
  BY TurnEnter
<1>13. MacroBase(j) => Turns(j)
  BY Turning0
<1>14. MacroPut(j) => Turns(j)
  BY Turning0
<1>15. History(j) => Turns(j)
  BY Turning0
<1>16. Live(j) => Turns(j)
  BY Turning0
<1>17. CheckWorld(j) => Turns(j)
  BY Turning0
<1>18. ClaimWorld(j) => Turns(j)
  BY TurnClaims
<1>19. Pages(j) => Turns(j)
  BY TurnPages
<1>20. Replace(j) => Turns(j)
  BY Turning0
<1>21. CountNews(j) => Turns(j)
  BY Turning0
<1>22. AskWorld(j) => Turns(j)
  BY Turning0
<1>23. StoreWorldNews(j) => Turns(j)
  BY Turning0
<1>24. ClaimYahoo(j) => Turns(j)
  BY TurnClaims
<1>25. Yahoo(j) => Turns(j)
  BY Turning0
<1>26. WriteDiffs(j) => Turns(j)
  BY Turning0
<1>27. ReadTitles(j) => Turns(j)
  BY Turning0
<1>28. AddLesson(j) => Turns(j)
  BY TurnAddLesson
<1>29. ClaimNews(j) => Turns(j)
  BY TurnClaims
<1>30. SeeBatch(j) => Turns(j)
  BY Turning0
<1>31. CreateBatch(j) => Turns(j)
  BY Turning0
<1>32. AskNews(j) => Turns(j)
  BY Turning0
<1>33. FindBatch(j) => Turns(j)
  BY TurnFindBatch
<1>34. InsertBatch(j) => Turns(j)
  BY Turning0
<1>35. DeleteItems(j) => Turns(j)
  BY Turning0
<1>36. UpdateBatch(j) => Turns(j)
  BY Turning0
<1>37. CreateItems(j) => Turns(j)
  BY Turning0
<1>38. Write(j) => Turns(j)
  BY Turning0
<1>39. AskPdf(j) => Turns(j)
  BY Turning0
<1>40. FindLesson(j) => Turns(j)
  BY Turning0
<1>41. DeleteLesson(j) => Turns(j)
  BY Turning0
<1>42. FindFund(j) => Turns(j)
  BY Turning0
<1>43. Analyze(j) => Turns(j)
  BY Turning0
<1>44. CreateReport(j) => Turns(j)
  BY Turning0
<1>45. ReportLessons(j) => Turns(j)
  BY Turning0
<1>46. DeleteHoldings(j) => Turns(j)
  BY Turning0
<1>47. CreateHoldings(j) => Turns(j)
  BY Turning0
<1>48. FindReport(j) => Turns(j)
  BY Turning0
<1>49. DeleteReport(j) => Turns(j)
  BY Turning0
<1>50. ReadReports(j) => Turns(j)
  BY Turning0
<1>51. Compare(j) => Turns(j)
  BY Turning0
<1>52. SwitchFund(j) => Turns(j)
  BY Turning0
<1>53. ClaimForex(j) => Turns(j)
  BY TurnClaims
<1>54. AskQuotes(j) => Turns(j)
  BY Turning0
<1>55. Capture(j) => Turns(j)
  BY Turning0
<1>56. ReadOld(j) => Turns(j)
  BY Turning0
<1>57. DeleteOld(j) => Turns(j)
  BY Turning0
<1> QED
  BY <1>1, <1>2, <1>3, <1>4, <1>5, <1>6, <1>7, <1>8, <1>9, <1>10, <1>11, <1>12, <1>13, <1>14, <1>15, <1>16, <1>17, <1>18, <1>19, <1>20, <1>21, <1>22, <1>23, <1>24, <1>25, <1>26, <1>27, <1>28, <1>29, <1>30, <1>31, <1>32, <1>33, <1>34, <1>35, <1>36, <1>37, <1>38, <1>39, <1>40, <1>41, <1>42, <1>43, <1>44, <1>45, <1>46, <1>47, <1>48, <1>49, <1>50, <1>51, <1>52, <1>53, <1>54, <1>55, <1>56, <1>57 DEF Does, QuoteStep, ReadingStep

----------------------------------------------------------------------------
(* What any step of the system makes of the jobs.                           *)
Starts(j) ==
    /\ job[j].at = "idle" /\ job[j].kind = "none"
    /\ job' = [k \in Jobs |-> job'[k]] /\ \A k \in Jobs \ {j} : job'[k] = [job[k] EXCEPT !.alone = FALSE]
    /\ Shape(job'[j]) /\ SeenShape(job'[j].seen) /\ job'[j].at = "run" /\ job'[j].kind \in Kinds
    /\ job'[j].todo = Script(job'[j].kind) /\ FirstStep(job'[j].kind, At(j)')
    /\ job'[j].holds = {} /\ job'[j].day = today /\ job'[j].alone \in BOOLEAN
    /\ job'[j].alone => \A i \in Jobs : ~Underway(i)
    /\ flags' = flags
Halts ==
    /\ job' = [k \in Jobs |-> job'[k]] /\ \A k \in Jobs : Sound(job'[k]) /\ Same(k) /\ job'[k].at # "run"
    /\ flags' = {}
Rests == job' = job /\ \A f \in Locks \cup {"spot"} : f \in flags' <=> f \in flags
JobStep ==
    \/ \E j \in Jobs : Underway(j) /\ Turns(j)
    \/ \E j \in Jobs : Starts(j)
    \/ Halts
    \/ Rests

LEMMA Starting ==
    ASSUME JobInv, NEW j \in Jobs, Start(j)
    PROVE  Starts(j)
<1>1. PICK kind \in Kinds : Begin(j, kind, Script(kind))
  BY DEF Start, Kinds
<1> DEFINE free == \A i \in Jobs : ~Underway(i)
           rec == [NoJob EXCEPT !.at = "run", !.kind = kind, !.todo = Script(kind), !.day = today, !.alone = free]
<1>2. /\ job[j].at = "idle" /\ flags' = flags
      /\ job' = [k \in Jobs |-> IF k = j THEN rec ELSE [job[k] EXCEPT !.alone = FALSE]]
  BY <1>1 DEF Begin
<1>3. /\ Shape(rec) /\ rec.seen = NothingSeen /\ rec.at = "run" /\ rec.kind = kind /\ rec.todo = Script(kind)
      /\ rec.holds = {} /\ rec.day = today /\ rec.alone = free
  BY DEF Shape, Fields, NoJob
<1>4. free \in BOOLEAN
  OBVIOUS
<1> HIDE DEF rec
<1>5. FirstStep(kind, Head(Head(Script(kind)))) /\ SeenShape(NothingSeen) /\ job[j].kind = "none"
  BY <1>2, Scripts, Nothing DEF JobInv, Sound
<1>6. job'[j] = rec /\ job' = [k \in Jobs |-> job'[k]] /\ \A k \in Jobs \ {j} : job'[k] = [job[k] EXCEPT !.alone = FALSE]
  BY <1>2
<1> QED
  BY <1>2, <1>3, <1>4, <1>5, <1>6 DEF Starts, At

LEMMA Halting ==
    ASSUME JobInv, Restart
    PROVE  Halts
<1>1. job' = [k \in Jobs |-> IF Underway(k) THEN Settled([job[k] EXCEPT !.at = "failed"]) ELSE job[k]] /\ flags' = {}
  BY DEF Restart
<1>2. ASSUME NEW k \in Jobs PROVE Sound(job'[k]) /\ Same(k) /\ job'[k].at # "run"
  <2>1. Sound(job[k])
    BY DEF JobInv
  <2>2. CASE Underway(k)
    <3> DEFINE rec == [job[k] EXCEPT !.at = "failed"]
               next == [rec EXCEPT !.todo = << >>, !.holds = {}, !.seen = NothingSeen]
    <3>1. Shape(job[k]) /\ job[k].alone \in BOOLEAN
      BY <2>1 DEF Sound
    <3>2. Shape(rec) /\ rec.at = "failed" /\ rec.kind = job[k].kind /\ rec.alone = job[k].alone
      BY <3>1 DEF Shape, Fields
    <3>3. job'[k] = next
      BY <1>1, <2>2, <3>2 DEF Settled
    <3> HIDE DEF rec
    <3>4. /\ Shape(next) /\ next.at = "failed" /\ next.kind = rec.kind /\ next.alone = rec.alone
          /\ next.todo = << >> /\ next.holds = {} /\ next.seen = NothingSeen
      BY <3>2 DEF Shape, Fields
    <3> HIDE DEF next
    <3> QED
      BY <3>1, <3>2, <3>3, <3>4, Nothing DEF Sound, Same
  <2>3. CASE ~Underway(k)
    BY <1>1, <2>1, <2>3 DEF Underway, Same
  <2> QED
    BY <2>2, <2>3
<1> QED
  BY <1>1, <1>2 DEF Halts

LEMMA Stepping ==
    ASSUME JobInv, [Next]_vars
    PROVE  JobStep
<1>1. CASE \E j \in Jobs : Does(j)
  BY <1>1, Turning DEF JobStep
<1>2. ASSUME NEW j \in Jobs, Start(j) PROVE JobStep
  BY <1>2, Starting DEF JobStep
<1>3. ASSUME NEW j \in Jobs, StatementFails(j) PROVE JobStep
  <2>1. Underway(j) /\ (Throws(j) \/ LeavesBlock(j))
    BY <1>3 DEF StatementFails, Fails
  <2> QED
    BY <2>1, Turn DEF JobStep
<1>4. CASE Midnight \/ Elapse
  BY <1>4 DEF JobStep, Rests, Locks, Midnight, Elapse
<1>5. CASE Restart
  BY <1>5, Halting DEF JobStep
<1>6. CASE UNCHANGED vars
  BY <1>6 DEF JobStep, Rests, vars, jobVars
<1> QED
  BY <1>1, <1>2, <1>3, <1>4, <1>5, <1>6 DEF Next, Does, Clockwork

(* An account of every step: whose it is, and what it leaves alone.         *)
LEMMA Accounting ==
    ASSUME [Next]_vars
    PROVE  \/ \E j \in Jobs : Does(j)
           \/ \E j \in Jobs : Start(j)
           \/ \E j \in Jobs : StatementFails(j)
           \/ (Midnight \/ Elapse \/ Restart) /\ UNCHANGED <<quoteVars, readingVars>>
           \/ UNCHANGED vars
BY DEF Next, Does, Clockwork

(* What the disturbed job keeps.                                            *)
LEMMA Unaccompanied ==
    ASSUME NEW rec, Sound(rec), NEW b \in BOOLEAN
    PROVE  LET new == [rec EXCEPT !.alone = b] IN
           /\ Sound(new) /\ new.at = rec.at /\ new.kind = rec.kind /\ new.todo = rec.todo /\ new.day = rec.day
           /\ new.rateDay = rec.rateDay /\ new.holds = rec.holds /\ new.seen = rec.seen /\ new.alone = b
<1> DEFINE new == [rec EXCEPT !.alone = b]
<1>1. Shape(rec)
  BY DEF Sound
<1>2. /\ Shape(new) /\ new.at = rec.at /\ new.kind = rec.kind /\ new.todo = rec.todo /\ new.day = rec.day
      /\ new.rateDay = rec.rateDay /\ new.holds = rec.holds /\ new.seen = rec.seen /\ new.alone = b
  BY <1>1 DEF Shape, Fields
<1> HIDE DEF new
<1>3. Sound(new)
  BY <1>2 DEF Sound, Running
<1>4. /\ Sound(new) /\ new.at = rec.at /\ new.kind = rec.kind /\ new.todo = rec.todo /\ new.day = rec.day
      /\ new.rateDay = rec.rateDay /\ new.holds = rec.holds /\ new.seen = rec.seen /\ new.alone = b
  BY <1>2, <1>3
<1> QED
  BY <1>4 DEF new

LEMMA StartsSound ==
    ASSUME JobInv, NEW j \in Jobs, Starts(j)
    PROVE  Sound(job'[j]) /\ \A k \in Jobs : Sound(job'[k])
<1> DEFINE rec == job'[j]
<1>1. /\ rec.kind \in Kinds /\ rec.todo = Script(rec.kind) /\ FirstStep(rec.kind, Head(Head(rec.todo))) /\ rec.holds = {}
      /\ Shape(rec) /\ SeenShape(rec.seen) /\ rec.at = "run" /\ rec.alone \in BOOLEAN
  BY DEF Starts, At
<1>2. Path(rec.kind, rec.todo)
  BY <1>1, Scripts
<1>3. Running(rec)
  BY <1>1, <1>2 DEF Running, Place, Holdings
<1>4. Sound(rec)
  BY <1>1, <1>3 DEF Sound
<1>5. ASSUME NEW k \in Jobs \ {j} PROVE Sound(job'[k])
  <2>1. job'[k] = [job[k] EXCEPT !.alone = FALSE] /\ Sound(job[k])
    BY DEF Starts, JobInv
  <2> QED
    BY <2>1, Unaccompanied
<1> QED
  BY <1>4, <1>5

LEMMA JobFirst == Init => JobInv
<1> SUFFICES ASSUME Init PROVE JobInv
  OBVIOUS
<1>1. job = [j \in Jobs |-> NoJob] /\ today = 1
  BY DEF Init, InitJobs
<1>2. 1 \in Days
  BY JobsAssumption DEF Days
<1>3. Sound(NoJob)
  BY Nothing DEF Sound, NoJob
<1> QED
  BY <1>1, <1>2, <1>3 DEF JobInv

LEMMA TodayStays ==
    ASSUME [Next]_vars, JobInv
    PROVE  today' \in Days /\ today' >= today /\ (today' # today => job' = job)
<1>0. today \in Days /\ today \in Int
  BY DEF JobInv, Days
<1>1. CASE \E j \in Jobs : Does(j)
  BY <1>0, <1>1, Framed DEF Frame
<1>2. CASE \E j \in Jobs : Start(j)
  <2>1. today' = today
    BY <1>2, Zenon DEF Start, Begin
  <2> QED
    BY <1>0, <2>1
<1>3. CASE \E j \in Jobs : StatementFails(j)
  BY <1>0, <1>3 DEF StatementFails
<1>4. CASE Midnight
  BY <1>0, <1>4, JobsAssumption DEF Midnight, Days
<1>5. CASE Elapse \/ Restart
  BY <1>0, <1>5 DEF Elapse, Restart
<1>6. CASE UNCHANGED vars
  BY <1>0, <1>6 DEF vars, jobVars
<1> QED
  BY <1>1, <1>2, <1>3, <1>4, <1>5, <1>6, Accounting

LEMMA TurnsOthers ==
    ASSUME NEW j \in Jobs, Turns(j)
    PROVE  Others(j) /\ Same(j) /\ Sound(job'[j])
BY DEF Turns, Quits, Moves, Remains, Grabs, Takes

LEMMA JobKept == JobInv /\ [Next]_vars => JobInv'
<1> SUFFICES ASSUME JobInv, [Next]_vars PROVE JobInv'
  OBVIOUS
<1>0. today' \in Days
  BY TodayStays
<1>1. ASSUME NEW j \in Jobs, Turns(j) PROVE job' = [k \in Jobs |-> job'[k]] /\ \A k \in Jobs : Sound(job'[k])
  BY <1>1, TurnsOthers DEF Others, JobInv
<1>2. ASSUME NEW j \in Jobs, Starts(j) PROVE job' = [k \in Jobs |-> job'[k]] /\ \A k \in Jobs : Sound(job'[k])
  BY <1>2, StartsSound DEF Starts
<1>3. CASE Halts
  BY <1>0, <1>3 DEF Halts, JobInv
<1>4. CASE Rests
  BY <1>0, <1>4 DEF Rests, JobInv
<1>5. JobStep
  BY Stepping
<1> QED
  BY <1>0, <1>1, <1>2, <1>3, <1>4, <1>5 DEF JobStep, JobInv

----------------------------------------------------------------------------
(* Fields as locks.                                                         *)
Free == Claiming \cup {"checkWorld", "checkSpot"}
FlagsInv ==
    /\ \A f \in Locks : \A i, j \in Jobs : f \in job[i].holds /\ f \in job[j].holds => i = j
    /\ \A f \in Locks : f \in flags <=> \E j \in Jobs : f \in job[j].holds
    /\ "spot" \in flags => \E j \in Jobs : "spot" \in job[j].holds
    /\ \A j \in Jobs : Underway(j) /\ At(j) \in Free => job[j].holds = {}

LEMMA FlagsFirst == Init => FlagsInv
BY DEF Init, InitJobs, FlagsInv, NoJob, Locks, Underway

LEMMA FreeBefore ==
    ASSUME NEW k, NEW s, NEW t, Way(k, s, t) \/ Door(k, t), t \in Free
    PROVE  Way(k, s, t) /\ s \in Free /\ s \notin Claiming
BY DEF Way, Door, Free, Claiming

LEMMA FlagsKept == JobInv /\ FlagsInv /\ [Next]_vars => FlagsInv'
<1> SUFFICES ASSUME JobInv, FlagsInv, [Next]_vars PROVE FlagsInv'
  OBVIOUS
<1>1. ASSUME NEW j \in Jobs, Underway(j), Turns(j) PROVE FlagsInv'
  <2>1. \A k \in Jobs \ {j} : job'[k] = job[k]
    BY <1>1, TurnsOthers DEF Others
  <2>2. \A k \in Jobs \ {j} : (Underway(k) <=> Underway(k)') /\ At(k)' = At(k) /\ job'[k].holds = job[k].holds
    BY <2>1 DEF Underway, At
  <2>3. CASE Quits(j)
    <3>1. job'[j].at # "run" /\ job'[j].holds = {}
      BY <2>3 DEF Quits, Sound
    <3>2. ~Underway(j)'
      BY <3>1 DEF Underway
    <3> QED
      BY <2>2, <2>3, <3>1, <3>2 DEF FlagsInv, Quits
  <2>4. CASE Moves(j)
    <3>1. job'[j].holds = job[j].holds /\ flags' = flags
      BY <2>4 DEF Moves, Remains
    <3>2. At(j)' \in Free => job'[j].holds = {}
      <4>1. At(j)' = At(j) \/ Door(job[j].kind, At(j)') \/ Way(job[j].kind, At(j), At(j)')
        BY <2>4 DEF Moves, At
      <4> QED
        BY <1>1, <3>1, <4>1, FreeBefore DEF FlagsInv
    <3> QED
      BY <2>2, <3>1, <3>2 DEF FlagsInv
  <2>5. ASSUME NEW f \in Locks \cup {"spot"}, Grabs(j, f) PROVE FlagsInv'
    <3>1. /\ job'[j].holds = {f} /\ flags' = flags \cup {f} /\ (f \in Locks => f \notin flags)
          /\ At(j) \in Claiming /\ Way(job[j].kind, At(j), At(j)')
      BY <2>5 DEF Grabs, Takes
    <3>2. job[j].holds = {}
      BY <1>1, <3>1 DEF FlagsInv, Free
    <3>3. At(j)' \notin Free
      BY <3>1, FreeBefore
    <3>4. "spot" \notin Locks
      BY DEF Locks
    <3> QED
      BY <2>2, <3>1, <3>2, <3>3, <3>4 DEF FlagsInv
  <2> QED
    BY <1>1, <2>3, <2>4, <2>5 DEF Turns
<1>2. ASSUME NEW j \in Jobs, Starts(j) PROVE FlagsInv'
  <2>1. job[j].holds = {}
    BY <1>2 DEF Starts, JobInv, Sound
  <2>2. job'[j].holds = {} /\ flags' = flags
    BY <1>2 DEF Starts
  <2>3. \A k \in Jobs \ {j} : (Underway(k) <=> Underway(k)') /\ At(k)' = At(k) /\ job'[k].holds = job[k].holds
    <3> SUFFICES ASSUME NEW k \in Jobs \ {j} PROVE job'[k].at = job[k].at /\ job'[k].todo = job[k].todo /\ job'[k].holds = job[k].holds
      BY DEF Underway, At
    <3>1. job'[k] = [job[k] EXCEPT !.alone = FALSE] /\ Sound(job[k])
      BY <1>2 DEF Starts, JobInv
    <3> QED
      BY <3>1, Unaccompanied
  <2> QED
    BY <2>1, <2>2, <2>3 DEF FlagsInv
<1>3. CASE Halts
  BY <1>3 DEF Halts, Sound, FlagsInv, Underway
<1>4. CASE Rests
  BY <1>4 DEF Rests, FlagsInv, Underway, At
<1>5. JobStep
  BY Stepping
<1> QED
  BY <1>1, <1>2, <1>3, <1>4, <1>5 DEF JobStep

----------------------------------------------------------------------------
(* Which action a step is, and who stands by.                               *)
LEMMA Which ==
    ASSUME NEW j, Does(j)
    PROVE  /\ At(j) = "addLessons" => AddLesson(j)
           /\ At(j) = "readTitles" => ReadTitles(j)
           /\ At(j) = "deleteLesson" => DeleteLesson(j)
           /\ At(j) = "createBatch" => CreateBatch(j)
           /\ At(j) = "insertBatch" => InsertBatch(j)
           /\ At(j) = "deleteItems" => DeleteItems(j)
           /\ At(j) = "updateBatch" => UpdateBatch(j)
           /\ At(j) = "createItems" => CreateItems(j)
           /\ At(j) = "askNews" => AskNews(j)
           /\ At(j) = "findBatch" => FindBatch(j)
           /\ At(j) = "seeBatch" => SeeBatch(j)
           /\ At(j) = "checkWorld" => CheckWorld(j)
           /\ At(j) = "claimWorld" => ClaimWorld(j)
           /\ At(j) = "claimForex" => ClaimForex(j)
           /\ At(j) = "pages" => Pages(j)
           /\ At(j) = "countNews" => CountNews(j)
           /\ At(j) = "askWorld" => AskWorld(j)
           /\ At(j) = "storeWorldNews" => StoreWorldNews(j)
           /\ At(j) = "replace" => Replace(j)
           /\ At(j) = "writeDiffs" => WriteDiffs(j)
           /\ At(j) = "macroUsd" => MacroUsd(j)
           /\ At(j) = "macroPut" => MacroPut(j)
           /\ At(j) = "upsertSpot" => UpsertSpot(j)
           /\ At(j) = "history" => History(j)
           /\ At(j) = "live" => Live(j)
           /\ At(j) = "capture" => Capture(j)
           /\ At(j) = "readOld" => ReadOld(j)
           /\ At(j) = "deleteOld" => DeleteOld(j)
           /\ At(j) = "readRates" => ReadRates(j)
           /\ At(j) = "readBars" => ReadBars(j)
           /\ At(j) = "writeRows" => WriteRow(j)
           /\ At(j) = "pruneRows" => PruneRows(j)
<1>1. At(j) = "addLessons" => AddLesson(j)
  BY Named DEF Does, QuoteStep, ReadingStep
<1>2. At(j) = "readTitles" => ReadTitles(j)
  BY Named DEF Does, QuoteStep, ReadingStep
<1>3. At(j) = "deleteLesson" => DeleteLesson(j)
  BY Named DEF Does, QuoteStep, ReadingStep
<1>4. At(j) = "createBatch" => CreateBatch(j)
  BY Named DEF Does, QuoteStep, ReadingStep
<1>5. At(j) = "insertBatch" => InsertBatch(j)
  BY Named DEF Does, QuoteStep, ReadingStep
<1>6. At(j) = "deleteItems" => DeleteItems(j)
  BY Named DEF Does, QuoteStep, ReadingStep
<1>7. At(j) = "updateBatch" => UpdateBatch(j)
  BY Named DEF Does, QuoteStep, ReadingStep
<1>8. At(j) = "createItems" => CreateItems(j)
  BY Named DEF Does, QuoteStep, ReadingStep
<1>9. At(j) = "askNews" => AskNews(j)
  BY Named DEF Does, QuoteStep, ReadingStep
<1>10. At(j) = "findBatch" => FindBatch(j)
  BY Named DEF Does, QuoteStep, ReadingStep
<1>11. At(j) = "seeBatch" => SeeBatch(j)
  BY Named DEF Does, QuoteStep, ReadingStep
<1>12. At(j) = "checkWorld" => CheckWorld(j)
  BY Named DEF Does, QuoteStep, ReadingStep
<1>13. At(j) = "claimWorld" => ClaimWorld(j)
  BY Named DEF Does, QuoteStep, ReadingStep
<1>14. At(j) = "claimForex" => ClaimForex(j)
  BY Named DEF Does, QuoteStep, ReadingStep
<1>15. At(j) = "pages" => Pages(j)
  BY Named DEF Does, QuoteStep, ReadingStep
<1>16. At(j) = "countNews" => CountNews(j)
  BY Named DEF Does, QuoteStep, ReadingStep
<1>17. At(j) = "askWorld" => AskWorld(j)
  BY Named DEF Does, QuoteStep, ReadingStep
<1>18. At(j) = "storeWorldNews" => StoreWorldNews(j)
  BY Named DEF Does, QuoteStep, ReadingStep
<1>19. At(j) = "replace" => Replace(j)
  BY Named DEF Does, QuoteStep, ReadingStep
<1>20. At(j) = "writeDiffs" => WriteDiffs(j)
  BY Named DEF Does, QuoteStep, ReadingStep
<1>21. At(j) = "macroUsd" => MacroUsd(j)
  BY Named DEF Does, QuoteStep, ReadingStep
<1>22. At(j) = "macroPut" => MacroPut(j)
  BY Named DEF Does, QuoteStep, ReadingStep
<1>23. At(j) = "upsertSpot" => UpsertSpot(j)
  BY Named DEF Does, QuoteStep, ReadingStep
<1>24. At(j) = "history" => History(j)
  BY Named DEF Does, QuoteStep, ReadingStep
<1>25. At(j) = "live" => Live(j)
  BY Named DEF Does, QuoteStep, ReadingStep
<1>26. At(j) = "capture" => Capture(j)
  BY Named DEF Does, QuoteStep, ReadingStep
<1>27. At(j) = "readOld" => ReadOld(j)
  BY Named DEF Does, QuoteStep, ReadingStep
<1>28. At(j) = "deleteOld" => DeleteOld(j)
  BY Named DEF Does, QuoteStep, ReadingStep
<1>29. At(j) = "readRates" => ReadRates(j)
  BY Named DEF Does, QuoteStep, ReadingStep
<1>30. At(j) = "readBars" => ReadBars(j)
  BY Named DEF Does, QuoteStep, ReadingStep
<1>31. At(j) = "writeRows" => WriteRow(j)
  BY Named DEF Does, QuoteStep, ReadingStep
<1>32. At(j) = "pruneRows" => PruneRows(j)
  BY Named DEF Does, QuoteStep, ReadingStep
<1> QED
  BY <1>1, <1>2, <1>3, <1>4, <1>5, <1>6, <1>7, <1>8, <1>9, <1>10, <1>11, <1>12, <1>13, <1>14, <1>15, <1>16, <1>17, <1>18, <1>19, <1>20, <1>21, <1>22, <1>23, <1>24, <1>25, <1>26, <1>27, <1>28, <1>29, <1>30, <1>31, <1>32

LEMMA Bystanders ==
    ASSUME NEW j \in Jobs, Turns(j), NEW k \in Jobs \ {j}
    PROVE  job'[k] = job[k] /\ (Underway(k)' <=> Underway(k)) /\ At(k)' = At(k)
<1>1. job'[k] = job[k]
  BY TurnsOthers DEF Others
<1> QED
  BY <1>1 DEF Underway, At

LEMMA Newcomer ==
    ASSUME JobInv, NEW j \in Jobs, Starts(j)
    PROVE  /\ Underway(j)' /\ FirstStep(job'[j].kind, At(j)') /\ job'[j].day = today /\ ~Underway(j) /\ "none" = job[j].kind
           /\ \A k \in Jobs \ {j} : /\ (Underway(k)' <=> Underway(k)) /\ At(k)' = At(k) /\ job'[k].kind = job[k].kind
                                    /\ job'[k].day = job[k].day /\ job'[k].seen = job[k].seen /\ job'[k].holds = job[k].holds
                                    /\ job'[k].alone = FALSE
<1>1. Underway(j)' /\ FirstStep(job'[j].kind, At(j)') /\ job'[j].day = today /\ ~Underway(j) /\ "none" = job[j].kind
  BY DEF Starts, Underway
<1>2. ASSUME NEW k \in Jobs \ {j}
      PROVE  /\ job'[k].at = job[k].at /\ job'[k].todo = job[k].todo /\ job'[k].kind = job[k].kind
             /\ job'[k].day = job[k].day /\ job'[k].seen = job[k].seen /\ job'[k].holds = job[k].holds
             /\ job'[k].alone = FALSE
  <2>1. job'[k] = [job[k] EXCEPT !.alone = FALSE] /\ Sound(job[k])
    BY DEF Starts, JobInv
  <2> QED
    BY <2>1, Unaccompanied
<1> QED
  BY <1>1, <1>2 DEF Underway, At

(* A step leads on, by a way or through a door, or leads nowhere.           *)
LEMMA Leads ==
    ASSUME JobInv, NEW j \in Jobs, Turns(j), Underway(j)'
    PROVE  /\ job'[j].kind = job[j].kind /\ job'[j].alone = job[j].alone
           /\ At(j) # "pages" => job'[j].day = job[j].day
           /\ At(j) \notin Claiming => job'[j].holds = job[j].holds
           /\ \/ At(j)' = At(j) \/ Door(job[j].kind, At(j)') \/ Way(job[j].kind, At(j), At(j)')
<1>1. ~Quits(j)
  BY DEF Quits, Underway
<1>2. CASE Moves(j)
  <2>1. \/ job'[j].todo = job[j].todo /\ At(j)' = At(j)
        \/ Door(job[j].kind, At(j)') \/ Way(job[j].kind, At(j), At(j)')
    BY <1>2 DEF Moves, At
  <2>2. Remains(j) /\ (At(j) # "pages" => job'[j].day = job[j].day)
    BY <1>2 DEF Moves
  <2> QED
    BY <2>1, <2>2 DEF Remains, Same
<1>3. ASSUME NEW f \in Locks \cup {"spot"}, Grabs(j, f)
      PROVE  /\ Same(j) /\ job'[j].day = job[j].day /\ At(j) \in Claiming /\ Way(job[j].kind, At(j), At(j)')
  BY <1>3 DEF Grabs, Takes
<1> QED
  BY <1>1, <1>2, <1>3 DEF Turns, Same

----------------------------------------------------------------------------
(* Mixtures need two jobs at a time.                                        *)
AloneInv == \A i, k \in Jobs : i # k /\ Underway(i) /\ Underway(k) => ~job[i].alone
Two(kinds) == \E i, k \in Jobs : i # k /\ job[i].kind \in kinds /\ job[k].kind \in kinds /\ ~job[i].alone /\ ~job[k].alone

LEMMA AloneFirst == Init => AloneInv
BY DEF Init, InitJobs, AloneInv, NoJob, Underway

LEMMA AloneKept == JobInv /\ AloneInv /\ [Next]_vars => AloneInv'
<1> SUFFICES ASSUME JobInv, AloneInv, [Next]_vars PROVE AloneInv'
  OBVIOUS
<1>1. ASSUME NEW j \in Jobs, Underway(j), Turns(j) PROVE AloneInv'
  <2>1. \A k \in Jobs : (Underway(k)' => Underway(k)) /\ job'[k].alone = job[k].alone
    BY <1>1, Bystanders, TurnsOthers DEF Same
  <2> QED
    BY <2>1 DEF AloneInv
<1>2. ASSUME NEW j \in Jobs, Starts(j) PROVE AloneInv'
  <2>1. /\ \A k \in Jobs \ {j} : (Underway(k)' <=> Underway(k)) /\ job'[k].alone = FALSE
        /\ job'[j].alone => \A i \in Jobs : ~Underway(i)
    BY <1>2, Newcomer DEF Starts
  <2> QED
    BY <2>1 DEF AloneInv
<1>3. CASE Halts
  BY <1>3 DEF Halts, AloneInv, Underway
<1>4. CASE Rests
  BY <1>4 DEF Rests, AloneInv, Underway
<1>5. JobStep
  BY Stepping
<1> QED
  BY <1>1, <1>2, <1>3, <1>4, <1>5 DEF JobStep

LEMMA TwoStay ==
    ASSUME JobInv, [Next]_vars, NEW kinds, "none" \notin kinds, Two(kinds)
    PROVE  Two(kinds)'
<1>1. PICK i \in Jobs, k \in Jobs : i # k /\ job[i].kind \in kinds /\ job[k].kind \in kinds /\ ~job[i].alone /\ ~job[k].alone
  BY DEF Two
<1> SUFFICES ASSUME NEW m \in Jobs, job[m].kind \in kinds, ~job[m].alone PROVE job'[m].kind \in kinds /\ ~job'[m].alone
  BY <1>1 DEF Two
<1>2. ASSUME NEW j \in Jobs, Turns(j) PROVE Same(m)
  BY <1>2, Bystanders, TurnsOthers DEF Same
<1>3. ASSUME NEW j \in Jobs, Starts(j) PROVE job'[m].kind = job[m].kind /\ job'[m].alone = FALSE
  BY <1>3, Newcomer
<1>4. CASE Halts
  BY <1>4 DEF Halts, Same
<1>5. CASE Rests
  BY <1>5 DEF Rests
<1>6. JobStep
  BY Stepping
<1> QED
  BY <1>2, <1>3, <1>4, <1>5, <1>6 DEF JobStep, Same

(* Two jobs under way are two that overlap.                                 *)
LEMMA Meeting ==
    ASSUME AloneInv, NEW i \in Jobs, NEW k \in Jobs, i # k, Underway(i), Underway(k), NEW kinds,
           job[i].kind \in kinds, job[k].kind \in kinds
    PROVE  Two(kinds)
BY DEF AloneInv, Two

LessonKinds == {"lesson", "pdf", "world"}
LessonsInv ==
    /\ lessons \in [Lucid -> Nat]
    /\ \A t \in Lucid : lessons[t] > 1 => Two(LessonKinds)
    /\ \A j \in Jobs : Underway(j) /\ At(j) = "addLessons" =>
          \A t \in Lucid \cap job[j].seen.titles : lessons[t] = 0 \/ Two(LessonKinds)

LEMMA LessonsFirst == Init => LessonsInv
BY DEF Init, InitJobs, InitQuotes, LessonsInv, NoJob, Underway

LEMMA LessonWays ==
    /\ \A k, s : FirstStep(k, s) \/ Door(k, s) => s # "addLessons"
    /\ \A k, r : Way(k, r, "addLessons") => r = "readTitles" /\ k \in LessonKinds
<1>1. \A k, s : FirstStep(k, s) \/ Door(k, s) => s # "addLessons"
  BY DEF FirstStep, Door
<1>2. \A k, r : Way(k, r, "addLessons") => r = "readTitles" /\ k \in LessonKinds
  BY DEF Way, LessonKinds
<1> QED
  BY <1>1, <1>2

LEMMA AtLessons ==
    ASSUME JobInv, NEW j \in Jobs, Underway(j), At(j) = "addLessons"
    PROVE  job[j].kind \in LessonKinds
BY Ongoing, LessonWays DEF Place

LEMMA LessonsKept == JobInv /\ JobInv' /\ AloneInv /\ LessonsInv /\ [Next]_vars => LessonsInv'
<1> SUFFICES ASSUME JobInv, JobInv', AloneInv, LessonsInv, [Next]_vars PROVE LessonsInv'
  OBVIOUS
<1>0. "none" \notin LessonKinds
  BY DEF LessonKinds
<1>1. Two(LessonKinds) => Two(LessonKinds)'
  BY <1>0, TwoStay
(* Where lessons stay, only who arrives from readTitles is of interest.     *)
<1>2. ASSUME lessons' = lessons,
             \A j \in Jobs : Underway(j)' /\ At(j)' = "addLessons" =>
                \/ Underway(j) /\ At(j) = "addLessons" /\ job'[j].seen = job[j].seen
                \/ \A t \in Lucid \cap job'[j].seen.titles : lessons[t] = 0
      PROVE  LessonsInv'
  <2>1. lessons' \in [Lucid -> Nat] /\ \A t \in Lucid : lessons'[t] > 1 => Two(LessonKinds)'
    BY <1>1, <1>2 DEF LessonsInv
  <2>2. ASSUME NEW j \in Jobs, Underway(j)', At(j)' = "addLessons", NEW t \in Lucid \cap job'[j].seen.titles
        PROVE  lessons'[t] = 0 \/ Two(LessonKinds)'
    BY <1>1, <1>2, <2>2 DEF LessonsInv
  <2> QED
    BY <2>1, <2>2 DEF LessonsInv
<1>3. ASSUME NEW j \in Jobs, Does(j) PROVE LessonsInv'
  <2>1. Underway(j) /\ Turns(j) /\ Frame(At(j))
    BY <1>3, Turning, Framed
  <2>2. \A k \in Jobs \ {j} : job'[k] = job[k] /\ (Underway(k)' <=> Underway(k)) /\ At(k)' = At(k)
    BY <2>1, Bystanders
  <2>3. Underway(j)' /\ At(j)' = "addLessons" => At(j) \in {"readTitles", "addLessons"}
    BY <2>1, Leads, LessonWays
  <2>4. CASE At(j) = "readTitles"
    <3>1. ReadTitles(j) /\ lessons' = lessons
      BY <1>3, <2>1, <2>4, Which DEF Frame
    <3> DEFINE new == {t \in Saw(j).titles : lessons[t] = 0}
    <3>2. CASE new = {}
      <4>1. Finishes(j)
        BY <3>1, <3>2 DEF ReadTitles
      <4>2. ~Underway(j)'
        BY <2>1, <4>1, EndsQuit DEF Quits, Underway
      <4> QED
        BY <1>2, <2>2, <3>1, <4>2
    <3>3. CASE new # {}
      <4> DEFINE v == [Saw(j) EXCEPT !.titles = new]
      <4>1. Onward(j, v)
        BY <3>1, <3>3 DEF ReadTitles
      <4>2. SeenShape(v) /\ v.titles = new
        BY <2>1, Views DEF SeenShape, SeenFields
      <4> HIDE DEF v
      <4>3. Passes(j, v)
        BY <2>1, <4>1, <4>2, OnwardPasses
      <4>4. Underway(j)' => job'[j].seen = v
        BY <4>3 DEF Passes, Quits, Underway
      <4> QED
        BY <1>2, <2>2, <3>1, <4>2, <4>4
    <3> QED
      BY <3>2, <3>3
  <2>5. CASE At(j) = "addLessons"
    <3>1. PICK t \in Saw(j).titles : /\ lessons' = [lessons EXCEPT ![t] = @ + 1]
                                     /\ \/ Finishes(j)
                                        \/ job' = [job EXCEPT ![j].seen.titles = @ \ {t}]
      BY <1>3, <2>5, Which DEF AddLesson
    <3>2. job[j].kind \in LessonKinds
      BY <2>1, <2>5, AtLessons
    <3>3. ASSUME NEW u \in Lucid PROVE lessons'[u] \in Nat /\ lessons'[u] = IF u = t THEN lessons[u] + 1 ELSE lessons[u]
      BY <3>1 DEF LessonsInv
    <3>4. lessons' \in [Lucid -> Nat]
      BY <3>1, <3>3 DEF LessonsInv
    <3>5. ASSUME NEW u \in Lucid, lessons'[u] > 1 PROVE Two(LessonKinds)'
      <4>1. CASE u = t
        <5>1. lessons[u] = 0 \/ Two(LessonKinds)
          BY <2>1, <2>5, <3>1, <4>1 DEF LessonsInv, Saw
        <5> QED
          BY <1>1, <3>3, <3>5, <4>1, <5>1
      <4>2. CASE u # t
        BY <1>1, <3>3, <3>5, <4>2 DEF LessonsInv
      <4> QED
        BY <4>1, <4>2
    <3>6. ASSUME NEW k \in Jobs, Underway(k)', At(k)' = "addLessons", NEW u \in Lucid \cap job'[k].seen.titles
          PROVE  lessons'[u] = 0 \/ Two(LessonKinds)'
      <4>1. CASE k = j
        <5>1. ~Finishes(j)
          BY <2>1, <3>6, <4>1, EndsQuit DEF Quits, Underway
        <5>2. job'[j] = [job[j] EXCEPT !.seen.titles = @ \ {t}]
          BY <3>1, <5>1 DEF JobInv
        <5>3. Shape(job[j]) /\ SeenShape(job[j].seen)
          BY <2>1, Ongoing
        <5>4. job'[j].seen.titles = job[j].seen.titles \ {t}
          BY <5>2, <5>3 DEF Shape, Fields, SeenShape, SeenFields
        <5>5. u # t /\ u \in job[j].seen.titles
          BY <3>6, <4>1, <5>4
        <5> QED
          BY <1>1, <2>1, <2>5, <3>3, <5>5 DEF LessonsInv
      <4>2. CASE k # j
        <5>1. Underway(k) /\ At(k) = "addLessons"
          BY <2>2, <3>6, <4>2
        <5>2. Two(LessonKinds)
          BY <2>1, <3>2, <4>2, <5>1, AtLessons, Meeting
        <5> QED
          BY <1>1, <5>2
      <4> QED
        BY <4>1, <4>2
    <3> QED
      BY <3>4, <3>5, <3>6 DEF LessonsInv
  <2>6. CASE At(j) = "deleteLesson"
    <3>1. \/ lessons' = lessons
          \/ \E t : lessons[t] # 0 /\ lessons' = [lessons EXCEPT ![t] = @ - 1]
      BY <1>3, <2>6, Which DEF DeleteLesson
    <3>2. ASSUME NEW u \in Lucid PROVE lessons'[u] \in Nat /\ lessons'[u] <= lessons[u]
      BY <3>1 DEF LessonsInv
    <3>3. lessons' \in [Lucid -> Nat]
      BY <3>1, <3>2 DEF LessonsInv
    <3>4. ASSUME NEW u \in Lucid, lessons'[u] > 1 PROVE Two(LessonKinds)'
      BY <1>1, <3>2, <3>4 DEF LessonsInv
    <3>5. ASSUME NEW k \in Jobs, Underway(k)', At(k)' = "addLessons", NEW u \in Lucid \cap job'[k].seen.titles
          PROVE  lessons'[u] = 0 \/ Two(LessonKinds)'
      <4>1. k # j
        BY <2>3, <2>6, <3>5
      <4>2. lessons[u] = 0 \/ Two(LessonKinds)
        BY <2>2, <3>5, <4>1 DEF LessonsInv
      <4>3. lessons[u] \in Nat
        BY DEF LessonsInv
      <4> QED
        BY <1>1, <3>2, <4>2, <4>3
    <3> QED
      BY <3>3, <3>4, <3>5 DEF LessonsInv
  <2>7. CASE At(j) \notin {"readTitles", "addLessons", "deleteLesson"}
    <3>1. lessons' = lessons
      BY <2>1, <2>7 DEF Frame
    <3> QED
      BY <1>2, <2>2, <2>3, <2>7, <3>1
  <2> QED
    BY <2>4, <2>5, <2>6, <2>7
<1>4. ASSUME NEW j \in Jobs, Start(j) PROVE LessonsInv'
  <2>1. Starts(j) /\ lessons' = lessons
    BY <1>4, Starting DEF Start, quoteVars
  <2> QED
    BY <1>2, <2>1, Newcomer, LessonWays
<1>5. ASSUME NEW j \in Jobs, StatementFails(j) PROVE LessonsInv'
  <2>1. Underway(j) /\ (Throws(j) \/ LeavesBlock(j)) /\ lessons' = lessons
    BY <1>5 DEF StatementFails, Fails, quoteVars
  <2>2. Turns(j) /\ (Quits(j) \/ Door(job[j].kind, At(j)'))
    BY <2>1, Turn, EndsQuit, LeavesSkips DEF Skips
  <2>3. Underway(j)' => At(j)' # "addLessons"
    BY <2>2, LessonWays DEF Quits, Underway
  <2> QED
    BY <1>2, <2>1, <2>2, <2>3, Bystanders
<1>6. CASE (Midnight \/ Elapse) /\ UNCHANGED <<quoteVars, readingVars>>
  BY <1>2, <1>6 DEF Midnight, Elapse, quoteVars, Underway, At
<1>7. CASE Restart /\ UNCHANGED <<quoteVars, readingVars>>
  <2>1. \A k \in Jobs : ~Underway(k)'
    BY <1>7, Halting DEF Halts, Underway
  <2> QED
    BY <1>2, <1>7, <2>1 DEF quoteVars
<1>8. CASE UNCHANGED vars
  BY <1>2, <1>8 DEF vars, jobVars, quoteVars, Underway, At
<1> QED
  BY <1>3, <1>4, <1>5, <1>6, <1>7, <1>8, Accounting

(* Steps that no job takes of its own accord touch nothing that is stored:  *)
(* a job is where it was, at its first step, or at the door of a block.     *)
Waits(k) ==
    /\ Underway(k) /\ At(k)' = At(k) /\ job'[k].kind = job[k].kind /\ job'[k].day = job[k].day
    /\ job'[k].seen = job[k].seen /\ job'[k].holds = job[k].holds /\ (job'[k].alone => job[k].alone)
Comes(k) == FirstStep(job'[k].kind, At(k)') /\ job'[k].day = today /\ today' = today
Departs(k) ==
    /\ Underway(k) /\ At(k) \notin Opening /\ Door(job[k].kind, At(k)') /\ job'[k].kind = job[k].kind /\ job'[k].day = job[k].day
    /\ job'[k].holds = job[k].holds /\ job'[k].alone = job[k].alone
Otherwise ==
    /\ UNCHANGED <<quoteVars, readingVars>>
    /\ \A k \in Jobs : Underway(k)' => Waits(k) \/ Comes(k) \/ Departs(k)

LEMMA Elsewise ==
    ASSUME JobInv, [Next]_vars
    PROVE  (\E j \in Jobs : Does(j)) \/ Otherwise
<1>1. ASSUME job' = job, NEW k \in Jobs, Underway(k)' PROVE Waits(k)
  BY <1>1 DEF Waits, Underway, At
<1>2. ASSUME NEW j \in Jobs, Start(j) PROVE Otherwise
  <2>1. Starts(j) /\ UNCHANGED <<quoteVars, readingVars>> /\ today' = today
    <3>1. PICK kind : Begin(j, kind, Script(kind))
      BY <1>2 DEF Start
    <3>2. today' = today
      BY <3>1 DEF Begin
    <3> QED
      BY <1>2, <3>2, Starting DEF Start
  <2>2. ASSUME NEW k \in Jobs, Underway(k)' PROVE Waits(k) \/ Comes(k)
    <3>1. CASE k = j
      BY <2>1, <3>1, Newcomer DEF Comes
    <3>2. CASE k # j
      BY <2>1, <2>2, <3>2, Newcomer DEF Waits
    <3> QED
      BY <3>1, <3>2
  <2> QED
    BY <2>1, <2>2 DEF Otherwise
<1>3. ASSUME NEW j \in Jobs, StatementFails(j) PROVE Otherwise
  <2>1. Underway(j) /\ Fails(j, Len(Script(job[j].kind))) /\ UNCHANGED <<quoteVars, readingVars>>
    BY <1>3 DEF StatementFails
  <2>0. Throws(j) \/ LeavesBlock(j)
    BY <2>1 DEF Fails
  <2>2. Turns(j) /\ Skips(j) /\ (At(j) \in Opening => Quits(j))
    BY <2>0, <2>1, Turn, FailsSkips
  <2>3. Underway(j)' => Departs(j)
    BY <2>1, <2>2 DEF Skips, Quits, Remains, Same, Departs, Underway
  <2>4. ASSUME NEW k \in Jobs \ {j}, Underway(k)' PROVE Waits(k)
    BY <2>2, <2>4, Bystanders DEF Waits
  <2> QED
    BY <2>1, <2>3, <2>4 DEF Otherwise
<1>4. CASE (Midnight \/ Elapse) /\ UNCHANGED <<quoteVars, readingVars>>
  BY <1>1, <1>4 DEF Midnight, Elapse, Otherwise
<1>5. CASE Restart /\ UNCHANGED <<quoteVars, readingVars>>
  BY <1>5, Halting DEF Halts, Underway, Otherwise
<1>6. CASE UNCHANGED vars
  BY <1>1, <1>6 DEF vars, jobVars, Otherwise
<1> QED
  BY <1>2, <1>3, <1>4, <1>5, <1>6, Accounting

(* The day of a job.                                                        *)
DaysInv == \A j \in Jobs : Underway(j) => job[j].day \in Days /\ job[j].day <= today

LEMMA DaysFirst == Init => DaysInv
BY DEF Init, InitJobs, DaysInv, NoJob, Underway

LEMMA DaysKept == JobInv /\ DaysInv /\ [Next]_vars => DaysInv'
<1> SUFFICES ASSUME JobInv, DaysInv, [Next]_vars PROVE DaysInv'
  OBVIOUS
<1>1. today \in Days /\ today' \in Days /\ today' >= today /\ today \in Int /\ today' \in Int
  BY TodayStays DEF JobInv, Days
<1>2. ASSUME NEW k \in Jobs, job'[k].day = today \/ (Underway(k) /\ job'[k].day = job[k].day)
      PROVE  job'[k].day \in Days /\ job'[k].day <= today'
  BY <1>1, <1>2 DEF DaysInv, Days
<1>3. ASSUME NEW j \in Jobs, Does(j) PROVE DaysInv'
  <2>1. Underway(j) /\ Turns(j)
    BY <1>3, Turning
  <2>2. \A k \in Jobs \ {j} : job'[k] = job[k] /\ (Underway(k)' <=> Underway(k))
    BY <2>1, Bystanders
  <2>3. Underway(j)' => job'[j].day = today \/ job'[j].day = job[j].day
    <3>1. CASE At(j) = "pages"
      <4>1. Pages(j)
        BY <1>3, <3>1, Which
      <4> QED
        BY <4>1, TurnPages DEF Quits, Underway
    <3>2. CASE At(j) # "pages"
      BY <2>1, <3>2, Leads
    <3> QED
      BY <3>1, <3>2
  <2> QED
    BY <1>2, <2>1, <2>2, <2>3 DEF DaysInv
<1>4. CASE Otherwise
  BY <1>2, <1>4 DEF Otherwise, Waits, Comes, Departs, DaysInv
<1> QED
  BY <1>3, <1>4, Elsewise

----------------------------------------------------------------------------
(* News of two readings under one day need two jobs at a time.              *)
BatchKinds == {"newsTick", "newsForce"}
Filling == {"updateBatch", "createItems"}
BatchInv ==
    /\ batch \in [Days -> [is: BOOLEAN, items: SUBSET Jobs]]
    /\ \A d \in Days : ~batch[d].is => batch[d].items = {}
    /\ \A d \in Days : \A i, k \in batch[d].items : i = k \/ Two(BatchKinds)
    /\ \A j \in Jobs : Underway(j) /\ At(j) \in Filling => batch[job[j].day].items = {} \/ Two(BatchKinds)

LEMMA BatchFirst == Init => BatchInv
BY DEF Init, InitJobs, InitReading, BatchInv, NoJob, NoBatch, Underway

LEMMA BatchWays ==
    /\ \A k, s : FirstStep(k, s) \/ Door(k, s) => s \notin Filling
    /\ \A k, r : Way(k, r, "updateBatch") => r = "deleteItems" /\ k \in BatchKinds
    /\ \A k, r : Way(k, r, "createItems") => r \in {"updateBatch", "insertBatch"} /\ k \in BatchKinds
    /\ \A k, r : Way(k, "insertBatch", r) => r = "createItems"
<1>1. \A k, s : FirstStep(k, s) \/ Door(k, s) => s \notin Filling
  BY DEF FirstStep, Door, Filling
<1>2. \A k, r : Way(k, r, "updateBatch") => r = "deleteItems" /\ k \in BatchKinds
  BY DEF Way, BatchKinds
<1>3. \A k, r : Way(k, r, "createItems") => r \in {"updateBatch", "insertBatch"} /\ k \in BatchKinds
  BY DEF Way, BatchKinds
<1>4. \A k, r : Way(k, "insertBatch", r) => r = "createItems"
  BY DEF Way
<1> QED
  BY <1>1, <1>2, <1>3, <1>4

(* A batch that is there stays there, and only its job of the day fills it. *)
Stored == {"deleteItems"} \cup Filling
StoredInv == \A j \in Jobs : Underway(j) /\ At(j) \in Stored => batch[job[j].day].is

LEMMA StoredFirst == Init => StoredInv
BY DEF Init, InitJobs, StoredInv, NoJob, Underway

LEMMA StoredWays ==
    /\ \A k, s : FirstStep(k, s) \/ Door(k, s) => s \notin Stored
    /\ \A k, r, s : Way(k, r, s) /\ s \in Stored => r \in Stored \/ r \in {"findBatch", "insertBatch"}
<1>1. \A k, s : FirstStep(k, s) \/ Door(k, s) => s \notin Stored
  BY DEF FirstStep, Door, Filling, Stored
<1>2. \A k, r, s : Way(k, r, s) /\ s \in Stored => r \in Stored \/ r \in {"findBatch", "insertBatch"}
  BY DEF Way, Filling, Stored
<1> QED
  BY <1>1, <1>2

LEMMA BatchesStay ==
    ASSUME JobInv, DaysInv, BatchInv, [Next]_vars
    PROVE  \A d \in Days : batch[d].is => batch'[d].is
<1>1. ASSUME NEW j \in Jobs, Does(j) PROVE \A d \in Days : batch[d].is => batch'[d].is
  <2>1. Underway(j) /\ Frame(At(j)) /\ job[j].day \in Days
    BY <1>1, Framed DEF DaysInv
  <2>2. \A d \in Days : batch[d] \in [is: BOOLEAN, items: SUBSET Jobs]
    BY DEF BatchInv
  <2>3. CASE At(j) \in {"createBatch", "insertBatch"}
    <3>1. batch' = batch \/ batch' = [batch EXCEPT ![job[j].day].is = TRUE]
      BY <1>1, <2>3, Which DEF CreateBatch, InsertBatch
    <3> QED
      BY <2>1, <2>2, <3>1 DEF BatchInv
  <2>4. CASE At(j) \in {"deleteItems", "createItems"}
    <3>1. \E new : batch' = [batch EXCEPT ![job[j].day].items = new]
      BY <1>1, <2>4, Which DEF DeleteItems, CreateItems
    <3> QED
      BY <2>1, <2>2, <3>1 DEF BatchInv
  <2>5. CASE At(j) \notin {"createBatch", "insertBatch", "deleteItems", "createItems"}
    BY <2>1, <2>5 DEF Frame
  <2> QED
    BY <2>3, <2>4, <2>5
<1>2. CASE Otherwise
  BY <1>2 DEF Otherwise, readingVars
<1> QED
  BY <1>1, <1>2, Elsewise

LEMMA StoredKept == JobInv /\ DaysInv /\ BatchInv /\ StoredInv /\ [Next]_vars => StoredInv'
<1> SUFFICES ASSUME JobInv, DaysInv, BatchInv, StoredInv, [Next]_vars PROVE StoredInv'
  OBVIOUS
<1>1. \A d \in Days : batch[d].is => batch'[d].is
  BY BatchesStay
<1>2. ASSUME NEW k \in Jobs, Underway(k), At(k) \in Stored, job'[k].day = job[k].day
      PROVE  batch'[job'[k].day].is
  BY <1>1, <1>2 DEF StoredInv, DaysInv
<1>3. ASSUME NEW j \in Jobs, Does(j) PROVE StoredInv'
  <2>1. Underway(j) /\ Turns(j) /\ job[j].day \in Days
    BY <1>3, Turning DEF DaysInv
  <2>2. \A k \in Jobs \ {j} : job'[k] = job[k] /\ (Underway(k)' <=> Underway(k)) /\ At(k)' = At(k)
    BY <2>1, Bystanders
  <2>3. ASSUME Underway(j)', At(j)' \in Stored PROVE batch'[job'[j].day].is
    <3>1. job'[j].day = job[j].day /\ (At(j) \in Stored \/ At(j) \in {"findBatch", "insertBatch"})
      <4>1. At(j)' = At(j) \/ Door(job[j].kind, At(j)') \/ Way(job[j].kind, At(j), At(j)')
        BY <2>1, <2>3, Leads
      <4>2. At(j) \in Stored \/ At(j) \in {"findBatch", "insertBatch"}
        BY <2>3, <4>1, StoredWays
      <4>3. At(j) # "pages"
        BY <4>2 DEF Stored, Filling
      <4> QED
        BY <2>1, <2>3, <4>2, <4>3, Leads
    <3>2. CASE At(j) = "findBatch"
      <4>1. FindBatch(j)
        BY <1>3, <3>2, Which
      <4>2. ~Finishes(j)
        BY <2>1, <2>3, EndsQuit DEF Quits, Underway
      <4>3. CASE batch[job[j].day].is
        BY <1>1, <2>1, <3>1, <4>3
      <4>4. CASE ~batch[job[j].day].is
        <5> DEFINE aside == << <<"insertBatch", "createItems">> >>
        <5>1. Goes(j, aside, Saw(j)) /\ job[j].kind \in {"newsTick", "newsForce"} /\ SeenShape(Saw(j))
          BY <2>1, <3>2, <4>1, <4>2, <4>4, Ongoing, Views DEF FindBatch, Place, Way, Door, FirstStep
        <5>2. Path(job[j].kind, aside) /\ Head(Head(aside)) = "insertBatch" /\ aside # << >> /\ Door(job[j].kind, "insertBatch")
          BY <5>1, OutOfTurn DEF Door
        <5> HIDE DEF aside
        <5>3. At(j)' = "insertBatch"
          BY <2>1, <5>1, <5>2, TurnsAside
        <5> QED
          BY <2>3, <5>3, SMTT(30) DEF Stored, Filling
      <4> QED
        BY <4>3, <4>4
    <3>3. CASE At(j) = "insertBatch"
      <4>1. Throws(j) \/ batch' = [batch EXCEPT ![job[j].day].is = TRUE]
        BY <1>3, <3>3, Which DEF InsertBatch
      <4>2. ~Throws(j)
        BY <2>1, <2>3, EndsQuit DEF Quits, Underway
      <4> QED
        BY <2>1, <3>1, <4>1, <4>2 DEF BatchInv
    <3> QED
      BY <1>2, <2>1, <3>1, <3>2, <3>3
  <2> QED
    BY <1>2, <2>2, <2>3 DEF StoredInv
<1>4. CASE Otherwise
  BY <1>2, <1>4, StoredWays DEF Otherwise, Waits, Comes, Departs, StoredInv
<1> QED
  BY <1>3, <1>4, Elsewise

LEMMA AtFilling ==
    ASSUME JobInv, NEW j \in Jobs, Underway(j), At(j) \in Filling
    PROVE  job[j].kind \in BatchKinds
BY Ongoing, BatchWays DEF Place, Filling

LEMMA BatchKept == JobInv /\ AloneInv /\ DaysInv /\ StoredInv /\ BatchInv /\ [Next]_vars => BatchInv'
<1> SUFFICES ASSUME JobInv, AloneInv, DaysInv, StoredInv, BatchInv, [Next]_vars PROVE BatchInv'
  OBVIOUS
<1>0. "none" \notin BatchKinds
  BY DEF BatchKinds
<1>1. Two(BatchKinds) => Two(BatchKinds)'
  BY <1>0, TwoStay
<1>2. ASSUME NEW j \in Jobs, Does(j) PROVE BatchInv'
  <2> DEFINE d == job[j].day
  <2>1. Underway(j) /\ Turns(j) /\ Frame(At(j)) /\ d \in Days
    BY <1>2, Turning, Framed DEF DaysInv
  <2>2. \A k \in Jobs \ {j} : job'[k] = job[k] /\ (Underway(k)' <=> Underway(k)) /\ At(k)' = At(k)
    BY <2>1, Bystanders
  <2>3. ASSUME Underway(j)', At(j)' \in Filling
        PROVE  At(j) \in Filling \cup {"deleteItems", "insertBatch"} /\ job'[j].day = d
    BY <2>1, <2>3, Leads, BatchWays DEF Filling
  (* What becomes of the row of the day.                                    *)
  <2>4. ASSUME NEW row \in [is: BOOLEAN, items: SUBSET Jobs], batch' = [batch EXCEPT ![d] = row],
               ~row.is => row.items = {}, \A i, k \in row.items : i = k \/ Two(BatchKinds),
               Underway(j)' /\ At(j)' \in Filling => row.items = {} \/ Two(BatchKinds),
               \A k \in Jobs \ {j} : Underway(k) /\ At(k) \in Filling /\ job[k].day = d => row.items = {} \/ Two(BatchKinds)
        PROVE  BatchInv'
    <3>1. batch' \in [Days -> [is: BOOLEAN, items: SUBSET Jobs]]
      BY <2>4 DEF BatchInv
    <3>2. \A e \in Days : batch'[e] = IF e = d THEN row ELSE batch[e]
      BY <2>4 DEF BatchInv
    <3>3. \A e \in Days : /\ ~batch'[e].is => batch'[e].items = {}
                          /\ \A i, k \in batch'[e].items : i = k \/ Two(BatchKinds)'
      BY <1>1, <2>4, <3>2 DEF BatchInv
    <3>4. ASSUME NEW k \in Jobs, Underway(k)', At(k)' \in Filling
          PROVE  batch'[job'[k].day].items = {} \/ Two(BatchKinds)'
      <4>1. CASE k = j
        BY <1>1, <2>1, <2>3, <2>4, <3>2, <3>4, <4>1
      <4>2. CASE k # j
        <5>1. Underway(k) /\ At(k) \in Filling /\ job'[k].day = job[k].day /\ job[k].day \in Days
          BY <2>2, <3>4, <4>2 DEF DaysInv
        <5>2. batch[job[k].day].items = {} \/ Two(BatchKinds)
          BY <5>1 DEF BatchInv
        <5> QED
          BY <1>1, <2>4, <3>2, <4>2, <5>1, <5>2
      <4> QED
        BY <4>1, <4>2
    <3> QED
      BY <3>1, <3>3, <3>4 DEF BatchInv
  <2>5. ASSUME batch' = batch, At(j) \notin {"deleteItems", "insertBatch"} PROVE BatchInv'
    <3>1. ASSUME NEW k \in Jobs, Underway(k)', At(k)' \in Filling
          PROVE  Underway(k) /\ At(k) \in Filling /\ job'[k].day = job[k].day
      BY <2>1, <2>2, <2>3, <2>5, <3>1
    <3> QED
      BY <1>1, <2>5, <3>1 DEF BatchInv
  <2>6. batch[d] \in [is: BOOLEAN, items: SUBSET Jobs] /\ batch = [e \in Days |-> batch[e]]
    BY <2>1 DEF BatchInv
  <2>7. ASSUME batch' = [batch EXCEPT ![d].is = TRUE], ~batch[d].is PROVE BatchInv'
    <3> DEFINE row == [batch[d] EXCEPT !.is = TRUE]
    <3>1. row \in [is: BOOLEAN, items: SUBSET Jobs] /\ row.is /\ row.items = {} /\ batch' = [batch EXCEPT ![d] = row]
      BY <2>1, <2>6, <2>7 DEF BatchInv
    <3> HIDE DEF row
    <3> QED
      BY <2>4, <3>1
  <2>8. CASE At(j) = "createBatch"
    <3>1. batch' = batch \/ (~batch[d].is /\ batch' = [batch EXCEPT ![d].is = TRUE])
      BY <1>2, <2>8, Which DEF CreateBatch
    <3> QED
      BY <2>5, <2>7, <2>8, <3>1
  <2>9. CASE At(j) = "insertBatch"
    <3>1. \/ Throws(j) /\ batch' = batch
          \/ ~batch[d].is /\ batch' = [batch EXCEPT ![d].is = TRUE]
      BY <1>2, <2>9, Which DEF InsertBatch
    <3>2. ASSUME Throws(j), batch' = batch PROVE BatchInv'
      <4>1. ~Underway(j)'
        BY <2>1, <3>2, EndsQuit DEF Quits, Underway
      <4> QED
        BY <1>1, <2>2, <3>2, <4>1 DEF BatchInv
    <3> QED
      BY <2>7, <3>1, <3>2
  <2>10. CASE At(j) = "deleteItems"
    <3> DEFINE row == [batch[d] EXCEPT !.items = {}]
    <3>1. batch' = [batch EXCEPT ![d].items = {}]
      BY <1>2, <2>10, Which DEF DeleteItems
    <3>2. row \in [is: BOOLEAN, items: SUBSET Jobs] /\ row.items = {} /\ batch' = [batch EXCEPT ![d] = row]
      BY <2>1, <2>6, <3>1
    <3> HIDE DEF row
    <3> QED
      BY <2>4, <3>2
  <2>11. CASE At(j) = "createItems"
    <3>1. batch' = [batch EXCEPT ![d].items = IF Saw(j).titles = {} THEN @ ELSE @ \cup {j}] /\ Continues(j)
      BY <1>2, <2>11, Which DEF CreateItems
    <3>2. CASE Saw(j).titles = {}
      <4>1. batch' = batch
        BY <2>6, <3>1, <3>2
      <4> QED
        BY <2>5, <2>11, <4>1
    <3>3. CASE Saw(j).titles # {}
      <4> DEFINE row == [batch[d] EXCEPT !.items = @ \cup {j}]
      <4>1. /\ row \in [is: BOOLEAN, items: SUBSET Jobs] /\ row.items = batch[d].items \cup {j} /\ row.is = batch[d].is
            /\ batch' = [batch EXCEPT ![d] = row]
        BY <2>1, <2>6, <3>1, <3>3
      <4>2. batch[d].items = {} \/ Two(BatchKinds)
        BY <2>1, <2>11 DEF BatchInv, Filling
      <4>3. job[j].kind \in BatchKinds
        BY <2>1, <2>11, AtFilling DEF Filling
      <4>4. Underway(j)' => At(j)' \notin Filling
        <5>1. ASSUME Underway(j)' PROVE Door(job[j].kind, At(j)') \/ Way(job[j].kind, At(j), At(j)')
          <6>1. Passes(j, job[j].seen)
            BY <2>1, <3>1, ContinuesPasses
          <6> QED
            BY <5>1, <6>1 DEF Passes, Quits, Underway
        <5>2. \A k, r : ~Way(k, "createItems", r)
          BY DEF Way
        <5> QED
          BY <2>11, <5>1, <5>2, BatchWays
      <4>5. ASSUME NEW k \in Jobs \ {j}, Underway(k), At(k) \in Filling PROVE Two(BatchKinds)
        BY <2>1, <4>3, <4>5, AtFilling, Meeting
      <4>6. row.is
        BY <2>1, <2>11, <4>1 DEF StoredInv, Stored, Filling
      <4> HIDE DEF row
      <4> QED
        BY <2>4, <4>1, <4>2, <4>4, <4>5, <4>6
    <3> QED
      BY <3>2, <3>3
  <2>12. CASE At(j) \notin {"createBatch", "insertBatch", "deleteItems", "createItems"}
    <3>1. batch' = batch
      BY <2>1, <2>12 DEF Frame
    <3> QED
      BY <2>5, <2>12, <3>1
  <2> QED
    BY <2>8, <2>9, <2>10, <2>11, <2>12
<1>3. CASE Otherwise
  <2>1. batch' = batch
    BY <1>3 DEF Otherwise, readingVars
  <2>2. ASSUME NEW k \in Jobs, Underway(k)', At(k)' \in Filling
        PROVE  Underway(k) /\ At(k) \in Filling /\ job'[k].day = job[k].day
    BY <1>3, <2>2, BatchWays DEF Otherwise, Waits, Comes, Departs
  <2> QED
    BY <1>1, <2>1, <2>2 DEF BatchInv
<1> QED
  BY <1>2, <1>3, Elsewise

----------------------------------------------------------------------------
(* Jobs keep apart.                                                         *)
LEMMA AtMostOne ==
    ASSUME NEW S, \A x, y \in S : x = y
    PROVE  IsFiniteSet(S) /\ Cardinality(S) <= 1
<1>1. CASE S = {}
  BY <1>1, FS_EmptySet
<1>2. ASSUME NEW x \in S PROVE IsFiniteSet(S) /\ Cardinality(S) = 1
  <2>1. S = {x}
    OBVIOUS
  <2> QED
    BY <2>1, FS_Singleton
<1> QED
  BY <1>1, <1>2

LEMMA AtLeastTwo ==
    ASSUME NEW S, IsFiniteSet(S), NEW x \in S, NEW y \in S, x # y
    PROVE  Cardinality(S) >= 2
<1> DEFINE T == S \ {x}
<1>1. IsFiniteSet(T) /\ Cardinality(T) = Cardinality(S) - 1 /\ T # {} /\ Cardinality(S) \in Nat
  BY FS_RemoveElement, FS_CardinalityType
<1>2. Cardinality(T) \in Nat /\ Cardinality(T) # 0
  BY <1>1, FS_CardinalityType, FS_EmptySet
<1> QED
  BY <1>1, <1>2

ApartInv == JobInv /\ FlagsInv /\ AloneInv /\ DaysInv /\ LessonsInv /\ StoredInv /\ BatchInv

LEMMA ApartFirst == Init => ApartInv
BY JobFirst, FlagsFirst, AloneFirst, DaysFirst, LessonsFirst, StoredFirst, BatchFirst DEF ApartInv

LEMMA ApartKept == ApartInv /\ [Next]_vars => ApartInv'
BY JobKept, FlagsKept, AloneKept, DaysKept, LessonsKept, StoredKept, BatchKept DEF ApartInv

LEMMA ApartAlways == Spec => []ApartInv
BY ApartFirst, ApartKept, PTL DEF Spec

LEMMA TwoOverlap ==
    ASSUME NEW kinds, Two(kinds)
    PROVE  Overlapped(kinds)
<1> DEFINE S == {j \in Jobs : job[j].kind \in kinds /\ ~job[j].alone}
<1>1. IsFiniteSet(S)
  BY JobsAssumption, FS_Subset
<1>2. \E i, k \in S : i # k
  BY DEF Two
<1> HIDE DEF S
<1>3. Cardinality(S) >= 2
  BY <1>1, <1>2, AtLeastTwo
<1> QED
  BY <1>3 DEF Overlapped, S

LEMMA ApartHolds == ApartInv => JobsStayApart
<1> SUFFICES ASSUME ApartInv PROVE JobsStayApart
  OBVIOUS
<1>1. ASSUME NEW f \in Locks PROVE Cardinality(Holders(f)) <= 1 /\ (f \in flags <=> Holders(f) # {})
  <2>1. \A x, y \in Holders(f) : x = y
    BY DEF ApartInv, FlagsInv, Holders
  <2>2. f \in flags <=> Holders(f) # {}
    BY DEF ApartInv, FlagsInv, Holders
  <2> QED
    BY <2>1, <2>2, AtMostOne
<1>2. "spot" \in flags => Holders("spot") # {}
  BY DEF ApartInv, FlagsInv, Holders
<1>3. OneOfAKind
  BY <1>1, <1>2 DEF OneOfAKind, Locks
<1>4. ASSUME NEW t \in Lucid, lessons[t] > 1 PROVE Overlapped({"lesson", "pdf", "world"})
  <2>1. Two(LessonKinds)
    BY <1>4 DEF ApartInv, LessonsInv
  <2> QED
    BY <2>1, TwoOverlap DEF LessonKinds
<1>5. ASSUME NEW d \in Days, Cardinality(batch[d].items) > 1 PROVE Overlapped({"newsTick", "newsForce"})
  <2>1. ~(\A x, y \in batch[d].items : x = y)
    <3> SUFFICES ASSUME \A x, y \in batch[d].items : x = y PROVE FALSE
      OBVIOUS
    <3>1. Cardinality(batch[d].items) <= 1 /\ Cardinality(batch[d].items) \in Nat
      BY AtMostOne, FS_CardinalityType
    <3> QED
      BY <1>5, <3>1
  <2>2. Two(BatchKinds)
    BY <2>1 DEF ApartInv, BatchInv
  <2> QED
    BY <2>2, TwoOverlap DEF BatchKinds
<1> QED
  BY <1>3, <1>4, <1>5 DEF JobsStayApart, MixturesNeedOverlap

(* No two jobs refresh the world, fill in Yahoo's prices, read the news by  *)
(* the clock or capture a graph at a time, a field that is set has a job    *)
(* that gives it back, and titles or news that are mixed up take two jobs   *)
(* that overlap; for any number of jobs, days, failures and restarts.       *)
THEOREM ContentJobsStayApart == Spec => []JobsStayApart
BY ApartAlways, ApartHolds, PTL

----------------------------------------------------------------------------
(* The world's markets and news.                                            *)
WorldKinds == {"world", "catchUp"}
Early == {"checkWorld", "claimWorld"}
NewsOfWorld == {"askWorld", "storeWorldNews"}
WorldInv ==
    /\ worldNews \in 0 .. today
    /\ \A j \in Jobs : Underway(j) /\ job[j].kind \in WorldKinds /\ At(j) \notin Early => "world" \in job[j].holds
    /\ \A j \in Jobs : Underway(j) /\ job[j].kind \in WorldKinds /\ At(j) \notin Early \cup {"pages"} => worldNews <= job[j].day
    /\ \A j \in Jobs : Underway(j) /\ At(j) \in NewsOfWorld => worldNews # job[j].day

LEMMA WorldFirst == Init => WorldInv
BY DEF Init, InitJobs, InitQuotes, WorldInv, NoJob, Underway, Unset

LEMMA WorldWays ==
    /\ \A k \in WorldKinds : \A s : /\ FirstStep(k, s) => s \in Early
                                    /\ Place(k, s) /\ s \in Claiming => s = "claimWorld"
    /\ \A k, s : FirstStep(k, s) \/ Door(k, s) => s \notin NewsOfWorld
    /\ \A k, s : Door(k, s) => s \notin Early \cup {"pages"}
    /\ \A k, s : Place(k, s) /\ s \in NewsOfWorld \cup {"pages"} => k \in WorldKinds
    /\ \A k, r, s : Way(k, r, s) => /\ (r = "checkWorld" => s = "claimWorld") /\ (r = "claimWorld" => s = "pages")
                                    /\ (s = "claimWorld" => r = "checkWorld") /\ s # "checkWorld"
                                    /\ (s = "pages" => r = "claimWorld") /\ (r = "pages" => s = "replace")
                                    /\ (s = "askWorld" => r = "countNews") /\ (s = "storeWorldNews" => r = "askWorld")
                                    /\ (r = "storeWorldNews" => s = "readTitles")
<1>1. ASSUME NEW k \in WorldKinds, NEW s
      PROVE  /\ FirstStep(k, s) => s \in Early
             /\ Place(k, s) /\ s \in Claiming => s = "claimWorld"
  BY DEF FirstStep, Door, Way, Place, WorldKinds, Early, Claiming
<1>2. ASSUME NEW k, NEW s
      PROVE  /\ FirstStep(k, s) \/ Door(k, s) => s \notin NewsOfWorld
             /\ Door(k, s) => s \notin Early \cup {"pages"}
  BY DEF FirstStep, Door, NewsOfWorld, Early
<1>3. ASSUME NEW k, NEW s, Place(k, s), s \in NewsOfWorld \cup {"pages"} PROVE k \in WorldKinds
  BY <1>3 DEF FirstStep, Door, Way, Place, NewsOfWorld, WorldKinds
<1>4. ASSUME NEW k, NEW r, NEW s, Way(k, r, s)
      PROVE  /\ (r = "checkWorld" => s = "claimWorld") /\ (r = "claimWorld" => s = "pages")
             /\ (s = "claimWorld" => r = "checkWorld") /\ s # "checkWorld"
             /\ (s = "pages" => r = "claimWorld") /\ (r = "pages" => s = "replace")
             /\ (s = "askWorld" => r = "countNews") /\ (s = "storeWorldNews" => r = "askWorld")
             /\ (r = "storeWorldNews" => s = "readTitles")
  BY <1>4 DEF Way
<1> QED
  BY <1>1, <1>2, <1>3, <1>4

LEMMA MidstOnward ==
    ASSUME JobInv, NEW j \in Jobs, Underway(j), At(j) \in Midst, NEW seen, SeenShape(seen), Onward(j, seen)
    PROVE  Remains(j) /\ Way(job[j].kind, At(j), At(j)') /\ job'[j].seen = seen /\ job'[j].day = job[j].day
<1> DEFINE rest == Rest(j)
<1>1. /\ rest # << >> /\ Path(job[j].kind, rest) /\ Len(rest) = Len(job[j].todo)
      /\ Way(job[j].kind, At(j), Head(Head(rest)))
  BY MidstAfter
<1>2. Goes(j, rest, seen)
  BY DEF Onward
<1> HIDE DEF rest
<1>3. Remains(j) /\ job'[j].seen = seen /\ job'[j].todo = rest /\ job'[j].day = job[j].day
  BY <1>1, <1>2, GoesOn
<1> QED
  BY <1>1, <1>3 DEF At

(* The field of the world goes along with the job.                          *)
LEMMA WorldHeld ==
    ASSUME JobInv, FlagsInv, WorldInv, [Next]_vars, NEW j \in Jobs, Underway(j)', job'[j].kind \in WorldKinds, At(j)' \notin Early
    PROVE  "world" \in job'[j].holds
<1>1. ASSUME NEW k \in Jobs, Does(k) PROVE "world" \in job'[j].holds
  <2>1. Underway(k) /\ Turns(k)
    BY <1>1, Turning
  <2>2. CASE j # k
    BY <2>1, <2>2, Bystanders DEF WorldInv
  <2>3. CASE j = k
    <3>1. /\ job[j].kind \in WorldKinds /\ Underway(j) /\ (At(j) \notin Claiming => job'[j].holds = job[j].holds)
          /\ Place(job[j].kind, At(j)) /\ SeenShape(job[j].seen)
      BY <2>1, <2>3, Leads, Ongoing
    <3>2. CASE At(j) = "checkWorld"
      <4>1. CheckWorld(j) /\ At(j) \in Midst
        BY <1>1, <2>3, <3>2, Which DEF Midst
      <4>2. ~Finishes(j)
        BY <3>1, EndsQuit DEF Quits, Underway
      <4>3. Onward(j, job[j].seen)
        BY <4>1, <4>2 DEF CheckWorld, Continues
      <4>4. Way(job[j].kind, At(j), At(j)')
        BY <3>1, <4>1, <4>3, MidstOnward
      <4> QED
        BY <3>2, <4>4, WorldWays DEF Early
    <3>3. CASE At(j) = "claimWorld"
      <4>1. ClaimWorld(j)
        BY <1>1, <2>3, <3>3, Which
      <4>2. Quits(j) \/ Grabs(j, "world")
        BY <4>1, TurnClaims
      <4> QED
        BY <4>2 DEF Quits, Underway, Grabs, Takes
    <3>4. CASE At(j) \notin Early
      <4>1. At(j) \notin Claiming
        BY <3>1, <3>4, WorldWays DEF Early
      <4> QED
        BY <3>1, <3>4, <4>1 DEF WorldInv
    <3> QED
      BY <3>2, <3>3, <3>4 DEF Early
  <2> QED
    BY <2>2, <2>3
<1>2. CASE Otherwise
  <2>1. Waits(j) \/ Comes(j) \/ Departs(j)
    BY <1>2 DEF Otherwise
  <2>2. ~Comes(j)
    BY WorldWays DEF Comes
  <2>3. Departs(j) => At(j) \notin Early
    BY DEF Departs, Opening, Early
  <2> QED
    BY <2>1, <2>2, <2>3 DEF Waits, Departs, WorldInv
<1> QED
  BY <1>1, <1>2, Elsewise

LEMMA WorldKept == JobInv /\ FlagsInv /\ DaysInv /\ WorldInv /\ [Next]_vars => WorldInv'
<1> SUFFICES ASSUME JobInv, FlagsInv, DaysInv, WorldInv, [Next]_vars PROVE WorldInv'
  OBVIOUS
<1>0. today' >= today /\ today \in Int /\ today' \in Int /\ worldNews \in Int
  BY TodayStays DEF JobInv, Days, WorldInv
<1>1. \A j \in Jobs : Underway(j)' /\ job'[j].kind \in WorldKinds /\ At(j)' \notin Early => "world" \in job'[j].holds
  BY WorldHeld
(* As long as the news stay, only who arrives is of interest.               *)
<1>2. ASSUME worldNews' = worldNews,
             \A j \in Jobs : Underway(j)' /\ job'[j].kind \in WorldKinds /\ At(j)' \notin Early \cup {"pages"} =>
                \/ job'[j].day = today
                \/ Underway(j) /\ job[j].kind \in WorldKinds /\ At(j) \notin Early \cup {"pages"} /\ job'[j].day = job[j].day,
             \A j \in Jobs : Underway(j)' /\ At(j)' \in NewsOfWorld =>
                \/ worldNews # job'[j].day
                \/ Underway(j) /\ At(j) \in NewsOfWorld /\ job'[j].day = job[j].day
      PROVE  WorldInv'
  <2>1. worldNews' \in 0 .. today'
    BY <1>0, <1>2 DEF WorldInv
  <2>2. ASSUME NEW j \in Jobs, Underway(j)', job'[j].kind \in WorldKinds, At(j)' \notin Early \cup {"pages"}
        PROVE  worldNews' <= job'[j].day
    <3>1. CASE job'[j].day = today
      BY <1>2, <3>1 DEF WorldInv
    <3>2. CASE job'[j].day # today
      BY <1>2, <2>2, <3>2 DEF WorldInv
    <3> QED
      BY <3>1, <3>2
  <2>3. ASSUME NEW j \in Jobs, Underway(j)', At(j)' \in NewsOfWorld PROVE worldNews' # job'[j].day
    BY <1>2, <2>3 DEF WorldInv
  <2> QED
    BY <1>1, <2>1, <2>2, <2>3 DEF WorldInv
<1>3. ASSUME NEW j \in Jobs, Does(j) PROVE WorldInv'
  <2>1. Underway(j) /\ Turns(j) /\ Frame(At(j)) /\ today' = today /\ Place(job[j].kind, At(j)) /\ SeenShape(job[j].seen)
    BY <1>3, Turning, Framed, Ongoing DEF Frame
  <2>2. \A k \in Jobs \ {j} : job'[k] = job[k] /\ (Underway(k)' <=> Underway(k)) /\ At(k)' = At(k)
    BY <2>1, Bystanders
  <2>3. CASE At(j) = "storeWorldNews"
    <3>1. StoreWorldNews(j) /\ worldNews' = job[j].day /\ Continues(j)
      BY <1>3, <2>3, Which DEF StoreWorldNews
    <3>2. job[j].kind \in WorldKinds /\ "world" \in job[j].holds /\ job[j].day \in Days /\ job[j].day <= today
      BY <2>1, <2>3, WorldWays DEF NewsOfWorld, WorldInv, Early, DaysInv
    <3>3. ASSUME NEW k \in Jobs \ {j} PROVE ~(Underway(k) /\ job[k].kind \in WorldKinds /\ At(k) \notin Early)
      BY <3>2 DEF WorldInv, FlagsInv, Locks
    <3>4. ASSUME Underway(j)' PROVE job'[j].day = job[j].day /\ At(j)' \notin NewsOfWorld
      <4>1. Passes(j, job[j].seen)
        BY <2>1, <3>1, ContinuesPasses
      <4>2. job'[j].day = job[j].day /\ (Door(job[j].kind, At(j)') \/ Way(job[j].kind, At(j), At(j)'))
        BY <3>4, <4>1 DEF Passes, Quits, Underway
      <4> QED
        BY <2>3, <4>2, WorldWays DEF NewsOfWorld
    <3>5. worldNews' \in 0 .. today'
      BY <1>0, <3>1, <3>2 DEF Days
    <3>6. ASSUME NEW k \in Jobs, Underway(k)', job'[k].kind \in WorldKinds, At(k)' \notin Early \cup {"pages"}
          PROVE  worldNews' <= job'[k].day
      <4>1. k = j
        BY <2>2, <3>3, <3>6
      <4> QED
        BY <1>0, <3>1, <3>4, <3>6, <4>1, <3>2 DEF Days
    <3>7. ASSUME NEW k \in Jobs, Underway(k)', At(k)' \in NewsOfWorld PROVE worldNews' # job'[k].day
      <4>1. k # j
        BY <3>4, <3>7
      <4>2. Underway(k) /\ At(k) \in NewsOfWorld
        BY <2>2, <3>7, <4>1
      <4>3. job[k].kind \in WorldKinds /\ At(k) \notin Early
        BY <4>2, Ongoing, WorldWays DEF NewsOfWorld, Early
      <4> QED
        BY <3>3, <4>1, <4>2, <4>3
    <3> QED
      BY <1>1, <3>5, <3>6, <3>7 DEF WorldInv
  <2>4. CASE At(j) # "storeWorldNews"
    <3>1. worldNews' = worldNews
      BY <2>1, <2>4 DEF Frame
    <3>2. ASSUME Underway(j)', job'[j].kind \in WorldKinds, At(j)' \notin Early \cup {"pages"}
          PROVE  \/ job'[j].day = today
                 \/ Underway(j) /\ job[j].kind \in WorldKinds /\ At(j) \notin Early \cup {"pages"} /\ job'[j].day = job[j].day
      <4>1. CASE At(j) = "pages"
        <5>1. Pages(j)
          BY <1>3, <4>1, Which
        <5> QED
          BY <3>2, <5>1, TurnPages DEF Quits, Underway
      <4>2. CASE At(j) # "pages"
        <5>1. job[j].kind \in WorldKinds /\ job'[j].day = job[j].day
          BY <2>1, <3>2, <4>2, Leads
        <5>2. At(j) # "claimWorld"
          <6> SUFFICES ASSUME At(j) = "claimWorld" PROVE FALSE
            OBVIOUS
          <6>1. Quits(j) \/ Grabs(j, "world")
            BY <1>3, Which, TurnClaims
          <6>2. Way(job[j].kind, At(j), At(j)')
            BY <3>2, <6>1 DEF Quits, Underway, Grabs, Takes
          <6> QED
            BY <3>2, <6>2, WorldWays
        <5>3. At(j) # "checkWorld"
          <6> SUFFICES ASSUME At(j) = "checkWorld" PROVE FALSE
            OBVIOUS
          <6>1. CheckWorld(j) /\ At(j) \in Midst
            BY <1>3, Which DEF Midst
          <6>2. ~Finishes(j)
            BY <2>1, <3>2, EndsQuit DEF Quits, Underway
          <6>3. Onward(j, job[j].seen)
            BY <6>1, <6>2 DEF CheckWorld, Continues
          <6>4. Way(job[j].kind, At(j), At(j)')
            BY <2>1, <6>1, <6>3, MidstOnward
          <6> QED
            BY <3>2, <6>4, WorldWays DEF Early
        <5> QED
          BY <2>1, <4>2, <5>1, <5>2, <5>3 DEF Early
      <4> QED
        BY <4>1, <4>2
    <3>3. ASSUME Underway(j)', At(j)' \in NewsOfWorld
          PROVE  worldNews # job'[j].day \/ (Underway(j) /\ At(j) \in NewsOfWorld /\ job'[j].day = job[j].day)
      <4>1. \/ At(j)' = At(j) \/ Door(job[j].kind, At(j)') \/ Way(job[j].kind, At(j), At(j)')
        BY <2>1, <3>3, Leads
      <4>2. At(j) \in NewsOfWorld \/ At(j) = "countNews"
        BY <3>3, <4>1, WorldWays DEF NewsOfWorld
      <4>3. At(j) # "pages"
        BY <4>2 DEF NewsOfWorld
      <4>4. job'[j].day = job[j].day
        BY <2>1, <3>3, <4>3, Leads
      <4>5. CASE At(j) = "countNews"
        <5>1. CountNews(j)
          BY <1>3, <4>5, Which
        <5>2. CASE worldNews = job[j].day
          <6>1. LeavesBlock(j)
            BY <5>1, <5>2 DEF CountNews
          <6>2. Door(job[j].kind, At(j)')
            BY <2>1, <3>3, <6>1, LeavesSkips DEF Skips, Quits, Underway
          <6> QED
            BY <3>3, <6>2, WorldWays
        <5> QED
          BY <4>4, <5>2
      <4> QED
        BY <2>1, <4>2, <4>4, <4>5
    <3> QED
      BY <1>2, <2>2, <3>1, <3>2, <3>3
  <2> QED
    BY <2>3, <2>4
<1>4. CASE Otherwise
  <2>1. worldNews' = worldNews
    BY <1>4 DEF Otherwise, quoteVars
  <2>2. ASSUME NEW j \in Jobs, Underway(j)', job'[j].kind \in WorldKinds, At(j)' \notin Early \cup {"pages"}
        PROVE  \/ job'[j].day = today
               \/ Underway(j) /\ job[j].kind \in WorldKinds /\ At(j) \notin Early \cup {"pages"} /\ job'[j].day = job[j].day
    <3>1. Departs(j) => At(j) \notin Early \cup {"pages"}
      BY DEF Departs, Opening, Early
    <3> QED
      BY <1>4, <2>2, <3>1 DEF Otherwise, Waits, Comes, Departs
  <2>3. ASSUME NEW j \in Jobs, Underway(j)', At(j)' \in NewsOfWorld
        PROVE  Underway(j) /\ At(j) \in NewsOfWorld /\ job'[j].day = job[j].day
    BY <1>4, <2>3, WorldWays DEF Otherwise, Waits, Comes, Departs
  <2> QED
    BY <1>2, <2>1, <2>2, <2>3
<1> QED
  BY <1>3, <1>4, Elsewise

----------------------------------------------------------------------------
(* The clock asks once a day for news.                                      *)
Asking(j) == Underway(j) /\ job[j].kind = "newsTick" /\ At(j) = "askNews"
ReadsInv ==
    /\ reads \in [Days -> SUBSET Jobs]
    /\ \A d \in Days : /\ \A i, k \in reads[d] : i = k
                       /\ reads[d] # {} => batch[d].is
    /\ \A j \in Jobs : Asking(j) => batch[job[j].day].is /\ reads[job[j].day] = {}
    /\ \A i, k \in Jobs : Asking(i) /\ Asking(k) /\ job[i].day = job[k].day => i = k

LEMMA ReadsFirst == Init => ReadsInv
BY DEF Init, InitJobs, InitReading, ReadsInv, Asking, NoJob, Underway

LEMMA ReadsWays ==
    /\ \A s : FirstStep("newsTick", s) => s # "askNews"
    /\ \A k, s : Door(k, s) => s # "askNews"
    /\ \A k, r : Way(k, r, "askNews") => r = "createBatch"
    /\ \A k, r : ~Way(k, "askNews", "askNews")
BY DEF FirstStep, Door, Way

LEMMA ReadsKept == JobInv /\ DaysInv /\ BatchInv /\ ReadsInv /\ [Next]_vars => ReadsInv'
<1> SUFFICES ASSUME JobInv, DaysInv, BatchInv, ReadsInv, [Next]_vars PROVE ReadsInv'
  OBVIOUS
<1>1. \A d \in Days : batch[d].is => batch'[d].is
  BY BatchesStay
(* Nobody new asks.                                                         *)
<1>2. ASSUME reads' = reads, \A k \in Jobs : Asking(k)' => Asking(k) /\ job'[k].day = job[k].day PROVE ReadsInv'
  <2>1. \A k \in Jobs : Asking(k) => job[k].day \in Days
    BY DEF Asking, DaysInv
  <2> QED
    BY <1>1, <1>2, <2>1 DEF ReadsInv
<1>3. ASSUME NEW j \in Jobs, Does(j) PROVE ReadsInv'
  <2> DEFINE d == job[j].day
  <2>1. Underway(j) /\ Turns(j) /\ Frame(At(j)) /\ d \in Days
    BY <1>3, Turning, Framed DEF DaysInv
  <2>2. \A k \in Jobs \ {j} : (Asking(k)' <=> Asking(k)) /\ job'[k].day = job[k].day
    BY <2>1, Bystanders DEF Asking
  <2>3. ASSUME Asking(j)' PROVE (Asking(j) \/ At(j) = "createBatch") /\ job'[j].day = d /\ job[j].kind = "newsTick"
    <3>1. /\ job[j].kind = "newsTick" /\ (At(j) # "pages" => job'[j].day = d)
          /\ At(j)' = At(j) \/ Door(job[j].kind, At(j)') \/ Way(job[j].kind, At(j), At(j)')
      BY <2>1, <2>3, Leads DEF Asking
    <3>2. At(j) = "askNews" \/ At(j) = "createBatch"
      BY <2>3, <3>1, ReadsWays DEF Asking
    <3> QED
      BY <2>1, <3>1, <3>2 DEF Asking
  <2>4. CASE At(j) = "askNews"
    <3>1. AskNews(j)
      BY <1>3, <2>4, Which
    <3>2. ~Asking(j)'
      <4> SUFFICES ASSUME Asking(j)' PROVE FALSE
        BY Zenon
      <4>1. PICK v : SeenShape(v) /\ Onward(j, v)
        BY <2>1, <3>1, Views DEF AskNews
      <4>2. Passes(j, v)
        BY <2>1, <4>1, OnwardPasses
      <4> QED
        BY <2>4, <4>2, ReadsWays DEF Passes, Quits, Asking, Underway
    <3>3. CASE job[j].kind # "newsTick"
      <4>1. reads' = reads
        BY <3>1, <3>3 DEF AskNews
      <4> QED
        BY <1>2, <2>2, <3>2, <4>1
    <3>4. CASE job[j].kind = "newsTick"
      <4>1. Asking(j) /\ batch[d].is /\ reads[d] = {}
        BY <2>1, <2>4, <3>4 DEF Asking, ReadsInv
      <4>2. reads' = [reads EXCEPT ![d] = @ \cup {j}]
        BY <3>1, <3>4 DEF AskNews
      <4>3. /\ reads' \in [Days -> SUBSET Jobs] /\ \A e \in Days : reads'[e] = IF e = d THEN {j} ELSE reads[e]
        BY <2>1, <4>1, <4>2 DEF ReadsInv
      <4>4. ASSUME NEW k \in Jobs, Asking(k)'
            PROVE  k # j /\ Asking(k) /\ job'[k].day = job[k].day /\ job[k].day # d /\ job[k].day \in Days
        <5>1. k # j /\ Asking(k) /\ job'[k].day = job[k].day
          BY <2>2, <3>2, <4>4
        <5> QED
          BY <4>1, <5>1 DEF ReadsInv, Asking, DaysInv
      <4>5. \A e \in Days : (\A i, k \in reads'[e] : i = k) /\ (reads'[e] # {} => batch'[e].is)
        BY <1>1, <4>1, <4>3 DEF ReadsInv
      <4>6. \A k \in Jobs : Asking(k)' => batch'[job'[k].day].is /\ reads'[job'[k].day] = {}
        BY <1>1, <4>3, <4>4 DEF ReadsInv
      <4>7. \A i, k \in Jobs : Asking(i)' /\ Asking(k)' /\ job'[i].day = job'[k].day => i = k
        BY <4>4 DEF ReadsInv
      <4> QED
        BY <4>3, <4>5, <4>6, <4>7 DEF ReadsInv
    <3> QED
      BY <3>3, <3>4
  <2>5. CASE At(j) = "createBatch"
    <3>1. CreateBatch(j) /\ reads' = reads
      BY <1>3, <2>1, <2>5, Which DEF Frame
    <3>2. CASE batch[d].is
      <4>1. ~Underway(j)'
        BY <2>1, <3>1, <3>2, EndsQuit DEF CreateBatch, Quits, Underway
      <4> QED
        BY <1>2, <2>2, <3>1, <4>1 DEF Asking
    <3>3. CASE ~batch[d].is
      <4>1. batch' = [batch EXCEPT ![d].is = TRUE]
        BY <3>1, <3>3 DEF CreateBatch
      <4>2. batch'[d].is
        BY <2>1, <4>1 DEF BatchInv
      <4>3. reads[d] = {} /\ \A k \in Jobs : Asking(k) => job[k].day # d
        BY <2>1, <3>3 DEF ReadsInv
      <4>4. \A k \in Jobs : Asking(k)' => \/ k # j /\ Asking(k) /\ job'[k].day = job[k].day /\ job[k].day \in Days
                                          \/ k = j /\ job'[k].day = d
        BY <2>2, <2>3 DEF Asking, DaysInv
      <4>5. \A e \in Days : (\A i, k \in reads'[e] : i = k) /\ (reads'[e] # {} => batch'[e].is)
        BY <1>1, <3>1 DEF ReadsInv
      <4>6. \A k \in Jobs : Asking(k)' => batch'[job'[k].day].is /\ reads'[job'[k].day] = {}
        BY <1>1, <3>1, <4>2, <4>3, <4>4 DEF ReadsInv
      <4>7. \A i, k \in Jobs : Asking(i)' /\ Asking(k)' /\ job'[i].day = job'[k].day => i = k
        BY <4>3, <4>4 DEF ReadsInv
      <4> QED
        BY <3>1, <4>5, <4>6, <4>7 DEF ReadsInv
    <3> QED
      BY <3>2, <3>3
  <2>6. CASE At(j) \notin {"askNews", "createBatch"}
    <3>1. reads' = reads
      BY <2>1, <2>6 DEF Frame
    <3>2. ~Asking(j)'
      BY <2>3, <2>6 DEF Asking
    <3> QED
      BY <1>2, <2>2, <3>1, <3>2
  <2> QED
    BY <2>4, <2>5, <2>6
<1>4. CASE Otherwise
  <2>1. reads' = reads
    BY <1>4 DEF Otherwise, readingVars
  <2>2. ASSUME NEW k \in Jobs, Asking(k)' PROVE Asking(k) /\ job'[k].day = job[k].day
    BY <1>4, <2>2, ReadsWays DEF Otherwise, Waits, Comes, Departs, Asking
  <2> QED
    BY <1>2, <2>1, <2>2
<1> QED
  BY <1>3, <1>4, Elsewise

----------------------------------------------------------------------------
(* Graphs of the exchange.                                                  *)
Newer(s) == {t \in snaps : t.n > s.n}
SnapsInv ==
    /\ IsFiniteSet(snaps)
    /\ \A j \in Jobs : Underway(j) /\ job[j].kind = "forex" /\ At(j) # "claimForex" => "forex" \in job[j].holds
    /\ \A j \in Jobs : Underway(j) /\ At(j) = "deleteOld" =>
          \A s \in snaps \cap job[j].seen.titles : Cardinality(Newer(s)) >= Keep

LEMMA SnapsFirst == Init => SnapsInv
BY FS_EmptySet DEF Init, InitJobs, InitReading, SnapsInv, NoJob, Underway

LEMMA SnapsWays ==
    /\ \A s : FirstStep("forex", s) => s = "claimForex"
    /\ \A k, s : FirstStep(k, s) \/ Door(k, s) => s # "deleteOld"
    /\ \A s : ~Door("forex", s)
    /\ \A s : Place("forex", s) /\ s \in Claiming => s = "claimForex"
    /\ \A k, s : Place(k, s) /\ s \in {"capture", "deleteOld"} => k = "forex"
    /\ \A k, r : Way(k, r, "deleteOld") => r = "readOld"
<1>1. (\A s : FirstStep("forex", s) => s = "claimForex") /\ \A s : ~Door("forex", s)
  BY DEF FirstStep, Door
<1>2. \A k, s : FirstStep(k, s) \/ Door(k, s) => s # "deleteOld"
  BY DEF FirstStep, Door
<1>3. ASSUME NEW s, Place("forex", s), s \in Claiming PROVE s = "claimForex"
  BY <1>3 DEF FirstStep, Door, Way, Place, Claiming
<1>4. ASSUME NEW k, NEW s, Place(k, s), s \in {"capture", "deleteOld"} PROVE k = "forex"
  BY <1>4 DEF FirstStep, Door, Way, Place
<1>5. \A k, r : Way(k, r, "deleteOld") => r = "readOld"
  BY DEF Way
<1> QED
  BY <1>1, <1>2, <1>3, <1>4, <1>5

(* The field goes along with the job, and keeps other captures away.        *)
LEMMA ForexHeld ==
    ASSUME JobInv, SnapsInv, [Next]_vars, NEW j \in Jobs, Underway(j)', job'[j].kind = "forex", At(j)' # "claimForex"
    PROVE  "forex" \in job'[j].holds
<1>1. ASSUME NEW k \in Jobs, Does(k) PROVE "forex" \in job'[j].holds
  <2>1. Underway(k) /\ Turns(k)
    BY <1>1, Turning
  <2>2. CASE j # k
    BY <2>1, <2>2, Bystanders DEF SnapsInv
  <2>3. CASE j = k
    <3>1. job[j].kind = "forex" /\ Underway(j) /\ (At(j) \notin Claiming => job'[j].holds = job[j].holds) /\ Place("forex", At(j))
      BY <2>1, <2>3, Leads, Ongoing
    <3>2. CASE At(j) = "claimForex"
      <4>1. Quits(j) \/ Grabs(j, "forex")
        BY <1>1, <2>3, <3>2, Which, TurnClaims
      <4> QED
        BY <4>1 DEF Quits, Underway, Grabs, Takes
    <3>3. CASE At(j) # "claimForex"
      BY <3>1, <3>3, SnapsWays DEF SnapsInv
    <3> QED
      BY <3>2, <3>3
  <2> QED
    BY <2>2, <2>3
<1>2. CASE Otherwise
  <2>1. Waits(j) \/ Comes(j) \/ Departs(j)
    BY <1>2 DEF Otherwise
  <2> QED
    BY <2>1, SnapsWays DEF Waits, Comes, Departs, SnapsInv
<1> QED
  BY <1>1, <1>2, Elsewise

LEMMA SnapsApart ==
    ASSUME JobInv, FlagsInv, SnapsInv, NEW i \in Jobs, NEW k \in Jobs, Underway(i), Underway(k),
           At(i) \in {"capture", "deleteOld"}, At(k) \in {"capture", "deleteOld"}
    PROVE  i = k
<1>1. job[i].kind = "forex" /\ job[k].kind = "forex"
  BY Ongoing, SnapsWays
<1> QED
  BY <1>1 DEF FlagsInv, SnapsInv, Locks

LEMMA SnapsKept == JobInv /\ FlagsInv /\ SnapsInv /\ [Next]_vars => SnapsInv'
<1> SUFFICES ASSUME JobInv, FlagsInv, SnapsInv, [Next]_vars PROVE SnapsInv'
  OBVIOUS
<1>1. \A j \in Jobs : Underway(j)' /\ job'[j].kind = "forex" /\ At(j)' # "claimForex" => "forex" \in job'[j].holds
  BY ForexHeld
<1>2. ASSUME snaps' = snaps,
             \A j \in Jobs : Underway(j)' /\ At(j)' = "deleteOld" =>
                \/ Underway(j) /\ At(j) = "deleteOld" /\ job'[j].seen = job[j].seen
                \/ \A s \in snaps \cap job'[j].seen.titles : Cardinality(Newer(s)) >= Keep
      PROVE  SnapsInv'
  <2>1. \A s : Newer(s)' = Newer(s)
    BY <1>2 DEF Newer
  <2>2. ASSUME NEW j \in Jobs, Underway(j)', At(j)' = "deleteOld", NEW s \in snaps' \cap job'[j].seen.titles
        PROVE  Cardinality({t \in snaps' : t.n > s.n}) >= Keep
    <3>1. Cardinality(Newer(s)) >= Keep
      BY <1>2, <2>2 DEF SnapsInv
    <3> QED
      BY <1>2, <3>1 DEF Newer
  <2> QED
    BY <1>1, <1>2, <2>2 DEF SnapsInv, Newer
<1>3. ASSUME NEW j \in Jobs, Does(j) PROVE SnapsInv'
  <2>1. Underway(j) /\ Turns(j) /\ Frame(At(j))
    BY <1>3, Turning, Framed
  <2>2. \A k \in Jobs \ {j} : job'[k] = job[k] /\ (Underway(k)' <=> Underway(k)) /\ At(k)' = At(k)
    BY <2>1, Bystanders
  <2>3. ASSUME Underway(j)', At(j)' = "deleteOld" PROVE At(j) \in {"readOld", "deleteOld"}
    BY <2>1, <2>3, Leads, SnapsWays
  <2>4. CASE At(j) = "readOld"
    <3> DEFINE old == {s \in snaps : Cardinality({t \in snaps : t.n > s.n}) >= Keep}
    <3>1. ReadOld(j) /\ snaps' = snaps
      BY <1>3, <2>1, <2>4, Which DEF Frame
    <3>2. ASSUME Underway(j)' PROVE job'[j].seen.titles = old
      <4> DEFINE v == [Saw(j) EXCEPT !.titles = old]
      <4>1. ~Finishes(j)
        BY <2>1, <3>2, EndsQuit DEF Quits, Underway
      <4>2. Onward(j, v)
        BY <3>1, <4>1 DEF ReadOld
      <4>3. SeenShape(v) /\ v.titles = old
        BY <2>1, Views DEF SeenShape, SeenFields
      <4> HIDE DEF v
      <4>4. Passes(j, v)
        BY <2>1, <4>2, <4>3, OnwardPasses
      <4> QED
        BY <3>2, <4>3, <4>4 DEF Passes, Quits, Underway
    <3>3. \A s \in old : Cardinality(Newer(s)) >= Keep
      BY DEF Newer
    <3> HIDE DEF old
    <3> QED
      BY <1>2, <2>2, <3>1, <3>2, <3>3
  <2>5. CASE At(j) = "capture"
    <3>1. snaps' = snaps \cup {[by |-> j, n |-> Latest + 1]}
      BY <1>3, <2>5, Which DEF Capture
    <3>2. IsFiniteSet(snaps')
      BY <3>1, FS_AddElement DEF SnapsInv
    <3>3. ASSUME NEW k \in Jobs, Underway(k)', At(k)' = "deleteOld" PROVE FALSE
      <4>1. k # j
        BY <2>3, <2>5, <3>3
      <4>2. Underway(k) /\ At(k) = "deleteOld"
        BY <2>2, <3>3, <4>1
      <4> QED
        BY <2>1, <2>5, <4>1, <4>2, SnapsApart
    <3> QED
      BY <1>1, <3>2, <3>3 DEF SnapsInv
  <2>6. CASE At(j) = "deleteOld"
    <3>1. snaps' = snaps \ Saw(j).titles /\ Continues(j)
      BY <1>3, <2>6, Which DEF DeleteOld
    <3>2. IsFiniteSet(snaps')
      BY <3>1, FS_Subset DEF SnapsInv
    <3>3. ~(Underway(j)' /\ At(j)' = "deleteOld")
      <4>1. Passes(j, job[j].seen)
        BY <2>1, <3>1, ContinuesPasses
      <4> QED
        BY <2>6, <4>1, SnapsWays DEF Passes, Quits, Underway
    <3>4. ASSUME NEW k \in Jobs, Underway(k)', At(k)' = "deleteOld" PROVE FALSE
      <4>1. k # j
        BY <3>3, <3>4
      <4>2. Underway(k) /\ At(k) = "deleteOld"
        BY <2>2, <3>4, <4>1
      <4> QED
        BY <2>1, <2>6, <4>1, <4>2, SnapsApart
    <3> QED
      BY <1>1, <3>2, <3>4 DEF SnapsInv
  <2>7. CASE At(j) \notin {"readOld", "capture", "deleteOld"}
    <3>1. snaps' = snaps
      BY <2>1, <2>7 DEF Frame
    <3> QED
      BY <1>2, <2>2, <2>3, <2>7, <3>1
  <2> QED
    BY <2>4, <2>5, <2>6, <2>7
<1>4. CASE Otherwise
  <2>1. snaps' = snaps
    BY <1>4 DEF Otherwise, readingVars
  <2>2. ASSUME NEW k \in Jobs, Underway(k)', At(k)' = "deleteOld"
        PROVE  Underway(k) /\ At(k) = "deleteOld" /\ job'[k].seen = job[k].seen
    BY <1>4, <2>2, SnapsWays DEF Otherwise, Waits, Comes, Departs
  <2> QED
    BY <1>2, <2>1, <2>2
<1> QED
  BY <1>3, <1>4, Elsewise

----------------------------------------------------------------------------
(* What is stored.                                                          *)
RowsInv ==
    /\ spot = [d \in Days |-> spot[d]] /\ bar = [d \in Days |-> bar[d]]
    /\ macro = [d \in 0..LastDay |-> macro[d]]
    /\ \A d \in 0..LastDay : macro[d].is \in BOOLEAN /\ (macro[d].interest # Unset => macro[d].is)
    /\ world = [price |-> world.price, day |-> world.day, diff |-> world.diff]

LEMMA RowsFirst == Init => RowsInv
<1> SUFFICES ASSUME Init PROVE RowsInv
  OBVIOUS
<1>1. spot = [d \in Days |-> spot[d]] /\ bar = [d \in Days |-> bar[d]]
  BY DEF Init, InitQuotes
<1>2. macro = [d \in 0..LastDay |-> NoMacro]
  BY DEF Init, InitQuotes
<1>3. NoMacro.is = FALSE /\ NoMacro.interest = Unset
  BY DEF NoMacro
<1>4. \A d \in 0..LastDay : macro[d].is \in BOOLEAN /\ (macro[d].interest # Unset => macro[d].is)
  BY <1>2, <1>3
<1>5. world = NoWorld
  BY DEF Init, InitQuotes
<1>6. world = [price |-> world.price, day |-> world.day, diff |-> world.diff]
  BY <1>5 DEF NoWorld
<1> QED
  BY <1>1, <1>2, <1>4, <1>6 DEF RowsInv

LEMMA MacroWritten ==
    ASSUME RowsInv, NEW j, MacroUsd(j) \/ MacroPut(j)
    PROVE  /\ macro' = [d \in 0..LastDay |-> macro'[d]]
           /\ \A d \in 0..LastDay : /\ macro'[d].is \in BOOLEAN /\ (macro'[d].interest # Unset => macro'[d].is)
                                    /\ (macro[d].interest # Unset => macro'[d].interest # Unset)
<1>1. ASSUME NEW e, NEW u, NEW i, macro' = [macro EXCEPT ![e] = [is |-> TRUE, usd |-> u, interest |-> i]],
             e \in 0..LastDay /\ macro[e].interest # Unset => i # Unset
      PROVE  /\ macro' = [d \in 0..LastDay |-> macro'[d]]
             /\ \A d \in 0..LastDay : /\ macro'[d].is \in BOOLEAN /\ (macro'[d].interest # Unset => macro'[d].is)
                                      /\ (macro[d].interest # Unset => macro'[d].interest # Unset)
  <2>1. macro' = [d \in 0..LastDay |-> macro'[d]]
    BY <1>1 DEF RowsInv
  <2>2. ASSUME NEW d \in 0..LastDay, d = e
        PROVE  macro'[d].is \in BOOLEAN /\ (macro'[d].interest # Unset => macro'[d].is) /\ (macro[d].interest # Unset => macro'[d].interest # Unset)
    <3>1. macro'[d] = [is |-> TRUE, usd |-> u, interest |-> i]
      BY <1>1, <2>2 DEF RowsInv
    <3>2. macro'[d].is = TRUE
      BY <3>1
    <3>3. macro'[d].interest = i
      BY <3>1
    <3> QED
      BY <1>1, <2>2, <3>2, <3>3
  <2>3. ASSUME NEW d \in 0..LastDay, d # e
        PROVE  macro'[d].is \in BOOLEAN /\ (macro'[d].interest # Unset => macro'[d].is) /\ (macro[d].interest # Unset => macro'[d].interest # Unset)
    <3>1. macro'[d] = macro[d]
      BY <1>1, <2>3 DEF RowsInv
    <3> QED
      BY <3>1 DEF RowsInv
  <2> QED
    BY <2>1, <2>2, <2>3
<1>2. CASE MacroUsd(j)
  <2> DEFINE e == job[j].rateDay
             u == Saw(j).usd
             i == IF macro[e].is THEN macro[e].interest ELSE Saw(j).interest
  <2>1. macro' = [macro EXCEPT ![e] = [is |-> TRUE, usd |-> u, interest |-> i]]
    BY <1>2 DEF MacroUsd
  <2>2. e \in 0..LastDay /\ macro[e].interest # Unset => i # Unset
    BY DEF RowsInv
  <2> HIDE DEF e, u, i
  <2> QED
    BY <1>1, <2>1, <2>2
<1>3. CASE MacroPut(j)
  <2> DEFINE e == Saw(j).utc
             u == Given(Saw(j).usd, macro[e].usd)
  <2>1. PICK v : macro' = [macro EXCEPT ![e] = [is |-> TRUE, usd |-> u,
                              interest |-> Given(v, IF macro[e].is THEN macro[e].interest ELSE Saw(j).interest)]]
    BY <1>3 DEF MacroPut
  <2> DEFINE i == Given(v, IF macro[e].is THEN macro[e].interest ELSE Saw(j).interest)
  <2>2. e \in 0..LastDay /\ macro[e].interest # Unset => i # Unset
    BY DEF RowsInv, Given
  <2>3. macro' = [macro EXCEPT ![e] = [is |-> TRUE, usd |-> u, interest |-> i]]
    BY <2>1
  <2> HIDE DEF e, u, i
  <2> QED
    BY <1>1, <2>2, <2>3
<1> QED
  BY <1>2, <1>3

LEMMA SpotWritten ==
    ASSUME JobInv, RowsInv, NEW j, UpsertSpot(j)
    PROVE  /\ spot' = [d \in Days |-> spot'[d]]
           /\ \A d \in Days : spot'[d] = spot[d] \/ \E u, g : spot'[d] = SpotRow(spot[d], u, g)
<1>1. spot' = spot \/ spot' = [spot EXCEPT ![today] = SpotRow(spot[today], Saw(j).usd, Saw(j).gold)]
  BY DEF UpsertSpot
<1> DEFINE row == SpotRow(spot[today], Saw(j).usd, Saw(j).gold)
<1>2. \E u, g : row = SpotRow(spot[today], u, g)
  OBVIOUS
<1> HIDE DEF row
<1>3. spot' = spot \/ spot' = [spot EXCEPT ![today] = row]
  BY <1>1 DEF row
<1>4. spot = [d \in Days |-> spot[d]]
  BY DEF RowsInv
<1>5. CASE spot' = spot
  BY <1>4, <1>5
<1>6. CASE spot' = [spot EXCEPT ![today] = row]
  <2>1. spot' = [d \in Days |-> spot'[d]] /\ \A d \in Days : spot'[d] = IF d = today THEN row ELSE spot[d]
    BY <1>4, <1>6
  <2> QED
    BY <1>2, <2>1
<1> QED
  BY <1>3, <1>5, <1>6

LEMMA BarWritten ==
    ASSUME RowsInv, NEW j, History(j) \/ Live(j)
    PROVE  /\ bar' = [d \in Days |-> bar'[d]]
           /\ \A d \in Days : bar'[d] = bar[d] \/ bar'[d] \in Points
<1>0. PICK D : \E new \in [D -> Points] : bar' = Bars(new) /\ known' = LearnPoints(new)
  BY DEF History, Live, StoreBars
<1>1. PICK new \in [D -> Points] : bar' = Bars(new) /\ known' = LearnPoints(new)
  BY <1>0
<1>2. bar' = [d \in Days |-> IF d \in D THEN new[d] ELSE bar[d]]
  BY <1>1 DEF Bars
<1> QED
  BY <1>1, <1>2

LEMMA RowsKept == JobInv /\ RowsInv /\ [Next]_vars => RowsInv'
<1> SUFFICES ASSUME JobInv, RowsInv, [Next]_vars PROVE RowsInv'
  OBVIOUS
<1>1. ASSUME NEW j \in Jobs, Does(j) PROVE RowsInv'
  <2>1. Frame(At(j))
    BY <1>1, Framed
  <2>2. CASE At(j) = "upsertSpot"
    <3>1. UpsertSpot(j)
      BY <1>1, <2>2, Which
    <3> QED
      BY <2>1, <2>2, <3>1, SpotWritten DEF RowsInv, Frame
  <2>3. CASE At(j) \in {"history", "live"}
    <3>1. History(j) \/ Live(j)
      BY <1>1, <2>3, Which
    <3> QED
      BY <2>1, <2>3, <3>1, BarWritten DEF RowsInv, Frame
  <2>4. CASE At(j) \in {"macroUsd", "macroPut"}
    <3>1. MacroUsd(j) \/ MacroPut(j)
      BY <1>1, <2>4, Which
    <3> QED
      BY <2>1, <2>4, <3>1, MacroWritten DEF RowsInv, Frame
  <2>5. CASE At(j) \in {"replace", "writeDiffs"}
    <3>1. \/ world' = world
          \/ \E p, d, f : world' = [price |-> p, day |-> d, diff |-> f]
          \/ \E f : world' = [world EXCEPT !.diff = f]
      BY <1>1, <2>5, Which DEF Replace, WriteDiffs
    <3> QED
      BY <2>1, <2>5, <3>1 DEF RowsInv, Frame
  <2>6. CASE At(j) \notin {"upsertSpot", "history", "live", "macroUsd", "macroPut", "replace", "writeDiffs"}
    BY <2>1, <2>6 DEF RowsInv, Frame
  <2> QED
    BY <2>2, <2>3, <2>4, <2>5, <2>6
<1>2. CASE Otherwise
  BY <1>2 DEF Otherwise, quoteVars, RowsInv
<1> QED
  BY <1>1, <1>2, Elsewise

----------------------------------------------------------------------------
(* Content lasts.                                                           *)
LastsInv == ApartInv /\ WorldInv /\ ReadsInv /\ SnapsInv /\ RowsInv

LEMMA LastsFirst == Init => LastsInv
BY ApartFirst, WorldFirst, ReadsFirst, SnapsFirst, RowsFirst DEF LastsInv

LEMMA LastsKept == LastsInv /\ [Next]_vars => LastsInv'
<1> SUFFICES ASSUME LastsInv, [Next]_vars PROVE LastsInv'
  OBVIOUS
<1>1. JobInv /\ FlagsInv /\ DaysInv /\ BatchInv
  BY DEF LastsInv, ApartInv
<1>2. ApartInv'
  BY ApartKept DEF LastsInv
<1>3. WorldInv' /\ ReadsInv' /\ SnapsInv' /\ RowsInv'
  BY <1>1, WorldKept, ReadsKept, SnapsKept, RowsKept DEF LastsInv
<1> QED
  BY <1>2, <1>3 DEF LastsInv

LEMMA LastsAlways == Spec => []LastsInv
BY LastsFirst, LastsKept, PTL DEF Spec

RatesStay ==
    \A d \in Days : /\ spot[d].usd # Unset => spot'[d].usd # Unset
                    /\ spot[d].gold # Unset => spot'[d].gold # Unset
                    /\ bar[d] # Unset => bar'[d] # Unset
NotesStay == \A d \in 0..LastDay : macro[d].interest # Unset => macro'[d].interest # Unset
WorldStays == (world.price # Unset => world'.price # Unset) /\ (worldNews # Unset => worldNews' >= worldNews)
SnapsStay == \A s \in snaps : Cardinality({t \in snaps : t.n > s.n}) < Keep => s \in snaps'

LEMMA GoodStays ==
    ASSUME LastsInv, [Next]_vars
    PROVE  RatesStay /\ NotesStay /\ WorldStays /\ SnapsStay
<1>0. JobInv /\ DaysInv /\ FlagsInv /\ WorldInv /\ SnapsInv /\ RowsInv
  BY DEF LastsInv, ApartInv
<1>1. ASSUME spot' = spot, bar' = bar PROVE RatesStay
  BY <1>1 DEF RatesStay
<1>2. ASSUME world' = world, worldNews' = worldNews PROVE WorldStays
  <2>1. worldNews \in Int
    BY <1>0 DEF WorldInv
  <2> QED
    BY <1>2, <2>1 DEF WorldStays
<1>3. ASSUME NEW j \in Jobs, Does(j) PROVE RatesStay /\ NotesStay /\ WorldStays /\ SnapsStay
  <2>1. Underway(j) /\ Frame(At(j)) /\ Place(job[j].kind, At(j))
    BY <1>0, <1>3, Framed, Ongoing
  <2>2. RatesStay
    <3>1. CASE At(j) = "upsertSpot"
      <4>1. UpsertSpot(j) /\ bar' = bar
        BY <1>3, <2>1, <3>1, Which DEF Frame
      <4>2. ASSUME NEW d \in Days
            PROVE  (spot[d].usd # Unset => spot'[d].usd # Unset) /\ (spot[d].gold # Unset => spot'[d].gold # Unset)
        <5>1. spot'[d] = spot[d] \/ \E u, g : spot'[d] = SpotRow(spot[d], u, g)
          BY <1>0, <4>1, SpotWritten
        <5>2. ASSUME NEW u, NEW g, spot'[d] = SpotRow(spot[d], u, g)
              PROVE  (spot[d].usd # Unset => spot'[d].usd # Unset) /\ (spot[d].gold # Unset => spot'[d].gold # Unset)
          BY <5>2 DEF SpotRow, Given
        <5> QED
          BY <5>1, <5>2
      <4> QED
        BY <4>1, <4>2 DEF RatesStay
    <3>2. CASE At(j) \in {"history", "live"}
      <4>1. (History(j) \/ Live(j)) /\ spot' = spot
        BY <1>3, <2>1, <3>2, Which DEF Frame
      <4>2. \A d \in Days : bar'[d] = bar[d] \/ bar'[d] \in Points
        BY <1>0, <4>1, BarWritten
      <4> QED
        BY <4>1, <4>2, QuotesAssumption DEF RatesStay
    <3>3. CASE At(j) \notin {"upsertSpot", "history", "live"}
      BY <1>1, <2>1, <3>3 DEF Frame
    <3> QED
      BY <3>1, <3>2, <3>3
  <2>3. NotesStay
    <3>1. CASE At(j) \in {"macroUsd", "macroPut"}
      <4>1. MacroUsd(j) \/ MacroPut(j)
        BY <1>3, <3>1, Which
      <4> QED
        BY <1>0, <4>1, MacroWritten DEF NotesStay
    <3>2. CASE At(j) \notin {"macroUsd", "macroPut"}
      BY <2>1, <3>2 DEF Frame, NotesStay
    <3> QED
      BY <3>1, <3>2
  <2>4. WorldStays
    <3>1. CASE At(j) = "storeWorldNews"
      <4>1. worldNews' = job[j].day /\ world' = world
        BY <1>3, <2>1, <3>1, Which DEF StoreWorldNews
      <4>2. job[j].kind \in WorldKinds
        BY <2>1, <3>1, WorldWays DEF NewsOfWorld
      <4>3. worldNews <= job[j].day
        BY <1>0, <2>1, <3>1, <4>2 DEF WorldInv, Early
      <4> QED
        BY <4>1, <4>3 DEF WorldStays
    <3>2. CASE At(j) = "replace"
      <4>1. worldNews' = worldNews /\ worldNews \in Int
        BY <1>0, <2>1, <3>2 DEF Frame, WorldInv
      <4>2. \/ world' = world
            \/ Saw(j).price # Unset /\ \E d, f : world' = [price |-> Saw(j).price, day |-> d, diff |-> f]
        BY <1>3, <3>2, Which DEF Replace
      <4>3. world'.price = world.price \/ world'.price # Unset
        BY <4>2
      <4> QED
        BY <4>1, <4>3 DEF WorldStays
    <3>3. CASE At(j) = "writeDiffs"
      <4>1. worldNews' = worldNews /\ worldNews \in Int
        BY <1>0, <2>1, <3>3 DEF Frame, WorldInv
      <4>2. world' = [world EXCEPT !.diff = Saw(j).price]
        BY <1>3, <3>3, Which DEF WriteDiffs
      <4>3. world'.price = world.price
        BY <1>0, <4>2 DEF RowsInv
      <4> QED
        BY <4>1, <4>3 DEF WorldStays
    <3>4. CASE At(j) \notin {"storeWorldNews", "replace", "writeDiffs"}
      BY <1>2, <2>1, <3>4 DEF Frame
    <3> QED
      BY <3>1, <3>2, <3>3, <3>4
  <2>5. SnapsStay
    <3>1. CASE At(j) = "capture"
      BY <1>3, <3>1, Which DEF Capture, SnapsStay
    <3>2. CASE At(j) = "deleteOld"
      <4>1. snaps' = snaps \ Saw(j).titles
        BY <1>3, <3>2, Which DEF DeleteOld
      <4>2. ASSUME NEW s \in snaps, Cardinality(Newer(s)) < Keep PROVE s \in snaps'
        <5>1. s \in Saw(j).titles => Cardinality(Newer(s)) >= Keep
          BY <1>0, <2>1, <3>2 DEF SnapsInv, Saw
        <5>2. IsFiniteSet(Newer(s))
          BY <1>0, FS_Subset DEF SnapsInv, Newer
        <5>3. Cardinality(Newer(s)) \in Nat
          BY <5>2, FS_CardinalityType
        <5> QED
          BY <4>1, <4>2, <5>1, <5>3, ReadingAssumption
      <4> QED
        BY <4>2 DEF SnapsStay, Newer
    <3>3. CASE At(j) \notin {"capture", "deleteOld"}
      BY <2>1, <3>3 DEF Frame, SnapsStay
    <3> QED
      BY <3>1, <3>2, <3>3
  <2> QED
    BY <2>2, <2>3, <2>4, <2>5
<1>4. CASE Otherwise
  <2>1. spot' = spot /\ bar' = bar /\ macro' = macro /\ world' = world /\ worldNews' = worldNews /\ snaps' = snaps
    BY <1>4 DEF Otherwise, quoteVars, readingVars
  <2> QED
    BY <1>1, <1>2, <2>1 DEF NotesStay, SnapsStay
<1> QED
  BY <1>0, <1>3, <1>4, Elsewise

LEMMA LastGoodStays == LastsInv /\ [Next]_vars =>
       /\ \A d \in Days : /\ spot[d].usd # Unset => spot'[d].usd # Unset
                          /\ spot[d].gold # Unset => spot'[d].gold # Unset
                          /\ bar[d] # Unset => bar'[d] # Unset
       /\ \A d \in 0..LastDay : macro[d].interest # Unset => macro'[d].interest # Unset
       /\ world.price # Unset => world'.price # Unset
       /\ worldNews # Unset => worldNews' >= worldNews
       /\ \A s \in snaps : Cardinality({t \in snaps : t.n > s.n}) < Keep => s \in snaps'
BY GoodStays DEF RatesStay, NotesStay, WorldStays, SnapsStay

LEMMA OneRead == LastsInv /\ LastsInv' /\ [Next]_vars =>
       /\ \A d \in Days : Cardinality(reads'[d]) <= 1
       /\ \A j \in Jobs : Step(j, "askWorld") /\ StoresNews(j)' => worldNews # job[j].day
<1> SUFFICES ASSUME LastsInv, LastsInv' PROVE /\ \A d \in Days : Cardinality(reads'[d]) <= 1
                                              /\ \A j \in Jobs : Step(j, "askWorld") /\ StoresNews(j)' => worldNews # job[j].day
  OBVIOUS
<1>1. ASSUME NEW d \in Days PROVE Cardinality(reads'[d]) <= 1
  <2>1. \A x, y \in reads'[d] : x = y
    BY DEF LastsInv, ReadsInv
  <2> QED
    BY <2>1, AtMostOne
<1>2. ASSUME NEW j \in Jobs, Step(j, "askWorld") PROVE worldNews # job[j].day
  BY <1>2 DEF Step, At, LastsInv, WorldInv, NewsOfWorld
<1> QED
  BY <1>1, <1>2

(* No source that fails or answers nothing, no failing statement and no     *)
(* restart takes away what is stored before there is something to take its  *)
(* place, and the clock reads the news of a day once: for any number of     *)
(* jobs, days and graphs kept.                                              *)
THEOREM ContentOutlasts == Spec => ContentLasts
<1>1. Spec => LastGoodContentStays
  BY LastsAlways, LastGoodStays, PTL DEF Spec, LastGoodContentStays
<1>2. Spec => OneReadADay
  BY LastsAlways, OneRead, PTL DEF Spec, OneReadADay
<1> QED
  BY <1>1, <1>2 DEF ContentLasts

----------------------------------------------------------------------------
(* The index over the dollar.                                               *)
SyncNames == {"readBars", "writeRows", "pruneRows"}
Ready(d) == bar[d] # Unset /\ spot[d].usd # Unset
Proper(d) == [points |-> bar[d], rate |-> spot[d].usd]

KnownInv ==
    /\ known = [rates |-> known.rates, points |-> known.points]
    /\ known.rates = [d \in Days |-> known.rates[d]] /\ known.points = [d \in Days |-> known.points[d]]
    /\ dollar = [d \in Days |-> dollar[d]]
    /\ \A d \in Days : /\ spot[d].usd # Unset => spot[d].usd \in known.rates[d]
                       /\ bar[d] # Unset => bar[d] \in known.points[d]
                       /\ dollar[d] # NoRow => dollar[d].points \in known.points[d] /\ dollar[d].rate \in known.rates[d]

(* What a round has read, each day has had.                                 *)
SeenInv ==
    \A j \in Jobs : Underway(j) =>
        /\ At(j) \in {"readBars", "writeRows"} => \A d \in Days : Saw(j).rates[d] # Unset => Saw(j).rates[d] \in known.rates[d]
        /\ At(j) = "writeRows" => \A d \in Days : Saw(j).points[d] # Unset => Saw(j).points[d] \in known.points[d]

(* A round that is alone has read what is stored, and has written of it     *)
(* what it notes.                                                           *)
ExactInv ==
    \A j \in Jobs : Underway(j) /\ job[j].alone =>
        /\ At(j) \in {"readBars", "writeRows"} => \A d \in Days : Saw(j).rates[d] = spot[d].usd
        /\ At(j) = "readBars" => Saw(j).written = {}
        /\ At(j) = "writeRows" => Saw(j).points = bar /\ \A d \in Saw(j).written : d \in Days /\ Ready(d)
        /\ At(j) = "pruneRows" => Saw(j).written = {d \in Days : Ready(d)}
        /\ At(j) \in {"writeRows", "pruneRows"} => \A d \in Saw(j).written : dollar[d] = Proper(d)

LeftInv == left \in Nat

LEMMA SyncWays ==
    /\ \A k, s : FirstStep(k, s) => s \notin SyncNames
    /\ \A k, s : Door(k, s) => s \notin SyncNames
    /\ \A k, r : Way(k, r, "readBars") => r = "readRates"
    /\ \A k, r : Way(k, r, "writeRows") => r = "readBars"
    /\ \A k, r : Way(k, r, "pruneRows") => r = "writeRows"
<1>1. \A k, s : FirstStep(k, s) => s \notin SyncNames
  BY DEF FirstStep, SyncNames
<1>2. \A k, s : Door(k, s) => s \notin SyncNames
  BY DEF Door, SyncNames
<1>3. \A k, r : Way(k, r, "readBars") => r = "readRates"
  BY DEF Way
<1>4. \A k, r : Way(k, r, "writeRows") => r = "readBars"
  BY DEF Way
<1>5. \A k, r : Way(k, r, "pruneRows") => r = "writeRows"
  BY DEF Way
<1> QED
  BY <1>1, <1>2, <1>3, <1>4, <1>5

(* There is a least day among some days.                                    *)
LEMMA LeastDay ==
    ASSUME NEW S \in SUBSET Days, S # {}
    PROVE  \E d \in S : \A e \in S : d <= e
<1>1. S \in SUBSET Nat
  BY DEF Days
<1>2. PICK d \in S : \A e \in S : <<e, d>> \notin OpToRel(<, Nat)
  BY <1>1, WFMin, NatLessThanWellFounded
<1>3. ASSUME NEW e \in S PROVE d <= e
  <2>1. d \in Nat /\ e \in Nat
    BY <1>1
  <2>2. ~(e < d)
    BY <1>2, <2>1 DEF OpToRel
  <2> QED
    BY <2>1, <2>2
<1> QED
  BY <1>3

(* One row after the other.                                                 *)
LEMMA RowWritten ==
    ASSUME JobInv, NEW j \in Jobs, WriteRow(j), Due(j) # {}
    PROVE  \E d \in Due(j) :
              /\ dollar' = [dollar EXCEPT ![d] = [points |-> Saw(j).points[d], rate |-> Saw(j).rates[d]]]
              /\ At(j)' = At(j)
              /\ Saw(j)'.rates = Saw(j).rates /\ Saw(j)'.points = Saw(j).points
              /\ Saw(j)'.written = Saw(j).written \cup {d}
<1> DEFINE d == CHOOSE d \in Due(j) : \A e \in Due(j) : d <= e
           v == [Saw(j) EXCEPT !.written = @ \cup {d}]
<1>1. Due(j) \in SUBSET Days
  BY DEF Due
<1>2. d \in Due(j)
  BY <1>1, LeastDay
<1>3. dollar' = [dollar EXCEPT ![d] = [points |-> Saw(j).points[d], rate |-> Saw(j).rates[d]]]
  BY DEF WriteRow, RateOf
<1>4. Underway(j) /\ job' = [job EXCEPT ![j].seen.written = @ \cup {d}] /\ flags' = flags
  BY DEF WriteRow, Step
<1>5. SeenShape(Saw(j)) /\ Shape(job[j])
  BY <1>4, Ongoing DEF Saw
<1>6. job' = [job EXCEPT ![j].seen = v]
  BY <1>4 DEF Saw
<1>7. SeenShape(v) /\ v.rates = Saw(j).rates /\ v.points = Saw(j).points /\ v.written = Saw(j).written \cup {d}
  BY <1>5 DEF SeenShape, SeenFields
<1> HIDE DEF v, d
<1>8. job'[j] = [job[j] EXCEPT !.seen = v]
  BY <1>4, <1>6, <1>7, Stays
<1>9. job'[j].seen = v /\ job'[j].todo = job[j].todo
  BY <1>5, <1>8 DEF Shape, Fields
<1>10. At(j)' = At(j) /\ Saw(j)' = v
  BY <1>9 DEF At, Saw
<1> QED
  BY <1>2, <1>3, <1>7, <1>10

(* Where a round stands, and what it takes along.                           *)
LEMMA Synced ==
    ASSUME JobInv, NEW j \in Jobs, Does(j), Underway(j)', At(j)' \in SyncNames
    PROVE  \/ /\ At(j) = "readRates" /\ At(j)' = "readBars"
              /\ Saw(j)'.rates = [d \in Days |-> spot[d].usd] /\ Saw(j)'.written = {}
           \/ /\ At(j) = "readBars" /\ At(j)' = "writeRows"
              /\ Saw(j)'.rates = Saw(j).rates /\ Saw(j)'.points = bar /\ Saw(j)'.written = Saw(j).written
           \/ /\ At(j) = "writeRows" /\ At(j)' = "writeRows"
              /\ Saw(j)'.rates = Saw(j).rates /\ Saw(j)'.points = Saw(j).points
              /\ \E d \in Due(j) : /\ dollar' = [dollar EXCEPT ![d] = [points |-> Saw(j).points[d], rate |-> Saw(j).rates[d]]]
                                   /\ Saw(j)'.written = Saw(j).written \cup {d}
           \/ /\ At(j) = "writeRows" /\ At(j)' = "pruneRows"
              /\ Due(j) = {} /\ Saw(j)'.written = Saw(j).written /\ dollar' = dollar
<1>1. Underway(j) /\ Turns(j) /\ SeenShape(Saw(j)) /\ ~Quits(j)
  BY Turning, Ongoing DEF Saw, Quits, Underway
<1>2. \/ At(j)' = At(j)
      \/ Way(job[j].kind, At(j), At(j)')
  BY <1>1, Leads, SyncWays
<1>3. At(j) \in {"readRates"} \cup SyncNames
  BY <1>2, SyncWays DEF SyncNames
(* What is passed on is passed on by a way.                                 *)
<1>4. ASSUME NEW v, SeenShape(v), Onward(j, v)
      PROVE  Saw(j)' = v /\ Way(job[j].kind, At(j), At(j)')
  <2>1. Passes(j, v)
    BY <1>1, <1>4, OnwardPasses
  <2> QED
    BY <1>1, <2>1, SyncWays DEF Passes, Saw
<1>5. ~LeavesBlock(j)
  BY <1>1, LeavesSkips, SyncWays DEF Skips
<1>6. CASE At(j) = "readRates"
  <2> DEFINE rates == [d \in Days |-> spot[d].usd]
             v == [Saw(j) EXCEPT !.rates = rates, !.written = {}]
  <2>1. Onward(j, v)
    BY <1>5, <1>6, Which DEF ReadRates
  <2>2. SeenShape(v) /\ v.rates = rates /\ v.written = {}
    BY <1>1 DEF SeenShape, SeenFields
  <2> HIDE DEF v
  <2>3. Saw(j)' = v /\ Way(job[j].kind, At(j), At(j)')
    BY <1>4, <2>1, <2>2
  <2>4. At(j)' = "readBars"
    BY <1>6, <2>3, SyncWays DEF SyncNames
  <2> QED
    BY <1>6, <2>2, <2>3, <2>4
<1>7. CASE At(j) = "readBars"
  <2> DEFINE v == [Saw(j) EXCEPT !.points = bar]
  <2>1. Onward(j, v)
    BY <1>5, <1>7, Which DEF ReadBars
  <2>2. SeenShape(v) /\ v.rates = Saw(j).rates /\ v.points = bar /\ v.written = Saw(j).written
    BY <1>1 DEF SeenShape, SeenFields
  <2> HIDE DEF v
  <2>3. Saw(j)' = v /\ Way(job[j].kind, At(j), At(j)')
    BY <1>4, <2>1, <2>2
  <2>4. At(j)' = "writeRows"
    BY <1>7, <2>3, SyncWays DEF SyncNames
  <2> QED
    BY <1>7, <2>2, <2>3, <2>4
<1>8. CASE At(j) = "writeRows"
  <2>1. WriteRow(j)
    BY <1>8, Which
  <2>2. CASE Due(j) = {}
    <3>1. Onward(j, Saw(j)) /\ dollar' = dollar
      BY <2>1, <2>2 DEF WriteRow, Continues, Saw
    <3>2. Saw(j)' = Saw(j) /\ Way(job[j].kind, At(j), At(j)')
      BY <1>1, <1>4, <3>1
    <3>3. At(j)' = "pruneRows"
      BY <1>8, <3>2, SyncWays DEF SyncNames
    <3> QED
      BY <1>8, <2>2, <3>1, <3>2, <3>3
  <2>3. CASE Due(j) # {}
    BY <1>8, <2>1, <2>3, RowWritten
  <2> QED
    BY <2>2, <2>3
<1>9. At(j) # "pruneRows"
  <2> SUFFICES ASSUME At(j) = "pruneRows" PROVE FALSE
    OBVIOUS
  <2> DEFINE v == [Saw(j) EXCEPT !.rates = << >>, !.points = << >>, !.written = {}]
  <2>1. Onward(j, v)
    BY Which DEF PruneRows
  <2>2. SeenShape(v)
    BY <1>1, Views
  <2> HIDE DEF v
  <2>3. Way(job[j].kind, At(j), At(j)')
    BY <1>4, <2>1, <2>2
  <2> QED
    BY <2>3, SyncWays DEF SyncNames
<1> QED
  BY <1>3, <1>6, <1>7, <1>8, <1>9 DEF SyncNames

----------------------------------------------------------------------------
(* What each day ever had only grows.                                       *)
Grows ==
    /\ known' = [rates |-> known'.rates, points |-> known'.points]
    /\ known'.rates = [d \in Days |-> known'.rates[d]] /\ known'.points = [d \in Days |-> known'.points[d]]
    /\ \A d \in Days : known.rates[d] \subseteq known'.rates[d] /\ known.points[d] \subseteq known'.points[d]

LEMMA KnownFirst == Init => KnownInv /\ SeenInv /\ ExactInv /\ LeftInv
<1> SUFFICES ASSUME Init PROVE KnownInv /\ SeenInv /\ ExactInv /\ LeftInv
  OBVIOUS
<1>1. known.rates = [d \in Days |-> {}] /\ known.points = [d \in Days |-> {}] /\ known = [rates |-> known.rates, points |-> known.points]
  BY DEF Init, InitQuotes
<1>2. dollar = [d \in Days |-> NoRow] /\ bar = [d \in Days |-> Unset] /\ \A d \in Days : spot[d].usd = Unset
  BY DEF Init, InitQuotes
<1>3. KnownInv
  BY <1>1, <1>2 DEF KnownInv
<1>4. \A j \in Jobs : ~Underway(j)
  BY DEF Init, InitJobs, NoJob, Underway
<1>5. LeftInv
  BY JobsAssumption DEF Init, InitJobs, LeftInv
<1> QED
  BY <1>3, <1>4, <1>5 DEF SeenInv, ExactInv

LEMMA RatesLearned ==
    ASSUME JobInv, RowsInv, KnownInv, NEW j, UpsertSpot(j)
    PROVE  Grows /\ \A d \in Days : spot'[d].usd # Unset => spot'[d].usd \in known'.rates[d]
<1> DEFINE usd == Saw(j).usd
           row == SpotRow(spot[today], usd, Saw(j).gold)
           rates == [known.rates EXCEPT ![today] = @ \cup ({usd} \ {Unset})]
<1>1. today \in Days /\ known.rates = [d \in Days |-> known.rates[d]] /\ spot = [d \in Days |-> spot[d]]
  BY DEF JobInv, KnownInv, RowsInv
<1>2. row.usd = IF usd = Unset THEN spot[today].usd ELSE usd
  BY DEF SpotRow, Given
<1>3. \A d \in Days : spot[d].usd # Unset => spot[d].usd \in known.rates[d]
  BY DEF KnownInv
<1>4. CASE spot' = spot /\ known' = known
  BY <1>3, <1>4 DEF Grows, KnownInv
<1>5. CASE spot' = [spot EXCEPT ![today] = row] /\ known' = Learn(usd)
  <2>1. known' = [known EXCEPT !.rates = rates]
    BY <1>5 DEF Learn
  <2> HIDE DEF row
  <2>2. \A d \in Days : rates[d] = IF d = today THEN known.rates[d] \cup ({usd} \ {Unset}) ELSE known.rates[d]
    BY <1>1
  <2>3. rates = [d \in Days |-> rates[d]]
    BY <1>1
  <2> HIDE DEF rates
  <2>4. known'.rates = rates /\ known'.points = known.points /\ known' = [rates |-> known'.rates, points |-> known'.points]
    BY <2>1 DEF KnownInv
  <2>5. Grows
    BY <2>2, <2>3, <2>4 DEF Grows, KnownInv
  <2>6. \A d \in Days : spot'[d] = IF d = today THEN row ELSE spot[d]
    BY <1>1, <1>5
  <2> QED
    BY <1>1, <1>2, <1>3, <2>2, <2>4, <2>5, <2>6, ZenonT(60)
<1> QED
  BY <1>4, <1>5 DEF UpsertSpot

LEMMA PointsLearned ==
    ASSUME RowsInv, KnownInv, NEW j, History(j) \/ Live(j)
    PROVE  Grows /\ \A d \in Days : bar'[d] # Unset => bar'[d] \in known'.points[d]
<1>0. PICK D : \E new \in [D -> Points] : bar' = Bars(new) /\ known' = LearnPoints(new)
  BY DEF History, Live, StoreBars
<1>1. PICK new \in [D -> Points] : bar' = Bars(new) /\ known' = LearnPoints(new)
  BY <1>0
<1> DEFINE points == [d \in Days |-> IF d \in D THEN known.points[d] \cup {new[d]} ELSE known.points[d]]
<1>2. bar' = [d \in Days |-> IF d \in D THEN new[d] ELSE bar[d]]
  BY <1>1 DEF Bars
<1>3. known' = [known EXCEPT !.points = points]
  BY <1>1 DEF LearnPoints
<1>4. \A d \in Days : points[d] = IF d \in D THEN known.points[d] \cup {new[d]} ELSE known.points[d]
  OBVIOUS
<1>5. points = [d \in Days |-> points[d]]
  OBVIOUS
<1> HIDE DEF points
<1>6. known'.points = points /\ known'.rates = known.rates /\ known' = [rates |-> known'.rates, points |-> known'.points]
  BY <1>3 DEF KnownInv
<1>7. Grows
  BY <1>4, <1>5, <1>6 DEF Grows, KnownInv
<1> QED
  BY <1>2, <1>4, <1>6, <1>7 DEF KnownInv

LEMMA KnownKept == JobInv /\ RowsInv /\ KnownInv /\ SeenInv /\ [Next]_vars => KnownInv' /\ Grows
<1> SUFFICES ASSUME JobInv, RowsInv, KnownInv, SeenInv, [Next]_vars PROVE KnownInv' /\ Grows
  OBVIOUS
<1>1. ASSUME Grows, dollar' = dollar,
             \A d \in Days : spot'[d].usd # Unset => spot'[d].usd \in known'.rates[d],
             \A d \in Days : bar'[d] # Unset => bar'[d] \in known'.points[d]
      PROVE  KnownInv'
  BY <1>1 DEF Grows, KnownInv
<1>2. ASSUME known' = known PROVE Grows
  BY <1>2 DEF Grows, KnownInv
<1>3. ASSUME NEW j \in Jobs, Does(j) PROVE KnownInv' /\ Grows
  <2>1. Underway(j) /\ Frame(At(j))
    BY <1>3, Framed
  <2>2. CASE At(j) = "upsertSpot"
    <3>1. UpsertSpot(j) /\ bar' = bar /\ dollar' = dollar
      BY <1>3, <2>1, <2>2, Which DEF Frame
    <3>2. Grows /\ \A d \in Days : spot'[d].usd # Unset => spot'[d].usd \in known'.rates[d]
      BY <3>1, RatesLearned
    <3>3. \A d \in Days : bar'[d] # Unset => bar'[d] \in known'.points[d]
      BY <3>1, <3>2 DEF KnownInv, Grows
    <3> QED
      BY <1>1, <3>1, <3>2, <3>3
  <2>3. CASE At(j) \in {"history", "live"}
    <3>1. (History(j) \/ Live(j)) /\ spot' = spot /\ dollar' = dollar
      BY <1>3, <2>1, <2>3, Which DEF Frame
    <3>2. Grows /\ \A d \in Days : bar'[d] # Unset => bar'[d] \in known'.points[d]
      BY <3>1, PointsLearned
    <3>3. \A d \in Days : spot'[d].usd # Unset => spot'[d].usd \in known'.rates[d]
      BY <3>1, <3>2 DEF KnownInv, Grows
    <3> QED
      BY <1>1, <3>1, <3>2, <3>3
  <2>4. CASE At(j) = "writeRows"
    <3>1. WriteRow(j) /\ spot' = spot /\ bar' = bar /\ known' = known
      BY <1>3, <2>1, <2>4, Which DEF Frame
    <3>2. CASE Due(j) = {}
      <4>1. dollar' = dollar
        BY <3>1, <3>2 DEF WriteRow
      <4> QED
        BY <1>2, <3>1, <4>1 DEF KnownInv
    <3>3. CASE Due(j) # {}
      <4>1. PICK d \in Due(j) : dollar' = [dollar EXCEPT ![d] = [points |-> Saw(j).points[d], rate |-> Saw(j).rates[d]]]
        BY <3>1, <3>3, RowWritten
      <4>2. d \in Days /\ Saw(j).points[d] \in known.points[d] /\ Saw(j).rates[d] \in known.rates[d]
        BY <2>1, <2>4 DEF Due, RateOf, SeenInv
      <4>3. dollar' = [e \in Days |-> dollar'[e]]
        BY <4>1 DEF KnownInv
      <4>4. ASSUME NEW e \in Days, dollar'[e] # NoRow
            PROVE  dollar'[e].points \in known'.points[e] /\ dollar'[e].rate \in known'.rates[e]
        <5>1. CASE e = d
          <6>1. dollar'[e] = [points |-> Saw(j).points[d], rate |-> Saw(j).rates[d]]
            BY <4>1, <4>2, <5>1 DEF KnownInv
          <6>2. dollar'[e].points = Saw(j).points[d] /\ dollar'[e].rate = Saw(j).rates[d]
            BY <6>1
          <6> QED
            BY <3>1, <4>2, <5>1, <6>2
        <5>2. CASE e # d
          <6>1. dollar'[e] = dollar[e]
            BY <4>1, <5>2 DEF KnownInv
          <6> QED
            BY <3>1, <4>4, <6>1 DEF KnownInv
        <5> QED
          BY <5>1, <5>2
      <4> QED
        BY <1>2, <3>1, <4>3, <4>4 DEF KnownInv
    <3> QED
      BY <3>2, <3>3
  <2>5. CASE At(j) = "pruneRows"
    <3>1. PruneRows(j) /\ spot' = spot /\ bar' = bar /\ known' = known
      BY <1>3, <2>1, <2>5, Which DEF Frame
    <3>2. dollar' = [d \in Days |-> IF d \in Saw(j).written THEN dollar[d] ELSE NoRow]
      BY <3>1 DEF PruneRows
    <3>3. dollar' = [d \in Days |-> dollar'[d]] /\ \A d \in Days : dollar'[d] # NoRow => dollar'[d] = dollar[d]
      BY <3>2
    <3>4. \A d \in Days : dollar'[d] # NoRow => dollar'[d].points \in known'.points[d] /\ dollar'[d].rate \in known'.rates[d]
      BY <3>1, <3>3 DEF KnownInv
    <3> QED
      BY <1>2, <3>1, <3>3, <3>4 DEF KnownInv
  <2>6. CASE At(j) \notin {"upsertSpot", "history", "live", "writeRows", "pruneRows"}
    <3>1. spot' = spot /\ bar' = bar /\ known' = known /\ dollar' = dollar
      BY <2>1, <2>6 DEF Frame
    <3> QED
      BY <1>2, <3>1 DEF KnownInv
  <2> QED
    BY <2>2, <2>3, <2>4, <2>5, <2>6
<1>4. CASE Otherwise
  <2>1. spot' = spot /\ bar' = bar /\ known' = known /\ dollar' = dollar
    BY <1>4 DEF Otherwise, quoteVars
  <2> QED
    BY <1>2, <2>1 DEF KnownInv
<1> QED
  BY <1>3, <1>4, Elsewise

LEMMA SeenKept == JobInv /\ RowsInv /\ KnownInv /\ SeenInv /\ [Next]_vars => SeenInv'
<1> SUFFICES ASSUME JobInv, RowsInv, KnownInv, SeenInv, [Next]_vars PROVE SeenInv'
  OBVIOUS
<1> DEFINE Rated(j) == At(j) \in {"readBars", "writeRows"} => \A d \in Days : Saw(j).rates[d] # Unset => Saw(j).rates[d] \in known.rates[d]
           Pointed(j) == At(j) = "writeRows" => \A d \in Days : Saw(j).points[d] # Unset => Saw(j).points[d] \in known.points[d]
<1>1. \A d \in Days : known.rates[d] \subseteq known'.rates[d] /\ known.points[d] \subseteq known'.points[d]
  BY KnownKept DEF Grows
<1>2. ASSUME NEW k \in Jobs, Underway(k), At(k)' = At(k), Saw(k)' = Saw(k) PROVE Rated(k)' /\ Pointed(k)'
  BY <1>1, <1>2 DEF SeenInv
<1>3. ASSUME NEW k \in Jobs, At(k)' \notin SyncNames PROVE Rated(k)' /\ Pointed(k)'
  BY <1>3 DEF SyncNames
<1>4. ASSUME NEW j \in Jobs, Does(j), NEW k \in Jobs, Underway(k)' PROVE Rated(k)' /\ Pointed(k)'
  <2>1. Underway(j) /\ Turns(j) /\ Frame(At(j))
    BY <1>4, Turning, Framed
  <2>2. CASE k # j
    <3>1. job'[k] = job[k] /\ Underway(k) /\ At(k)' = At(k)
      BY <1>4, <2>1, <2>2, Bystanders
    <3> QED
      BY <1>2, <3>1 DEF Saw
  <2>3. CASE k = j /\ At(j)' \in SyncNames
    <3>1. CASE At(j) = "readRates" /\ At(j)' = "readBars" /\ Saw(j)'.rates = [d \in Days |-> spot[d].usd]
      <4>1. known' = known
        BY <2>1, <3>1 DEF Frame
      <4> QED
        BY <2>3, <3>1, <4>1 DEF KnownInv
    <3>2. CASE At(j) = "readBars" /\ At(j)' = "writeRows" /\ Saw(j)'.rates = Saw(j).rates /\ Saw(j)'.points = bar
      <4>1. known' = known
        BY <2>1, <3>2 DEF Frame
      <4> QED
        BY <2>1, <2>3, <3>2, <4>1 DEF KnownInv, SeenInv
    <3>3. CASE At(j) = "writeRows" /\ At(j)' = "writeRows" /\ Saw(j)'.rates = Saw(j).rates /\ Saw(j)'.points = Saw(j).points
      <4>1. known' = known
        BY <2>1, <3>3 DEF Frame
      <4> QED
        BY <2>1, <2>3, <3>3, <4>1 DEF SeenInv
    <3>4. CASE At(j)' = "pruneRows"
      BY <2>3, <3>4
    <3> QED
      BY <1>4, <2>3, <3>1, <3>2, <3>3, <3>4, Synced
  <2>4. CASE k = j /\ At(j)' \notin SyncNames
    BY <1>3, <2>4
  <2> QED
    BY <2>2, <2>3, <2>4
<1>5. ASSUME Otherwise, NEW k \in Jobs, Underway(k)' PROVE Rated(k)' /\ Pointed(k)'
  <2>1. CASE Waits(k)
    BY <1>2, <2>1 DEF Waits, Saw
  <2>2. CASE Comes(k) \/ Departs(k)
    BY <1>3, <2>2, SyncWays DEF Comes, Departs
  <2> QED
    BY <1>5, <2>1, <2>2 DEF Otherwise
<1>6. \A k \in Jobs : Underway(k)' => Rated(k)' /\ Pointed(k)'
  BY <1>4, <1>5, Elsewise
<1> QED
  BY <1>6 DEF SeenInv

----------------------------------------------------------------------------
(* A round that nobody disturbs.                                            *)
LEMMA AloneSteps ==
    ASSUME JobInv, AloneInv, NEW j \in Jobs, Does(j), NEW k \in Jobs, Underway(k)', job'[k].alone
    PROVE  k = j /\ job[j].alone
<1>1. Underway(j) /\ Turns(j)
  BY Turning
<1>2. k = j
  <2> SUFFICES ASSUME k # j PROVE FALSE
    OBVIOUS
  <2>1. Underway(k) /\ job[k].alone
    BY <1>1, Bystanders
  <2> QED
    BY <1>1, <2>1 DEF AloneInv
<1> QED
  BY <1>1, <1>2, TurnsOthers DEF Same

LEMMA ExactKept == JobInv /\ AloneInv /\ KnownInv /\ ExactInv /\ [Next]_vars => ExactInv'
<1> SUFFICES ASSUME JobInv, AloneInv, KnownInv, ExactInv, [Next]_vars PROVE ExactInv'
  OBVIOUS
<1> DEFINE Holds(j) ==
               /\ At(j) \in {"readBars", "writeRows"} => \A d \in Days : Saw(j).rates[d] = spot[d].usd
               /\ At(j) = "readBars" => Saw(j).written = {}
               /\ At(j) = "writeRows" => Saw(j).points = bar /\ \A d \in Saw(j).written : d \in Days /\ Ready(d)
               /\ At(j) = "pruneRows" => Saw(j).written = {d \in Days : Ready(d)}
               /\ At(j) \in {"writeRows", "pruneRows"} => \A d \in Saw(j).written : dollar[d] = Proper(d)
<1>1. ASSUME NEW k \in Jobs, At(k)' \notin SyncNames PROVE Holds(k)'
  BY <1>1 DEF SyncNames
<1>2. ASSUME NEW j \in Jobs, Does(j), NEW k \in Jobs, Underway(k)', job'[k].alone, At(k)' \in SyncNames PROVE Holds(k)'
  <2>1. k = j /\ job[j].alone /\ Underway(j) /\ Frame(At(j))
    BY <1>2, AloneSteps, Framed
  <2>2. CASE At(j) = "readRates" /\ At(j)' = "readBars" /\ Saw(j)'.rates = [d \in Days |-> spot[d].usd] /\ Saw(j)'.written = {}
    <3>1. spot' = spot
      BY <2>1, <2>2 DEF Frame
    <3> QED
      BY <2>1, <2>2, <3>1
  <2>3. CASE /\ At(j) = "readBars" /\ At(j)' = "writeRows"
             /\ Saw(j)'.rates = Saw(j).rates /\ Saw(j)'.points = bar /\ Saw(j)'.written = Saw(j).written
    <3>1. spot' = spot /\ bar' = bar
      BY <2>1, <2>3 DEF Frame
    <3>2. Saw(j)'.written = {} /\ \A d \in Days : Saw(j).rates[d] = spot[d].usd
      BY <2>1, <2>3 DEF ExactInv
    <3> QED
      BY <2>1, <2>3, <3>1, <3>2
  <2>4. CASE /\ At(j) = "writeRows" /\ At(j)' = "writeRows"
             /\ Saw(j)'.rates = Saw(j).rates /\ Saw(j)'.points = Saw(j).points
             /\ \E d \in Due(j) : /\ dollar' = [dollar EXCEPT ![d] = [points |-> Saw(j).points[d], rate |-> Saw(j).rates[d]]]
                                  /\ Saw(j)'.written = Saw(j).written \cup {d}
    <3>1. spot' = spot /\ bar' = bar
      BY <2>1, <2>4 DEF Frame
    <3>2. PICK d \in Due(j) : /\ dollar' = [dollar EXCEPT ![d] = [points |-> Saw(j).points[d], rate |-> Saw(j).rates[d]]]
                              /\ Saw(j)'.written = Saw(j).written \cup {d}
      BY <2>4
    <3>3. /\ \A e \in Days : Saw(j).rates[e] = spot[e].usd
          /\ Saw(j).points = bar /\ (\A e \in Saw(j).written : e \in Days /\ Ready(e) /\ dollar[e] = Proper(e))
      BY <2>1, <2>4 DEF ExactInv
    <3>4. d \in Days /\ Ready(d) /\ d \notin Saw(j).written
      BY <3>3 DEF Due, RateOf, Ready
    <3>5. dollar'[d] = Proper(d)
      BY <3>2, <3>3, <3>4 DEF KnownInv, Proper
    <3>6. \A e \in Saw(j).written : dollar'[e] = Proper(e)
      BY <3>2, <3>3, <3>4 DEF KnownInv
    <3>7. \A e \in Saw(j)'.written : e \in Days /\ Ready(e) /\ dollar'[e] = Proper(e)
      BY <3>2, <3>3, <3>4, <3>5, <3>6
    <3>8. \A e : (Ready(e)' <=> Ready(e)) /\ Proper(e)' = Proper(e)
      BY <3>1 DEF Ready, Proper
    <3> QED
      BY <2>1, <2>4, <3>1, <3>3, <3>7, <3>8
  <2>5. CASE /\ At(j) = "writeRows" /\ At(j)' = "pruneRows"
             /\ Due(j) = {} /\ Saw(j)'.written = Saw(j).written /\ dollar' = dollar
    <3>1. spot' = spot /\ bar' = bar
      BY <2>1, <2>5 DEF Frame
    <3>2. /\ \A e \in Days : Saw(j).rates[e] = spot[e].usd
          /\ Saw(j).points = bar /\ (\A e \in Saw(j).written : e \in Days /\ Ready(e) /\ dollar[e] = Proper(e))
      BY <2>1, <2>5 DEF ExactInv
    <3>3. Saw(j).written = {e \in Days : Ready(e)}
      BY <2>5, <3>2 DEF Due, RateOf, Ready
    <3>4. \A e : (Ready(e)' <=> Ready(e)) /\ Proper(e)' = Proper(e)
      BY <3>1 DEF Ready, Proper
    <3> QED
      BY <2>1, <2>5, <3>2, <3>3, <3>4
  <2> QED
    BY <1>2, <2>1, <2>2, <2>3, <2>4, <2>5, Synced
<1>3. ASSUME Otherwise, NEW k \in Jobs, Underway(k)', job'[k].alone PROVE Holds(k)'
  <2>1. CASE Waits(k)
    <3>1. Underway(k) /\ job[k].alone /\ At(k)' = At(k) /\ Saw(k)' = Saw(k)
      BY <1>3, <2>1 DEF Waits, Saw
    <3>2. spot' = spot /\ bar' = bar /\ dollar' = dollar
      BY <1>3 DEF Otherwise, quoteVars
    <3> QED
      BY <3>1, <3>2 DEF ExactInv, Ready, Proper
  <2>2. CASE Comes(k) \/ Departs(k)
    BY <1>1, <2>2, SyncWays DEF Comes, Departs
  <2> QED
    BY <1>3, <2>1, <2>2 DEF Otherwise
<1>4. \A k \in Jobs : Underway(k)' /\ job'[k].alone => Holds(k)'
  BY <1>1, <1>2, <1>3, Elsewise
<1> QED
  BY <1>4 DEF ExactInv

LEMMA LeftKept == LeftInv /\ [Next]_vars => LeftInv'
<1> SUFFICES ASSUME LeftInv, [Next]_vars PROVE LeftInv'
  OBVIOUS
<1>1. CASE \E j \in Jobs : Does(j)
  BY <1>1, Framed DEF Frame, LeftInv
<1>2. CASE \E j \in Jobs : Start(j)
  <2>1. left' = left
    BY <1>2, Zenon DEF Start, Begin
  <2> QED
    BY <2>1 DEF LeftInv
<1>3. CASE (\E j \in Jobs : StatementFails(j)) \/ Restart
  BY <1>3 DEF StatementFails, Restart, Disturb, LeftInv
<1>4. CASE Midnight \/ Elapse \/ UNCHANGED vars
  BY <1>4 DEF Midnight, Elapse, vars, jobVars, LeftInv
<1> QED
  BY <1>1, <1>2, <1>3, <1>4, Accounting

RowsOfTheirDayInv == JobInv /\ AloneInv /\ RowsInv /\ KnownInv /\ SeenInv /\ ExactInv /\ LeftInv

LEMMA DaysRowsAlways == Spec => []RowsOfTheirDayInv
<1>1. Init => RowsOfTheirDayInv
  BY JobFirst, AloneFirst, RowsFirst, KnownFirst DEF RowsOfTheirDayInv
<1>2. RowsOfTheirDayInv /\ [Next]_vars => RowsOfTheirDayInv'
  BY JobKept, AloneKept, RowsKept, KnownKept, SeenKept, ExactKept, LeftKept DEF RowsOfTheirDayInv
<1> QED
  BY <1>1, <1>2, PTL DEF Spec

(* Who has just deleted the rows of all other days, alone, leaves exactly   *)
(* the rows that follow from what is stored.                                *)
LEMMA PrunedExactly ==
    ASSUME RowsOfTheirDayInv, [Next]_vars, NEW j \in Jobs, Step(j, "pruneRows"), Pruned(j)', left' = left, job[j].alone
    PROVE  Exact'
<1>1. JobInv /\ AloneInv /\ KnownInv /\ ExactInv /\ left \in Nat /\ Underway(j) /\ At(j) = "pruneRows"
  BY DEF RowsOfTheirDayInv, LeftInv, Step, At
<1>2. ~(Underway(j)' /\ At(j)' = "pruneRows")
  BY DEF Pruned, Underway, Step, At
<1>3. ASSUME NEW i \in Jobs, Does(i) PROVE Exact'
  <2>1. i = j
    BY <1>1, <1>3, Framed DEF AloneInv
  <2>2. PruneRows(j) /\ spot' = spot /\ bar' = bar
    BY <1>1, <1>3, <2>1, Which, Framed DEF Frame
  <2>3. \A d \in Days : dollar'[d] = IF d \in Saw(j).written THEN dollar[d] ELSE NoRow
    BY <2>2 DEF PruneRows
  <2>4. Saw(j).written = {d \in Days : Ready(d)} /\ \A d \in Saw(j).written : dollar[d] = Proper(d)
    BY <1>1 DEF ExactInv
  <2>5. \A d \in Days : dollar'[d] = IF Ready(d) THEN Proper(d) ELSE NoRow
    BY <2>3, <2>4
  <2>6. \A d \in Days : dollar'[d] = IF bar'[d] # Unset /\ spot'[d].usd # Unset
                                     THEN [points |-> bar'[d], rate |-> spot'[d].usd] ELSE NoRow
    BY <2>2, <2>5 DEF Ready, Proper
  <2> QED
    BY <2>6 DEF Exact
<1>4. ASSUME NEW i \in Jobs, Start(i) PROVE FALSE
  <2>1. Starts(i)
    BY <1>1, <1>4, Starting
  <2>2. i # j
    BY <1>1, <2>1, Newcomer
  <2>3. Underway(j)' /\ At(j)' = At(j)
    BY <1>1, <2>1, <2>2, Newcomer
  <2> QED
    BY <1>1, <1>2, <2>3
<1>5. CASE (\E i \in Jobs : StatementFails(i)) \/ Restart
  <2>1. left' = left - 1
    BY <1>5 DEF StatementFails, Restart, Disturb
  <2> QED
    BY <1>1, <2>1
<1>6. CASE Midnight \/ Elapse \/ UNCHANGED vars
  <2>1. job' = job
    BY <1>6 DEF Midnight, Elapse, vars, jobVars
  <2> QED
    BY <1>1, <1>2, <2>1 DEF Underway, At
<1> QED
  BY <1>3, <1>4, <1>5, <1>6, Accounting

LEMMA RowsStep == RowsOfTheirDayInv /\ RowsOfTheirDayInv' /\ [Next]_vars =>
       /\ \A d \in Days : dollar'[d] # NoRow =>
             dollar'[d].points \in known'.points[d] /\ dollar'[d].rate \in known'.rates[d]
       /\ \A j \in Jobs : Step(j, "pruneRows") /\ Pruned(j)' /\ left' = left /\ job[j].alone => Exact'
<1> SUFFICES ASSUME RowsOfTheirDayInv, RowsOfTheirDayInv', [Next]_vars
             PROVE  /\ \A d \in Days : dollar'[d] # NoRow =>
                          dollar'[d].points \in known'.points[d] /\ dollar'[d].rate \in known'.rates[d]
                    /\ \A j \in Jobs : Step(j, "pruneRows") /\ Pruned(j)' /\ left' = left /\ job[j].alone => Exact'
  OBVIOUS
<1>1. KnownInv'
  BY DEF RowsOfTheirDayInv
<1> QED
  BY <1>1, PrunedExactly DEF KnownInv

(* A row of the index over the dollar is made of points and a rate that its *)
(* very day had, and a round that nobody disturbs leaves exactly the rows   *)
(* it should: for any jobs, days and rates.                                 *)
THEOREM ContentDollarRows == Spec => DollarRowsOfTheirDay
BY DaysRowsAlways, RowsStep, PTL DEF Spec, DollarRowsOfTheirDay

----------------------------------------------------------------------------
(* Market: the calls of the schedule, and the ingests.                     *)

(* The inductive invariant: the types, the flag and its owner, and that    *)
(* marketRetryAfter is what is left of the fifteen minutes.                *)
MarketInv ==
    /\ MarketIsTyped
    /\ FlagHasOwner
    /\ cool + calm = Backoff

LEMMA BackoffType == Backoff \in Nat
BY MarketAssumption

LEMMA ClockType == LastMinute \in Nat /\ FirstDay \in Nat /\ LastDate \in Nat
BY MarketAssumption DEF Calendar

----------------------------------------------------------------------------
(* There is a greatest day among some days.                                *)
LEMMA MaxOfDays ==
    ASSUME NEW S \in SUBSET Calendar, S # {}
    PROVE  Max(S) \in S
<1> DEFINE T == {LastDate - x : x \in S}
<1>1. \A x \in S : LastDate - x \in Nat
  BY MarketAssumption DEF Calendar
<1>1a. T \in SUBSET Nat /\ T # {}
  BY <1>1
<1>1b. PICK n \in T : \A m \in T : <<m, n>> \notin OpToRel(<, Nat)
  BY <1>1a, WFMin, NatLessThanWellFounded
<1>2. \A m \in T : n <= m
  <2> SUFFICES ASSUME NEW m \in T PROVE n <= m
    OBVIOUS
  <2>1. n \in Nat /\ m \in Nat
    BY <1>1a
  <2>2. ~(m < n)
    BY <2>1, <1>1b DEF OpToRel
  <2> QED
    BY <2>1, <2>2
<1>3. PICK x \in S : n = LastDate - x
  BY <1>2
<1>4. \A y \in S : x >= y
  <2> SUFFICES ASSUME NEW y \in S PROVE x >= y
    OBVIOUS
  <2>1. LastDate - x <= LastDate - y
    BY <1>2, <1>3
  <2> QED
    BY <2>1, MarketAssumption DEF Calendar
<1> QED
  BY <1>4 DEF Max

LEMMA LatestTradingDayIsADay ==
    ASSUME NEW d \in FirstDay..LastDate
    PROVE  LatestTradingDay(d) \in Calendar
<1>1. RecentTradingDays(d) \in SUBSET Calendar
  BY MarketAssumption DEF RecentTradingDays
<1>2. RecentTradingDays(d) # {}
  BY MarketAssumption DEF RecentTradingDays
<1> QED
  BY <1>1, <1>2, MaxOfDays DEF LatestTradingDay

LEMMA WindowIsDays == \A d : Window(d) \in SUBSET Calendar
BY MarketAssumption DEF Window, RecentTradingDays

----------------------------------------------------------------------------
(* An ingest that goes on with some other record.                          *)
LEMMA IngestGoesOn ==
    ASSUME MarketInv, NEW i \in Ingests, NEW rec \in Ingest, rec.at # "idle",
           ingest' = [ingest EXCEPT ![i] = rec]
    PROVE  ingest' \in [Ingests -> Ingest] /\ \E j \in Ingests : IngestRuns(j)'
<1>1. ingest \in [Ingests -> Ingest]
  BY DEF MarketInv, MarketIsTyped
<1>2. ingest' \in [Ingests -> Ingest] /\ ingest'[i] = rec
  BY <1>1
<1> QED
  BY <1>2 DEF IngestRuns

(* An ingest begins, whatever its kind.                                    *)
LEMMA IngestBegins ==
    ASSUME MarketInv, NEW rec \in Ingest, NEW cost \in Nat, rec.at # "idle", BeginIngest(rec, cost)
    PROVE  /\ ingest' \in [Ingests -> Ingest]
           /\ busy' \in BOOLEAN /\ FlagHasOwner'
           /\ incidents' \in 0..MaxIncidents
<1>1. PICK i \in Ingests, troubled \in BOOLEAN :
        /\ ingest' = [ingest EXCEPT ![i] = [rec EXCEPT !.troubled = troubled]]
        /\ Incident(IF troubled THEN cost + 1 ELSE cost)
  BY DEF BeginIngest
<1>2. [rec EXCEPT !.troubled = troubled] \in Ingest /\ [rec EXCEPT !.troubled = troubled].at # "idle"
  BY DEF Ingest
<1>3. ingest' \in [Ingests -> Ingest] /\ \E j \in Ingests : IngestRuns(j)'
  BY <1>1, <1>2, IngestGoesOn
<1>4. incidents' \in 0..MaxIncidents
  BY <1>1, MarketAssumption DEF MarketInv, MarketIsTyped, Incident
<1> QED
  BY <1>3, <1>4 DEF FlagHasOwner, BeginIngest

LEMMA FullBegins ==
    ASSUME MarketInv, NEW auto \in BOOLEAN, NEW cost \in Nat, BeginFull(auto, cost)
    PROVE  /\ ingest' \in [Ingests -> Ingest]
           /\ busy' \in BOOLEAN /\ FlagHasOwner'
           /\ incidents' \in 0..MaxIncidents
<1> DEFINE rec == [NoIngest EXCEPT !.at = "fetch", !.auto = auto, !.days = Window(day)]
<1>1. rec \in Ingest /\ rec.at # "idle"
  BY WindowIsDays DEF NoIngest, Ingest
<1>2. BeginIngest(rec, cost)
  BY DEF BeginFull
<1> QED
  BY <1>1, <1>2, IngestBegins

LEMMA OptionsBegin ==
    ASSUME MarketInv, NEW kind \in {"button", "missing"}, NEW d \in Calendar, NEW cost \in Nat,
           BeginOptions(kind, d, cost)
    PROVE  /\ ingest' \in [Ingests -> Ingest]
           /\ busy' \in BOOLEAN /\ FlagHasOwner'
           /\ incidents' \in 0..MaxIncidents
<1> DEFINE rec == [NoIngest EXCEPT !.at = "options", !.kind = kind, !.days = {d}]
<1>1. rec \in Ingest /\ rec.at # "idle"
  BY DEF NoIngest, Ingest
<1>2. BeginIngest(rec, cost)
  BY DEF BeginOptions
<1> QED
  BY <1>1, <1>2, IngestBegins

LEMMA SyncLeaves ==
    ASSUME MarketInv, NEW t \in Syncs, Leave(t)
    PROVE  sync' \in [Syncs -> Sync]
<1>1. NoSync \in Sync
  BY MarketAssumption DEF NoSync, Sync
<1> QED
  BY <1>1 DEF MarketInv, MarketIsTyped, Leave

(* The flag and its owner where neither the flag nor the ingests change.   *)
LEMMA FlagStays ==
    ASSUME MarketInv, UNCHANGED <<busy, ingest>>
    PROVE  FlagHasOwner' /\ busy' \in BOOLEAN /\ ingest' \in [Ingests -> Ingest]
BY DEF MarketInv, MarketIsTyped, FlagHasOwner, IngestRuns

LEMMA AutomaticBegins ==
    ASSUME MarketInv, NEW t \in Syncs, BeginAutomatic(t)
    PROVE  /\ sync' \in [Syncs -> Sync]
           /\ ingest' \in [Ingests -> Ingest]
           /\ busy' \in BOOLEAN /\ FlagHasOwner'
           /\ incidents' \in 0..MaxIncidents
           /\ cool' \in 0..Backoff /\ calm' \in 0..Backoff /\ cool' + calm' = Backoff
<1>1. sync' \in [Syncs -> Sync]
  BY SyncLeaves DEF BeginAutomatic
<1>2. CASE busy \/ cool > 0
  <2>1. UNCHANGED <<busy, cool, calm, ingest, incidents>>
    BY <1>2 DEF BeginAutomatic
  <2> QED
    BY <1>1, <2>1, FlagStays DEF MarketInv, MarketIsTyped
<1>3. CASE ~(busy \/ cool > 0)
  <2>1. BeginFull(TRUE, 0) /\ cool' = Backoff /\ calm' = 0
    BY <1>3 DEF BeginAutomatic
  <2>2. cool' \in 0..Backoff /\ calm' \in 0..Backoff /\ cool' + calm' = Backoff
    BY <2>1, BackoffType
  <2> QED
    BY <1>1, <2>1, <2>2, FullBegins
<1> QED
  BY <1>2, <1>3

LEMMA Restarts ==
    ASSUME MarketInv, RestartProcess
    PROVE  /\ sync' \in [Syncs -> Sync] /\ ingest' \in [Ingests -> Ingest]
           /\ busy' \in BOOLEAN /\ armed' \in BOOLEAN /\ button' = "none" /\ FlagHasOwner'
           /\ cool' \in 0..Backoff /\ calm' \in 0..Backoff /\ cool' + calm' = Backoff
<1>1. NoSync \in Sync /\ NoIngest \in Ingest
  BY MarketAssumption DEF NoSync, Sync, NoIngest, Ingest
<1>2. cool' \in 0..Backoff /\ calm' \in 0..Backoff /\ cool' + calm' = Backoff
  BY BackoffType DEF RestartProcess
<1> QED
  BY <1>1, <1>2 DEF RestartProcess, FlagHasOwner

----------------------------------------------------------------------------
LEMMA InitInv == MarketInit => MarketInv
<1> SUFFICES ASSUME MarketInit PROVE MarketInv
  OBVIOUS
<1>1. NoSync \in Sync /\ NoIngest \in Ingest
  BY MarketAssumption DEF NoSync, Sync, NoIngest, Ingest
<1>2. day \in FirstDay..LastDate /\ minute \in 0..LastMinute
  BY MarketAssumption DEF MarketInit, Calendar
<1>3. cool \in 0..Backoff /\ calm \in 0..Backoff /\ cool + calm = Backoff
  BY BackoffType DEF MarketInit
<1>4. incidents \in 0..MaxIncidents
  BY MarketAssumption DEF MarketInit
<1>5. bars \in [Calendar -> [Symbols -> Bar]] /\ options \in [Calendar -> Bar]
  BY DEF MarketInit, Bar
<1> QED
  BY <1>1, <1>2, <1>3, <1>4, <1>5 DEF MarketInit, MarketInv, MarketIsTyped, FlagHasOwner

(* Steps of the clock and of the calls of syncMarketIfDue.                 *)
LEMMA TickInv ==
    ASSUME MarketInv, NEW t \in Syncs, Tick(t)
    PROVE  MarketInv'
<1>1. day' \in FirstDay..LastDate /\ minute' \in 0..LastMinute
  <2>1. day \in FirstDay..LastDate /\ minute \in 0..LastMinute
    BY DEF MarketInv, MarketIsTyped
  <2>2. CASE minute < LastMinute
    BY <2>1, <2>2, ClockType DEF Tick
  <2>3. CASE ~(minute < LastMinute) /\ day < LastDate
    BY <2>1, <2>3, ClockType DEF Tick
  <2>4. CASE ~(minute < LastMinute) /\ ~(day < LastDate)
    BY <2>1, <2>4 DEF Tick
  <2> QED
    BY <2>2, <2>3, <2>4
<1>2. cool' \in 0..Backoff /\ calm' \in 0..Backoff /\ cool' + calm' = Backoff
  BY BackoffType DEF MarketInv, MarketIsTyped, Tick
<1>3. sync' \in [Syncs -> Sync]
  BY ZenonT(60) DEF MarketInv, MarketIsTyped, Tick, Sync
<1>4. FlagHasOwner' /\ busy' \in BOOLEAN /\ ingest' \in [Ingests -> Ingest]
  BY FlagStays DEF Tick
<1> QED
  BY <1>1, <1>2, <1>3, <1>4 DEF MarketInv, MarketIsTyped, Tick, dataVars

LEMMA CatchUpInv ==
    ASSUME MarketInv, NEW t \in Syncs, CatchUp(t)
    PROVE  MarketInv'
<1>1. sync' \in [Syncs -> Sync]
  BY DEF MarketInv, MarketIsTyped, CatchUp, Sync
<1>2. FlagHasOwner' /\ busy' \in BOOLEAN /\ ingest' \in [Ingests -> Ingest]
  BY FlagStays DEF CatchUp
<1> QED
  BY <1>1, <1>2 DEF MarketInv, MarketIsTyped, CatchUp, clockVars, dataVars

(* A call that goes on to count the day's bars is still a call.            *)
LEMMA SyncAdvances ==
    ASSUME NEW calls \in [Syncs -> Sync], NEW t \in Syncs,
           NEW retry \in BOOLEAN, NEW date \in Calendar
    PROVE  [calls EXCEPT ![t].at = "count", ![t].retry = retry, ![t].day = date]
             \in [Syncs -> Sync]
<1> DEFINE counting == [calls EXCEPT ![t].at = "count"]
           marked   == [counting EXCEPT ![t].retry = retry]
<1>1. counting \in [Syncs -> Sync]
  BY DEF Sync
<1>2. marked \in [Syncs -> Sync]
  <2> HIDE DEF counting
  <2> QED
    BY <1>1 DEF Sync
<1>3. [marked EXCEPT ![t].day = date] \in [Syncs -> Sync]
  <2> HIDE DEF marked
  <2> QED
    BY <1>2 DEF Sync
<1>4. [marked EXCEPT ![t].day = date]
        = [calls EXCEPT ![t].at = "count", ![t].retry = retry, ![t].day = date]
  BY Zenon
<1> QED
  BY <1>3, <1>4

LEMMA DecideInv ==
    ASSUME MarketInv, NEW t \in Syncs, Decide(t)
    PROVE  MarketInv'
<1>0. UNCHANGED <<clockVars, armed, button, dataVars>>
  BY DEF Decide
<1>1. CASE BeginAutomatic(t)
  BY <1>0, <1>1, AutomaticBegins DEF MarketInv, MarketIsTyped, clockVars, dataVars
<1>2. CASE Leave(t) /\ UNCHANGED <<busy, cool, calm, ingest, incidents>>
  BY <1>0, <1>2, SyncLeaves, FlagStays DEF MarketInv, MarketIsTyped, clockVars, dataVars
<1>3. CASE /\ sync' = [sync EXCEPT ![t].at = "count", ![t].retry = (Slot = "retry"),
                                   ![t].day = LatestTradingDay(day)]
           /\ UNCHANGED <<busy, cool, calm, ingest, incidents>>
  <2>1. LatestTradingDay(day) \in Calendar
    BY LatestTradingDayIsADay DEF MarketInv, MarketIsTyped
  <2>2. PICK retry \in BOOLEAN :
          sync' = [sync EXCEPT ![t].at = "count", ![t].retry = retry,
                               ![t].day = LatestTradingDay(day)]
    BY <1>3
  <2>3. sync' \in [Syncs -> Sync]
    BY <2>1, <2>2, SyncAdvances, Zenon DEF MarketInv, MarketIsTyped
  <2> QED
    BY <1>0, <1>3, <2>3, FlagStays DEF MarketInv, MarketIsTyped, clockVars, dataVars
<1> QED
  BY <1>1, <1>2, <1>3 DEF Decide

LEMMA CountInv ==
    ASSUME MarketInv, NEW t \in Syncs, Count(t)
    PROVE  MarketInv'
<1>0. UNCHANGED <<clockVars, armed, button, dataVars>>
  BY DEF Count
<1>1. CASE BeginAutomatic(t)
  BY <1>0, <1>1, AutomaticBegins DEF MarketInv, MarketIsTyped, clockVars, dataVars
<1>2. CASE Leave(t) /\ UNCHANGED <<busy, cool, calm, ingest, incidents>>
  BY <1>0, <1>2, SyncLeaves, FlagStays DEF MarketInv, MarketIsTyped, clockVars, dataVars
<1>3. CASE /\ sync' = [sync EXCEPT ![t].at = "countOptions", ![t].day = LatestTradingDay(day)]
           /\ UNCHANGED <<busy, cool, calm, ingest, incidents>>
  <2>1. LatestTradingDay(day) \in Calendar
    BY LatestTradingDayIsADay DEF MarketInv, MarketIsTyped
  <2>2. sync' \in [Syncs -> Sync]
    BY <1>3, <2>1, ZenonT(60) DEF MarketInv, MarketIsTyped, Sync
  <2> QED
    BY <1>0, <1>3, <2>2, FlagStays DEF MarketInv, MarketIsTyped, clockVars, dataVars
<1> QED
  BY <1>1, <1>2, <1>3 DEF Count

LEMMA CountOptionsInv ==
    ASSUME MarketInv, NEW t \in Syncs, CountOptions(t)
    PROVE  MarketInv'
<1>0. sync' \in [Syncs -> Sync] /\ UNCHANGED <<clockVars, cool, armed, button, dataVars, calm>>
  BY SyncLeaves DEF CountOptions
<1>1. CASE UNCHANGED <<busy, ingest, incidents>>
  BY <1>0, <1>1, FlagStays DEF MarketInv, MarketIsTyped, clockVars, dataVars
<1>2. CASE BeginOptions("missing", sync[t].day, 0)
  <2>1. sync[t].day \in Calendar
    BY DEF MarketInv, MarketIsTyped, Sync
  <2> QED
    BY <1>0, <1>2, <2>1, OptionsBegin DEF MarketInv, MarketIsTyped, clockVars, dataVars
<1> QED
  BY <1>1, <1>2 DEF CountOptions

LEMMA SyncFailsInv ==
    ASSUME MarketInv, NEW t \in Syncs, SyncFails(t)
    PROVE  MarketInv'
<1>0. incidents' \in 0..MaxIncidents /\ UNCHANGED <<clockVars, dataVars>>
  BY MarketAssumption DEF SyncFails, Incident, MarketInv, MarketIsTyped
<1>1. CASE Leave(t) /\ UNCHANGED <<flagVars, ingest, calm>>
  BY <1>0, <1>1, SyncLeaves, FlagStays DEF MarketInv, MarketIsTyped, clockVars, dataVars, flagVars
<1>2. CASE RestartProcess
  BY <1>0, <1>2, Restarts DEF MarketInv, MarketIsTyped, clockVars, dataVars
<1> QED
  BY <1>1, <1>2 DEF SyncFails

(* The buttons, and a crash.                                               *)
LEMMA ButtonsInv ==
    ASSUME MarketInv, IngestButton \/ OptionsButton \/ Crash
    PROVE  MarketInv'
<1>1. CASE IngestButton
  <2>1. BeginFull(FALSE, 1)
    BY <1>1 DEF IngestButton
  <2> QED
    BY <1>1, <2>1, FullBegins DEF IngestButton, MarketInv, MarketIsTyped, clockVars, dataVars
<1>2. CASE OptionsButton
  <2>1. BeginOptions("button", day, 1) /\ day \in Calendar
    BY <1>2, MarketAssumption DEF OptionsButton, MarketInv, MarketIsTyped, Calendar
  <2> QED
    BY <1>2, <2>1, OptionsBegin DEF OptionsButton, MarketInv, MarketIsTyped, clockVars, dataVars
<1>3. CASE Crash
  <2>1. incidents' \in 0..MaxIncidents /\ UNCHANGED <<clockVars, dataVars>>
    BY <1>3, MarketAssumption DEF Crash, Incident, MarketInv, MarketIsTyped
  <2> QED
    BY <1>3, <2>1, Restarts DEF Crash, MarketInv, MarketIsTyped, clockVars, dataVars
<1> QED
  BY <1>1, <1>2, <1>3
----------------------------------------------------------------------------
(* Steps of an ingest.                                                     *)
LEMMA IngestType == ASSUME MarketInv, NEW i \in Ingests PROVE ingest[i] \in Ingest
BY DEF MarketInv, MarketIsTyped

LEMMA NextDayGoesOn ==
    ASSUME MarketInv, NEW i \in Ingests, NEW rec \in Ingest, NextDay(i, rec)
    PROVE  ingest' \in [Ingests -> Ingest] /\ \E j \in Ingests : IngestRuns(j)'
<1> DEFINE next == IF Cardinality(rec.days) = 1
                   THEN [rec EXCEPT !.at = "options", !.rows = {}]
                   ELSE [rec EXCEPT !.at = "fetch", !.rows = {}, !.days = @ \ {Min(@)}]
<1>1. next \in Ingest /\ next.at # "idle"
  BY DEF Ingest
<1>2. ingest' = [ingest EXCEPT ![i] = next]
  BY DEF NextDay
<1> HIDE DEF next
<1> QED
  BY <1>1, <1>2, IngestGoesOn

LEMMA GotoGoesOn ==
    ASSUME MarketInv, NEW i \in Ingests, NEW place \in {"indices", "status", "failed"},
           GotoIngest(i, place)
    PROVE  ingest' \in [Ingests -> Ingest] /\ \E j \in Ingests : IngestRuns(j)'
<1> DEFINE next == [ingest[i] EXCEPT !.at = place]
<1>1. next \in Ingest /\ next.at # "idle"
  BY IngestType DEF Ingest
<1>2. ingest' = [ingest EXCEPT ![i] = next]
  BY DEF GotoIngest
<1> HIDE DEF next
<1> QED
  BY <1>1, <1>2, IngestGoesOn

(* An ingest that ends takes the flag with it.                             *)
LEMMA IngestEnds ==
    ASSUME MarketInv, NEW i \in Ingests, Finish(i)
    PROVE  ingest' \in [Ingests -> Ingest] /\ busy' \in BOOLEAN /\ FlagHasOwner'
<1>1. NoIngest \in Ingest
  BY DEF NoIngest, Ingest
<1> QED
  BY <1>1 DEF Finish, MarketInv, MarketIsTyped, FlagHasOwner

LEMMA FetchRowsInv ==
    ASSUME MarketInv, NEW i \in Ingests, FetchRows(i)
    PROVE  MarketInv'
<1>0. UNCHANGED <<clockVars, flagVars, dataVars, sync, calm, incidents>>
  BY DEF FetchRows
<1>1. CASE ingest' = [ingest EXCEPT ![i].at = "rows", ![i].rows = Symbols]
  <2> DEFINE next == [ingest[i] EXCEPT !.at = "rows", !.rows = Symbols]
  <2>1. next \in Ingest /\ next.at # "idle"
    BY IngestType DEF Ingest
  <2>2. ingest' = [ingest EXCEPT ![i] = next]
    BY <1>1
  <2> HIDE DEF next
  <2>3. ingest' \in [Ingests -> Ingest] /\ \E j \in Ingests : IngestRuns(j)'
    BY <2>1, <2>2, IngestGoesOn
  <2> QED
    BY <1>0, <2>3 DEF MarketInv, MarketIsTyped, FlagHasOwner, clockVars, flagVars, dataVars
<1>2. CASE NextDay(i, ingest[i])
  <2>1. ingest' \in [Ingests -> Ingest] /\ \E j \in Ingests : IngestRuns(j)'
    BY <1>2, IngestType, NextDayGoesOn
  <2> QED
    BY <1>0, <2>1 DEF MarketInv, MarketIsTyped, FlagHasOwner, clockVars, flagVars, dataVars
<1> QED
  BY <1>1, <1>2 DEF FetchRows

LEMMA StoreRowInv ==
    ASSUME MarketInv, NEW i \in Ingests, NEW s \in Symbols, StoreRow(i, s)
    PROVE  MarketInv'
<1> DEFINE d == Min(ingest[i].days)
           Advance(rec) == IF rec.rows = {} THEN NextDay(i, rec)
                                            ELSE ingest' = [ingest EXCEPT ![i] = rec]
<1>0. ingest[i].at = "rows" /\ UNCHANGED <<clockVars, flagVars, options, status, sync, calm, incidents>>
  BY DEF StoreRow
<1>1. bars' \in [Calendar -> [Symbols -> Bar]]
  <2>1. CASE bars' = [bars EXCEPT ![d][s] = "priced"]
    BY <2>1 DEF MarketInv, MarketIsTyped, Bar
  <2>2. CASE bars' = [bars EXCEPT ![d][s] = "blank"]
    BY <2>2 DEF MarketInv, MarketIsTyped, Bar
  <2>3. CASE UNCHANGED bars
    BY <2>3 DEF MarketInv, MarketIsTyped
  <2> QED
    BY <2>1, <2>2, <2>3 DEF StoreRow
<1>2. ASSUME NEW rec \in Ingest, rec.at = "rows", Advance(rec)
      PROVE  ingest' \in [Ingests -> Ingest] /\ \E j \in Ingests : IngestRuns(j)'
  <2>1. CASE rec.rows = {}
    BY <1>2, <2>1, NextDayGoesOn
  <2>2. CASE rec.rows # {}
    BY <1>2, <2>2, IngestGoesOn
  <2> QED
    BY <2>1, <2>2
<1>3. \E rec \in Ingest : rec.at = "rows" /\ Advance(rec)
  <2>1. /\ [ingest[i] EXCEPT !.rows = @ \ {s}, !.saved = TRUE] \in Ingest
        /\ [ingest[i] EXCEPT !.rows = @ \ {s}, !.saved = TRUE].at = "rows"
        /\ [ingest[i] EXCEPT !.rows = @ \ {s}] \in Ingest
        /\ [ingest[i] EXCEPT !.rows = @ \ {s}].at = "rows"
    BY <1>0, IngestType DEF Ingest
  <2>2. \/ Advance([ingest[i] EXCEPT !.rows = @ \ {s}, !.saved = TRUE])
        \/ Advance([ingest[i] EXCEPT !.rows = @ \ {s}])
    BY DEF StoreRow
  <2> HIDE DEF Advance
  <2> QED
    BY <2>1, <2>2
<1> HIDE DEF Advance
<1>4. ingest' \in [Ingests -> Ingest] /\ \E j \in Ingests : IngestRuns(j)'
  BY <1>2, <1>3
<1> QED
  BY <1>0, <1>1, <1>4 DEF MarketInv, MarketIsTyped, FlagHasOwner, clockVars, flagVars

LEMMA StoreOptionsInv ==
    ASSUME MarketInv, NEW i \in Ingests, StoreOptions(i)
    PROVE  MarketInv'
<1> DEFINE d == Min(ingest[i].days)
<1>0. UNCHANGED <<clockVars, cool, armed, bars, status, sync, calm, incidents>>
  BY DEF StoreOptions
<1>1. options' \in [Calendar -> Bar]
  <2>1. CASE options' = [options EXCEPT ![d] = "priced"]
    BY <2>1 DEF MarketInv, MarketIsTyped, Bar
  <2>2. CASE options' = [options EXCEPT ![d] = "blank"]
    BY <2>2 DEF MarketInv, MarketIsTyped, Bar
  <2>3. CASE UNCHANGED options
    BY <2>3 DEF MarketInv, MarketIsTyped
  <2> QED
    BY <2>1, <2>2, <2>3 DEF StoreOptions
<1>2. CASE /\ ingest' = [ingest EXCEPT ![i].at = "indices", ![i].saved = TRUE]
           /\ UNCHANGED <<busy, button>>
  <2> DEFINE next == [ingest[i] EXCEPT !.at = "indices", !.saved = TRUE]
  <2>1. next \in Ingest /\ next.at # "idle"
    BY IngestType DEF Ingest
  <2>2. ingest' = [ingest EXCEPT ![i] = next]
    BY <1>2
  <2> HIDE DEF next
  <2>3. ingest' \in [Ingests -> Ingest] /\ \E j \in Ingests : IngestRuns(j)'
    BY <2>1, <2>2, IngestGoesOn
  <2> QED
    BY <1>0, <1>1, <1>2, <2>3 DEF MarketInv, MarketIsTyped, FlagHasOwner, clockVars
<1>3. CASE /\ Finish(i)
           /\ button' = IF ingest[i].kind = "button" THEN "done" ELSE button
  <2>1. button' \in {"none", "running", "done", "error"}
    BY <1>3 DEF MarketInv, MarketIsTyped
  <2> QED
    BY <1>0, <1>1, <1>3, <2>1, IngestEnds DEF MarketInv, MarketIsTyped, clockVars
<1>4. CASE /\ GotoIngest(i, IF ingest[i].kind = "full" THEN "indices" ELSE "failed")
           /\ UNCHANGED <<busy, button>>
  <2>1. ingest' \in [Ingests -> Ingest] /\ \E j \in Ingests : IngestRuns(j)'
    BY <1>4, GotoGoesOn
  <2> QED
    BY <1>0, <1>1, <1>4, <2>1 DEF MarketInv, MarketIsTyped, FlagHasOwner, clockVars
<1> QED
  BY <1>2, <1>3, <1>4 DEF StoreOptions
LEMMA ConcludeInv ==
    ASSUME MarketInv, NEW i \in Ingests, Conclude(i) \/ IngestFails(i)
    PROVE  MarketInv'
<1>0. UNCHANGED <<clockVars, flagVars, dataVars, sync, calm, incidents>>
  BY DEF Conclude, IngestFails
<1>1. \E place \in {"indices", "status", "failed"} : GotoIngest(i, place)
  BY DEF Conclude, IngestFails
<1>2. ingest' \in [Ingests -> Ingest] /\ \E j \in Ingests : IngestRuns(j)'
  BY <1>1, GotoGoesOn
<1> QED
  BY <1>0, <1>2 DEF MarketInv, MarketIsTyped, FlagHasOwner, clockVars, flagVars, dataVars

LEMMA EndInv ==
    ASSUME MarketInv, NEW i \in Ingests, WriteStatus(i) \/ RecordFailure(i)
    PROVE  MarketInv'
<1>1. Finish(i) /\ UNCHANGED <<clockVars, cool, armed, bars, options, sync, calm, incidents>>
  BY DEF WriteStatus, RecordFailure
<1>2. status' \in {"none", "ok", "failed"} /\ button' \in {"none", "running", "done", "error"}
  BY DEF WriteStatus, RecordFailure, MarketInv, MarketIsTyped
<1> QED
  BY <1>1, <1>2, IngestEnds DEF MarketInv, MarketIsTyped, clockVars

LEMMA StutterInv == ASSUME MarketInv, UNCHANGED marketVars PROVE MarketInv'
BY DEF MarketInv, MarketIsTyped, FlagHasOwner, IngestRuns, marketVars, clockVars, flagVars, dataVars

LEMMA NextInv == MarketInv /\ [MarketNext]_marketVars => MarketInv'
<1> SUFFICES ASSUME MarketInv, [MarketNext]_marketVars PROVE MarketInv'
  OBVIOUS
<1>1. ASSUME NEW t \in Syncs, Tick(t) \/ CatchUp(t) \/ GoOnSync(t) \/ SyncFails(t)
      PROVE  MarketInv'
  BY <1>1, TickInv, CatchUpInv, DecideInv, CountInv, CountOptionsInv, SyncFailsInv DEF GoOnSync
<1>2. ASSUME NEW i \in Ingests, GoOnIngest(i) \/ IngestFails(i)
      PROVE  MarketInv'
  BY <1>2, FetchRowsInv, StoreRowInv, StoreOptionsInv, ConcludeInv, EndInv DEF GoOnIngest
<1>3. ASSUME IngestButton \/ OptionsButton \/ Crash
      PROVE  MarketInv'
  BY <1>3, ButtonsInv
<1> QED
  BY <1>1, <1>2, <1>3, StutterInv DEF MarketNext

LEMMA AlwaysInv == MarketSpec => []MarketInv
BY InitInv, NextInv, PTL DEF MarketSpec

(* The variables of the market have their types in every behaviour.        *)
THEOREM MarketTypeOK == MarketSpec => []MarketIsTyped
<1>1. MarketInv => MarketIsTyped
  BY DEF MarketInv
<1> QED
  BY <1>1, AlwaysInv, PTL

(* ingestInFlight is never left set by an ingest that is gone: while it is *)
(* set, one is under way, however many overlap and whatever fails.         *)
THEOREM MarketFlagHasOwner == MarketSpec => []FlagHasOwner
<1>1. MarketInv => FlagHasOwner
  BY DEF MarketInv
<1> QED
  BY <1>1, AlwaysInv, PTL

----------------------------------------------------------------------------
(* Only an automatic start puts an automatic ingest where none was.        *)
Apart == \A i \in Ingests : ~IngestRuns(i) /\ ingest'[i].at = "fetch" /\ ingest'[i].auto => calm = Backoff

LEMMA AutomaticBeginsApart ==
    ASSUME MarketInv, NEW t \in Syncs, BeginAutomatic(t)
    PROVE  Apart
<1>1. CASE UNCHANGED ingest
  BY <1>1 DEF Apart, IngestRuns
<1>2. CASE cool = 0
  BY <1>2, BackoffType DEF Apart, MarketInv, MarketIsTyped
<1>3. busy \/ cool > 0 => UNCHANGED <<busy, cool, calm, ingest, incidents>>
  BY DEF BeginAutomatic
<1>4. cool > 0 \/ cool = 0
  BY BackoffType DEF MarketInv, MarketIsTyped
<1> QED
  BY <1>1, <1>2, <1>3, <1>4

(* A step that begins no ingest of its own accord.                         *)
LEMMA NothingBegins ==
    ASSUME NEW i \in Ingests, NEW rec, IngestRuns(i), ingest' = [ingest EXCEPT ![i] = rec],
           MarketInv
    PROVE  Apart
BY DEF Apart, IngestRuns, MarketInv, MarketIsTyped

LEMMA OthersBeginApart ==
    ASSUME MarketInv, NEW rec \in Ingest, NEW cost, ~rec.auto, BeginIngest(rec, cost)
    PROVE  Apart
<1>1. PICK i \in Ingests, troubled \in BOOLEAN :
        ingest' = [ingest EXCEPT ![i] = [rec EXCEPT !.troubled = troubled]]
  BY DEF BeginIngest
<1>2. ~[rec EXCEPT !.troubled = troubled].auto
  BY DEF Ingest
<1>3. \A j \in Ingests : j # i => ingest'[j] = ingest[j]
  BY <1>1 DEF MarketInv, MarketIsTyped
<1>4. ~ingest'[i].auto
  BY <1>1, <1>2 DEF MarketInv, MarketIsTyped
<1> QED
  BY <1>3, <1>4 DEF Apart, IngestRuns

LEMMA NextApart == MarketInv /\ [MarketNext]_marketVars => Apart \/ UNCHANGED marketVars
<1> SUFFICES ASSUME MarketInv, MarketNext PROVE Apart
  OBVIOUS
<1>0. CASE UNCHANGED ingest
  BY <1>0 DEF Apart, IngestRuns
<1>1. ASSUME NEW t \in Syncs, Tick(t) \/ CatchUp(t) \/ GoOnSync(t) \/ SyncFails(t)
      PROVE  Apart
  <2>1. CASE BeginAutomatic(t)
    BY <2>1, AutomaticBeginsApart
  <2>2. CASE BeginOptions("missing", sync[t].day, 0)
    <3> DEFINE rec == [NoIngest EXCEPT !.at = "options", !.kind = "missing", !.days = {sync[t].day}]
    <3>0. sync[t].day \in Calendar
      BY DEF MarketInv, MarketIsTyped, Sync
    <3>1. rec \in Ingest /\ ~rec.auto
      BY <3>0 DEF NoIngest, Ingest
    <3>2. BeginIngest(rec, 0)
      BY <2>2 DEF BeginOptions
    <3> HIDE DEF rec
    <3> QED
      BY <3>1, <3>2, OthersBeginApart
  <2>3. CASE RestartProcess
    BY <2>3 DEF RestartProcess, NoIngest, Apart
  <2>4. CASE UNCHANGED ingest
    BY <2>4, <1>0
  <2> QED
    BY <1>1, <2>1, <2>2, <2>3, <2>4
       DEF Tick, CatchUp, GoOnSync, Decide, Count, CountOptions, SyncFails
<1>2. ASSUME NEW i \in Ingests, GoOnIngest(i) \/ IngestFails(i)
      PROVE  Apart
  <2>1. IngestRuns(i)
    BY <1>2 DEF GoOnIngest, IngestFails, FetchRows, StoreRow, StoreOptions, Conclude,
                WriteStatus, RecordFailure, IngestRuns
  <2>2. \E rec : ingest' = [ingest EXCEPT ![i] = rec]
    BY <1>2 DEF GoOnIngest, IngestFails, FetchRows, StoreRow, StoreOptions, Conclude,
                WriteStatus, RecordFailure, NextDay, GotoIngest, Finish
  <2> QED
    BY <2>1, <2>2, NothingBegins
<1>3. CASE IngestButton
  <2> DEFINE rec == [NoIngest EXCEPT !.at = "fetch", !.auto = FALSE, !.days = Window(day)]
  <2>1. rec \in Ingest /\ ~rec.auto
    BY WindowIsDays DEF NoIngest, Ingest
  <2>2. BeginIngest(rec, 1)
    BY <1>3 DEF IngestButton, BeginFull
  <2> HIDE DEF rec
  <2> QED
    BY <2>1, <2>2, OthersBeginApart
<1>4. CASE OptionsButton
  <2> DEFINE rec == [NoIngest EXCEPT !.at = "options", !.kind = "button", !.days = {day}]
  <2>0. day \in Calendar
    BY MarketAssumption DEF MarketInv, MarketIsTyped, Calendar
  <2>1. rec \in Ingest /\ ~rec.auto
    BY <2>0 DEF NoIngest, Ingest
  <2>2. BeginIngest(rec, 1)
    BY <1>4 DEF OptionsButton, BeginOptions
  <2> HIDE DEF rec
  <2> QED
    BY <2>1, <2>2, OthersBeginApart
<1>5. CASE Crash
  BY <1>5 DEF Crash, RestartProcess, NoIngest, Apart
<1> QED
  BY <1>1, <1>2, <1>3, <1>4, <1>5 DEF MarketNext

(* Between two automatic ingests lie the fifteen minutes of                *)
(* marketRetryAfter, whatever interleaving of ticks and catch-ups.         *)
THEOREM MarketIngestsApart == MarketSpec => AutomaticIngestsAreApart
<1>1. MarketInv /\ [MarketNext]_marketVars => [Apart]_marketVars
  BY NextApart
<1> QED
  BY <1>1, AlwaysInv, PTL DEF MarketSpec, AutomaticIngestsAreApart, Apart

----------------------------------------------------------------------------
(* Why "ok" is backed: what an ingest has saved is stored and stays        *)
(* stored, and it is at its status only when it has saved something.  The  *)
(* days of an ingest do not run out before its rows do.                    *)
SomethingStored ==
    \/ \E d \in Calendar : options[d] # "none"
    \/ \E d \in Calendar, s \in Symbols : bars[d][s] # "none"

SoundJob(rec) ==
    /\ rec.at = "status" => rec.saved
    /\ rec.at \in {"fetch", "rows", "options"} => rec.days # {}

Backed ==
    /\ OkIsBacked
    /\ \A i \in Ingests : SoundJob(ingest[i]) /\ (ingest[i].saved => SomethingStored)

(* There is a least day among some days.                                   *)
LEMMA MinOfDays ==
    ASSUME NEW S \in SUBSET Calendar, S # {}
    PROVE  Min(S) \in S
<1>1. S \in SUBSET Nat
  BY DEF Calendar
<1>2. PICK n \in S : \A m \in S : <<m, n>> \notin OpToRel(<, Nat)
  BY <1>1, WFMin, NatLessThanWellFounded
<1>3. \A m \in S : n <= m
  <2> SUFFICES ASSUME NEW m \in S PROVE n <= m
    OBVIOUS
  <2>1. n \in Nat /\ m \in Nat
    BY <1>1
  <2>2. ~(m < n)
    BY <2>1, <1>2 DEF OpToRel
  <2> QED
    BY <2>1, <2>2
<1> QED
  BY <1>3 DEF Min

(* The window of an ingest has a day: no trading day is later than the     *)
(* latest one.                                                             *)
LEMMA WindowHasADay ==
    ASSUME NEW d \in FirstDay..LastDate
    PROVE  Window(d) # {}
<1> DEFINE R == RecentTradingDays(d)
<1>1. R \in SUBSET Calendar /\ R # {}
  BY MarketAssumption DEF RecentTradingDays
<1>2. \E x \in R : \A y \in R : x >= y
  <2> DEFINE T == {LastDate - x : x \in R}
  <2>1. T \in SUBSET Nat /\ T # {}
    BY <1>1, MarketAssumption DEF Calendar
  <2>2. PICK n \in T : \A m \in T : <<m, n>> \notin OpToRel(<, Nat)
    BY <2>1, WFMin, NatLessThanWellFounded
  <2>3. PICK x \in R : n = LastDate - x
    BY <2>2
  <2>4. ASSUME NEW y \in R PROVE x >= y
    <3>1. LastDate - y \in T /\ LastDate - x \in T
      OBVIOUS
    <3>2. ~(LastDate - y < LastDate - x)
      BY <2>1, <2>2, <2>3, <3>1 DEF OpToRel
    <3>3. x \in Nat /\ y \in Nat /\ LastDate \in Nat
      BY <1>1, MarketAssumption DEF Calendar
    <3> QED
      BY <3>2, <3>3
  <2> QED
    BY <2>4
<1>3. PICK x \in R : \A y \in R : x >= y
  BY <1>2
<1>4. {y \in R : y > x} = {}
  BY <1>1, <1>3 DEF Calendar
<1>5. Cardinality({y \in R : y > x}) < MaxDays
  BY <1>4, FS_EmptySet, MarketAssumption
<1> QED
  BY <1>5 DEF Window

(* What is stored stays stored.                                            *)
LEMMA StoredStays ==
    ASSUME MarketInv, [MarketNext]_marketVars, SomethingStored
    PROVE  SomethingStored'
<1>0. bars \in [Calendar -> [Symbols -> Bar]] /\ options \in [Calendar -> Bar]
  BY DEF MarketInv, MarketIsTyped
<1>1. ASSUME NEW i \in Ingests, NEW s \in Symbols, StoreRow(i, s)
      PROVE  SomethingStored'
  BY <1>0, <1>1 DEF StoreRow, SomethingStored, Bar
<1>2. ASSUME NEW i \in Ingests, StoreOptions(i) PROVE SomethingStored'
  BY <1>0, <1>2 DEF StoreOptions, SomethingStored, Bar
<1>3. CASE UNCHANGED <<bars, options>>
  BY <1>3 DEF SomethingStored
<1>4. ASSUME NEW i \in Ingests, GoOnIngest(i) \/ IngestFails(i),
             \A s \in Symbols : ~StoreRow(i, s), ~StoreOptions(i)
      PROVE  UNCHANGED <<bars, options>>
  BY <1>4 DEF GoOnIngest, IngestFails, FetchRows, Conclude, WriteStatus, RecordFailure, dataVars
<1>5. ASSUME NEW t \in Syncs, Tick(t) \/ CatchUp(t) \/ GoOnSync(t) \/ SyncFails(t)
      PROVE  UNCHANGED <<bars, options>>
  BY <1>5 DEF Tick, CatchUp, GoOnSync, Decide, Count, CountOptions, SyncFails, dataVars
<1>6. CASE IngestButton \/ OptionsButton \/ Crash \/ UNCHANGED marketVars
  BY <1>3, <1>6 DEF IngestButton, OptionsButton, Crash, dataVars, marketVars
<1> QED
  BY <1>1, <1>2, <1>3, <1>4, <1>5, <1>6 DEF MarketNext

(* A step after which one ingest goes on with a sound record.              *)
LEMMA BackedGoesOn ==
    ASSUME MarketInv, Backed, SomethingStored => SomethingStored',
           NEW i \in Ingests, NEW rec \in Ingest,
           SoundJob(rec), rec.saved => SomethingStored',
           ingest' = [ingest EXCEPT ![i] = rec],
           status' = "ok" => status = "ok" \/ SomethingStored'
    PROVE  Backed'
<1>1. OkIsBacked'
  BY DEF Backed, OkIsBacked, SomethingStored
<1>2. ingest'[i] = rec /\ \A j \in Ingests : j # i => ingest'[j] = ingest[j]
  BY DEF MarketInv, MarketIsTyped
<1>3. \A j \in Ingests : SoundJob(ingest'[j])
  BY <1>2 DEF Backed
<1>4. \A j \in Ingests : ingest'[j].saved => SomethingStored'
  BY <1>2 DEF Backed
<1> QED
  BY <1>1, <1>3, <1>4 DEF Backed, SoundJob

LEMMA BackedStays ==
    ASSUME Backed, SomethingStored => SomethingStored', UNCHANGED <<ingest, status>>
    PROVE  Backed'
<1>1. OkIsBacked'
  BY DEF Backed, OkIsBacked, SomethingStored
<1> QED
  BY <1>1 DEF Backed, SoundJob

(* A job that has saved nothing and has its days begins.                   *)
LEMMA BackedBegins ==
    ASSUME MarketInv, Backed, SomethingStored => SomethingStored', UNCHANGED status,
           NEW rec \in Ingest, NEW cost, BeginIngest(rec, cost),
           SoundJob(rec), ~rec.saved
    PROVE  Backed'
<1>1. PICK i \in Ingests, troubled \in BOOLEAN :
        ingest' = [ingest EXCEPT ![i] = [rec EXCEPT !.troubled = troubled]]
  BY DEF BeginIngest
<1> DEFINE next == [rec EXCEPT !.troubled = troubled]
<1>2. next \in Ingest /\ SoundJob(next) /\ ~next.saved
  BY DEF Ingest, SoundJob
<1>3. ingest' = [ingest EXCEPT ![i] = next]
  BY <1>1
<1> HIDE DEF next
<1> QED
  BY <1>2, <1>3, BackedGoesOn

LEMMA BackedFullBegins ==
    ASSUME MarketInv, Backed, SomethingStored => SomethingStored', UNCHANGED status,
           NEW auto \in BOOLEAN, NEW cost, BeginFull(auto, cost)
    PROVE  Backed'
<1> DEFINE rec == [NoIngest EXCEPT !.at = "fetch", !.auto = auto, !.days = Window(day)]
<1>1. Window(day) # {}
  BY WindowHasADay DEF MarketInv, MarketIsTyped
<1>2. rec \in Ingest /\ SoundJob(rec) /\ ~rec.saved
  BY <1>1, WindowIsDays DEF NoIngest, Ingest, SoundJob
<1>3. BeginIngest(rec, cost)
  BY DEF BeginFull
<1> HIDE DEF rec
<1> QED
  BY <1>2, <1>3, BackedBegins

LEMMA BackedOptionsBegin ==
    ASSUME MarketInv, Backed, SomethingStored => SomethingStored', UNCHANGED status,
           NEW kind \in {"button", "missing"}, NEW d \in Calendar, NEW cost,
           BeginOptions(kind, d, cost)
    PROVE  Backed'
<1> DEFINE rec == [NoIngest EXCEPT !.at = "options", !.kind = kind, !.days = {d}]
<1>1. rec \in Ingest /\ SoundJob(rec) /\ ~rec.saved
  BY DEF NoIngest, Ingest, SoundJob
<1>2. BeginIngest(rec, cost)
  BY DEF BeginOptions
<1> HIDE DEF rec
<1> QED
  BY <1>1, <1>2, BackedBegins

LEMMA NoIngestIsSound == NoIngest \in Ingest /\ SoundJob(NoIngest) /\ ~NoIngest.saved
BY DEF NoIngest, Ingest, SoundJob

LEMMA BackedRestarts ==
    ASSUME MarketInv, Backed, SomethingStored => SomethingStored', UNCHANGED status, RestartProcess
    PROVE  Backed'
<1>1. OkIsBacked'
  BY DEF Backed, OkIsBacked, SomethingStored
<1>2. \A i \in Ingests : ingest'[i] = NoIngest
  BY DEF RestartProcess
<1> QED
  BY <1>1, <1>2, NoIngestIsSound DEF Backed, SoundJob

(* The days of an ingest are left one by one, and the last is kept.        *)
LEMMA BackedNextDay ==
    ASSUME MarketInv, Backed, SomethingStored => SomethingStored', UNCHANGED status,
           NEW i \in Ingests, NEW rec \in Ingest, rec.days # {},
           rec.saved => SomethingStored', NextDay(i, rec)
    PROVE  Backed'
<1> DEFINE next == IF Cardinality(rec.days) = 1
                   THEN [rec EXCEPT !.at = "options", !.rows = {}]
                   ELSE [rec EXCEPT !.at = "fetch", !.rows = {}, !.days = @ \ {Min(@)}]
<1>1. Cardinality(rec.days) # 1 => rec.days \ {Min(rec.days)} # {}
  <2> SUFFICES ASSUME rec.days \ {Min(rec.days)} = {} PROVE Cardinality(rec.days) = 1
    OBVIOUS
  <2>1. rec.days \in SUBSET Calendar
    BY DEF Ingest
  <2>2. Min(rec.days) \in rec.days
    BY <2>1, MinOfDays
  <2>3. rec.days = {Min(rec.days)}
    BY <2>2
  <2> QED
    BY <2>3, FS_Singleton
<1>2. next \in Ingest /\ SoundJob(next) /\ next.saved = rec.saved
  BY <1>1 DEF Ingest, SoundJob
<1>3. ingest' = [ingest EXCEPT ![i] = next]
  BY DEF NextDay
<1> HIDE DEF next
<1> QED
  BY <1>2, <1>3, BackedGoesOn

LEMMA BackedGoto ==
    ASSUME MarketInv, Backed, SomethingStored => SomethingStored', UNCHANGED status,
           NEW i \in Ingests, NEW place \in {"indices", "status", "failed"},
           place = "status" => ingest[i].saved, GotoIngest(i, place)
    PROVE  Backed'
<1> DEFINE next == [ingest[i] EXCEPT !.at = place]
<1>1. next \in Ingest /\ SoundJob(next) /\ next.saved = ingest[i].saved
  BY IngestType DEF Ingest, SoundJob
<1>2. ingest' = [ingest EXCEPT ![i] = next]
  BY DEF GotoIngest
<1>3. next.saved => SomethingStored'
  BY <1>1 DEF Backed
<1> HIDE DEF next
<1> QED
  BY <1>1, <1>2, <1>3, BackedGoesOn

LEMMA BackedFinish ==
    ASSUME MarketInv, Backed, SomethingStored => SomethingStored', NEW i \in Ingests, Finish(i),
           status' = "ok" => status = "ok" \/ ingest[i].saved
    PROVE  Backed'
<1>1. ingest' = [ingest EXCEPT ![i] = NoIngest]
  BY DEF Finish
<1>2. status' = "ok" => status = "ok" \/ SomethingStored'
  BY DEF Backed
<1> QED
  BY <1>1, <1>2, NoIngestIsSound, BackedGoesOn

LEMMA InitBacked == MarketInit => Backed
BY NoIngestIsSound DEF MarketInit, Backed, OkIsBacked

(* A row that is stored is something stored.                               *)
LEMMA StoreRowBacked ==
    ASSUME MarketInv, Backed, SomethingStored => SomethingStored',
           NEW i \in Ingests, NEW s \in Symbols, StoreRow(i, s)
    PROVE  Backed'
<1> DEFINE d == Min(ingest[i].days)
           Advance(rec) == IF rec.rows = {} THEN NextDay(i, rec)
                                            ELSE ingest' = [ingest EXCEPT ![i] = rec]
           more == [ingest[i] EXCEPT !.rows = @ \ {s}, !.saved = TRUE]
           same == [ingest[i] EXCEPT !.rows = @ \ {s}]
<1>0. ingest[i].at = "rows" /\ UNCHANGED status
  BY DEF StoreRow
<1>1. ingest[i] \in Ingest /\ ingest[i].days # {}
  BY <1>0, IngestType DEF Backed, SoundJob
<1>2. d \in Calendar
  BY <1>1, MinOfDays DEF Ingest
<1>3. ASSUME NEW rec \in Ingest, rec.at = "rows", rec.days # {},
             rec.saved => SomethingStored', Advance(rec)
      PROVE  Backed'
  <2>1. CASE rec.rows = {}
    BY <1>0, <1>3, <2>1, BackedNextDay
  <2>2. CASE rec.rows # {}
    <3>1. SoundJob(rec)
      BY <1>3 DEF SoundJob
    <3> QED
      BY <1>0, <1>3, <2>2, <3>1, BackedGoesOn
  <2> QED
    BY <2>1, <2>2
<1>4. /\ more \in Ingest /\ more.at = "rows" /\ more.days # {}
      /\ same \in Ingest /\ same.at = "rows" /\ same.days # {}
      /\ same.saved = ingest[i].saved
  BY <1>0, <1>1 DEF Ingest
<1>5. \/ bars' = [bars EXCEPT ![d][s] = "priced"] /\ Advance(more)
      \/ bars' = [bars EXCEPT ![d][s] = "blank"] /\ Advance(more)
      \/ Advance(same)
  BY DEF StoreRow
<1>6. \/ bars' = [bars EXCEPT ![d][s] = "priced"]
      \/ bars' = [bars EXCEPT ![d][s] = "blank"]
      => SomethingStored'
  <2>1. bars \in [Calendar -> [Symbols -> Bar]]
    BY DEF MarketInv, MarketIsTyped
  <2>2. bars'[d][s] # "none" => SomethingStored'
    BY <1>2 DEF SomethingStored
  <2> HIDE DEF d
  <2> QED
    BY <1>2, <2>1, <2>2
<1> HIDE DEF d, Advance, more, same
<1>7. CASE SomethingStored' /\ Advance(more)
  BY <1>3, <1>4, <1>7
<1>8. CASE Advance(same)
  <2>1. same.saved => SomethingStored'
    BY <1>4 DEF Backed
  <2> QED
    BY <1>3, <1>4, <1>8, <2>1
<1> QED
  BY <1>5, <1>6, <1>7, <1>8

LEMMA StoreOptionsBacked ==
    ASSUME MarketInv, Backed, SomethingStored => SomethingStored',
           NEW i \in Ingests, StoreOptions(i)
    PROVE  Backed'
<1> DEFINE d == Min(ingest[i].days)
<1>0. ingest[i].at = "options" /\ UNCHANGED status
  BY DEF StoreOptions
<1>1. d \in Calendar
  BY <1>0, IngestType, MinOfDays DEF Backed, SoundJob, Ingest
<1>2. ASSUME ingest' = [ingest EXCEPT ![i].at = "indices", ![i].saved = TRUE],
             options' = [options EXCEPT ![d] = "priced"] \/ options' = [options EXCEPT ![d] = "blank"]
      PROVE  Backed'
  <2> DEFINE next == [ingest[i] EXCEPT !.at = "indices", !.saved = TRUE]
  <2>1. next \in Ingest /\ SoundJob(next)
    BY IngestType DEF Ingest, SoundJob
  <2>2. ingest' = [ingest EXCEPT ![i] = next]
    BY <1>2
  <2>3. SomethingStored'
    <3>1. options \in [Calendar -> Bar]
      BY DEF MarketInv, MarketIsTyped
    <3> HIDE DEF d
    <3>2. options'[d] # "none"
      BY <1>1, <1>2, <3>1
    <3> QED
      BY <1>1, <3>2 DEF SomethingStored
  <2> HIDE DEF next
  <2> QED
    BY <1>0, <2>1, <2>2, <2>3, BackedGoesOn
<1>3. CASE Finish(i)
  BY <1>0, <1>3, BackedFinish
<1>4. CASE GotoIngest(i, IF ingest[i].kind = "full" THEN "indices" ELSE "failed")
  BY <1>0, <1>4, BackedGoto
<1> QED
  BY <1>2, <1>3, <1>4 DEF StoreOptions

LEMMA FetchRowsBacked ==
    ASSUME MarketInv, Backed, SomethingStored => SomethingStored',
           NEW i \in Ingests, FetchRows(i)
    PROVE  Backed'
<1>0. ingest[i].at = "fetch" /\ UNCHANGED status
  BY DEF FetchRows, dataVars
<1>1. /\ ingest[i] \in Ingest /\ ingest[i].days # {}
      /\ ingest[i].saved => SomethingStored'
  BY <1>0, IngestType DEF Backed, SoundJob
<1>2. CASE ingest' = [ingest EXCEPT ![i].at = "rows", ![i].rows = Symbols]
  <2> DEFINE next == [ingest[i] EXCEPT !.at = "rows", !.rows = Symbols]
  <2>1. next \in Ingest /\ SoundJob(next) /\ next.saved = ingest[i].saved
    BY <1>1 DEF Ingest, SoundJob
  <2>2. ingest' = [ingest EXCEPT ![i] = next]
    BY <1>2
  <2> HIDE DEF next
  <2> QED
    BY <1>0, <1>1, <2>1, <2>2, BackedGoesOn
<1>3. CASE NextDay(i, ingest[i])
  BY <1>0, <1>1, <1>3, BackedNextDay
<1> QED
  BY <1>2, <1>3 DEF FetchRows

LEMMA EndBacked ==
    ASSUME MarketInv, Backed, SomethingStored => SomethingStored', NEW i \in Ingests,
           Conclude(i) \/ IngestFails(i) \/ WriteStatus(i) \/ RecordFailure(i)
    PROVE  Backed'
<1>1. CASE Conclude(i)
  <2>1. CASE ingest[i].saved
    BY <1>1, <2>1, BackedGoto DEF Conclude, dataVars
  <2>2. CASE ~ingest[i].saved
    BY <1>1, <2>2, BackedGoto DEF Conclude, dataVars
  <2> QED
    BY <2>1, <2>2
<1>2. CASE IngestFails(i)
  BY <1>2, BackedGoto DEF IngestFails, dataVars
<1>3. CASE WriteStatus(i)
  <2>1. ingest[i].saved
    BY <1>3 DEF WriteStatus, Backed, SoundJob
  <2> QED
    BY <1>3, <2>1, BackedFinish DEF WriteStatus
<1>4. CASE RecordFailure(i)
  <2>1. status' = "ok" => status = "ok"
    BY <1>4 DEF RecordFailure
  <2> QED
    BY <1>4, <2>1, BackedFinish DEF RecordFailure
<1> QED
  BY <1>1, <1>2, <1>3, <1>4

LEMMA SyncBacked ==
    ASSUME MarketInv, Backed, SomethingStored => SomethingStored', NEW t \in Syncs,
           Tick(t) \/ CatchUp(t) \/ GoOnSync(t) \/ SyncFails(t)
    PROVE  Backed'
<1>0. UNCHANGED status
  BY DEF Tick, CatchUp, GoOnSync, Decide, Count, CountOptions, SyncFails, dataVars
<1>1. CASE BeginFull(TRUE, 0)
  BY <1>0, <1>1, BackedFullBegins
<1>2. CASE BeginOptions("missing", sync[t].day, 0)
  <2>1. sync[t].day \in Calendar
    BY DEF MarketInv, MarketIsTyped, Sync
  <2> QED
    BY <1>0, <1>2, <2>1, BackedOptionsBegin
<1>3. CASE RestartProcess
  BY <1>0, <1>3, BackedRestarts
<1>4. CASE UNCHANGED ingest
  BY <1>0, <1>4, BackedStays
<1> QED
  BY <1>1, <1>2, <1>3, <1>4
     DEF Tick, CatchUp, GoOnSync, Decide, Count, CountOptions, SyncFails, BeginAutomatic

LEMMA ButtonsBacked ==
    ASSUME MarketInv, Backed, SomethingStored => SomethingStored',
           IngestButton \/ OptionsButton \/ Crash
    PROVE  Backed'
<1>0. UNCHANGED status
  BY DEF IngestButton, OptionsButton, Crash, dataVars
<1>1. CASE IngestButton
  BY <1>0, <1>1, BackedFullBegins DEF IngestButton
<1>2. CASE OptionsButton
  <2>1. day \in Calendar
    BY MarketAssumption DEF MarketInv, MarketIsTyped, Calendar
  <2> QED
    BY <1>0, <1>2, <2>1, BackedOptionsBegin DEF OptionsButton
<1>3. CASE Crash
  BY <1>0, <1>3, BackedRestarts DEF Crash
<1> QED
  BY <1>1, <1>2, <1>3

LEMMA NextBacked == MarketInv /\ Backed /\ [MarketNext]_marketVars => Backed'
<1> SUFFICES ASSUME MarketInv, Backed, [MarketNext]_marketVars PROVE Backed'
  OBVIOUS
<1>0. SomethingStored => SomethingStored'
  BY StoredStays
<1>1. ASSUME NEW t \in Syncs, Tick(t) \/ CatchUp(t) \/ GoOnSync(t) \/ SyncFails(t)
      PROVE  Backed'
  BY <1>0, <1>1, SyncBacked
<1>2. ASSUME NEW i \in Ingests, GoOnIngest(i) \/ IngestFails(i)
      PROVE  Backed'
  BY <1>0, <1>2, FetchRowsBacked, StoreRowBacked, StoreOptionsBacked, EndBacked DEF GoOnIngest
<1>3. CASE IngestButton \/ OptionsButton \/ Crash
  BY <1>0, <1>3, ButtonsBacked
<1>4. CASE UNCHANGED marketVars
  BY <1>0, <1>4, BackedStays DEF marketVars, dataVars
<1> QED
  BY <1>1, <1>2, <1>3, <1>4 DEF MarketNext

(* The health page's "ok" stands on stored prices: an ingest which has     *)
(* saved nothing never reaches writeIngestStatus, and no bar is removed.   *)
THEOREM MarketOkIsBacked == MarketSpec => []OkIsBacked
<1>1. Backed => OkIsBacked
  BY DEF Backed
<1> QED
  BY <1>1, AlwaysInv, InitBacked, NextBacked, PTL DEF MarketSpec
=============================================================================
