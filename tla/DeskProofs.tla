----------------------------- MODULE DeskProofs -----------------------------
(* Proofs about the web client: the pages and the jobs of Desk, for any     *)
(* topics, rows, suggestions, questions and limits, and the session a       *)
(* browser's tabs share.  Each has its own variables and its own part of    *)
(* the next-state relation, so each has its own invariant.                  *)
EXTENDS Desk, Session, FiniteSetTheorems, SequenceTheorems, TLAPS

USE DEF vars, aside, pages, formVars, listVars, pageVars, chatVars

(* A step of Desk is a step of one page or one job and of nothing else.      *)
LEMMA OneAtATime ==
  ASSUME [Next]_vars
  PROVE  /\ NextList \/ UNCHANGED listVars
         /\ NextPortfolioPage \/ UNCHANGED pageVars
         /\ NextForm \/ UNCHANGED formVars
         /\ NextChats \/ UNCHANGED chatVars
         /\ NextShelf \/ UNCHANGED shelf
         /\ NextVideo \/ UNCHANGED video
<1>1. CASE UNCHANGED vars
  BY <1>1
<1>2. CASE ReadCalendar \/ ReadBoard \/ SizeSuggestion \/ SizeHedge \/ ReadAdvice \/ ReadRoutes
  <2>1. UNCHANGED aside
    BY <1>2, Zenon DEF ReadCalendar, ReadBoard, SizeSuggestion, SizeHedge, ReadAdvice, ReadRoutes, Answers
  <2> QED
    BY <2>1
<1>3. CASE \/ NextVideo /\ UNCHANGED << job, answer, shelf, chatVars, pages >>
           \/ NextShelf /\ UNCHANGED << job, answer, video, chatVars, pages >>
           \/ NextChats /\ UNCHANGED << job, answer, video, shelf, pages >>
  BY <1>3
<1>4. CASE NextForm /\ UNCHANGED << job, answer, video, shelf, chatVars, listVars, pageVars >>
  BY <1>4
<1>5. CASE NextList /\ UNCHANGED << job, answer, video, shelf, chatVars, formVars, pageVars >>
  BY <1>5
<1>6. CASE NextPortfolioPage /\ UNCHANGED << job, answer, video, shelf, chatVars, formVars, listVars >>
  BY <1>6
<1> QED
  BY <1>1, <1>2, <1>3, <1>4, <1>5, <1>6 DEF Next

-----------------------------------------------------------------------------
(* The lists of the web client *)

Wanted == [about : Topics \cup {"closed"}, page : 1..2]
AskedOf == [n : Nat, for : Wanted, kind : {"load", "more", "work"}, work : {"none", "analyze", "upload"},
            ok : BOOLEAN, done : BOOLEAN]

ListTypeOK ==
  /\ list \in Lists \cup {NothingListed} /\ wants \in Wanted
  /\ newest \in Nat /\ asked \in SUBSET AskedOf
  /\ timer \in BOOLEAN /\ broken \in BOOLEAN /\ crossed \in BOOLEAN

\* The answer to c, when it is taken, is one to what the fields ask for; a list with
\* pages then shows the page of the answer.
Fits(c) == c.for.about = wants.about /\ (list.pages # "page" => c.for = wants)

(* Why the last question is shown: every answer that will be taken fits, and *)
(* one that replaces the rows is on its way when those shown do not.         *)
Expected ==
  ~timer /\ (list.shuts => wants # Closed) /\ (list.guarded \/ ~crossed) =>
    /\ \A c \in asked : Accepts(c) => Fits(c)
    /\ \/ broken \/ shows = {} \/ shows = {wants}
       \/ \E c \in asked : Accepts(c) /\ c.kind = "load"

ListInv ==
  /\ ListTypeOK
  /\ \A c \in asked : c.n <= newest
  /\ list.guarded => \A c \in asked : c.kind = "load"
  /\ list.pages # "page" => wants.page = 1
  /\ Expected

LEMMA ListKinds ==
  ASSUME NEW l \in Lists \cup {NothingListed}
  PROVE  /\ l.guarded \in BOOLEAN /\ l.typed \in BOOLEAN /\ l.shuts \in BOOLEAN
         /\ l.pages \in {"page", "more", "none"} /\ l.work \in SUBSET {"analyze", "upload"}
         /\ l.guarded => l.work = {} /\ l.pages # "more"
         /\ l.shuts => ~l.typed /\ l.pages = "none"
         /\ l.pages = "page" => l.guarded
<1>1. CASE l = MarketList
  BY <1>1 DEF MarketList
<1>2. CASE l = FundTimeline
  BY <1>2 DEF FundTimeline
<1>3. CASE l = CallHistory
  BY <1>3 DEF CallHistory
<1>4. CASE l = CallTexts
  BY <1>4 DEF CallTexts
<1>5. CASE l = NothingListed
  BY <1>5 DEF NothingListed
<1> QED
  BY <1>1, <1>2, <1>3, <1>4, <1>5 DEF Lists
LEMMA ListOpens ==
  ASSUME NEW l \in Lists \cup {NothingListed}, OpenedList(l)
  PROVE  ListInv
<1>1. /\ list = l /\ timer = l.typed /\ shows = {} /\ broken = FALSE /\ crossed = FALSE
      /\ wants \in IF l.shuts \/ l = NothingListed THEN {Closed} ELSE { About(t) : t \in Topics }
      /\ asked = IF l.typed \/ l.shuts \/ l = NothingListed THEN {} ELSE {Asking(1, wants, "load", "none")}
      /\ newest = Cardinality(asked)
  BY DEF OpenedList
<1>2. wants \in Wanted /\ wants.page = 1
  BY <1>1 DEF Wanted, Closed, About
<1>3. Asking(1, wants, "load", "none") \in AskedOf
  BY <1>2 DEF Asking, AskedOf
<1>4. CASE asked = {}
  <2>1. newest = 0
    BY <1>1, <1>4, FS_EmptySet
  <2>2. ListTypeOK
    <3>1. asked \in SUBSET AskedOf /\ newest \in Nat
      BY <1>4, <2>1
    <3>2. timer \in BOOLEAN
      BY <1>1, ListKinds, Zenon
    <3> QED
      BY <1>1, <1>2, <3>1, <3>2 DEF ListTypeOK
  <2> QED
    BY <1>1, <1>2, <1>4, <2>2 DEF ListInv, Expected
<1>5. CASE asked = {Asking(1, wants, "load", "none")}
  <2>1. newest = 1
    BY <1>1, <1>5, FS_Singleton
  <2>2. \A c \in asked : c.n = 1 /\ c.kind = "load" /\ c.for = wants
    BY <1>5 DEF Asking
  <2>3. Expected
    BY <1>1, <2>2 DEF Expected, Fits
  <2>4. ListTypeOK
    <3>1. asked \in SUBSET AskedOf /\ newest \in Nat
      BY <1>3, <1>5, <2>1
    <3>2. timer \in BOOLEAN
      BY <1>1, ListKinds, Zenon
    <3> QED
      BY <1>1, <1>2, <3>1, <3>2 DEF ListTypeOK
  <2> QED
    BY <1>2, <2>1, <2>2, <2>3, <2>4 DEF ListInv
<1> QED
  BY <1>1, <1>4, <1>5

(* A new request for what the fields now say keeps the list sound.           *)
LEMMA RequestsFit ==
  ASSUME ListInv, NEW question \in Wanted, NEW kind \in {"load", "more", "work"},
         NEW work \in {"none", "analyze", "upload"},
         Request(question, kind, work), list' = list, wants' \in Wanted, timer' \in BOOLEAN, broken' \in BOOLEAN,
         list.guarded => kind = "load",
         wants'.about = question.about, list.pages # "page" => wants' = question /\ question.page = 1,
         \/ kind = "load"
         \/ ~list.guarded /\ UNCHANGED << wants, timer, shows, broken >>
  PROVE  ListInv'
<1>1. /\ newest' = newest + 1
      /\ asked' = asked \cup {Asking(newest + 1, question, kind, work)}
      /\ crossed' = (crossed \/ \E c \in asked : c.for # question)
  BY DEF Request
<1> DEFINE new == Asking(newest + 1, question, kind, work)
<1>2. new \in AskedOf /\ new.n = newest + 1 /\ new.kind = kind /\ new.for = question
  BY DEF Asking, AskedOf, ListInv, ListTypeOK
<1>3. ListTypeOK'
  <2>1. crossed' \in BOOLEAN
    BY <1>1, Zenon DEF ListInv, ListTypeOK
  <2>2. asked' \in SUBSET AskedOf /\ newest' \in Nat
    <3>1. asked \in SUBSET AskedOf /\ newest \in Nat
      BY DEF ListInv, ListTypeOK
    <3>2. asked' = asked \cup {new} /\ newest' = newest + 1
      BY <1>1
    <3> HIDE DEF new
    <3> QED
      BY <1>2, <3>1, <3>2
  <2>3. list' \in Lists \cup {NothingListed}
    BY DEF ListInv, ListTypeOK
  <2> QED
    BY <2>1, <2>2, <2>3 DEF ListTypeOK
<1>4. \A c \in asked' : c.n <= newest'
  BY <1>1, <1>2 DEF ListInv, ListTypeOK, AskedOf
<1>5. list'.guarded => \A c \in asked' : c.kind = "load"
  BY <1>1, <1>2 DEF ListInv
<1>6. Expected'
  <2> SUFFICES ASSUME ~timer', list.shuts => wants' # Closed, list.guarded \/ ~crossed'
               PROVE  /\ \A c \in asked' : (list.guarded => c.n = newest') => Fits(c)'
                      /\ \/ broken' \/ shows' = {} \/ shows' = {wants'}
                         \/ \E c \in asked' : (list.guarded => c.n = newest') /\ c.kind = "load"
    BY DEF Expected, Accepts
  <2>1. ASSUME NEW c \in asked', list.guarded => c.n = newest'
        PROVE  Fits(c)'
    <3>1. CASE c \in asked
      <4>1. c.n # newest'
        BY <1>1, <3>1 DEF ListInv, ListTypeOK, AskedOf
      <4>2. ~list.guarded /\ ~crossed'
        BY <2>1, <4>1
      <4>3. c.for = question
        BY <1>1, <3>1, <4>2
      <4> QED
        BY <4>3 DEF Fits
    <3>2. CASE c = new
      BY <1>2, <3>2 DEF Fits
    <3> QED
      BY <1>1, <3>1, <3>2
  <2>2. \/ broken' \/ shows' = {} \/ shows' = {wants'}
        \/ \E c \in asked' : (list.guarded => c.n = newest') /\ c.kind = "load"
    <3>1. CASE kind = "load"
      BY <1>1, <1>2, <3>1
    <3>2. CASE ~list.guarded /\ UNCHANGED << wants, timer, shows, broken >>
      <4>1. ~crossed
        BY <1>1, <3>2
      <4> QED
        BY <1>1, <3>2, <4>1 DEF ListInv, Expected, Accepts
    <3> QED
      BY <3>1, <3>2
  <2> QED
    BY <2>1, <2>2
<1>7. list'.pages # "page" => wants'.page = 1
  OBVIOUS
<1> QED
  BY <1>3, <1>4, <1>5, <1>6, <1>7 DEF ListInv

LEMMA WantsMoves ==
  ASSUME NEW w \in Wanted, NEW t \in Topics, NEW p \in 1..2
  PROVE  /\ About(t) \in Wanted /\ About(t).about = t
         /\ [w EXCEPT !.about = t] \in Wanted /\ [w EXCEPT !.page = p] \in Wanted
         /\ [w EXCEPT !.page = p].about = w.about /\ [w EXCEPT !.page = p].page = p
BY DEF Wanted, About
LEMMA ListSteps ==
  ASSUME ListInv, NextList
  PROVE  ListInv'
<1>1. /\ list \in Lists \cup {NothingListed} /\ wants \in Wanted
      /\ newest \in Nat /\ asked \in SUBSET AskedOf
      /\ timer \in BOOLEAN /\ broken \in BOOLEAN /\ crossed \in BOOLEAN
      /\ \A c \in asked : c.n <= newest
      /\ list.guarded => \A c \in asked : c.kind = "load"
  BY DEF ListInv, ListTypeOK
<1>2. /\ list.guarded \in BOOLEAN /\ list.typed \in BOOLEAN /\ list.shuts \in BOOLEAN
      /\ list.pages \in {"page", "more", "none"} /\ list.work \in SUBSET {"analyze", "upload"}
      /\ list.guarded => list.work = {} /\ list.pages # "more"
      /\ list.shuts => ~list.typed /\ list.pages = "none"
      /\ list.pages = "page" => list.guarded
  BY <1>1, ListKinds
<1>3. wants.about \in Topics \cup {"closed"} /\ wants.page \in 1..2
  BY <1>1 DEF Wanted
<1>4. ASSUME TypeText
      PROVE  ListInv'
  <2>1. /\ UNCHANGED << list, asked, newest, shows, broken, loading, crossed >>
        /\ timer' = TRUE
        /\ \E t \in Topics \ {wants.about} : wants' = [wants EXCEPT !.about = t]
    BY <1>4 DEF TypeText
  <2>2. wants' \in Wanted
    BY <1>1, <2>1, 1 \in 1..2, WantsMoves
  <2>3. ListTypeOK'
    BY <1>1, <2>1, <2>2 DEF ListTypeOK
  <2> QED
    BY <1>1, <2>1, <2>3 DEF ListInv, Expected
<1>5. ASSUME PauseEnds
      PROVE  ListInv'
  <2>1. /\ timer' = FALSE /\ UNCHANGED << list, wants, shows, broken >>
        /\ Request(About(wants.about), "load", "none")
    BY <1>5 DEF PauseEnds
  <2>2. About(wants.about) \in Wanted /\ About(wants.about).about = wants.about
    BY <1>3 DEF About, Wanted
  <2>3. list.pages # "page" => wants = About(wants.about) /\ About(wants.about).page = 1
    BY <1>1, <1>4 DEF ListInv, Wanted, About
  <2> QED
    BY <1>1, <2>1, <2>2, <2>3, RequestsFit
<1>6. ASSUME Choose
      PROVE  ListInv'
  <2>1. PICK t \in Topics \ {wants.about} : wants' = About(t) /\ Request(About(t), "load", "none")
    BY <1>6 DEF Choose
  <2>2. /\ UNCHANGED << list, timer >> /\ broken' = IF list.shuts THEN FALSE ELSE broken
    BY <1>6 DEF Choose
  <2>3. About(t) \in Wanted /\ About(t).page = 1
    BY DEF About, Wanted
  <2> QED
    BY <1>1, <2>1, <2>2, <2>3, RequestsFit
<1>7. ASSUME Shut
      PROVE  ListInv'
  <2>1. /\ list.shuts /\ wants' = Closed /\ shows' = {}
        /\ UNCHANGED << list, timer, asked, newest, broken, loading, crossed >>
    BY <1>7 DEF Shut
  <2>2. wants' \in Wanted /\ wants'.page = 1
    BY <2>1 DEF Wanted, Closed
  <2>3. ListTypeOK'
    BY <1>1, <2>1, <2>2 DEF ListTypeOK
  <2> QED
    BY <1>1, <2>1, <2>2, <2>3 DEF ListInv, Expected
<1>8. ASSUME NextPage
      PROVE  ListInv'
  <2>1. PICK p \in 1..2 \ {wants.page} :
          wants' = [wants EXCEPT !.page = p] /\ Request([wants EXCEPT !.page = p], "load", "none")
    BY <1>8 DEF NextPage
  <2>2. list.pages = "page" /\ UNCHANGED << list, timer, shows, broken >>
    BY <1>8 DEF NextPage
  <2>3. wants' \in Wanted /\ Request(wants', "load", "none")
    BY <1>1, <2>1 DEF Wanted
  <2> DEFINE w == [wants EXCEPT !.page = p]
  <2>4. w \in Wanted /\ wants' = w /\ Request(w, "load", "none") /\ wants'.about = w.about
    BY <2>1, <2>3
  <2> HIDE DEF w
  <2> QED
    BY <1>1, <2>2, <2>4, RequestsFit
<1>9. ASSUME More
      PROVE  ListInv'
  <2>1. list.pages = "more" /\ Request(wants, "more", "none") /\ UNCHANGED << list, wants, timer, shows, broken >>
    BY <1>9 DEF More
  <2>2. ~list.guarded
    BY <1>2, <2>1
  <2>3. list.pages # "page" => wants.page = 1
    BY DEF ListInv
  <2> QED
    BY <1>1, <2>1, <2>2, <2>3, RequestsFit
<1>10. ASSUME Work
       PROVE  ListInv'
  <2>1. PICK w \in list.work : Request(wants, "work", w)
    BY <1>10 DEF Work
  <2>2. UNCHANGED << list, wants, timer, shows, broken >>
    BY <1>10 DEF Work
  <2>3. ~list.guarded /\ w \in {"none", "analyze", "upload"}
    BY <1>2, <2>1
  <2>4. list.pages # "page" => wants.page = 1
    BY DEF ListInv
  <2> QED
    BY <1>1, <2>1, <2>2, <2>3, <2>4, RequestsFit
<1>11. ASSUME ServerAnswers
       PROVE  ListInv'
  <2>1. PICK c \in asked : \E ok \in BOOLEAN : asked' = (asked \ {c}) \cup {[c EXCEPT !.done = TRUE, !.ok = ok]}
    BY <1>11 DEF ServerAnswers
  <2>2. PICK ok \in BOOLEAN : asked' = (asked \ {c}) \cup {[c EXCEPT !.done = TRUE, !.ok = ok]}
    BY <2>1
  <2>3. UNCHANGED << list, wants, timer, newest, shows, broken, loading, crossed >>
    BY <1>11 DEF ServerAnswers
  <2>4. PICK d \in AskedOf : d.n = c.n /\ d.for = c.for /\ d.kind = c.kind /\ asked' = (asked \ {c}) \cup {d}
    BY <1>1, <2>2 DEF AskedOf
  <2>5. ListTypeOK'
    BY <1>1, <2>3, <2>4 DEF ListTypeOK
  <2>6. Expected'
    BY <2>3, <2>4 DEF ListInv, Expected, Accepts, Fits
  <2> QED
    BY <1>1, <2>3, <2>4, <2>5, <2>6 DEF ListInv
<1>12. ASSUME Take
       PROVE  ListInv'
  <2>1. PICK c \in asked :
          /\ c.ok /\ c.kind # "work" /\ asked' = asked \ {c}
          /\ IF Accepts(c)
             THEN /\ shows' = IF c.kind = "more" THEN shows \cup {c.for} ELSE {c.for}
                  /\ wants' = IF list.pages = "page" THEN [wants EXCEPT !.page = c.for.page] ELSE wants
                  /\ broken' = (broken /\ c.kind = "more")
             ELSE UNCHANGED << shows, wants, broken >>
    BY <1>12 DEF Take
  <2>2. UNCHANGED << list, timer, newest, crossed >>
    BY <1>12 DEF Take
  <2>3. c \in AskedOf /\ c.for \in Wanted /\ c.for.page \in 1..2 /\ c.kind \in {"load", "more"}
    BY <1>1, <2>1 DEF AskedOf, Wanted
  <2>4. wants' \in Wanted /\ wants'.about = wants.about /\ (list.pages # "page" => wants' = wants)
    BY <1>1, <2>1, <2>3 DEF Wanted
  <2>5. broken' \in BOOLEAN
    <3>1. CASE Accepts(c)
      <4>1. broken' = (broken /\ c.kind = "more")
        BY <2>1, <3>1
      <4> QED
        BY <1>1, <4>1, Zenon
    <3>2. CASE ~Accepts(c)
      BY <1>1, <2>1, <3>2
    <3> QED
      BY <3>1, <3>2
  <2>6. ListTypeOK'
    BY <1>1, <2>1, <2>2, <2>4, <2>5 DEF ListTypeOK
  <2>7. Expected'
    <3> SUFFICES ASSUME ~timer, list.shuts => wants # Closed, list.guarded \/ ~crossed
                 PROVE  /\ \A d \in asked' : Accepts(d) => Fits(d)'
                        /\ \/ broken' \/ shows' = {} \/ shows' = {wants'}
                           \/ \E d \in asked' : Accepts(d) /\ d.kind = "load"
      BY <1>2, <2>2, <2>4 DEF Expected, Accepts
    <3>1. /\ \A d \in asked : Accepts(d) => Fits(d)
          /\ \/ broken \/ shows = {} \/ shows = {wants}
             \/ \E d \in asked : Accepts(d) /\ d.kind = "load"
      BY DEF ListInv, Expected
    <3>2. \A d \in asked' : Accepts(d) => Fits(d)'
      BY <2>1, <2>2, <2>4, <3>1 DEF Fits
    <3>3. CASE ~Accepts(c)
      <4>1. UNCHANGED << shows, wants, broken >>
        BY <2>1, <3>3
      <4>2. \A d \in asked : Accepts(d) => d \in asked'
        BY <2>1, <3>3
      <4>3. CASE \E d \in asked : Accepts(d) /\ d.kind = "load"
        BY <3>2, <4>2, <4>3
      <4>4. CASE broken \/ shows = {} \/ shows = {wants}
        BY <3>2, <4>1, <4>4
      <4> QED
        BY <3>1, <4>3, <4>4
    <3>4. CASE Accepts(c)
      <4>1. c.for = wants'
        <5>1. CASE list.pages = "page"
          BY <1>1, <2>1, <2>3, <3>1, <3>4, <5>1 DEF Fits, Wanted
        <5>2. CASE list.pages # "page"
          BY <2>4, <3>1, <3>4, <5>2 DEF Fits
        <5> QED
          BY <5>1, <5>2
      <4>2. CASE c.kind = "load"
        <5>1. shows' = {wants'}
          BY <2>1, <3>4, <4>1, <4>2
        <5> QED
          BY <3>2, <5>1
      <4>3. CASE c.kind = "more"
        <5>1. shows' = shows \cup {wants'} /\ broken' = broken /\ list.pages # "page"
          <6>1. ~list.guarded
            BY <1>1, <4>3
          <6>2. broken' = (broken /\ c.kind = "more")
            BY <2>1, <3>4
          <6>3. broken' = broken
            BY <1>1, <4>3, <6>2, Zenon
          <6> QED
            BY <1>2, <2>1, <3>4, <4>1, <4>3, <6>1, <6>3
        <5>2. \A d \in asked : d.kind = "load" => d \in asked'
          BY <2>1, <4>3
        <5>3. CASE \E d \in asked : Accepts(d) /\ d.kind = "load"
          BY <3>2, <5>2, <5>3
        <5>4. CASE broken
          BY <3>2, <5>1, <5>4
        <5>5. CASE shows = {} \/ shows = {wants}
          <6>1. shows' = {wants'}
            BY <2>4, <5>1, <5>5
          <6> QED
            BY <3>2, <6>1
        <5> QED
          BY <3>1, <5>3, <5>4, <5>5
      <4> QED
        BY <2>3, <4>2, <4>3
    <3> QED
      BY <3>2, <3>3, <3>4
  <2>8. list.pages # "page" => wants'.page = 1
    BY <2>4 DEF ListInv
  <2> QED
    BY <1>1, <2>1, <2>2, <2>6, <2>7, <2>8 DEF ListInv
<1>13. ASSUME RequestFails
       PROVE  ListInv'
  <2>1. PICK c \in asked : asked' = asked \ {c} /\ broken' = (broken \/ (Accepts(c) /\ c.kind = "load"))
    BY <1>13 DEF RequestFails
  <2>2. UNCHANGED << list, wants, timer, newest, shows, crossed >>
    BY <1>13 DEF RequestFails
  <2>3. broken' \in BOOLEAN
    BY <2>1, Zenon
  <2>4. ListTypeOK'
    BY <1>1, <2>1, <2>2, <2>3 DEF ListTypeOK
  <2>5. Expected'
    BY <2>1, <2>2 DEF ListInv, Expected, Accepts, Fits
  <2> QED
    BY <1>1, <2>1, <2>2, <2>4, <2>5 DEF ListInv
<1>14. ASSUME WorkEnds
       PROVE  ListInv'
  <2>1. PICK c \in asked :
          /\ c.kind = "work"
          /\ asked' = (asked \ {c}) \cup {[c EXCEPT !.n = newest + 1, !.kind = "load", !.done = FALSE]}
          /\ crossed' = (crossed \/ \E o \in asked \ {c} : o.for # c.for)
          /\ newest' = newest + 1
    BY <1>14 DEF WorkEnds
  <2>2. UNCHANGED << list, wants, timer, shows, broken, loading >>
    BY <1>14 DEF WorkEnds
  <2>3. ~list.guarded
    BY <1>1, <2>1
  <2>4. PICK d \in AskedOf : /\ d.n = newest + 1 /\ d.for = c.for /\ d.kind = "load"
                             /\ asked' = (asked \ {c}) \cup {d}
    <3>1. c \in AskedOf /\ newest + 1 \in Nat
      BY <1>1
    <3> DEFINE e == [c EXCEPT !.n = newest + 1, !.kind = "load", !.done = FALSE]
    <3>2. e \in AskedOf /\ e.n = newest + 1 /\ e.for = c.for /\ e.kind = "load"
      BY <3>1 DEF AskedOf
    <3>3. asked' = (asked \ {c}) \cup {e}
      BY <2>1
    <3> HIDE DEF e
    <3> QED
      BY <3>2, <3>3
  <2>5. crossed' \in BOOLEAN
    BY <2>1, Zenon
  <2>6. ListTypeOK'
    BY <1>1, <2>1, <2>2, <2>4, <2>5 DEF ListTypeOK
  <2>7. \A o \in asked' : o.n <= newest'
    BY <1>1, <2>1, <2>4 DEF AskedOf
  <2>8. Expected'
    <3> SUFFICES ASSUME ~timer, list.shuts => wants # Closed, ~crossed'
                 PROVE  /\ \A o \in asked' : Fits(o)
                        /\ \E o \in asked' : o.kind = "load"
      BY <2>2, <2>3 DEF Expected, Accepts, Fits
    <3>1. ~crossed
      BY <2>1
    <3>2. \A o \in asked : Fits(o)
      BY <2>3, <3>1 DEF ListInv, Expected, Accepts
    <3> QED
      BY <2>4, <3>2 DEF Fits
  <2> QED
    BY <1>1, <2>2, <2>3, <2>6, <2>7, <2>8 DEF ListInv
<1> QED
  BY <1>4, <1>5, <1>6, <1>7, <1>8, <1>9, <1>10, <1>11, <1>12, <1>13, <1>14 DEF NextList

(* LastQuestionIsShown for every set of topics and number of requests: a     *)
(* list shows what its fields ask for once nothing is waited for             *)
(* (market/page.tsx, ai-history/page.tsx, funds/page.tsx).                    *)
THEOREM DeskLastQuestionIsShown == Spec => []LastQuestionIsShown
<1>1. Init => ListInv
  <2> SUFFICES ASSUME Init
               PROVE  ListInv
    OBVIOUS
  <2>1. \E l \in Lists \cup {NothingListed} : OpenedList(l)
    BY DEF Init, NoPages, Page
  <2> QED
    BY <2>1, ListOpens
<1>2. ListInv /\ [Next]_vars => ListInv'
  <2> SUFFICES ASSUME ListInv, [Next]_vars
               PROVE  ListInv'
    OBVIOUS
  <2>1. CASE NextList
    BY <2>1, ListSteps
  <2>2. CASE UNCHANGED listVars
    BY <2>2 DEF ListInv, ListTypeOK, Expected, Accepts, Fits
  <2> QED
    BY <2>1, <2>2, OneAtATime
<1>3. ListInv => LastQuestionIsShown
  <2> SUFFICES ASSUME ListInv, asked = {}, ~timer, ~broken, list.guarded \/ ~crossed, wants # Closed
               PROVE  shows = {} \/ shows = {wants}
    BY DEF LastQuestionIsShown
  <2> QED
    BY DEF ListInv, Expected
<1> QED
  BY <1>1, <1>2, <1>3, PTL DEF Spec
-----------------------------------------------------------------------------
(* The page of a portfolio *)

TripKinds == Changes \cup {"first", "analyze", "delete"}
Seen == [changes : Int, by : Int]
TripOf == [n : Nat, kind : TripKinds, index : Indices \cup {0}, analysis : Nat,
           step : {"sent", "back", "load", "loaded"}, seen : Seen]
AppliedOf == [trip : Nat, analysis : Nat \ {0}, by : {"one", "all"}, index : Indices]

WasApplied(i) == \E a \in applied : a.analysis = analysis /\ a.index = i

(* The request that is out: it is the last one, what it will bring is the    *)
(* portfolio as it is, and a suggestion it applies is of the analysis shown. *)
TripIsSound(t) ==
  /\ t \in TripOf /\ t.n = trip /\ seen.by < t.n
  /\ t.kind = "first" => seen = NotLoaded /\ t.step \in {"load", "loaded"}
  /\ t.kind # "first" => seen # NotLoaded /\ busy # Idle
  /\ t.step = "loaded" => t.seen = [changes |-> changes, by |-> t.n]
  /\ t.kind # "first" => analysis < t.n
  /\ t.kind = "analyze" => analysis = 0
  /\ t.kind \in {"one", "all"} => t.analysis = analysis /\ analysis # 0
  /\ t.kind = "one" => t.index \in Indices /\ (t.step = "sent" => t.index \notin marks)
  /\ t.kind = "one" /\ t.step = "back" => WasApplied(t.index)
  /\ t.kind = "all" /\ t.step = "back" => \A i \in Indices : WasApplied(i)

PageTypeOK ==
  /\ changes \in Nat /\ trip \in Nat /\ analysis \in 0..trip
  /\ seen \in Seen /\ seen.by <= trip /\ marks \in SUBSET Indices /\ applied \in SUBSET AppliedOf

Alone(a) == a.by = "one" /\ a.trip \notin failed
AppliedOnce ==
  \A a, b \in applied : Alone(a) /\ Alone(b) /\ a.analysis = b.analysis /\ a.index = b.index => a = b

(* A suggestion applied on its own, and not answered with an error, cannot   *)
(* be sent again: it is marked, or about to be, or of an earlier analysis.    *)
Marked(a) ==
  \/ a.index \in marks \/ a.analysis # analysis
  \/ \E t \in trips : t.n = a.trip /\ t.kind = "one" /\ t.index = a.index /\ t.step = "back"

PageBody ==
  /\ PageTypeOK
  /\ \A t, u \in trips : t = u
  /\ \A t \in trips : TripIsSound(t)
  /\ trips = {} => seen # NotLoaded
  /\ seen # NotLoaded /\ (\A f \in failed : f < seen.by) /\ (\A t \in trips : t.kind \in Changes => t.step = "sent")
       => seen.changes = changes
  /\ analysis = 0 => marks = {}
  /\ analysis # 0 => \A i \in marks : WasApplied(i)
  /\ \A a \in applied : a.analysis < a.trip /\ a.trip <= trip
  /\ \A a \in applied : Alone(a) => Marked(a)
  /\ AppliedOnce

PageInv == page = "open" /\ ~mixed => PageBody

LEMMA PageOpens ==
  ASSUME NEW where \in {"open", "none"}, InitPage(where)
  PROVE  PageInv
<1>1. /\ page = where /\ changes = 0 /\ seen = NotLoaded /\ analysis = 0 /\ marks = {} /\ applied = {} /\ trip = 0
      /\ where = "open" => trips = {[n |-> 0, kind |-> "first", index |-> 0, analysis |-> 0, step |-> "load", seen |-> NotLoaded]}
  BY DEF InitPage
<1>2. SUFFICES ASSUME where = "open"
               PROVE  PageBody
  BY <1>1 DEF PageInv
<1>3. PICK t \in TripOf : /\ t.n = 0 /\ t.kind = "first" /\ t.index = 0 /\ t.analysis = 0 /\ t.step = "load"
                         /\ trips = {t}
  <2> DEFINE f == [n |-> 0, kind |-> "first", index |-> 0, analysis |-> 0, step |-> "load", seen |-> NotLoaded]
  <2>1. f \in TripOf /\ f.n = 0 /\ f.kind = "first" /\ f.index = 0 /\ f.analysis = 0 /\ f.step = "load"
    BY DEF TripOf, TripKinds, Seen, NotLoaded
  <2>2. trips = {f}
    BY <1>1, <1>2
  <2> HIDE DEF f
  <2> QED
    BY <2>1, <2>2
<1>4. seen \in Seen /\ seen.by = -1
  BY <1>1 DEF Seen, NotLoaded
<1>5. TripIsSound(t)
  BY <1>1, <1>3, <1>4 DEF TripIsSound
<1>6. PageTypeOK
  BY <1>1, <1>4 DEF PageTypeOK
<1> QED
  BY <1>1, <1>3, <1>5, <1>6 DEF PageBody, AppliedOnce

(* A request sent while nothing else is on its way.                          *)
LEMMA TripsStartSound ==
  ASSUME PageBody, trips = {}, NEW kind \in TripKinds \ {"first"}, NEW index \in Indices \cup {0},
         kind # Idle, Go(kind, index),
         \/ analysis' = analysis /\ marks' = marks
         \/ kind = "analyze" /\ analysis' = 0 /\ marks' = {},
         kind = "analyze" => analysis' = 0,
         kind \in {"one", "all"} => analysis # 0,
         kind = "one" => index \in Indices \ marks
  PROVE  PageBody'
<1>1. /\ trip' = trip + 1 /\ trips' = trips \cup {Trip(kind, index)} /\ busy' = kind
      /\ UNCHANGED << page, changes, seen, applied, failed >>
  BY DEF Go
<1>2. /\ changes \in Nat /\ trip \in Nat /\ analysis \in 0..trip
      /\ seen \in Seen /\ seen.by <= trip /\ marks \in SUBSET Indices /\ applied \in SUBSET AppliedOf
      /\ seen # NotLoaded
  BY DEF PageBody, PageTypeOK
<1>3. PICK t \in TripOf : /\ t.n = trip + 1 /\ t.kind = kind /\ t.index = index /\ t.analysis = analysis /\ t.step = "sent"
                         /\ trips' = {t}
  <2> DEFINE new == Trip(kind, index)
  <2>1. NotLoaded \in Seen /\ analysis \in Nat /\ trip + 1 \in Nat
    BY <1>2 DEF NotLoaded, Seen
  <2>2. new \in TripOf /\ new.n = trip + 1 /\ new.kind = kind /\ new.index = index /\ new.analysis = analysis /\ new.step = "sent"
    BY <2>1 DEF TripOf, Trip
  <2>3. trips' = {new}
    BY <1>1
  <2> HIDE DEF new
  <2> QED
    BY <2>2, <2>3
<1>4. analysis' \in 0..trip /\ seen.by \in Int /\ seen' = seen /\ applied' = applied /\ changes' = changes /\ failed' = failed
  BY <1>1, <1>2 DEF Seen
<1>5. PageTypeOK'
  BY <1>1, <1>2, <1>4 DEF PageTypeOK
<1>6. TripIsSound(t)'
  BY <1>1, <1>2, <1>3, <1>4 DEF TripIsSound, Idle
<1>7. seen' # NotLoaded /\ (\A f \in failed' : f < seen'.by) /\ (\A u \in trips' : u.kind \in Changes => u.step = "sent")
        => seen'.changes = changes'
  BY <1>4 DEF PageBody
<1>8. /\ analysis' = 0 => marks' = {}
      /\ analysis' # 0 => \A i \in marks' : WasApplied(i)'
  BY <1>4 DEF PageBody, WasApplied
<1>9. \A a \in applied' : a.analysis < a.trip /\ a.trip <= trip'
  BY <1>1, <1>2 DEF PageBody, AppliedOf
<1>10. ASSUME NEW a \in applied', Alone(a)'
       PROVE  Marked(a)'
  <2>1. a \in applied /\ Alone(a) /\ a.analysis # 0
    BY <1>2, <1>4, <1>10 DEF Alone, AppliedOf
  <2>2. a.index \in marks \/ a.analysis # analysis
    BY <2>1 DEF PageBody, Marked
  <2> QED
    BY <2>1, <2>2 DEF Marked
<1>11. AppliedOnce'
  BY <1>4 DEF PageBody, AppliedOnce, Alone
<1> QED
  BY <1>1, <1>2, <1>3, <1>5, <1>6, <1>7, <1>8, <1>9, <1>10, <1>11 DEF PageBody
(* The request that is out is replaced by itself at a later step, or is over. *)
LEMMA PageActs ==
  ASSUME PageBody, NextPortfolioPage, page = "open", page' = "open", ~mixed, ~mixed'
  PROVE  PageBody'
<1>1. /\ changes \in Nat /\ trip \in Nat /\ analysis \in 0..trip
      /\ seen \in Seen /\ seen.by <= trip /\ marks \in SUBSET Indices /\ applied \in SUBSET AppliedOf
      /\ \A t, u \in trips : t = u
      /\ \A t \in trips : TripIsSound(t) /\ t \in TripOf /\ t.n = trip
      /\ seen.by \in Int
  BY DEF PageBody, PageTypeOK, TripIsSound, Seen
<1>2. ASSUME Ready, busy = Idle
      PROVE  trips = {}
  BY <1>2 DEF PageBody, TripIsSound, Ready
<1>3. \A k \in TripKinds : k # Idle
  BY DEF TripKinds, Changes, Idle
<1>4. ASSUME EditHolding
      PROVE  PageBody'
  <2>1. UNCHANGED << page, changes, seen, busy, trips, trip, analysis, marks, applied, failed, mixed >>
    BY <1>4 DEF EditHolding
  <2> QED
    BY <2>1 DEF PageBody, PageTypeOK, TripIsSound, WasApplied, Marked, Alone, AppliedOnce
<1>5. ASSUME Change
      PROVE  PageBody'
  <2>1. trips = {} /\ UNCHANGED << analysis, marks >>
    BY <1>2, <1>5 DEF Change
  <2>2. Go("change", 0) \/ Go("edit", 0)
    BY <1>5 DEF Change
  <2> QED
    BY <1>3, <2>1, <2>2, TripsStartSound DEF TripKinds, Changes
<1>6. ASSUME MoveCash
      PROVE  PageBody'
  <2>1. Go("cash", 0) /\ UNCHANGED << analysis, marks >>
    BY <1>6 DEF MoveCash
  <2>2. trips = {}
    <3>1. \E t \in trips \cup {Trip("cash", 0)} : t.kind = "cash"
      <4>1. Trip("cash", 0).kind = "cash"
        BY DEF Trip
      <4> HIDE DEF Trip
      <4> QED
        BY <4>1
    <3>2. mixed' = (mixed \/ (trips # {} /\ \E t \in trips \cup {Trip("cash", 0)} : t.kind = "cash"))
      BY <2>1 DEF Go
    <3> QED
      BY <3>1, <3>2
  <2> QED
    BY <1>3, <2>1, <2>2, TripsStartSound DEF TripKinds, Changes
<1>7. ASSUME Analyze
      PROVE  PageBody'
  <2>1. trips = {} /\ Go("analyze", 0) /\ analysis' = 0 /\ marks' = {}
    BY <1>2, <1>7 DEF Analyze
  <2> QED
    BY <1>3, <2>1, TripsStartSound DEF TripKinds, Changes
<1>8. ASSUME Apply
      PROVE  PageBody'
  <2>1. trips = {} /\ analysis # 0 /\ UNCHANGED << analysis, marks >>
    BY <1>2, <1>8 DEF Apply
  <2>2. CASE Go("all", 0)
    BY <1>3, <2>1, <2>2, TripsStartSound DEF TripKinds, Changes
  <2>3. CASE \E i \in Indices \ marks : Go("one", i)
    <3>1. PICK i \in Indices \ marks : Go("one", i)
      BY <2>3
    <3> QED
      BY <1>3, <2>1, <3>1, TripsStartSound DEF TripKinds, Changes
  <2> QED
    BY <1>8, <2>2, <2>3 DEF Apply
<1>9. ASSUME DeletePortfolio
      PROVE  PageBody'
  <2>1. trips = {} /\ Go("delete", 0) /\ UNCHANGED << analysis, marks >>
    BY <1>2, <1>9 DEF DeletePortfolio
  <2> QED
    BY <1>3, <2>1, TripsStartSound DEF TripKinds, Changes
<1>10. ASSUME NEW t \in trips, t.step = "sent",
              trips' = Replaced(t, [t EXCEPT !.step = "back"]),
              changes' = IF t.kind \in Changes THEN changes + 1 ELSE changes,
              applied' = applied \cup { [trip |-> t.n, analysis |-> t.analysis, by |-> t.kind, index |-> i] :
                             i \in IF t.kind = "one" THEN {t.index} ELSE IF t.kind = "all" THEN Indices ELSE {} },
              UNCHANGED << page, seen, busy, trip, edit, analysis, marks, failed, mixed >>
       PROVE  PageBody'
  <2>1. t \in TripOf /\ t.n = trip /\ TripIsSound(t) /\ trips = {t} /\ t.kind # "first"
    BY <1>1, <1>10 DEF TripIsSound
  <2>2. PICK u \in TripOf : /\ u.n = t.n /\ u.kind = t.kind /\ u.index = t.index /\ u.analysis = t.analysis
                          /\ u.step = "back" /\ trips' = {u}
    <3> DEFINE back == [t EXCEPT !.step = "back"]
    <3>1. /\ back \in TripOf /\ back.n = t.n /\ back.kind = t.kind /\ back.index = t.index /\ back.analysis = t.analysis
          /\ back.step = "back"
      BY <2>1 DEF TripOf
    <3>2. trips' = {back}
      BY <1>10, <2>1 DEF Replaced
    <3> HIDE DEF back
    <3> QED
      BY <3>1, <3>2
  <2> DEFINE is == IF t.kind = "one" THEN {t.index} ELSE IF t.kind = "all" THEN Indices ELSE {}
             new == { [trip |-> t.n, analysis |-> t.analysis, by |-> t.kind, index |-> i] : i \in is }
  <2>3. /\ is \in SUBSET Indices /\ (is # {} => t.analysis = analysis /\ analysis # 0 /\ analysis < t.n /\ t.kind \in {"one", "all"})
        /\ (t.kind = "one" => is = {t.index} /\ t.index \notin marks) /\ (t.kind = "all" => is = Indices)
    BY <1>10, <2>1 DEF TripIsSound
  <2>4. \A r \in new : /\ r.trip = t.n /\ r.analysis = t.analysis /\ r.by = t.kind /\ r.index \in is
                       /\ r = [trip |-> t.n, analysis |-> t.analysis, by |-> t.kind, index |-> r.index]
    <3> TAKE r \in new
    <3>1. PICK i \in is : r = [trip |-> t.n, analysis |-> t.analysis, by |-> t.kind, index |-> i]
      OBVIOUS
    <3> QED
      BY <3>1
  <2>5. \A i \in is : \E r \in new : r.index = i /\ r.analysis = t.analysis
    <3> HIDE DEF is
    <3> TAKE i \in is
    <3>1. [trip |-> t.n, analysis |-> t.analysis, by |-> t.kind, index |-> i] \in new
      OBVIOUS
    <3> QED
      BY <3>1
  <2>6. applied' = applied \cup new
    BY <1>10
  <2>7. new \in SUBSET AppliedOf
    <3>1. ASSUME NEW i \in is
          PROVE  [trip |-> t.n, analysis |-> t.analysis, by |-> t.kind, index |-> i] \in AppliedOf
      BY <1>1, <2>1, <2>3 DEF AppliedOf
    <3> QED
      BY <3>1
  <2> HIDE DEF is, new
  <2>8. PageTypeOK'
    BY <1>1, <1>10, <2>6, <2>7 DEF PageTypeOK
  <2>9. TripIsSound(u)'
    <3>1. \A i \in is : WasApplied(i)'
      BY <1>10, <2>3, <2>5, <2>6 DEF WasApplied
    <3>2. u.n = trip' /\ seen'.by < u.n /\ seen' # NotLoaded /\ busy' # Idle /\ u.kind # "first" /\ analysis' < u.n
      BY <1>10, <2>1, <2>2 DEF TripIsSound
    <3> QED
      BY <1>10, <2>1, <2>2, <2>3, <3>1, <3>2 DEF TripIsSound
  <2>10. seen' # NotLoaded /\ (\A f \in failed' : f < seen'.by) /\ (\A x \in trips' : x.kind \in Changes => x.step = "sent")
           => seen'.changes = changes'
    BY <1>10, <2>1, <2>2 DEF PageBody
  <2>11. /\ analysis' = 0 => marks' = {}
         /\ analysis' # 0 => \A i \in marks' : WasApplied(i)'
    BY <1>10, <2>6 DEF PageBody, WasApplied
  <2>12. \A a \in applied' : a.analysis < a.trip /\ a.trip <= trip'
    BY <1>1, <1>10, <2>1, <2>3, <2>4, <2>6 DEF PageBody
  <2>13. ASSUME NEW a \in applied, Alone(a)
         PROVE  a.index \in marks \/ a.analysis # analysis
    BY <1>10, <2>1, <2>13 DEF PageBody, Marked
  <2>14. ASSUME NEW a \in applied', Alone(a)'
         PROVE  Marked(a)'
    <3>1. CASE a \in applied
      <4>1. Alone(a)
        BY <1>10, <2>14 DEF Alone
      <4> QED
        BY <1>10, <2>13, <3>1, <4>1 DEF Marked
    <3>2. CASE a \in new
      <4>1. t.kind = "one" /\ a.trip = t.n /\ a.index = t.index
        BY <2>3, <2>4, <2>14, <3>2 DEF Alone
      <4> QED
        BY <2>2, <4>1 DEF Marked
    <3> QED
      BY <2>6, <3>1, <3>2
  <2>15. AppliedOnce'
    <3> SUFFICES ASSUME NEW a \in applied', NEW b \in applied', Alone(a)', Alone(b)',
                        a.analysis = b.analysis, a.index = b.index
                 PROVE  a = b
      BY DEF AppliedOnce
    <3>1. (Alone(a) <=> Alone(a)') /\ (Alone(b) <=> Alone(b)')
      BY <1>10 DEF Alone
    <3>2. ASSUME NEW x \in applied, NEW y \in new, Alone(x), Alone(y), x.analysis = y.analysis, x.index = y.index
          PROVE  FALSE
      <4>1. y.by = "one" /\ t.kind = "one" /\ y.index = t.index /\ y.analysis = analysis
        BY <2>3, <2>4, <3>2 DEF Alone
      <4> QED
        BY <2>3, <2>13, <3>2, <4>1
    <3>3. CASE a \in applied /\ b \in applied
      BY <3>1, <3>3 DEF PageBody, AppliedOnce
    <3>4. CASE a \in new /\ b \in new
      BY <2>4, <3>4
    <3> QED
      BY <2>6, <3>1, <3>2, <3>3, <3>4
  <2>16. (\A x, y \in trips' : x = y) /\ trips' # {} /\ \A x \in trips' : x = u
    BY <2>2
  <2> QED
    BY <2>8, <2>9, <2>10, <2>11, <2>12, <2>14, <2>15, <2>16 DEF PageBody
<1>11. ASSUME NEW t \in trips, t.step = "load",
              trips' = Replaced(t, [t EXCEPT !.step = "loaded", !.seen = [changes |-> changes, by |-> t.n]]),
              UNCHANGED << changes, applied, page, seen, busy, trip, edit, analysis, marks, failed, mixed >>
       PROVE  PageBody'
  <2>1. t \in TripOf /\ t.n = trip /\ TripIsSound(t) /\ trips = {t}
    BY <1>1, <1>11
  <2>2. PICK u \in TripOf : /\ u.n = t.n /\ u.kind = t.kind /\ u.index = t.index /\ u.analysis = t.analysis
                          /\ u.step = "loaded" /\ u.seen = [changes |-> changes, by |-> t.n] /\ trips' = {u}
    <3> DEFINE load == [t EXCEPT !.step = "loaded", !.seen = [changes |-> changes, by |-> t.n]]
    <3>1. [changes |-> changes, by |-> t.n] \in Seen
      BY <1>1, <2>1 DEF Seen
    <3>2. /\ load \in TripOf /\ load.n = t.n /\ load.kind = t.kind /\ load.index = t.index /\ load.analysis = t.analysis
          /\ load.step = "loaded" /\ load.seen = [changes |-> changes, by |-> t.n]
      BY <2>1, <3>1 DEF TripOf
    <3>3. trips' = {load}
      BY <1>11, <2>1 DEF Replaced
    <3> HIDE DEF load
    <3> QED
      BY <3>2, <3>3
  <2>3. TripIsSound(u)'
    BY <1>11, <2>1, <2>2 DEF TripIsSound
  <2>4. (\A x, y \in trips' : x = y) /\ trips' # {} /\ \A x \in trips' : x = u
    BY <2>2
  <2>5. seen' # NotLoaded /\ (\A f \in failed' : f < seen'.by) /\ (\A x \in trips' : x.kind \in Changes => x.step = "sent")
          => seen'.changes = changes'
    BY <1>11, <2>1, <2>2 DEF PageBody, TripIsSound
  <2>6. ASSUME NEW a \in applied', Alone(a)'
        PROVE  Marked(a)'
    BY <1>11, <2>1, <2>6 DEF PageBody, Alone, Marked
  <2> QED
    BY <1>11, <2>3, <2>4, <2>5, <2>6 DEF PageBody, PageTypeOK, WasApplied, AppliedOnce, Alone
<1>12. ASSUME Done
       PROVE  PageBody'
  <2>1. PICK t \in trips : /\ t.step = "back" /\ t.kind \in Changes /\ LoadAgain(t)
                          /\ marks' = CASE t.kind = "one" -> marks \cup {t.index} [] t.kind = "all" -> Indices [] OTHER -> marks
    BY <1>12 DEF Done
  <2>2. UNCHANGED << page, changes, seen, trip, analysis, applied, failed, mixed, busy >>
    BY <1>12, <2>1 DEF Done, LoadAgain
  <2>3. t \in TripOf /\ t.n = trip /\ TripIsSound(t) /\ trips = {t} /\ t.kind # "first"
    BY <1>1, <2>1 DEF Changes
  <2>4. PICK u \in TripOf : /\ u.n = t.n /\ u.kind = t.kind /\ u.index = t.index /\ u.analysis = t.analysis
                          /\ u.step = "load" /\ trips' = {u}
    <3> DEFINE load == [t EXCEPT !.step = "load"]
    <3>1. /\ load \in TripOf /\ load.n = t.n /\ load.kind = t.kind /\ load.index = t.index /\ load.analysis = t.analysis
          /\ load.step = "load"
      BY <2>3 DEF TripOf
    <3>2. trips' = {load}
      BY <2>1, <2>3 DEF Replaced, LoadAgain
    <3> HIDE DEF load
    <3> QED
      BY <3>1, <3>2
  <2>5. TripIsSound(u)'
    BY <2>1, <2>2, <2>3, <2>4 DEF TripIsSound
  <2>6. (\A x, y \in trips' : x = y) /\ trips' # {} /\ \A x \in trips' : x = u
    BY <2>4
  <2>7. /\ marks \in SUBSET marks' /\ marks' \in SUBSET Indices /\ (t.kind = "one" => t.index \in marks')
        /\ \A i \in marks' : i \in marks \/ WasApplied(i)
        /\ analysis = 0 => marks' = marks
    <3>1. CASE t.kind = "one"
      BY <1>1, <2>1, <2>3, <3>1 DEF TripIsSound
    <3>2. CASE t.kind = "all"
      BY <1>1, <2>1, <2>3, <3>2 DEF TripIsSound
    <3>3. CASE t.kind \notin {"one", "all"}
      BY <1>1, <2>1, <3>3
    <3> QED
      BY <3>1, <3>2, <3>3
  <2>8. PageTypeOK'
    BY <1>1, <2>2, <2>7 DEF PageTypeOK
  <2>9. seen' # NotLoaded /\ (\A f \in failed' : f < seen'.by) /\ (\A x \in trips' : x.kind \in Changes => x.step = "sent")
          => seen'.changes = changes'
    BY <2>1, <2>4
  <2>10. /\ analysis' = 0 => marks' = {}
         /\ analysis' # 0 => \A i \in marks' : WasApplied(i)'
    BY <2>2, <2>7 DEF PageBody, WasApplied
  <2>11. ASSUME NEW a \in applied', Alone(a)'
         PROVE  Marked(a)'
    <3>1. Alone(a) /\ Marked(a)
      BY <2>2, <2>11 DEF Alone, PageBody
    <3> QED
      BY <2>2, <2>3, <2>7, <3>1 DEF Marked
  <2> QED
    BY <2>2, <2>5, <2>6, <2>8, <2>9, <2>10, <2>11 DEF PageBody, AppliedOnce, Alone
<1>13. ASSUME Analyzed
       PROVE  PageBody'
  <2>1. PICK t \in trips : t.step = "back" /\ t.kind = "analyze" /\ analysis' = t.n /\ trips' = trips \ {t}
    BY <1>13 DEF Analyzed
  <2>2. UNCHANGED << page, changes, seen, trip, edit, marks, applied, failed, mixed >>
    BY <1>13 DEF Analyzed
  <2>3. t \in TripOf /\ t.n = trip /\ TripIsSound(t) /\ trips' = {} /\ seen # NotLoaded /\ analysis = 0
    BY <1>1, <2>1 DEF TripIsSound
  <2>4. marks' = {} /\ analysis' = trip
    BY <2>1, <2>2, <2>3 DEF PageBody
  <2>5. PageTypeOK'
    BY <1>1, <2>2, <2>4 DEF PageTypeOK
  <2>6. \A a \in applied : a.analysis # analysis'
    BY <1>1, <2>4 DEF PageBody, AppliedOf
  <2>7. seen' # NotLoaded /\ (\A f \in failed' : f < seen'.by) => seen'.changes = changes'
    BY <1>1, <2>1, <2>2 DEF PageBody, Changes
  <2> QED
    BY <2>2, <2>3, <2>4, <2>5, <2>6, <2>7 DEF PageBody, WasApplied, Marked, AppliedOnce, Alone
<1>14. ASSUME Deleted
       PROVE  PageBody'
  BY <1>14 DEF Deleted
<1>15. ASSUME Loaded
       PROVE  PageBody'
  <2>1. PICK t \in trips : t.step = "loaded" /\ trips' = trips \ {t} /\ seen' = t.seen
    BY <1>15 DEF Loaded
  <2>2. UNCHANGED << page, changes, trip, edit, analysis, marks, applied, failed, mixed >>
    BY <1>15 DEF Loaded
  <2>3. t \in TripOf /\ t.n = trip /\ TripIsSound(t) /\ trips' = {} /\ trips = {t}
    BY <1>1, <2>1
  <2>4. seen' = [changes |-> changes, by |-> trip]
    BY <2>1, <2>3 DEF TripIsSound
  <2>5. seen' # NotLoaded /\ seen'.changes = changes' /\ seen' \in Seen /\ seen'.by <= trip
    BY <1>1, <2>2, <2>4 DEF NotLoaded, Seen
  <2>6. ASSUME NEW a \in applied', Alone(a)'
        PROVE  Marked(a)'
    <3>1. Alone(a) /\ Marked(a)
      BY <2>2, <2>6 DEF Alone, PageBody
    <3> QED
      BY <2>1, <2>2, <2>3, <3>1 DEF Marked
  <2> QED
    BY <1>1, <2>2, <2>3, <2>5, <2>6 DEF PageBody, PageTypeOK, WasApplied, AppliedOnce, Alone
<1>16. ASSUME Failed
       PROVE  PageBody'
  <2>1. PICK t \in trips : /\ trips' = trips \ {t} /\ page' = (IF t.kind = "first" THEN "left" ELSE page)
                          /\ failed' = failed \cup {t.n}
    BY <1>16 DEF Failed
  <2>2. UNCHANGED << changes, seen, trip, edit, analysis, marks, applied, mixed >>
    BY <1>16 DEF Failed
  <2>3. t \in TripOf /\ t.n = trip /\ TripIsSound(t) /\ trips' = {} /\ trips = {t} /\ seen # NotLoaded /\ seen.by < t.n
    BY <1>1, <2>1 DEF TripIsSound
  <2>4. ~ \A f \in failed' : f < seen'.by
    BY <1>1, <2>1, <2>2, <2>3
  <2>5. ASSUME NEW a \in applied', Alone(a)'
        PROVE  Marked(a)'
    <3>1. Alone(a) /\ a.trip # t.n
      BY <2>1, <2>2, <2>5 DEF Alone
    <3>2. Marked(a)
      BY <2>2, <3>1 DEF PageBody
    <3> QED
      BY <2>2, <2>3, <3>1, <3>2 DEF Marked
  <2>6. AppliedOnce'
    <3>1. \A a \in applied : Alone(a)' => Alone(a)
      BY <2>1 DEF Alone
    <3> QED
      BY <2>2, <3>1 DEF PageBody, AppliedOnce
  <2> QED
    BY <1>1, <2>2, <2>3, <2>4, <2>5, <2>6 DEF PageBody, PageTypeOK, WasApplied
<1>17. ASSUME ServerActs
       PROVE  PageBody'
  <2>1. UNCHANGED << page, seen, busy, trip, edit, analysis, marks, failed, mixed >>
    BY <1>17 DEF ServerActs
  <2>2. PICK t \in trips :
          \/ /\ t.step = "sent" /\ trips' = Replaced(t, [t EXCEPT !.step = "back"])
             /\ changes' = IF t.kind \in Changes THEN changes + 1 ELSE changes
             /\ applied' = applied \cup { [trip |-> t.n, analysis |-> t.analysis, by |-> t.kind, index |-> i] :
                                         i \in IF t.kind = "one" THEN {t.index} ELSE IF t.kind = "all" THEN Indices ELSE {} }
          \/ /\ t.step = "load" /\ trips' = Replaced(t, [t EXCEPT !.step = "loaded", !.seen = [changes |-> changes, by |-> t.n]])
             /\ UNCHANGED << changes, applied >>
    BY <1>17 DEF ServerActs
  <2> QED
    BY <1>10, <1>11, <2>1, <2>2
<1> QED
  BY <1>4, <1>5, <1>6, <1>7, <1>8, <1>9, <1>12, <1>13, <1>14, <1>15, <1>16, <1>17 DEF NextPortfolioPage

(* PageIsSound for every set of suggestions and number of requests: unless   *)
(* cash was moved in between, the page shows the portfolio as it is, its     *)
(* marks are true and a suggestion is applied once (portfolios/[id]/page.tsx).*)
THEOREM DeskPageIsSound == Spec => []PageIsSound
<1>1. Init => PageInv
  <2> SUFFICES ASSUME Init
               PROVE  PageInv
    OBVIOUS
  <2>1. \E where \in {"open", "none"} : InitPage(where)
    BY DEF Init, NoPages, Page
  <2> QED
    BY <2>1, PageOpens
<1>2. PageInv /\ [Next]_vars => PageInv'
  <2> SUFFICES ASSUME PageInv, [Next]_vars
               PROVE  PageInv'
    OBVIOUS
  <2>1. CASE NextPortfolioPage
    <3> SUFFICES ASSUME page' = "open", ~mixed'
                 PROVE  PageBody'
      BY DEF PageInv
    <3>1. page = "open"
      BY <2>1 DEF NextPortfolioPage, EditHolding, Change, MoveCash, Analyze, Apply, DeletePortfolio, Go,
                  ServerActs, Done, Analyzed, Deleted, Loaded, Failed
    <3>2. UNCHANGED mixed \/ \E b \in BOOLEAN : mixed' = (mixed \/ b)
      <4>1. ASSUME NEW kind, NEW index, Go(kind, index)
            PROVE  \E b \in BOOLEAN : mixed' = (mixed \/ b)
        <5> DEFINE b == trips # {} /\ \E t \in trips \cup {Trip(kind, index)} : t.kind = "cash"
        <5>1. b \in BOOLEAN /\ mixed' = (mixed \/ b)
          BY <4>1 DEF Go
        <5> HIDE DEF b
        <5> QED
          BY <5>1
      <4> QED
        BY <2>1, <4>1 DEF NextPortfolioPage, EditHolding, Change, MoveCash, Analyze, Apply, DeletePortfolio,
                          ServerActs, Done, Analyzed, Deleted, Loaded, Failed
    <3>3. ~mixed
      BY <3>2
    <3> QED
      BY <2>1, <3>1, <3>3, PageActs DEF PageInv
  <2>2. CASE UNCHANGED pageVars
    BY <2>2 DEF PageInv, PageBody, PageTypeOK, TripIsSound, WasApplied, Marked, Alone, AppliedOnce
  <2> QED
    BY <2>1, <2>2, OneAtATime
<1>3. PageInv => PageIsSound
  <2> SUFFICES ASSUME PageBody
               PROVE  /\ Cardinality(trips) <= 1
                      /\ trips = {} /\ (\A f \in failed : f < seen.by) => seen.changes = changes
                      /\ analysis # 0 => \A i \in marks : \E a \in applied : a.analysis = analysis /\ a.index = i
                      /\ \A a, b \in { x \in applied : x.by = "one" /\ x.trip \notin failed } :
                           a.analysis = b.analysis /\ a.index = b.index => a = b
    BY DEF PageInv, PageIsSound, PageShowsTheServer, AppliedMarksAreTrue
  <2>1. Cardinality(trips) <= 1
    <3>1. CASE trips = {}
      BY <3>1, FS_EmptySet
    <3>2. CASE \E t \in trips : trips = {t}
      <4>1. PICK t : trips = {t}
        BY <3>2
      <4>2. Cardinality({t}) = 1
        BY FS_Singleton
      <4> QED
        BY <4>1, <4>2
    <3> QED
      BY <3>1, <3>2 DEF PageBody
  <2>2. trips = {} /\ (\A f \in failed : f < seen.by) => seen.changes = changes
    BY DEF PageBody
  <2>3. analysis # 0 => \A i \in marks : \E a \in applied : a.analysis = analysis /\ a.index = i
    BY DEF PageBody, WasApplied
  <2>4. \A a, b \in { x \in applied : x.by = "one" /\ x.trip \notin failed } :
          a.analysis = b.analysis /\ a.index = b.index => a = b
    BY DEF PageBody, AppliedOnce, Alone
  <2> QED
    BY <2>1, <2>2, <2>3, <2>4
<1> QED
  BY <1>1, <1>2, <1>3, PTL DEF Spec
-----------------------------------------------------------------------------
(* The conversations *)

UserAt(i) == talk[i].role = "user"
ReplyAt(i) == talk[i].role = "assistant"

(* Every question is stored once, under a number of its own; an answer has   *)
(* its question before it.                                                   *)
TalkInv ==
  /\ \E S : talk \in Seq(S)
  /\ \A i \in DOMAIN talk :
       /\ talk[i] = [role |-> talk[i].role, q |-> talk[i].q, question |-> talk[i].question, seen |-> talk[i].seen,
                     about |-> talk[i].about, hidden |-> talk[i].hidden]
       /\ talk[i].role \in {"user", "assistant"} /\ talk[i].q \in 1..Asked
  /\ \A i, k \in DOMAIN talk : talk[i].role = talk[k].role /\ talk[i].q = talk[k].q => i = k
  /\ \A i \in DOMAIN talk : ReplyAt(i) =>
       \E k \in DOMAIN talk :
         /\ UserAt(k) /\ talk[k].q = talk[i].q /\ k < i /\ talk[k].question \in Questions
         /\ room = "market" => /\ talk[i].q \in talk[i].seen
                               /\ talk[i].about = SymbolsOf(MentionedIn(talk[k].question))

(* What is being answered was asked and is not answered yet.                 *)
AskIsSound(a) ==
  /\ a = [q |-> a.q, question |-> a.question, step |-> a.step, seen |-> a.seen, about |-> a.about]
  /\ a.q \in 1..Asked /\ a.question \in Questions
  /\ \E k \in DOMAIN talk : UserAt(k) /\ talk[k].q = a.q /\ talk[k].question = a.question
  /\ \A i \in DOMAIN talk : ReplyAt(i) => talk[i].q # a.q
  /\ a.step = "read" => a.about = {}
  /\ a.step = "ask" /\ room = "market" => a.q \in a.seen /\ a.about = SymbolsOf(MentionedIn(a.question))

ChatInv ==
  /\ TalkInv /\ \A a \in asks : AskIsSound(a)
  /\ \A a, b \in asks : a.q = b.q => a = b

(* A message is added at the end.                                            *)
LEMMA TalkGrows ==
  ASSUME TalkInv, NEW m, talk' = Append(talk, m)
  PROVE  /\ Len(talk) \in Nat /\ DOMAIN talk = 1..Len(talk) /\ DOMAIN talk' = 1..(Len(talk) + 1)
         /\ \A i \in DOMAIN talk : talk'[i] = talk[i]
         /\ talk'[Len(talk) + 1] = m
         /\ \E S : talk' \in Seq(S)
         /\ Asked \in Nat
         /\ m.role = "user" => Asked' = Asked + 1
         /\ m.role # "user" => Asked' = Asked
<1>1. PICK S : talk \in Seq(S)
  BY DEF TalkInv
<1> DEFINE T == S \cup {m}
<1>2. talk \in Seq(T) /\ m \in T
  BY <1>1, SeqMonotonic
<1> HIDE DEF T
<1>3. talk' \in Seq(T) /\ Len(talk') = Len(talk) + 1 /\ (\A i \in 1..Len(talk) : talk'[i] = talk[i]) /\ talk'[Len(talk) + 1] = m
  BY <1>2, AppendProperties
<1>4. Len(talk) \in Nat /\ DOMAIN talk = 1..Len(talk) /\ DOMAIN talk' = 1..(Len(talk) + 1)
  BY <1>2, <1>3, LenProperties
<1> DEFINE old == { i \in DOMAIN talk : talk[i].role = "user" }
           new == { i \in DOMAIN talk' : talk'[i].role = "user" }
<1>5. IsFiniteSet(old) /\ Cardinality(old) \in Nat
  <2>1. IsFiniteSet(1..Len(talk))
    BY <1>4, FS_Interval
  <2> QED
    BY <1>4, <2>1, FS_Subset, FS_CardinalityType
<1>6. Asked = Cardinality(old) /\ Asked' = Cardinality(new)
  BY DEF Asked
<1>7. m.role = "user" => new = old \cup {Len(talk) + 1} /\ Len(talk) + 1 \notin old
  BY <1>3, <1>4
<1>8. m.role # "user" => new = old
  BY <1>3, <1>4
<1> HIDE DEF old, new
<1>9. m.role = "user" => Asked' = Asked + 1
  BY <1>5, <1>6, <1>7, FS_AddElement
<1> QED
  BY <1>3, <1>4, <1>5, <1>6, <1>8, <1>9

LEMMA ChatsOpen ==
  ASSUME NEW where, InitChats(where)
  PROVE  ChatInv
<1>1. talk = <<>> /\ asks = {}
  BY DEF InitChats
<1>2. DOMAIN talk = {} /\ talk \in Seq({})
  BY <1>1
<1> QED
  BY <1>1, <1>2 DEF ChatInv, TalkInv

(* The answer to a question that was asked and is not answered.              *)
LEMMA RepliesAreSound ==
  ASSUME ChatInv, NEW a \in asks, NEW b, Answered(a, Reply(b)), room' = room,
         b.q = a.q, room = "market" => a.q \in b.seen /\ b.about = SymbolsOf(MentionedIn(a.question))
  PROVE  ChatInv'
<1> DEFINE m == Reply(b)
<1>1. /\ m.role = "assistant" /\ m.q = a.q /\ m.seen = b.seen /\ m.about = b.about
      /\ m = [role |-> m.role, q |-> m.q, question |-> m.question, seen |-> m.seen, about |-> m.about, hidden |-> m.hidden]
      /\ talk' = Append(talk, m) /\ asks' = asks \ {a}
  BY DEF Reply, Answered
<1> HIDE DEF m
<1>2. TalkInv /\ AskIsSound(a)
  BY DEF ChatInv
<1>3. /\ Len(talk) \in Nat /\ DOMAIN talk = 1..Len(talk) /\ DOMAIN talk' = 1..(Len(talk) + 1)
      /\ \A i \in DOMAIN talk : talk'[i] = talk[i]
      /\ talk'[Len(talk) + 1] = m
      /\ \E S : talk' \in Seq(S)
      /\ Asked \in Nat /\ Asked' = Asked
  BY <1>1, <1>2, TalkGrows
<1>4. \A i \in DOMAIN talk' :
        /\ talk'[i] = [role |-> talk'[i].role, q |-> talk'[i].q, question |-> talk'[i].question, seen |-> talk'[i].seen,
                       about |-> talk'[i].about, hidden |-> talk'[i].hidden]
        /\ talk'[i].role \in {"user", "assistant"} /\ talk'[i].q \in 1..Asked
  BY <1>1, <1>2, <1>3 DEF TalkInv, AskIsSound
<1>5. \A i, k \in DOMAIN talk' : talk'[i].role = talk'[k].role /\ talk'[i].q = talk'[k].q => i = k
  BY <1>1, <1>2, <1>3 DEF TalkInv, AskIsSound, ReplyAt
<1>6. ASSUME NEW i \in DOMAIN talk', ReplyAt(i)'
      PROVE  \E k \in DOMAIN talk' :
               /\ UserAt(k)' /\ talk'[k].q = talk'[i].q /\ k < i /\ talk'[k].question \in Questions
               /\ room = "market" => /\ talk'[i].q \in talk'[i].seen
                                     /\ talk'[i].about = SymbolsOf(MentionedIn(talk'[k].question))
  <2>1. CASE i \in DOMAIN talk
    <3>1. talk'[i] = talk[i] /\ ReplyAt(i)
      BY <1>3, <1>6, <2>1 DEF ReplyAt
    <3>2. PICK k \in DOMAIN talk :
            /\ UserAt(k) /\ talk[k].q = talk[i].q /\ k < i /\ talk[k].question \in Questions
            /\ room = "market" => /\ talk[i].q \in talk[i].seen
                                  /\ talk[i].about = SymbolsOf(MentionedIn(talk[k].question))
      BY <1>2, <2>1, <3>1 DEF TalkInv
    <3>3. talk'[k] = talk[k] /\ k \in DOMAIN talk'
      BY <1>3
    <3> QED
      BY <3>1, <3>2, <3>3 DEF UserAt
  <2>2. CASE i = Len(talk) + 1
    <3>1. talk'[i] = m
      BY <1>3, <2>2
    <3>2. PICK k \in DOMAIN talk : UserAt(k) /\ talk[k].q = a.q /\ talk[k].question = a.question
      BY <1>2 DEF AskIsSound
    <3>3. talk'[k] = talk[k] /\ k \in DOMAIN talk' /\ k < i /\ a.question \in Questions
      BY <1>2, <1>3, <2>2 DEF AskIsSound
    <3> QED
      BY <1>1, <3>1, <3>2, <3>3 DEF UserAt
  <2> QED
    BY <1>3, <2>1, <2>2
<1>7. TalkInv'
  BY <1>3, <1>4, <1>5, <1>6 DEF TalkInv
<1>8. ASSUME NEW c \in asks'
      PROVE  AskIsSound(c)'
  <2>1. c \in asks /\ AskIsSound(c) /\ c.q # a.q
    BY <1>1, <1>8 DEF ChatInv
  <2>2. \E k \in DOMAIN talk' : UserAt(k)' /\ talk'[k].q = c.q /\ talk'[k].question = c.question
    BY <1>3, <2>1 DEF AskIsSound, UserAt
  <2>3. \A i \in DOMAIN talk' : ReplyAt(i)' => talk'[i].q # c.q
    BY <1>1, <1>3, <2>1 DEF AskIsSound, ReplyAt
  <2> QED
    BY <1>3, <2>1, <2>2, <2>3 DEF AskIsSound
<1>9. \A c, d \in asks' : c.q = d.q => c = d
  BY <1>1 DEF ChatInv
<1> QED
  BY <1>7, <1>8, <1>9 DEF ChatInv
LEMMA ChatSteps ==
  ASSUME ChatInv, NextChats
  PROVE  ChatInv'
<1>1. TalkInv /\ (\A a \in asks : AskIsSound(a)) /\ (\A a, b \in asks : a.q = b.q => a = b)
  BY DEF ChatInv
<1>2. ASSUME Post
      PROVE  ChatInv'
  <2>1. PICK question \in Questions :
          /\ talk' = Append(talk, UserMessage(Asked + 1, question))
          /\ asks' = asks \cup {[q |-> Asked + 1, question |-> question, step |-> "read", seen |-> {}, about |-> {}]}
    BY <1>2 DEF Post
  <2>2. room' = room
    BY <1>2 DEF Post
  <2> DEFINE m == UserMessage(Asked + 1, question)
  <2>3. /\ m.role = "user" /\ m.q = Asked + 1 /\ m.question = question /\ talk' = Append(talk, m)
        /\ m = [role |-> m.role, q |-> m.q, question |-> m.question, seen |-> m.seen, about |-> m.about, hidden |-> m.hidden]
    BY <2>1 DEF UserMessage
  <2>4. PICK new : /\ new.q = Asked + 1 /\ new.question = question /\ new.step = "read" /\ new.about = {}
                   /\ new = [q |-> new.q, question |-> new.question, step |-> new.step, seen |-> new.seen, about |-> new.about]
                   /\ asks' = asks \cup {new}
    BY <2>1
  <2> HIDE DEF m
  <2>5. /\ Len(talk) \in Nat /\ DOMAIN talk = 1..Len(talk) /\ DOMAIN talk' = 1..(Len(talk) + 1)
        /\ \A i \in DOMAIN talk : talk'[i] = talk[i]
        /\ talk'[Len(talk) + 1] = m
        /\ \E S : talk' \in Seq(S)
        /\ Asked \in Nat /\ Asked' = Asked + 1
    BY <1>1, <2>3, TalkGrows
  <2>6. \A i \in DOMAIN talk' :
          /\ talk'[i] = [role |-> talk'[i].role, q |-> talk'[i].q, question |-> talk'[i].question, seen |-> talk'[i].seen,
                         about |-> talk'[i].about, hidden |-> talk'[i].hidden]
          /\ talk'[i].role \in {"user", "assistant"} /\ talk'[i].q \in 1..Asked'
    BY <1>1, <2>3, <2>5 DEF TalkInv
  <2>7. \A i, k \in DOMAIN talk' : talk'[i].role = talk'[k].role /\ talk'[i].q = talk'[k].q => i = k
    BY <1>1, <2>3, <2>5 DEF TalkInv
  <2>8. ASSUME NEW i \in DOMAIN talk', ReplyAt(i)'
        PROVE  \E k \in DOMAIN talk' :
                 /\ UserAt(k)' /\ talk'[k].q = talk'[i].q /\ k < i /\ talk'[k].question \in Questions
                 /\ room = "market" => /\ talk'[i].q \in talk'[i].seen
                                       /\ talk'[i].about = SymbolsOf(MentionedIn(talk'[k].question))
    <3>1. i \in DOMAIN talk /\ talk'[i] = talk[i] /\ ReplyAt(i)
      BY <2>3, <2>5, <2>8 DEF ReplyAt
    <3>2. PICK k \in DOMAIN talk :
            /\ UserAt(k) /\ talk[k].q = talk[i].q /\ k < i /\ talk[k].question \in Questions
            /\ room = "market" => /\ talk[i].q \in talk[i].seen
                                  /\ talk[i].about = SymbolsOf(MentionedIn(talk[k].question))
      BY <1>1, <3>1 DEF TalkInv
    <3>3. talk'[k] = talk[k] /\ k \in DOMAIN talk'
      BY <2>5
    <3> QED
      BY <3>1, <3>2, <3>3 DEF UserAt
  <2>9. TalkInv'
    BY <2>2, <2>5, <2>6, <2>7, <2>8 DEF TalkInv
  <2>10. AskIsSound(new)'
    <3>1. \E k \in DOMAIN talk' : UserAt(k)' /\ talk'[k].q = new.q /\ talk'[k].question = new.question
      <4>1. Len(talk) + 1 \in DOMAIN talk'
        BY <2>5
      <4> QED
        BY <2>3, <2>4, <2>5, <4>1 DEF UserAt
    <3>2. \A i \in DOMAIN talk' : ReplyAt(i)' => talk'[i].q # new.q
      BY <1>1, <2>3, <2>4, <2>5 DEF TalkInv, ReplyAt
    <3>3. new.q \in 1..Asked' /\ new.question \in Questions
      BY <2>4, <2>5
    <3>4. /\ new = [q |-> new.q, question |-> new.question, step |-> new.step, seen |-> new.seen, about |-> new.about]
          /\ new.step # "ask" /\ new.about = {}
      BY <2>4
    <3> QED
      BY <3>1, <3>2, <3>3, <3>4 DEF AskIsSound
  <2>11. ASSUME NEW c \in asks
         PROVE  AskIsSound(c)' /\ c.q # new.q
    <3>1. AskIsSound(c)
      BY <1>1
    <3>2. c.q # new.q /\ c.q \in 1..Asked'
      BY <2>4, <2>5, <3>1 DEF AskIsSound
    <3>3. \E k \in DOMAIN talk' : UserAt(k)' /\ talk'[k].q = c.q /\ talk'[k].question = c.question
      BY <2>5, <3>1 DEF AskIsSound, UserAt
    <3>4. \A i \in DOMAIN talk' : ReplyAt(i)' => talk'[i].q # c.q
      BY <2>3, <2>5, <3>1 DEF AskIsSound, ReplyAt
    <3> QED
      BY <2>2, <3>1, <3>2, <3>3, <3>4 DEF AskIsSound
  <2>12. asks' = asks \cup {new}
    BY <2>4
  <2>13. \A c, d \in asks' : c.q = d.q => c = d
    BY <1>1, <2>11, <2>12
  <2>14. \A c \in asks' : AskIsSound(c)'
    BY <2>10, <2>11, <2>12
  <2> QED
    BY <2>9, <2>13, <2>14 DEF ChatInv
<1>3. ASSUME ReadTalk
      PROVE  ChatInv'
  <2>1. PICK a \in asks : asks' = (asks \ {a}) \cup {IF room = "market" THEN MarketPrompt(a) ELSE PortfolioPrompt(a)}
    BY <1>3 DEF ReadTalk
  <2>2. UNCHANGED << room, talk, noted >>
    BY <1>3 DEF ReadTalk
  <2>3. AskIsSound(a)
    BY <1>1
  <2>4. PICK b : /\ b = [q |-> b.q, question |-> b.question, step |-> b.step, seen |-> b.seen, about |-> b.about]
                 /\ b.q = a.q /\ b.question = a.question /\ b.step = "ask"
                 /\ room = "market" => a.q \in b.seen /\ b.about = SymbolsOf(MentionedIn(a.question))
                 /\ asks' = (asks \ {a}) \cup {b}
    <3>1. a = [q |-> a.q, question |-> a.question, step |-> a.step, seen |-> a.seen, about |-> a.about]
      BY <2>3 DEF AskIsSound
    <3>2. ASSUME NEW seen_1, NEW about_1
          PROVE  [a EXCEPT !.step = "ask", !.seen = seen_1, !.about = about_1]
                   = [q |-> a.q, question |-> a.question, step |-> "ask", seen |-> seen_1, about |-> about_1]
      <4> DEFINE R == [q : {a.q}, question : {a.question}, step : {a.step, "ask"}, seen : {a.seen, seen_1},
                       about : {a.about, about_1}]
                 e == [a EXCEPT !.step = "ask", !.seen = seen_1, !.about = about_1]
      <4>1. a \in R
        BY <3>1
      <4>2. e \in R /\ e.q = a.q /\ e.question = a.question /\ e.step = "ask" /\ e.seen = seen_1 /\ e.about = about_1
        BY <4>1
      <4>3. e = [q |-> e.q, question |-> e.question, step |-> e.step, seen |-> e.seen, about |-> e.about]
        <5> HIDE DEF e
        <5> QED
          BY <4>2
      <4> HIDE DEF e
      <4>4. e = [q |-> a.q, question |-> a.question, step |-> "ask", seen |-> seen_1, about |-> about_1]
        BY <4>2, <4>3
      <4> QED
        BY <4>4 DEF e
    <3>3. CASE room = "market"
      <4>1. MarketPrompt(a) = [q |-> a.q, question |-> a.question, step |-> "ask", seen |-> {a.q} \cup SeenIn(Oldest(MaxMarket)),
                               about |-> SymbolsOf(MentionedIn(a.question))]
        BY <3>2 DEF MarketPrompt
      <4> QED
        BY <2>1, <3>3, <4>1
    <3>4. CASE room # "market"
      <4> DEFINE found == SymbolsOf(FoundFor(Together(LastOf(QuestionsOf(Oldest(MaxHistory)), 3))))
      <4>1. PortfolioPrompt(a) = [a EXCEPT !.step = "ask", !.seen = SeenIn(Oldest(MaxHistory)), !.about = found]
        BY DEF PortfolioPrompt
      <4> HIDE DEF found
      <4>2. PortfolioPrompt(a) = [q |-> a.q, question |-> a.question, step |-> "ask", seen |-> SeenIn(Oldest(MaxHistory)),
                                  about |-> found]
        BY <3>2, <4>1
      <4> QED
        BY <2>1, <3>4, <4>2
    <3> QED
      BY <3>3, <3>4
  <2>5. AskIsSound(b)
    BY <2>3, <2>4 DEF AskIsSound
  <2>6. \A c \in asks' : AskIsSound(c)
    BY <1>1, <2>4, <2>5
  <2>7. \A c \in asks' : AskIsSound(c)'
    BY <2>2, <2>6 DEF AskIsSound, UserAt, ReplyAt, Asked
  <2>8. TalkInv'
    BY <1>1, <2>2 DEF TalkInv, UserAt, ReplyAt, Asked
  <2> QED
    BY <1>1, <2>4, <2>7, <2>8 DEF ChatInv
<1>4. ASSUME TurnAway
      PROVE  ChatInv'
  <2>1. PICK a \in asks : /\ a.step = "read" /\ room = "market" /\ ~InScope(a.question)
                          /\ Answered(a, Reply([a EXCEPT !.seen = {a.q}]))
    BY <1>4 DEF TurnAway
  <2>2. AskIsSound(a) /\ room' = room
    BY <1>1, <1>4 DEF TurnAway
  <2>3. a.about = {} /\ MentionedIn(a.question) = <<>>
    BY <2>1, <2>2 DEF AskIsSound, InScope
  <2>4. SymbolsOf(MentionedIn(a.question)) = {}
    BY <2>3 DEF SymbolsOf
  <2> DEFINE b == [a EXCEPT !.seen = {a.q}]
  <2>5. b.q = a.q /\ b.seen = {a.q} /\ b.about = a.about /\ Answered(a, Reply(b))
    BY <2>1, <2>2 DEF AskIsSound
  <2> HIDE DEF b
  <2> QED
    BY <2>2, <2>3, <2>4, <2>5, RepliesAreSound
<1>5. ASSUME Answer
      PROVE  ChatInv'
  <2>1. PICK a \in asks : a.step = "ask" /\ Answered(a, Reply(a))
    BY <1>5 DEF Answer
  <2>2. room' = room /\ (room = "market" => a.q \in a.seen /\ a.about = SymbolsOf(MentionedIn(a.question)))
    BY <1>1, <1>5, <2>1 DEF Answer, AskIsSound
  <2> QED
    BY <2>1, <2>2, RepliesAreSound
<1>6. ASSUME CutAsks \/ (asks' \in SUBSET asks /\ UNCHANGED << room, talk >>)
      PROVE  ChatInv'
  <2>1. asks' \in SUBSET asks /\ UNCHANGED << room, talk >>
    BY <1>6 DEF CutAsks
  <2>2. TalkInv'
    BY <1>1, <2>1 DEF TalkInv, UserAt, ReplyAt, Asked
  <2>3. \A a \in asks' : AskIsSound(a)'
    BY <1>1, <2>1, SMTT(30) DEF AskIsSound, UserAt, ReplyAt, Asked
  <2> QED
    BY <1>1, <2>1, <2>2, <2>3 DEF ChatInv
<1>7. ASSUME QuotaSpent
      PROVE  ChatInv'
  <2>1. PICK a \in asks : /\ a.step = "ask"
                          /\ IF room = "market" THEN Answered(a, Reply(a)) ELSE asks' = asks \ {a} /\ UNCHANGED talk
    BY <1>7 DEF QuotaSpent
  <2>2. room' = room /\ (room = "market" => a.q \in a.seen /\ a.about = SymbolsOf(MentionedIn(a.question)))
    BY <1>1, <1>7, <2>1 DEF QuotaSpent, AskIsSound
  <2>3. CASE room = "market"
    BY <2>1, <2>2, <2>3, RepliesAreSound
  <2>4. CASE room # "market"
    <3>1. asks' \in SUBSET asks /\ UNCHANGED << room, talk >>
      BY <2>1, <2>2, <2>4
    <3> QED
      BY <1>6, <3>1
  <2> QED
    BY <2>3, <2>4
<1>8. ASSUME HideChat
      PROVE  ChatInv'
  <2>1. talk' = [i \in DOMAIN talk |-> [talk[i] EXCEPT !.hidden = TRUE]] /\ UNCHANGED << room, asks, noted >>
    BY <1>8 DEF HideChat
  <2>2. PICK S : talk \in Seq(S)
    BY <1>1 DEF TalkInv
  <2>3. DOMAIN talk' = DOMAIN talk /\ DOMAIN talk = 1..Len(talk) /\ Len(talk) \in Nat
    BY <2>1, <2>2, LenProperties
  <2>4. \A i \in DOMAIN talk :
          /\ talk'[i] = [talk[i] EXCEPT !.hidden = TRUE]
          /\ talk'[i] = [role |-> talk[i].role, q |-> talk[i].q, question |-> talk[i].question, seen |-> talk[i].seen,
                         about |-> talk[i].about, hidden |-> TRUE]
    <3> TAKE i \in DOMAIN talk
    <3>1. talk'[i] = [talk[i] EXCEPT !.hidden = TRUE]
      BY <2>1
    <3>2. talk[i] = [role |-> talk[i].role, q |-> talk[i].q, question |-> talk[i].question, seen |-> talk[i].seen,
                     about |-> talk[i].about, hidden |-> talk[i].hidden]
      BY <1>1 DEF TalkInv
    <3> QED
      BY <3>1, <3>2
  <2>5. \A i \in DOMAIN talk :
          /\ talk'[i].role = talk[i].role /\ talk'[i].q = talk[i].q /\ talk'[i].question = talk[i].question
          /\ talk'[i].seen = talk[i].seen /\ talk'[i].about = talk[i].about /\ talk'[i].hidden = TRUE
    BY <2>4
  <2>6. Asked' = Asked
    <3>1. { i \in DOMAIN talk' : talk'[i].role = "user" } = { i \in DOMAIN talk : talk[i].role = "user" }
      BY <2>3, <2>5
    <3> QED
      BY <3>1 DEF Asked
  <2>7. \E T : talk' \in Seq(T)
    <3> DEFINE T == { talk'[i] : i \in DOMAIN talk }
    <3>1. \A i \in 1..Len(talk) : talk'[i] \in T
      BY <2>3
    <3>2. talk' = [i \in 1..Len(talk) |-> talk'[i]]
      BY <2>1, <2>3
    <3> HIDE DEF T
    <3>3. talk' \in Seq(T)
      BY <2>3, <3>1, <3>2, IsASeq
    <3> QED
      BY <3>3
  <2>8. TalkInv'
    <3>1. \A i \in DOMAIN talk' :
            /\ talk'[i] = [role |-> talk'[i].role, q |-> talk'[i].q, question |-> talk'[i].question, seen |-> talk'[i].seen,
                           about |-> talk'[i].about, hidden |-> talk'[i].hidden]
            /\ talk'[i].role \in {"user", "assistant"} /\ talk'[i].q \in 1..Asked'
      BY <1>1, <2>3, <2>4, <2>5, <2>6 DEF TalkInv
    <3>2. \A i, k \in DOMAIN talk' : talk'[i].role = talk'[k].role /\ talk'[i].q = talk'[k].q => i = k
      BY <1>1, <2>3, <2>5 DEF TalkInv
    <3>3. ASSUME NEW i \in DOMAIN talk', ReplyAt(i)'
          PROVE  \E k \in DOMAIN talk' :
                   /\ UserAt(k)' /\ talk'[k].q = talk'[i].q /\ k < i /\ talk'[k].question \in Questions
                   /\ room' = "market" => /\ talk'[i].q \in talk'[i].seen
                                          /\ talk'[i].about = SymbolsOf(MentionedIn(talk'[k].question))
      <4>1. i \in DOMAIN talk /\ ReplyAt(i)
        BY <2>3, <2>5, <3>3 DEF ReplyAt
      <4>2. PICK k \in DOMAIN talk :
              /\ UserAt(k) /\ talk[k].q = talk[i].q /\ k < i /\ talk[k].question \in Questions
              /\ room = "market" => /\ talk[i].q \in talk[i].seen
                                    /\ talk[i].about = SymbolsOf(MentionedIn(talk[k].question))
        BY <1>1, <4>1 DEF TalkInv
      <4> QED
        BY <2>1, <2>3, <2>5, <4>1, <4>2 DEF UserAt
    <3> QED
      BY <2>7, <3>1, <3>2, <3>3 DEF TalkInv
  <2>9. ASSUME NEW a \in asks'
        PROVE  AskIsSound(a)'
    <3>1. AskIsSound(a)
      BY <1>1, <2>1, <2>9
    <3>2. \E k \in DOMAIN talk' : UserAt(k)' /\ talk'[k].q = a.q /\ talk'[k].question = a.question
      BY <2>3, <2>5, <3>1 DEF AskIsSound, UserAt
    <3>3. \A i \in DOMAIN talk' : ReplyAt(i)' => talk'[i].q # a.q
      BY <2>3, <2>5, <3>1 DEF AskIsSound, ReplyAt
    <3> QED
      BY <2>1, <2>6, <3>1, <3>2, <3>3 DEF AskIsSound
  <2> QED
    BY <1>1, <2>1, <2>8, <2>9 DEF ChatInv
<1> QED
  BY <1>2, <1>3, <1>4, <1>5, <1>6, <1>7, <1>8 DEF NextChats

(* An answer is the only one to its question and comes after it; about the   *)
(* market it is based on the question, and on every instrument it names that *)
(* MentionedIn finds.  What MentionedIn finds is a calculation: that it      *)
(* finds what a question names is the hypothesis, which TLC evaluates for the *)
(* questions of its runs (portfolios.service.ts, market.service.ts: postChat).*)
THEOREM DeskAnswersKnowTheirQuestion ==
  ASSUME MentionsAreFound
  PROVE  Spec => []AnswersKnowTheirQuestion
<1>1. Init => ChatInv
  BY ChatsOpen DEF Init
<1>2. ChatInv /\ [Next]_vars => ChatInv'
  <2> SUFFICES ASSUME ChatInv, [Next]_vars
               PROVE  ChatInv'
    OBVIOUS
  <2>1. CASE NextChats
    BY <2>1, ChatSteps
  <2>2. CASE UNCHANGED chatVars
    <3>1. UNCHANGED << room, talk, asks >> /\ Asked' = Asked
      BY <2>2 DEF Asked
    <3>2. TalkInv'
      BY <3>1 DEF ChatInv, TalkInv, UserAt, ReplyAt
    <3>3. \A a \in asks : AskIsSound(a) => AskIsSound(a)'
      BY <3>1 DEF AskIsSound, UserAt, ReplyAt
    <3> QED
      BY <3>1, <3>2, <3>3 DEF ChatInv
  <2> QED
    BY <2>1, <2>2, OneAtATime
<1>3. ChatInv => AnswersKnowTheirQuestion
  <2> SUFFICES ASSUME ChatInv, NEW i \in DOMAIN talk, talk[i].role = "assistant"
               PROVE  LET q == talk[i].q
                          names == Named(talk[QuestionAt(q)].question)
                      IN  /\ QuestionAt(q) < i
                          /\ \A k \in DOMAIN talk : talk[k].role = "assistant" /\ talk[k].q = q => k = i
                          /\ room = "market" => q \in talk[i].seen
                          /\ room = "market" /\ Cardinality(names) <= MaxMentioned => names \subseteq talk[i].about
    BY DEF AnswersKnowTheirQuestion
  <2>1. PICK k \in DOMAIN talk :
          /\ UserAt(k) /\ talk[k].q = talk[i].q /\ k < i /\ talk[k].question \in Questions
          /\ room = "market" => /\ talk[i].q \in talk[i].seen
                                /\ talk[i].about = SymbolsOf(MentionedIn(talk[k].question))
    BY DEF ChatInv, TalkInv, ReplyAt
  <2>2. QuestionAt(talk[i].q) = k
    BY <2>1 DEF ChatInv, TalkInv, QuestionAt, UserAt
  <2>3. \A l \in DOMAIN talk : talk[l].role = "assistant" /\ talk[l].q = talk[i].q => l = i
    BY DEF ChatInv, TalkInv
  <2> QED
    BY <2>1, <2>2, <2>3 DEF MentionsAreFound
<1> QED
  BY <1>1, <1>2, <1>3, PTL DEF Spec
-----------------------------------------------------------------------------
(* The forms *)

FormSections == Sections \cup {NoSection}
DeedNames == {"save", "test", "toggle", "clear", "reset", "unlink", "send"}
Thens == {"echo", "keep", "reload", "leave", "again"}
Partial == UNION { [S -> Values] : S \in SUBSET section.rows }
CallOf == [n : Nat, kind : {"load", "deed"}, deed : DeedNames \cup {Whole} \cup section.rows, then : Thens,
           values : Partial, step : {"sent", "back", "error"}, ends : BOOLEAN, for : SUBSET section.rows, stale : BOOLEAN]
WatchOf == [asked : Partial, failed : SUBSET section.rows, twice : SUBSET section.rows, blind : SUBSET section.rows,
            doubt : SUBSET section.rows]

FormTypeOK ==
  /\ section \in FormSections /\ stored \in [section.rows -> Values] /\ shown \in [section.rows -> Values]
  /\ got \in BOOLEAN /\ sent \in Nat /\ calls \in SUBSET CallOf /\ typed \in SUBSET section.rows /\ watch \in WatchOf

(* What a button sent: it ends in an answer that lowers a flag, and writes   *)
(* the rows of its values, if the button changes rows.                       *)
DeedIsSound(c) ==
  /\ c.ends /\ DOMAIN c.values = c.for
  /\ \E d \in DOMAIN section.deeds :
       /\ c.then = section.deeds[d] /\ (section.gate # "row" => c.deed = d)
       /\ c.for # {} => d \in {"save", "toggle", "reset", "clear"}
       /\ d = "save" => c.for # {}

CallsInv ==
  /\ \A c, d \in calls : c.n = d.n => c = d
  /\ \A c \in calls : c.n <= sent
  /\ \A c \in calls : c.kind = "deed" => DeedIsSound(c)
  /\ \A c \in calls : c.kind = "load" /\ c.step = "back" => c.values \in [section.rows -> Values]

(* One flag lets one press at a time through.                                *)
FlagInv ==
  section.gate = "section" =>
    /\ \A c, d \in calls : c.ends /\ d.ends => c = d
    /\ \A c \in calls : c.ends => flag # {}
    /\ watch.twice = {}

BeingWritten(r) == \E c \in calls : Writes(c) /\ r \in c.for

(* A row that is not changed twice at a time has one writer, which asks for  *)
(* what was asked for last; when it has been served the row holds it.        *)
WriteInv ==
  /\ section.waits => watch.blind = {}
  /\ \A c \in calls : Writes(c) => \A r \in c.for \ watch.twice :
       /\ r \in DOMAIN watch.asked /\ watch.asked[r] = c.values[r]
       /\ \A d \in calls : Writes(d) /\ r \in d.for => d = c
       /\ c.step = "back" => stored[r] = c.values[r]
  /\ \A r \in DOMAIN watch.asked \ (watch.twice \cup watch.failed) : ~BeingWritten(r) => stored[r] = watch.asked[r]

(* An answer that was not overtaken says what is stored.                     *)
FreshInv ==
  /\ \A c \in calls : c.kind = "load" /\ c.step = "back" /\ ~c.stale => c.values = stored
  /\ \A c \in calls : c.kind = "deed" /\ c.step = "back" /\ ~c.stale => \A r \in c.for : stored[r] = c.values[r]

(* Where saving leaves the form alone nothing else writes, no load follows a *)
(* change, and the row shows what is being saved.                            *)
KeepsSaves == "save" \in DOMAIN section.deeds /\ section.deeds["save"] = "keep"
KeepInv ==
  KeepsSaves =>
    /\ \A c \in calls : c.kind = "load" => ~c.ends
    /\ \A c, d \in calls : Writes(c) /\ Writes(d) => c = d
    /\ \A c \in calls : Writes(c) /\ section.gate = "save" => "save" \in flag
    /\ \A c \in calls : Writes(c) => ~c.stale
    /\ \A c \in calls : Writes(c) => \A r \in c.for \ (typed \cup watch.doubt) : shown[r] = c.values[r]

(* Why a form shows what is stored: a row may differ only while it is        *)
(* written or about to be loaded.                                            *)
Awaited(r) == \E c \in calls : r \in c.for
ShowInv ==
  got => \A r \in section.rows \ (typed \cup watch.doubt) : ~Awaited(r) => shown[r] = stored[r]

FormInv == FormTypeOK /\ CallsInv /\ FlagInv /\ WriteInv /\ FreshInv /\ KeepInv /\ ShowInv

(* The sections are alike in this.                                           *)
LEMMA SectionKinds ==
  ASSUME NEW s \in FormSections
  PROVE  /\ s.waits \in BOOLEAN
         /\ DOMAIN s.deeds \in SUBSET DeedNames
         /\ \A d \in DOMAIN s.deeds : s.deeds[d] \in Thens /\ (s.deeds[d] = "keep" => d \in {"save", "test"}) /\ (s.deeds[d] = "leave" => d = "test")
         /\ "save" \in DOMAIN s.deeds /\ s.deeds["save"] = "keep" =>
              s.gate \in {"section", "save"} /\ \A d \in DOMAIN s.deeds : s.deeds[d] = "keep"
<1> USE DEF DeedNames, Thens, Section, Table, Single, Several
<1>1. CASE s = RefreshTimes
  BY <1>1 DEF RefreshTimes
<1>2. CASE s = BrsApi
  BY <1>2 DEF BrsApi
<1>3. CASE s = WorldApis
  BY <1>3 DEF WorldApis
<1>4. CASE s = SpotPrices
  BY <1>4 DEF SpotPrices
<1>5. CASE s = Profile
  BY <1>5 DEF Profile
<1>6. CASE s = TelegramLink
  BY <1>6 DEF TelegramLink
<1>7. CASE s = Assistant
  BY <1>7 DEF Assistant
<1>8. CASE s = LlmConnection
  BY <1>8 DEF LlmConnection
<1>9. CASE s = TradeFees
  BY <1>9 DEF TradeFees
<1>10. CASE s = LlmErrors
  BY <1>10 DEF LlmErrors
<1>11. CASE s = MobileLogs
  BY <1>11 DEF MobileLogs
<1>12. CASE s = MobileSwitch
  BY <1>12 DEF MobileSwitch
<1>13. CASE s = FundNames
  BY <1>13 DEF FundNames
<1>14. CASE s = Prompts
  BY <1>14 DEF Prompts
<1>15. CASE s = Charge
  BY <1>15 DEF Charge
<1>16. CASE s = WalletSettings
  BY <1>16 DEF WalletSettings
<1>17. CASE s = Credits
  BY <1>17 DEF Credits
<1>18. CASE s = Users
  BY <1>18 DEF Users
<1>19. CASE s = UserAccess
  BY <1>19 DEF UserAccess
<1>20. CASE s = DailyMessage
  BY <1>20 DEF DailyMessage
<1>21. CASE s = BotLinks
  BY <1>21 DEF BotLinks
<1>22. CASE s = Economy
  BY <1>22 DEF Economy
<1>23. CASE s = MineUsers
  BY <1>23 DEF MineUsers
<1>24. CASE s = Lessons
  BY <1>24 DEF Lessons
<1>25. CASE s = NoSection
  BY <1>25 DEF NoSection
<1> QED
  BY <1>1, <1>2, <1>3, <1>4, <1>5, <1>6, <1>7, <1>8, <1>9, <1>10, <1>11, <1>12, <1>13, <1>14, <1>15, <1>16, <1>17, <1>18, <1>19, <1>20, <1>21, <1>22, <1>23, <1>24, <1>25 DEF FormSections, Sections
LEMMA OverIs ==
  ASSUME NEW R, NEW f, NEW g, NEW S \in SUBSET R, NEW T \in SUBSET R, f \in [S -> Values], g \in [T -> Values]
  PROVE  /\ Over(f, g) \in [S \cup T -> Values]
         /\ \A r \in S : Over(f, g)[r] = f[r]
         /\ \A r \in T \ S : Over(f, g)[r] = g[r]
BY DEF Over

LEMMA PartialIs ==
  /\ \A f \in Partial : DOMAIN f \in SUBSET section.rows /\ f \in [DOMAIN f -> Values]
  /\ \A S \in SUBSET section.rows : \A f \in [S -> Values] : f \in Partial
  /\ <<>> \in Partial /\ DOMAIN <<>> = {}
<1>1. ASSUME NEW f \in Partial
      PROVE  DOMAIN f \in SUBSET section.rows /\ f \in [DOMAIN f -> Values]
  <2>1. PICK S \in SUBSET section.rows : f \in [S -> Values]
    BY DEF Partial
  <2>2. DOMAIN f = S
    BY <2>1
  <2> QED
    BY <2>1, <2>2
<1>2. ASSUME NEW S \in SUBSET section.rows, NEW f \in [S -> Values]
      PROVE  f \in Partial
  BY DEF Partial
<1>3. {} \in SUBSET section.rows /\ <<>> \in [{} -> Values] /\ DOMAIN <<>> = {}
  OBVIOUS
<1> QED
  BY <1>1, <1>2, <1>3

LEMMA LoadsTyped ==
  ASSUME NEW n \in Nat, NEW ends \in BOOLEAN, NEW for \in SUBSET section.rows
  PROVE  Load(n, ends, for) \in CallOf
<1>1. Whole \in DeedNames \cup {Whole} \cup section.rows /\ "echo" \in Thens /\ <<>> \in Partial
  BY PartialIs DEF Thens
<1> QED
  BY <1>1 DEF Load, CallOf

LEMMA FormOpens ==
  ASSUME NEW s \in FormSections, Opened(s)
  PROVE  FormInv
<1>1. /\ section = s /\ stored = [r \in s.rows |-> 1] /\ shown = [r \in s.rows |-> Absent]
      /\ got = FALSE /\ flag = {} /\ typed = {} /\ watch = Unwatched
      /\ (calls = {Load(1, FALSE, {})} /\ sent = 1) \/ (calls = {} /\ sent = 0)
  BY DEF Opened
<1>2. /\ stored \in [section.rows -> Values] /\ shown \in [section.rows -> Values]
  BY <1>1 DEF Values, Absent
<1>3. watch \in WatchOf /\ watch.asked = <<>> /\ watch.twice = {} /\ watch.blind = {} /\ watch.doubt = {} /\ DOMAIN watch.asked = {}
  BY <1>1, PartialIs DEF WatchOf, Unwatched
<1>4. ASSUME NEW c \in calls
      PROVE  c \in CallOf /\ c.n = 1 /\ c.kind = "load" /\ c.step = "sent" /\ c.ends = FALSE /\ c.for = {} /\ c = Load(1, FALSE, {})
  <2>1. c = Load(1, FALSE, {})
    BY <1>1, <1>4
  <2>2. c.n = 1 /\ c.kind = "load" /\ c.step = "sent" /\ c.ends = FALSE /\ c.for = {}
    BY <2>1 DEF Load
  <2>3. c \in CallOf
    BY <2>1, LoadsTyped
  <2> QED
    BY <2>1, <2>2, <2>3
<1>5. FormTypeOK
  <2>1. got \in BOOLEAN /\ sent \in Nat /\ typed \in SUBSET section.rows /\ section \in FormSections
    <3>1. sent \in {0, 1}
      BY <1>1
    <3>2. typed = {} /\ section = s /\ got = FALSE
      BY <1>1
    <3>3. {0, 1} \in SUBSET Nat
      OBVIOUS
    <3> QED
      BY <3>1, <3>2, <3>3
  <2>2. calls \in SUBSET CallOf
    BY <1>4
  <2> QED
    BY <1>2, <1>3, <2>1, <2>2 DEF FormTypeOK
<1>6. CallsInv /\ FlagInv /\ FreshInv
  <2>1. \A c \in calls : c.n <= sent
    <3>1. CASE calls = {}
      BY <3>1
    <3>2. CASE sent = 1
      <4>1. 1 <= 1
        OBVIOUS
      <4> QED
        BY <1>4, <3>2, <4>1
    <3> QED
      BY <1>1, <3>1, <3>2
  <2>2. \A c, d \in calls : c = d
    BY <1>4
  <2> QED
    BY <1>3, <1>4, <2>1, <2>2 DEF CallsInv, FlagInv, FreshInv
<1>7. WriteInv /\ KeepInv
  BY <1>3, <1>4 DEF WriteInv, KeepInv, Writes
<1> QED
  BY <1>1, <1>5, <1>6, <1>7 DEF FormInv, ShowInv

\* y is x at another step.
SameCall(x, y) ==
  /\ y.n = x.n /\ y.kind = x.kind /\ y.deed = x.deed /\ y.then = x.then /\ y.ends = x.ends /\ y.for = x.for
  /\ x.kind = "deed" => y.values = x.values

(* The requests on their way move on; only rows that are written change.     *)
LEMMA CallsMoveOn ==
  ASSUME FormInv, UNCHANGED << section, shown, got, flag, sent, typed, watch >>,
         stored' \in [section.rows -> Values], calls' \in SUBSET CallOf,
         \A x \in calls : \E y \in calls' : SameCall(x, y),
         \A y \in calls' : \E x \in calls : SameCall(x, y) /\ (KeepsSaves /\ Writes(x) => y.stale = x.stale),
         \A y, z \in calls' : y.n = z.n => y = z,
         \A y \in calls' : y.kind = "load" /\ y.step = "back" => y.values \in [section.rows -> Values],
         \A r \in section.rows : ~BeingWritten(r) => stored'[r] = stored[r],
         \A y \in calls' : Writes(y) /\ y.step = "back" => \A r \in y.for \ watch.twice : stored'[r] = y.values[r],
         FreshInv'
  PROVE  FormInv'
<1>1. FormTypeOK /\ CallsInv /\ FlagInv /\ WriteInv /\ KeepInv /\ ShowInv
  BY DEF FormInv
<1>2. FormTypeOK'
  BY <1>1 DEF FormTypeOK, CallOf, WatchOf, Partial
<1>3. \A y \in calls' : \E x \in calls : SameCall(x, y) /\ (KeepsSaves /\ Writes(x) => y.stale = x.stale)
  OBVIOUS
<1>4. \A y \in calls' : y.kind = "deed" => DeedIsSound(y)
  BY <1>1, <1>3 DEF CallsInv, SameCall, DeedIsSound
<1>5. CallsInv'
  <2>1. \A y \in calls' : y.n <= sent
    BY <1>1, <1>3 DEF CallsInv, SameCall
  <2>2. \A y \in calls' : y.kind = "deed" => DeedIsSound(y)'
    BY <1>4 DEF DeedIsSound
  <2> QED
    BY <2>1, <2>2 DEF CallsInv
<1>6. \A x, y \in calls, v, w \in calls' : SameCall(x, v) /\ SameCall(y, w) /\ x = y => v = w
  BY DEF SameCall
<1>7. FlagInv'
  BY <1>1, <1>3, <1>6 DEF FlagInv, SameCall
<1>8. \A x, y : SameCall(x, y) => (Writes(x) <=> Writes(y)) /\ (Writes(x) => x.values = y.values) /\ x.for = y.for
  BY DEF SameCall, Writes
<1>9. \A r : (BeingWritten(r) <=> BeingWritten(r)') /\ (Awaited(r) <=> Awaited(r)')
  <2>1. \A r : BeingWritten(r) => BeingWritten(r)'
    BY <1>8 DEF BeingWritten, Writes
  <2>2. \A r : BeingWritten(r)' => BeingWritten(r)
    BY <1>3, <1>8 DEF BeingWritten, Writes
  <2>3. \A r : Awaited(r) => Awaited(r)'
    BY <1>8 DEF Awaited
  <2>4. \A r : Awaited(r)' => Awaited(r)
    BY <1>3, <1>8 DEF Awaited
  <2> QED
    BY <2>1, <2>2, <2>3, <2>4
<1>10. WriteInv'
  <2>1. ASSUME NEW c \in calls', Writes(c), NEW r \in c.for \ watch.twice
        PROVE  /\ r \in DOMAIN watch.asked /\ watch.asked[r] = c.values[r]
               /\ \A d \in calls' : Writes(d) /\ r \in d.for => d = c
               /\ c.step = "back" => stored'[r] = c.values[r]
    <3>1. PICK x \in calls : SameCall(x, c)
      BY <1>3
    <3>2. Writes(x) /\ x.values = c.values /\ r \in x.for \ watch.twice
      BY <1>8, <2>1, <3>1
    <3>3. /\ r \in DOMAIN watch.asked /\ watch.asked[r] = x.values[r]
          /\ \A d \in calls : Writes(d) /\ r \in d.for => d = x
      BY <1>1, <3>2 DEF WriteInv
    <3>4. ASSUME NEW d \in calls', Writes(d), r \in d.for
          PROVE  d = c
      <4>1. PICK z \in calls : SameCall(z, d)
        BY <1>3
      <4>2. z = x
        BY <1>8, <3>3, <3>4, <4>1
      <4> QED
        BY <1>6, <3>1, <4>1, <4>2
    <3> QED
      BY <2>1, <3>2, <3>3, <3>4
  <2>2. ASSUME NEW r \in DOMAIN watch.asked \ (watch.twice \cup watch.failed), ~BeingWritten(r)'
        PROVE  stored'[r] = watch.asked[r]
    <3>1. ~BeingWritten(r) /\ stored[r] = watch.asked[r]
      BY <1>1, <1>9, <2>2 DEF WriteInv
    <3>2. r \in section.rows
      BY <1>1, PartialIs DEF FormTypeOK, WatchOf
    <3> QED
      BY <3>1, <3>2
  <2> QED
    BY <1>1, <2>1, <2>2 DEF WriteInv, Writes
<1>11. KeepInv'
  <2> SUFFICES ASSUME KeepsSaves
               PROVE  /\ \A c \in calls' : c.kind = "load" => ~c.ends
                      /\ \A c, d \in calls' : Writes(c) /\ Writes(d) => c = d
                      /\ \A c \in calls' : Writes(c) /\ section.gate = "save" => "save" \in flag
                      /\ \A c \in calls' : Writes(c) => ~c.stale
                      /\ \A c \in calls' : Writes(c) => \A r \in c.for \ (typed \cup watch.doubt) : shown[r] = c.values[r]
    BY DEF KeepInv, KeepsSaves, Writes
  <2>1. /\ \A c \in calls : c.kind = "load" => ~c.ends
        /\ \A c, d \in calls : Writes(c) /\ Writes(d) => c = d
        /\ \A c \in calls : Writes(c) /\ section.gate = "save" => "save" \in flag
        /\ \A c \in calls : Writes(c) => ~c.stale
        /\ \A c \in calls : Writes(c) => \A r \in c.for \ (typed \cup watch.doubt) : shown[r] = c.values[r]
    BY <1>1 DEF KeepInv
  <2>2. \A y \in calls' : Writes(y) => \E x \in calls : Writes(x) /\ SameCall(x, y) /\ y.stale = x.stale /\ x.values = y.values /\ x.for = y.for
    BY <1>3, <1>8
  <2>3. \A y \in calls' : \E x \in calls : x.kind = y.kind /\ x.ends = y.ends
    BY <1>3 DEF SameCall
  <2>4. \A c \in calls' : c.kind = "load" => ~c.ends
    BY <2>1, <2>3
  <2>5. \A c, d \in calls' : Writes(c) /\ Writes(d) => c = d
    BY <1>6, <2>1, <2>2
  <2>6. \A c \in calls' : Writes(c) /\ section.gate = "save" => "save" \in flag
    BY <2>1, <2>2
  <2>7. \A c \in calls' : Writes(c) => ~c.stale
    BY <2>1, <2>2
  <2>8. \A c \in calls' : Writes(c) => \A r \in c.for \ (typed \cup watch.doubt) : shown[r] = c.values[r]
    BY <2>1, <2>2
  <2> QED
    BY <2>4, <2>5, <2>6, <2>7, <2>8
<1>12. ShowInv'
  BY <1>1, <1>9 DEF ShowInv, Awaited, BeingWritten
<1> QED
  BY <1>2, <1>5, <1>7, <1>10, <1>11, <1>12 DEF FormInv
(* A load is sent.                                                           *)
LEMMA LoadsStart ==
  ASSUME FormInv, calls' = calls \cup {Load(sent + 1, FALSE, {})}, sent' = sent + 1,
         UNCHANGED << section, stored, shown, got, flag, typed, watch >>
  PROVE  FormInv'
<1>1. FormTypeOK /\ CallsInv /\ FlagInv /\ WriteInv /\ FreshInv /\ KeepInv /\ ShowInv
  BY DEF FormInv
<1>2. sent \in Nat /\ sent + 1 \in Nat /\ calls \in SUBSET CallOf
  BY <1>1 DEF FormTypeOK
<1>3. PICK l \in CallOf : /\ l.n = sent + 1 /\ l.kind = "load" /\ l.step = "sent" /\ l.ends = FALSE /\ l.for = {}
                        /\ calls' = calls \cup {l}
  <2>1. Load(sent + 1, FALSE, {}) \in CallOf
    BY <1>2, LoadsTyped
  <2>2. \A l : l = Load(sent + 1, FALSE, {}) => l.n = sent + 1 /\ l.kind = "load" /\ l.step = "sent" /\ l.ends = FALSE /\ l.for = {}
    BY DEF Load
  <2> QED
    BY <2>1, <2>2
<1>4. FormTypeOK'
  BY <1>1, <1>2, <1>3 DEF FormTypeOK, CallOf, WatchOf, Partial
<1>5. CallsInv'
  <2>1. \A x \in calls : x.n \in Nat /\ x.n <= sent
    BY <1>1, <1>2 DEF CallsInv, CallOf
  <2>2. \A x \in calls : x.n <= sent' /\ x.n # l.n
    BY <1>2, <1>3, <2>1
  <2>3. l.n <= sent'
    BY <1>2, <1>3
  <2>4. \A x \in calls : x.kind = "deed" => DeedIsSound(x)'
    BY <1>1 DEF CallsInv, DeedIsSound
  <2>5. \A x \in calls : x.kind = "load" /\ x.step = "back" => x.values \in [section'.rows -> Values]
    BY <1>1 DEF CallsInv
  <2>6. \A x, y \in calls : x.n = y.n => x = y
    BY <1>1 DEF CallsInv
  <2> QED
    BY <1>3, <2>2, <2>3, <2>4, <2>5, <2>6 DEF CallsInv
<1>6. FlagInv' /\ FreshInv'
  BY <1>1, <1>3 DEF FlagInv, FreshInv
<1>7. ~Writes(l) /\ \A r : r \notin l.for
  BY <1>3 DEF Writes
<1>8. WriteInv'
  BY <1>1, <1>3, <1>7 DEF WriteInv, BeingWritten, Writes
<1>9. KeepInv'
  BY <1>1, <1>3, <1>7 DEF KeepInv, KeepsSaves, Writes
<1>10. ShowInv'
  BY <1>1, <1>3 DEF ShowInv, Awaited
<1> QED
  BY <1>4, <1>5, <1>6, <1>8, <1>9, <1>10 DEF FormInv

LEMMA TypeKeeps ==
  ASSUME FormInv, Type
  PROVE  FormInv'
<1>1. FormTypeOK /\ CallsInv /\ FlagInv /\ WriteInv /\ FreshInv /\ KeepInv /\ ShowInv
  BY DEF FormInv
<1>2. PICK r \in section.rows : \E v \in Values \ {shown[r], Absent} :
        shown' = [shown EXCEPT ![r] = v] /\ typed' = typed \cup {r}
  BY DEF Type
<1>3. PICK v \in Values : shown' = [shown EXCEPT ![r] = v] /\ typed' = typed \cup {r}
  BY <1>2
<1>4. UNCHANGED << section, stored, got, flag, calls, sent, later, watch >>
  BY DEF Type
<1>5. shown' \in [section.rows -> Values] /\ \A x \in section.rows \ {r} : shown'[x] = shown[x]
  BY <1>1, <1>3 DEF FormTypeOK
<1>6. FormTypeOK'
  BY <1>1, <1>3, <1>4, <1>5 DEF FormTypeOK, CallOf, WatchOf, Partial
<1>7. CallsInv' /\ FlagInv' /\ WriteInv' /\ FreshInv'
  BY <1>1, <1>4 DEF CallsInv, DeedIsSound, FlagInv, WriteInv, FreshInv, BeingWritten, Writes
<1>8. KeepInv'
  <2> SUFFICES ASSUME KeepsSaves, NEW c \in calls, Writes(c), NEW x \in c.for \ (typed' \cup watch.doubt)
               PROVE  shown'[x] = c.values[x]
    BY <1>1, <1>4 DEF KeepInv, KeepsSaves, Writes
  <2>1. x \in c.for \ (typed \cup watch.doubt) /\ x # r /\ x \in section.rows
    BY <1>1, <1>3 DEF FormTypeOK, CallOf
  <2> QED
    BY <1>1, <1>5, <2>1 DEF KeepInv
<1>9. ShowInv'
  BY <1>1, <1>3, <1>4, <1>5 DEF ShowInv, Awaited
<1> QED
  BY <1>6, <1>7, <1>8, <1>9 DEF FormInv

(* A button is pressed.                                                      *)
LEMMA PressesKeep ==
  ASSUME FormInv, Press
  PROVE  FormInv'
<1>1. FormTypeOK /\ CallsInv /\ FlagInv /\ WriteInv /\ FreshInv /\ KeepInv /\ ShowInv
  BY DEF FormInv
<1>2. PICK d \in DOMAIN section.deeds, p \in section.rows : Enabled(d, p) /\ Send(d, p)
  BY DEF Press
<1> DEFINE values == Sends(d, p)
<1>3. /\ section \in FormSections /\ stored \in [section.rows -> Values] /\ shown \in [section.rows -> Values]
      /\ got \in BOOLEAN /\ sent \in Nat /\ calls \in SUBSET CallOf /\ typed \in SUBSET section.rows /\ watch \in WatchOf
  BY <1>1 DEF FormTypeOK
<1>4. /\ section.waits \in BOOLEAN
      /\ DOMAIN section.deeds \in SUBSET DeedNames
      /\ \A e \in DOMAIN section.deeds : section.deeds[e] \in Thens /\ (section.deeds[e] = "keep" => e \in {"save", "test"})
      /\ KeepsSaves => section.gate \in {"section", "save"} /\ \A e \in DOMAIN section.deeds : section.deeds[e] = "keep"
  BY <1>3, SectionKinds DEF KeepsSaves
<1>5. /\ flag' = Raised(d, p)
      /\ calls' = calls \cup {Deed(sent + 1, d, p, values)} /\ sent' = sent + 1
      /\ watch' = Noted(values)
      /\ UNCHANGED << section, stored, shown, got, later, typed >>
  BY <1>2 DEF Send
<1>6. /\ DOMAIN values \in SUBSET section.rows /\ values \in [DOMAIN values -> Values]
      /\ DOMAIN values # {} => d \in {"save", "toggle", "reset", "clear"}
      /\ d = "save" => DOMAIN values # {} /\ \A r \in DOMAIN values : values[r] = shown[r]
  <2>1. {p} \in SUBSET section.rows /\ shown[p] \in Values /\ Other(shown[p]) \in Values /\ Absent \in Values
    BY <1>3 DEF Values, Other, Absent
  <2>2. CASE d = "save"
    <3>1. values = [x \in {p} |-> shown[p]]
      BY <2>2 DEF Sends
    <3> QED
      BY <2>1, <2>2, <3>1
  <2>3. CASE d = "toggle"
    <3>1. values = [x \in {p} |-> Other(shown[p])]
      BY <2>3 DEF Sends
    <3> QED
      BY <2>1, <2>3, <3>1
  <2>4. CASE d = "reset"
    <3>1. values = [x \in {p} |-> Absent]
      BY <2>4 DEF Sends
    <3> QED
      BY <2>1, <2>4, <3>1
  <2>5. CASE d = "clear"
    <3>1. values = [x \in section.rows |-> Absent]
      BY <2>5 DEF Sends
    <3> QED
      BY <2>1, <2>5, <3>1
  <2>6. CASE d \notin {"save", "toggle", "reset", "clear"}
    <3>1. values = <<>>
      BY <2>6 DEF Sends
    <3> QED
      BY <2>6, <3>1, PartialIs
  <2> QED
    BY <2>2, <2>3, <2>4, <2>5, <2>6
<1> HIDE DEF values
<1>7. values \in Partial
  BY <1>6, PartialIs
<1>8. PICK c \in CallOf :
        /\ c.n = sent + 1 /\ c.kind = "deed" /\ c.then = section.deeds[d] /\ c.values = values /\ c.step = "sent"
        /\ c.ends = TRUE /\ c.for = DOMAIN values /\ c.stale = FALSE /\ (section.gate # "row" => c.deed = d)
        /\ calls' = calls \cup {c}
  <2> DEFINE e == Deed(sent + 1, d, p, values)
  <2>1. /\ e.n = sent + 1 /\ e.kind = "deed" /\ e.then = section.deeds[d] /\ e.values = values /\ e.step = "sent"
        /\ e.ends = TRUE /\ e.for = DOMAIN values /\ e.stale = FALSE /\ e.deed = (IF section.gate = "row" THEN p ELSE d)
    BY DEF Deed
  <2>2. e \in CallOf
    <3>1. (IF section.gate = "row" THEN p ELSE d) \in DeedNames \cup {Whole} \cup section.rows
      BY <1>4
    <3>2. sent + 1 \in Nat /\ section.deeds[d] \in Thens
      BY <1>3, <1>4
    <3> QED
      BY <1>6, <1>7, <3>1, <3>2 DEF CallOf, Deed
  <2> HIDE DEF e
  <2>3. section.gate # "row" => e.deed = d
    BY <2>1
  <2>4. calls' = calls \cup {e}
    BY <1>5 DEF e
  <2> QED
    BY <2>1, <2>2, <2>3, <2>4
<1>9. /\ watch' \in WatchOf
      /\ watch'.asked = Over(values, watch.asked) /\ watch'.failed = watch.failed /\ watch'.doubt = watch.doubt
      /\ watch'.twice = watch.twice \cup { x \in DOMAIN values : Writing(x) # {} }
      /\ watch'.blind = watch.blind \cup { x \in DOMAIN values : ~got /\ x \notin typed }
  <2>1. watch.asked \in Partial
    BY <1>3 DEF WatchOf
  <2>2. DOMAIN watch.asked \in SUBSET section.rows /\ watch.asked \in [DOMAIN watch.asked -> Values]
    BY <2>1, PartialIs
  <2>3. Over(values, watch.asked) \in [DOMAIN values \cup DOMAIN watch.asked -> Values]
    BY <1>6, <2>2, OverIs
  <2>4. DOMAIN values \cup DOMAIN watch.asked \in SUBSET section.rows
    BY <1>6, <2>2
  <2>5. Over(values, watch.asked) \in Partial
    BY <2>3, <2>4, PartialIs
  <2> DEFINE a == Over(values, watch.asked)
             t == watch.twice \cup { x \in DOMAIN values : Writing(x) # {} }
             b == watch.blind \cup { x \in DOMAIN values : ~got /\ x \notin typed }
  <2>6. a \in Partial /\ t \in SUBSET section.rows /\ b \in SUBSET section.rows
    BY <1>3, <1>6, <2>5 DEF WatchOf
  <2>7. watch' = [watch EXCEPT !.asked = a, !.twice = t, !.blind = b]
    BY <1>5 DEF Noted
  <2> HIDE DEF a, t, b
  <2>8. watch' \in WatchOf /\ watch'.asked = a /\ watch'.twice = t /\ watch'.blind = b /\ watch'.failed = watch.failed /\ watch'.doubt = watch.doubt
    BY <1>3, <2>6, <2>7 DEF WatchOf
  <2> QED
    BY <2>8 DEF a, t, b
<1>10. /\ DOMAIN watch.asked \in SUBSET section.rows
       /\ DOMAIN watch'.asked = DOMAIN values \cup DOMAIN watch.asked
       /\ \A r \in DOMAIN values : watch'.asked[r] = values[r]
       /\ \A r \in DOMAIN watch.asked \ DOMAIN values : watch'.asked[r] = watch.asked[r]
  <2>1. DOMAIN watch.asked \in SUBSET section.rows /\ watch.asked \in [DOMAIN watch.asked -> Values]
    BY <1>3, PartialIs DEF WatchOf
  <2> DEFINE a == Over(values, watch.asked)
  <2>2. /\ a \in [DOMAIN values \cup DOMAIN watch.asked -> Values]
        /\ \A r \in DOMAIN values : a[r] = values[r]
        /\ \A r \in DOMAIN watch.asked \ DOMAIN values : a[r] = watch.asked[r]
    <3>1. a = [r \in DOMAIN values \cup DOMAIN watch.asked |-> IF r \in DOMAIN values THEN values[r] ELSE watch.asked[r]]
      BY DEF Over
    <3> HIDE DEF a
    <3> QED
      BY <1>6, <2>1, <3>1
  <2>3. watch'.asked = a
    BY <1>9
  <2> HIDE DEF a
  <2>4. DOMAIN a = DOMAIN values \cup DOMAIN watch.asked
    BY <2>2
  <2> QED
    BY <2>1, <2>2, <2>3, <2>4
<1>11. FormTypeOK'
  BY <1>3, <1>5, <1>8, <1>9 DEF FormTypeOK, CallOf, WatchOf, Partial
<1>12. \A x \in calls : x.n # c.n /\ x # c
  BY <1>1, <1>3, <1>8 DEF CallsInv, CallOf
<1>13. CallsInv'
  <2>1. DeedIsSound(c)
    BY <1>6, <1>8 DEF DeedIsSound
  <2>2. \A x \in calls' : x.n <= sent'
    BY <1>1, <1>3, <1>5, <1>8 DEF CallsInv, CallOf
  <2>3. \A x \in calls' : x.kind = "deed" => DeedIsSound(x)'
    BY <1>1, <1>5, <1>8, <2>1 DEF CallsInv, DeedIsSound
  <2> QED
    BY <1>1, <1>5, <1>8, <1>12, <2>2, <2>3 DEF CallsInv
<1>14. section.gate = "section" => flag = {} /\ (\A x \in calls : ~x.ends) /\ flag' # {}
  BY <1>1, <1>2, <1>5 DEF Enabled, FlagInv, Raised, OwnFlags
<1>15. FlagInv'
  <2>1. section.gate = "section" => \A x \in calls : ~Writes(x)
    BY <1>1, <1>14 DEF CallsInv, DeedIsSound, Writes
  <2>2. section.gate = "section" => watch'.twice = watch.twice
    BY <1>9, <2>1 DEF Writing
  <2> QED
    BY <1>1, <1>5, <1>8, <1>14, <2>2 DEF FlagInv
<1>16. Writes(c) => c.for # {}
  BY DEF Writes
<1>17. WriteInv'
  <2>1. section.waits => watch'.blind = {}
    <3>1. section.waits => got
      BY <1>2 DEF Enabled
    <3> QED
      BY <1>1, <1>9, <3>1 DEF WriteInv
  <2>2. ASSUME NEW x \in calls', Writes(x), NEW r \in x.for \ watch'.twice
        PROVE  /\ r \in DOMAIN watch'.asked /\ watch'.asked[r] = x.values[r]
               /\ \A y \in calls' : Writes(y) /\ r \in y.for => y = x
               /\ x.step = "back" => stored[r] = x.values[r]
    <3>1. r \notin watch.twice /\ (r \in DOMAIN values => Writing(r) = {})
      BY <1>9, <2>2
    <3>2. CASE x = c
      <4>1. \A y \in calls : ~(Writes(y) /\ r \in y.for)
        BY <1>8, <2>2, <3>1, <3>2 DEF Writing
      <4> QED
        BY <1>8, <1>10, <2>2, <3>2, <4>1
    <3>3. CASE x \in calls
      <4>1. x \in Writing(r)
        BY <2>2, <3>3 DEF Writing
      <4>2. r \notin DOMAIN values
        BY <3>1, <4>1
      <4>3. /\ r \in DOMAIN watch.asked /\ watch.asked[r] = x.values[r]
            /\ \A y \in calls : Writes(y) /\ r \in y.for => y = x
            /\ x.step = "back" => stored[r] = x.values[r]
        BY <1>1, <2>2, <3>1, <3>3 DEF WriteInv
      <4> QED
        BY <1>8, <1>10, <4>2, <4>3
    <3> QED
      BY <1>8, <3>2, <3>3
  <2>3. ASSUME NEW r \in DOMAIN watch'.asked \ (watch'.twice \cup watch'.failed), ~BeingWritten(r)'
        PROVE  stored[r] = watch'.asked[r]
    <3>1. ~BeingWritten(r) /\ ~(Writes(c) /\ r \in c.for)
      BY <1>8, <2>3 DEF BeingWritten, Writes
    <3>2. r \notin DOMAIN values
      BY <1>8, <3>1 DEF Writes
    <3>3. r \in DOMAIN watch.asked \ (watch.twice \cup watch.failed)
      BY <1>9, <1>10, <2>3, <3>2
    <3> QED
      BY <1>1, <1>10, <3>1, <3>2, <3>3 DEF WriteInv
  <2> QED
    BY <1>5, <2>1, <2>2, <2>3 DEF WriteInv, Writes
<1>18. FreshInv'
  BY <1>1, <1>5, <1>8 DEF FreshInv
<1>19. KeepInv'
  <2> SUFFICES ASSUME KeepsSaves
               PROVE  /\ \A x \in calls' : x.kind = "load" => ~x.ends
                      /\ \A x, y \in calls' : Writes(x) /\ Writes(y) => x = y
                      /\ \A x \in calls' : Writes(x) /\ section.gate = "save" => "save" \in flag'
                      /\ \A x \in calls' : Writes(x) => ~x.stale
                      /\ \A x \in calls' : Writes(x) => \A r \in x.for \ (typed \cup watch.doubt) : shown[r] = x.values[r]
    BY <1>5, <1>9 DEF KeepInv, KeepsSaves, Writes
  <2>1. section.gate \in {"section", "save"} /\ section.deeds[d] = "keep" /\ d \in {"save", "test"}
    BY <1>4
  <2>2. Writes(c) => d = "save"
    BY <1>6, <1>8, <2>1 DEF Writes
  <2>3. Writes(c) => \A x \in calls : ~Writes(x)
    <3>1. CASE section.gate = "section"
      BY <1>1, <1>14, <3>1 DEF CallsInv, DeedIsSound, Writes
    <3>2. CASE section.gate = "save"
      <4>1. d = "save" => flag = {}
        BY <1>2, <3>2 DEF Enabled
      <4> QED
        BY <1>1, <2>2, <3>2, <4>1 DEF KeepInv
    <3> QED
      BY <2>1, <3>1, <3>2
  <2>4. section.gate = "save" => flag' = flag \cup {d}
    BY <1>5 DEF Raised, OwnFlags
  <2>5. Writes(c) => \A r \in c.for : shown[r] = c.values[r]
    BY <1>6, <1>8, <2>2
  <2> QED
    BY <1>1, <1>8, <2>2, <2>3, <2>4, <2>5 DEF KeepInv
<1>20. ShowInv'
  BY <1>1, <1>5, <1>8, <1>9 DEF ShowInv, Awaited
<1> QED
  BY <1>11, <1>13, <1>15, <1>17, <1>18, <1>19, <1>20 DEF FormInv
(* M: what becomes of each request.                                          *)
LEMMA MovesAre ==
  ASSUME FormInv, NEW M, \A x \in calls : M[x] \in CallOf /\ SameCall(x, M[x]), calls' = { M[x] : x \in calls }
  PROVE  /\ calls' \in SUBSET CallOf
         /\ \A x \in calls : \E y \in calls' : SameCall(x, y)
         /\ \A y, z \in calls' : y.n = z.n => y = z
<1>1. \A x, y \in calls : x.n = y.n => x = y
  BY DEF FormInv, CallsInv
<1>2. \A x \in calls : M[x].n = x.n
  BY DEF SameCall
<1>3. ASSUME NEW y \in calls', NEW z \in calls', y.n = z.n
      PROVE  y = z
  <2>1. PICK v \in calls, w \in calls : y = M[v] /\ z = M[w]
    OBVIOUS
  <2>2. v.n = w.n
    BY <1>2, <1>3, <2>1
  <2> QED
    BY <1>1, <2>1, <2>2
<1> QED
  BY <1>3

LEMMA ServeKeeps ==
  ASSUME FormInv, Serve
  PROVE  FormInv'
<1>1. FormTypeOK /\ CallsInv /\ WriteInv /\ FreshInv /\ KeepInv
  BY DEF FormInv
<1>2. /\ stored \in [section.rows -> Values] /\ calls \in SUBSET CallOf
      /\ UNCHANGED << section, shown, got, flag, sent, typed, watch >>
  BY <1>1 DEF FormTypeOK, Serve
<1>4. PICK c \in calls :
        /\ c.step = "sent"
        /\ IF c.kind = "load"
           THEN /\ calls' = (calls \ {c}) \cup {[c EXCEPT !.step = "back", !.values = stored]}
                /\ UNCHANGED stored
           ELSE /\ stored' = Over(c.values, stored)
                /\ calls' = { IF Writes(c) /\ x.step = "back" THEN [x EXCEPT !.stale = TRUE] ELSE x : x \in calls \ {c} }
                            \cup {[c EXCEPT !.step = "back"]}
  BY DEF Serve
<1>5. CASE c.kind = "load"
  <2>1. PICK e \in CallOf : /\ SameCall(c, e) /\ e.kind = "load" /\ e.values = stored
                          /\ calls' = (calls \ {c}) \cup {e} /\ stored' = stored
    <3> DEFINE e == [c EXCEPT !.step = "back", !.values = stored]
    <3>1. stored \in Partial
      BY <1>2, PartialIs
    <3>2. e \in CallOf /\ SameCall(c, e) /\ e.kind = "load" /\ e.values = stored
      BY <1>2, <1>5, <3>1 DEF CallOf, SameCall
    <3>3. calls' = (calls \ {c}) \cup {e} /\ stored' = stored
      BY <1>4, <1>5
    <3> HIDE DEF e
    <3> QED
      BY <3>2, <3>3
  <2>2. PICK M : /\ calls' = { M[x] : x \in calls } /\ M[c] = e /\ \A x \in calls \ {c} : M[x] = x
    <3> DEFINE M == [x \in calls |-> IF x = c THEN e ELSE x]
    <3>1. calls' = { M[x] : x \in calls } /\ M[c] = e /\ \A x \in calls \ {c} : M[x] = x
      BY <2>1
    <3> HIDE DEF M
    <3> QED
      BY <3>1
  <2>3. \A x \in calls : M[x] \in CallOf /\ SameCall(x, M[x])
    BY <1>2, <2>1, <2>2 DEF SameCall
  <2>4. /\ calls' \in SUBSET CallOf
        /\ \A x \in calls : \E y \in calls' : SameCall(x, y)
        /\ \A y, z \in calls' : y.n = z.n => y = z
    BY <2>2, <2>3, MovesAre
  <2>5. ~Writes(c) /\ ~Writes(e)
    BY <1>5, <2>1 DEF Writes
  <2>6. \A y \in calls' : \E x \in calls : SameCall(x, y) /\ (KeepsSaves /\ Writes(x) => y.stale = x.stale)
    BY <2>2, <2>3, <2>5
  <2>7. \A y \in calls' : y.kind = "load" /\ y.step = "back" => y.values \in [section.rows -> Values]
    BY <1>1, <1>2, <2>1 DEF CallsInv
  <2>8. \A y \in calls' : Writes(y) /\ y.step = "back" => \A r \in y.for \ watch.twice : stored'[r] = y.values[r]
    BY <1>1, <2>1, <2>5 DEF WriteInv
  <2>9. FreshInv'
    BY <1>1, <2>1 DEF FreshInv
  <2> QED
    BY <1>2, <2>1, <2>4, <2>6, <2>7, <2>8, <2>9, CallsMoveOn
<1>6. CASE c.kind = "deed"
  <2> DEFINE e == [c EXCEPT !.step = "back"]
             G(x) == IF Writes(c) /\ x.step = "back" THEN [x EXCEPT !.stale = TRUE] ELSE x
  <2>1. e \in CallOf /\ SameCall(c, e) /\ e.values = c.values /\ e.stale = c.stale /\ e.step = "back"
    BY <1>2 DEF CallOf, SameCall
  <2>2. \A x \in calls : /\ G(x) \in CallOf /\ SameCall(x, G(x)) /\ G(x).values = x.values /\ G(x).step = x.step
                         /\ G(x).stale = IF Writes(c) /\ x.step = "back" THEN TRUE ELSE x.stale
    <3> TAKE x \in calls
    <3>1. x \in CallOf
      BY <1>2
    <3>2. CASE Writes(c) /\ x.step = "back"
      <4>1. G(x) = [x EXCEPT !.stale = TRUE]
        BY <3>2
      <4> QED
        BY <3>1, <3>2, <4>1 DEF CallOf, SameCall
    <3>3. CASE ~(Writes(c) /\ x.step = "back")
      BY <3>1, <3>3 DEF SameCall
    <3> QED
      BY <3>2, <3>3
  <2>3. calls' = { G(x) : x \in calls \ {c} } \cup {e} /\ stored' = Over(c.values, stored)
    BY <1>4, <1>6
  <2>4. c.kind # "load"
    BY <1>6
  <2> HIDE DEF e, G
  <2>5. PICK M : /\ calls' = { M[x] : x \in calls } /\ M[c] = e /\ \A x \in calls \ {c} : M[x] = G(x)
    <3> DEFINE M == [x \in calls |-> IF x = c THEN e ELSE G(x)]
    <3>1. calls' = { M[x] : x \in calls } /\ M[c] = e /\ \A x \in calls \ {c} : M[x] = G(x)
      BY <2>3
    <3> HIDE DEF M
    <3> QED
      BY <3>1
  <2>6. \A x \in calls : M[x] \in CallOf /\ SameCall(x, M[x]) /\ M[x].values = x.values
    <3> TAKE x \in calls
    <3>1. CASE x = c
      <4>1. M[x] = e
        BY <2>5, <3>1
      <4> QED
        BY <2>1, <3>1, <4>1
    <3>2. CASE x # c
      <4>1. M[x] = G(x)
        BY <2>5, <3>2
      <4> QED
        BY <2>2, <4>1
    <3> QED
      BY <3>1, <3>2
  <2>7. /\ calls' \in SUBSET CallOf
        /\ \A x \in calls : \E y \in calls' : SameCall(x, y)
        /\ \A y, z \in calls' : y.n = z.n => y = z
    BY <2>5, <2>6, MovesAre
  <2>8. \A y \in calls' : \E x \in calls : SameCall(x, y) /\ (KeepsSaves /\ Writes(x) => y.stale = x.stale)
    <3> TAKE y \in calls'
    <3>1. PICK x \in calls : y = M[x]
      BY <2>5
    <3>2. CASE x = c
      BY <2>1, <2>5, <2>6, <3>1, <3>2
    <3>3. CASE x # c
      <4>1. y = G(x)
        BY <2>5, <3>1, <3>3
      <4>2. KeepsSaves /\ Writes(x) => ~Writes(c)
        BY <1>1, <3>3 DEF KeepInv
      <4>3. KeepsSaves /\ Writes(x) => y.stale = x.stale
        BY <2>2, <4>1, <4>2
      <4> QED
        BY <2>6, <3>1, <4>3
    <3> QED
      BY <3>2, <3>3
  <2>9. c.values \in [c.for -> Values] /\ c.for \in SUBSET section.rows
    <3>1. c.values \in Partial /\ DOMAIN c.values = c.for /\ c.for \in SUBSET section.rows
      BY <1>1, <1>2, <1>6 DEF CallsInv, DeedIsSound, CallOf
    <3> QED
      BY <3>1, PartialIs
  <2>10. /\ stored' \in [section.rows -> Values] /\ \A r \in c.for : stored'[r] = c.values[r]
         /\ \A r \in section.rows \ c.for : stored'[r] = stored[r]
    <3> DEFINE a == Over(c.values, stored)
    <3>1. a = [r \in c.for \cup section.rows |-> IF r \in c.for THEN c.values[r] ELSE stored[r]]
      BY <1>2, <2>9 DEF Over
    <3>2. c.for \cup section.rows = section.rows
      BY <2>9
    <3>3. stored' = a
      BY <2>3
    <3> HIDE DEF a
    <3> QED
      BY <1>2, <2>9, <3>1, <3>2, <3>3
  <2>12. \A r \in section.rows : ~BeingWritten(r) => stored'[r] = stored[r]
    BY <1>6, <2>10 DEF BeingWritten, Writes
  <2>13. ~Writes(c) => c.for = {} /\ stored' = stored
    <3>1. ~Writes(c) => c.for = {}
      BY <1>6 DEF Writes
    <3> QED
      BY <1>2, <2>10, <3>1
  <2>14. \A y \in calls' : y.kind = "load" /\ y.step = "back" => y.values \in [section.rows -> Values]
    <3> SUFFICES ASSUME NEW y \in calls', y.kind = "load", y.step = "back"
                 PROVE  y.values \in [section.rows -> Values]
      OBVIOUS
    <3>1. PICK x \in calls : y = M[x]
      BY <2>5
    <3>2. x.kind = "load" /\ x # c /\ y = G(x)
      BY <1>6, <2>5, <2>6, <3>1 DEF SameCall
    <3> QED
      BY <1>1, <2>2, <3>2 DEF CallsInv
  <2>15. \A y \in calls' : Writes(y) /\ y.step = "back" => \A r \in y.for \ watch.twice : stored'[r] = y.values[r]
    <3> SUFFICES ASSUME NEW y \in calls', Writes(y), y.step = "back", NEW r \in y.for \ watch.twice
                 PROVE  stored'[r] = y.values[r]
      OBVIOUS
    <3>1. PICK x \in calls : y = M[x]
      BY <2>5
    <3>2. Writes(x) /\ x.for = y.for /\ x.values = y.values
      BY <2>6, <3>1 DEF SameCall, Writes
    <3>3. CASE x = c
      BY <2>10, <3>2, <3>3
    <3>4. CASE x # c
      <4>1. x.step = "back"
        BY <2>2, <2>5, <3>1, <3>4
      <4>2. /\ stored[r] = x.values[r]
            /\ \A d \in calls : Writes(d) /\ r \in d.for => d = x
        BY <1>1, <3>2, <4>1 DEF WriteInv
      <4>3. r \notin c.for
        BY <1>6, <3>4, <4>2 DEF Writes
      <4>4. r \in section.rows
        BY <1>2, <3>2 DEF CallOf
      <4> QED
        BY <2>10, <3>2, <4>2, <4>3, <4>4
    <3> QED
      BY <3>3, <3>4
  <2>16. FreshInv'
    <3>1. ASSUME NEW y \in calls', y.step = "back", ~y.stale
          PROVE  /\ y.kind = "load" => y.values = stored'
                 /\ y.kind = "deed" => \A r \in y.for : stored'[r] = y.values[r]
      <4>1. PICK x \in calls : y = M[x]
        BY <2>5
      <4>2. CASE x = c
        <5>1. y.kind = "deed" /\ y.for = c.for /\ y.values = c.values
          BY <1>6, <2>6, <4>1, <4>2 DEF SameCall
        <5> QED
          BY <2>10, <5>1
      <4>3. CASE x # c
        <5>1. y = G(x)
          BY <2>5, <4>1, <4>3
        <5>2. x.step = "back" /\ ~Writes(c) /\ ~x.stale
          BY <2>2, <3>1, <5>1
        <5>3. y.kind = x.kind /\ y.for = x.for /\ y.values = x.values
          BY <2>6, <4>1 DEF SameCall
        <5> QED
          BY <1>1, <2>13, <5>2, <5>3 DEF FreshInv
      <4> QED
        BY <4>2, <4>3
    <3> QED
      BY <3>1 DEF FreshInv
  <2> QED
    BY <1>2, <2>7, <2>8, <2>10, <2>12, <2>14, <2>15, <2>16, CallsMoveOn
<1> QED
  BY <1>2, <1>5, <1>6 DEF CallOf

LEMMA BreakKeeps ==
  ASSUME FormInv, Break
  PROVE  FormInv'
<1>1. FormTypeOK /\ CallsInv /\ WriteInv /\ FreshInv
  BY DEF FormInv
<1>2. /\ stored \in [section.rows -> Values] /\ calls \in SUBSET CallOf
      /\ UNCHANGED << section, stored, shown, got, flag, sent, typed, watch >>
  BY <1>1 DEF FormTypeOK, Break
<1>3. PICK c \in calls : calls' = (calls \ {c}) \cup {[c EXCEPT !.step = "error"]}
  BY DEF Break
<1>4. PICK e \in CallOf : SameCall(c, e) /\ e.stale = c.stale /\ e.step = "error" /\ calls' = (calls \ {c}) \cup {e}
  <2> DEFINE e == [c EXCEPT !.step = "error"]
  <2>1. e \in CallOf /\ SameCall(c, e) /\ e.stale = c.stale /\ e.step = "error"
    BY <1>2 DEF CallOf, SameCall
  <2>2. calls' = (calls \ {c}) \cup {e}
    BY <1>3
  <2> HIDE DEF e
  <2> QED
    BY <2>1, <2>2
<1>5. PICK M : /\ calls' = { M[x] : x \in calls } /\ M[c] = e /\ \A x \in calls \ {c} : M[x] = x
  <2> DEFINE M == [x \in calls |-> IF x = c THEN e ELSE x]
  <2>1. calls' = { M[x] : x \in calls } /\ M[c] = e /\ \A x \in calls \ {c} : M[x] = x
    BY <1>4
  <2> HIDE DEF M
  <2> QED
    BY <2>1
<1>6. \A x \in calls : M[x] \in CallOf /\ SameCall(x, M[x])
  BY <1>2, <1>4, <1>5 DEF SameCall
<1>7. /\ calls' \in SUBSET CallOf
      /\ \A x \in calls : \E y \in calls' : SameCall(x, y)
      /\ \A y, z \in calls' : y.n = z.n => y = z
  BY <1>5, <1>6, MovesAre
<1>8. \A y \in calls' : \E x \in calls : SameCall(x, y) /\ (KeepsSaves /\ Writes(x) => y.stale = x.stale)
  BY <1>4, <1>5, <1>6
<1>9. \A y \in calls' : y.step # "error" => y \in calls
  BY <1>4
<1>10. \A y \in calls' : y.kind = "load" /\ y.step = "back" => y.values \in [section.rows -> Values]
  BY <1>1, <1>9 DEF CallsInv
<1>11. \A y \in calls' : Writes(y) /\ y.step = "back" => \A r \in y.for \ watch.twice : stored'[r] = y.values[r]
  BY <1>1, <1>2, <1>9 DEF WriteInv
<1>12. FreshInv'
  BY <1>1, <1>2, <1>9 DEF FreshInv
<1> QED
  BY <1>2, <1>7, <1>8, <1>10, <1>11, <1>12, CallsMoveOn
(* A load is answered.                                                       *)
LEMMA LoadReturnsKeeps ==
  ASSUME FormInv, LoadReturns
  PROVE  FormInv'
<1>1. FormTypeOK /\ CallsInv /\ FlagInv /\ WriteInv /\ FreshInv /\ KeepInv /\ ShowInv
  BY DEF FormInv
<1>2. /\ section \in FormSections /\ stored \in [section.rows -> Values] /\ shown \in [section.rows -> Values]
      /\ calls \in SUBSET CallOf /\ typed \in SUBSET section.rows /\ watch \in WatchOf /\ sent \in Nat
      /\ got' = TRUE /\ UNCHANGED << section, stored, sent >>
  BY <1>1 DEF FormTypeOK, LoadReturns
<1>3. PICK c \in calls :
        /\ c.kind = "load" /\ c.step = "back"
        /\ LET kept == IF section.panel THEN typed \ c.for ELSE {}
           IN  /\ shown' = [r \in section.rows |-> IF r \in kept THEN shown[r] ELSE c.values[r]]
               /\ typed' = kept
               /\ watch' = [watch EXCEPT !.doubt = IF c.stale THEN section.rows
                                                   ELSE { r \in section.rows : Writing(r) # {} }]
               /\ calls' = calls \ {c}
               /\ flag' = IF c.ends THEN Lowered(c) ELSE flag
  BY DEF LoadReturns
<1> DEFINE doubt == IF c.stale THEN section.rows ELSE { r \in section.rows : Writing(r) # {} }
<1>4. /\ doubt \in SUBSET section.rows /\ c.values \in [section.rows -> Values]
      /\ c.stale => doubt = section.rows
      /\ \A x \in calls : Writes(x) => \A r \in x.for : r \in section.rows => r \in doubt
  BY <1>1, <1>3 DEF CallsInv, Writing
<1>5. watch' = [watch EXCEPT !.doubt = doubt]
  BY <1>3
<1> HIDE DEF doubt
<1>6. /\ watch' \in WatchOf /\ watch'.doubt = doubt
      /\ watch'.asked = watch.asked /\ watch'.twice = watch.twice /\ watch'.blind = watch.blind /\ watch'.failed = watch.failed
  BY <1>2, <1>4, <1>5 DEF WatchOf
<1>7. /\ typed' \in SUBSET section.rows /\ shown' \in [section.rows -> Values]
      /\ \A r \in section.rows \ typed' : shown'[r] = c.values[r]
  BY <1>2, <1>3, <1>4
<1>8. calls' = calls \ {c} /\ flag' = IF c.ends THEN Lowered(c) ELSE flag
  BY <1>3
<1>9. ~Writes(c)
  BY <1>3 DEF Writes
<1>10. FormTypeOK'
  BY <1>2, <1>6, <1>7, <1>8 DEF FormTypeOK, CallOf, WatchOf, Partial
<1>11. CallsInv'
  BY <1>1, <1>2, <1>8 DEF CallsInv, DeedIsSound
<1>12. FlagInv'
  BY <1>1, <1>2, <1>6, <1>8 DEF FlagInv
<1>13. WriteInv'
  BY <1>1, <1>2, <1>6, <1>8, <1>9 DEF WriteInv, BeingWritten, Writes
<1>14. FreshInv'
  BY <1>1, <1>2, <1>8 DEF FreshInv
<1>15. KeepInv'
  <2> SUFFICES ASSUME KeepsSaves
               PROVE  /\ \A x \in calls' : x.kind = "load" => ~x.ends
                      /\ \A x, y \in calls' : Writes(x) /\ Writes(y) => x = y
                      /\ \A x \in calls' : Writes(x) /\ section.gate = "save" => "save" \in flag'
                      /\ \A x \in calls' : Writes(x) => ~x.stale
                      /\ \A x \in calls' : Writes(x) => \A r \in x.for \ (typed' \cup watch'.doubt) : shown'[r] = x.values[r]
    BY <1>2 DEF KeepInv, KeepsSaves, Writes
  <2>1. flag' = flag
    BY <1>1, <1>3, <1>8 DEF KeepInv
  <2>2. \A x \in calls' : Writes(x) => \A r \in x.for : r \in watch'.doubt
    BY <1>2, <1>4, <1>6, <1>8 DEF CallOf
  <2> QED
    BY <1>1, <1>8, <2>1, <2>2 DEF KeepInv
<1>16. ShowInv'
  <2> SUFFICES ASSUME NEW r \in section.rows \ (typed' \cup doubt)
               PROVE  shown'[r] = stored[r]
    BY <1>2, <1>6 DEF ShowInv
  <2>1. c.values = stored
    BY <1>1, <1>3, <1>4 DEF FreshInv
  <2> QED
    BY <1>7, <2>1
<1> QED
  BY <1>10, <1>11, <1>12, <1>13, <1>14, <1>15, <1>16 DEF FormInv

(* When the one who changed a row has answered, the row holds what was asked. *)
LEMMA WritersLeave ==
  ASSUME FormInv, NEW c \in calls, c.kind = "deed", c.step = "back",
         NEW r \in DOMAIN watch.asked \ watch.twice, r \in watch.failed => r \in c.for,
         \A x \in calls \ {c} : ~(Writes(x) /\ r \in x.for)
  PROVE  stored[r] = watch.asked[r]
<1>1. WriteInv
  BY DEF FormInv
<1>2. CASE r \in c.for
  <2>1. Writes(c)
    BY <1>2 DEF Writes
  <2> QED
    BY <1>1, <1>2, <2>1 DEF WriteInv
<1>3. CASE r \notin c.for
  <2>1. ~BeingWritten(r)
    BY <1>3 DEF BeingWritten
  <2> QED
    BY <1>1, <1>3, <2>1 DEF WriteInv
<1> QED
  BY <1>2, <1>3

(* What is alike in the answers to a button.                                 *)
LEMMA DeedsAnswered ==
  ASSUME FormInv, NEW c \in calls, c.kind = "deed", c.step = "back",
         NEW l, NEW loads \in SUBSET {l}, calls' = (calls \ {c}) \cup loads,
         l \in CallOf /\ l.n = sent + 1 /\ l.kind = "load" /\ l.step = "sent",
         sent' \in Nat, sent' >= sent, loads # {} => sent' = sent + 1,
         UNCHANGED << section, stored, got >>,
         shown' \in [section.rows -> Values], typed' \in SUBSET section.rows,
         watch' \in WatchOf, watch'.asked = watch.asked, watch'.twice = watch.twice, watch'.blind = watch.blind,
         \A r \in watch.failed : r \in watch'.failed \/ r \in c.for,
         loads # {} => flag' = flag
  PROVE  FormTypeOK' /\ CallsInv' /\ FlagInv' /\ WriteInv' /\ FreshInv'
<1>1. FormTypeOK /\ CallsInv /\ FlagInv /\ WriteInv /\ FreshInv
  BY DEF FormInv
<1>2. calls \in SUBSET CallOf /\ sent \in Nat
  BY <1>1 DEF FormTypeOK
<1>3. DeedIsSound(c) /\ c.ends
  BY <1>1 DEF CallsInv, DeedIsSound
<1>4. FormTypeOK'
  BY <1>1 DEF FormTypeOK, CallOf, WatchOf, Partial
<1>5. CallsInv'
  <2>1. \A x \in calls : x.n \in Nat /\ x.n <= sent
    BY <1>1, <1>2 DEF CallsInv, CallOf
  <2>2. \A x \in calls : x.n <= sent' /\ x.n # l.n
    BY <1>2, <2>1
  <2>3. \A x \in loads : x = l /\ x.n <= sent'
    BY <1>2
  <2>4. \A x \in calls : x.kind = "deed" => DeedIsSound(x)'
    BY <1>1 DEF CallsInv, DeedIsSound
  <2>5. \A x \in calls : x.kind = "load" /\ x.step = "back" => x.values \in [section'.rows -> Values]
    BY <1>1 DEF CallsInv
  <2>6. \A x, y \in calls : x.n = y.n => x = y
    BY <1>1 DEF CallsInv
  <2>7. \A x \in calls' : x \in calls \/ (x = l /\ x \in loads)
    BY <2>3
  <2>8. \A x, y \in calls' : x.n = y.n => x = y
    BY <2>2, <2>6, <2>7
  <2>9. \A x \in calls' : x.n <= sent'
    BY <2>2, <2>3, <2>7
  <2>10. \A x \in calls' : x.kind = "deed" => DeedIsSound(x)'
    BY <2>4, <2>7
  <2>11. \A x \in calls' : x.kind = "load" /\ x.step = "back" => x.values \in [section'.rows -> Values]
    BY <2>5, <2>7
  <2> QED
    BY <2>8, <2>9, <2>10, <2>11 DEF CallsInv
<1>6. FlagInv'
  <2> SUFFICES ASSUME section.gate = "section"
               PROVE  /\ \A x, y \in calls' : x.ends /\ y.ends => x = y
                      /\ \A x \in calls' : x.ends => flag' # {}
                      /\ watch'.twice = {}
    BY DEF FlagInv
  <2>1. (\A x, y \in calls : x.ends /\ y.ends => x = y) /\ flag # {} /\ watch.twice = {}
    BY <1>1, <1>3 DEF FlagInv
  <2>2. \A x \in calls' : x.ends => x = l /\ loads # {}
    BY <1>3, <2>1
  <2> QED
    BY <2>1, <2>2
<1>7. ~Writes(l)
  BY DEF Writes
<1>8. WriteInv'
  <2>1. section.waits => watch'.blind = {}
    BY <1>1 DEF WriteInv
  <2>2. \A x \in calls' : Writes(x) => x \in calls \ {c}
    BY <1>7
  <2>3. ASSUME NEW x \in calls', Writes(x), NEW r \in x.for \ watch'.twice
        PROVE  /\ r \in DOMAIN watch'.asked /\ watch'.asked[r] = x.values[r]
               /\ \A d \in calls' : Writes(d) /\ r \in d.for => d = x
               /\ x.step = "back" => stored[r] = x.values[r]
    BY <1>1, <2>2, <2>3 DEF WriteInv
  <2>4. ASSUME NEW r \in DOMAIN watch'.asked \ (watch'.twice \cup watch'.failed), ~BeingWritten(r)'
        PROVE  stored[r] = watch'.asked[r]
    <3>1. r \in DOMAIN watch.asked \ watch.twice /\ (r \in watch.failed => r \in c.for)
      BY <2>4
    <3>2. \A x \in calls \ {c} : ~(Writes(x) /\ r \in x.for)
      BY <2>4 DEF BeingWritten, Writes
    <3> QED
      BY <3>1, <3>2, WritersLeave
  <2> QED
    BY <2>1, <2>3, <2>4 DEF WriteInv, Writes
<1>9. FreshInv'
  BY <1>1 DEF FreshInv
<1> QED
  BY <1>4, <1>5, <1>6, <1>8, <1>9
LEMMA DeedReturnsKeeps ==
  ASSUME FormInv, DeedReturns
  PROVE  FormInv'
<1>1. FormTypeOK /\ CallsInv /\ FlagInv /\ WriteInv /\ FreshInv /\ KeepInv /\ ShowInv
  BY DEF FormInv
<1>2. /\ section \in FormSections /\ stored \in [section.rows -> Values] /\ shown \in [section.rows -> Values]
      /\ got \in BOOLEAN /\ sent \in Nat /\ calls \in SUBSET CallOf /\ typed \in SUBSET section.rows /\ watch \in WatchOf
      /\ UNCHANGED << section, stored, got >>
  BY <1>1 DEF FormTypeOK, DeedReturns
<1>3. PICK c \in calls :
        /\ c.kind = "deed" /\ c.step = "back"
        /\ CASE c.then = "echo" -> EchoReturns(c)
             [] c.then = "keep" -> KeepReturns(c)
             [] c.then = "leave" -> LeaveReturns(c)
             [] OTHER -> ReloadReturns(c)
  BY DEF DeedReturns
<1>4. DeedIsSound(c) /\ c.for \in SUBSET section.rows /\ c.then \in Thens
  BY <1>1, <1>2, <1>3 DEF CallsInv, CallOf
<1>5. c.values \in [c.for -> Values]
  BY <1>2, <1>4, PartialIs DEF CallOf, DeedIsSound
<1>6. \A r \in c.for : ~c.stale => stored[r] = c.values[r]
  BY <1>1, <1>3 DEF FreshInv
<1>7. PICK d \in DOMAIN section.deeds :
        /\ c.then = section.deeds[d] /\ (section.gate # "row" => c.deed = d)
        /\ c.for # {} => d \in {"save", "toggle", "reset", "clear"}
        /\ d = "save" => c.for # {}
  BY <1>4 DEF DeedIsSound
<1>8. /\ section.deeds[d] = "keep" => d \in {"save", "test"}
      /\ section.deeds[d] = "leave" => d = "test"
      /\ KeepsSaves => section.gate \in {"section", "save"} /\ c.then = "keep"
  BY <1>2, <1>7, SectionKinds DEF KeepsSaves
<1>9. PICK l \in CallOf : /\ l.n = sent + 1 /\ l.kind = "load" /\ l.step = "sent" /\ l.for = c.for
                        /\ l = [Load(sent + 1, TRUE, c.for) EXCEPT !.deed = c.deed, !.then = c.then]
  <2> DEFINE l == [Load(sent + 1, TRUE, c.for) EXCEPT !.deed = c.deed, !.then = c.then]
  <2>1. sent + 1 \in Nat /\ Load(sent + 1, TRUE, c.for) \in CallOf
    <3>1. sent + 1 \in Nat /\ TRUE \in BOOLEAN /\ c.for \in SUBSET section.rows
      BY <1>2, <1>4
    <3>2. Load(sent + 1, TRUE, c.for) \in CallOf
      BY <3>1, LoadsTyped
    <3> QED
      BY <3>1, <3>2
  <2>2. Load(sent + 1, TRUE, c.for).n = sent + 1 /\ Load(sent + 1, TRUE, c.for).kind = "load"
        /\ Load(sent + 1, TRUE, c.for).step = "sent" /\ Load(sent + 1, TRUE, c.for).for = c.for
    BY DEF Load
  <2>3. c.deed \in DeedNames \cup {Whole} \cup section.rows /\ c.then \in Thens
    BY <1>2, <1>4 DEF CallOf
  <2>4. l \in CallOf
    BY <2>1, <2>3 DEF CallOf
  <2>5. l.n = sent + 1 /\ l.kind = "load" /\ l.step = "sent" /\ l.for = c.for
    BY <2>1, <2>2 DEF CallOf
  <2> HIDE DEF l
  <2>6. l = [Load(sent + 1, TRUE, c.for) EXCEPT !.deed = c.deed, !.then = c.then]
    BY DEF l
  <2> QED
    BY <2>4, <2>5, <2>6
<1>10. PICK w \in WatchOf : /\ w = Settled(c) /\ w.asked = watch.asked /\ w.twice = watch.twice /\ w.blind = watch.blind
                          /\ w.failed = watch.failed \ c.for /\ w.doubt = watch.doubt
  <2> DEFINE w == Settled(c)
  <2>1. /\ w \in WatchOf /\ w.asked = watch.asked /\ w.twice = watch.twice /\ w.blind = watch.blind
        /\ w.failed = watch.failed \ c.for /\ w.doubt = watch.doubt
    BY <1>2 DEF Settled, WatchOf
  <2> HIDE DEF w
  <2>2. w = Settled(c)
    BY DEF w
  <2> QED
    BY <2>1, <2>2
<1>11. sent >= sent /\ {} \in SUBSET {l} /\ {l} \in SUBSET {l} /\ sent + 1 >= sent /\ sent + 1 \in Nat
  BY <1>2
<1>12. CASE c.then = "echo"
  <2>1. EchoReturns(c)
    BY <1>3, <1>12
  <2>2. /\ shown' = [r \in section.rows |-> IF r \in c.for THEN c.values[r] ELSE shown[r]]
        /\ typed' = typed \ c.for /\ calls' = calls \ {c} /\ sent' = sent
    BY <2>1 DEF EchoReturns
  <2>3. /\ watch' \in WatchOf /\ watch'.asked = watch.asked /\ watch'.twice = watch.twice /\ watch'.blind = watch.blind
        /\ watch'.failed = watch.failed \ c.for
        /\ watch'.doubt = IF c.stale THEN watch.doubt \cup c.for ELSE watch.doubt \ c.for
    <3> DEFINE doubt == IF c.stale THEN watch.doubt \cup c.for ELSE watch.doubt \ c.for
    <3>1. doubt \in SUBSET section.rows
      BY <1>2, <1>4 DEF WatchOf
    <3>2. watch' = [w EXCEPT !.doubt = doubt]
      BY <1>10, <2>1 DEF EchoReturns
    <3> HIDE DEF doubt
    <3>3. /\ watch' \in WatchOf /\ watch'.asked = w.asked /\ watch'.twice = w.twice /\ watch'.blind = w.blind
          /\ watch'.failed = w.failed /\ watch'.doubt = doubt
      BY <3>1, <3>2 DEF WatchOf
    <3> QED
      BY <1>10, <3>3 DEF doubt
  <2>4. /\ shown' \in [section.rows -> Values] /\ \A r \in c.for : shown'[r] = c.values[r]
        /\ \A r \in section.rows \ c.for : shown'[r] = shown[r]
    BY <1>2, <1>4, <1>5, <2>2
  <2>5. typed' \in SUBSET section.rows /\ calls' = (calls \ {c}) \cup {}
    BY <1>2, <2>2
  <2>6. FormTypeOK' /\ CallsInv' /\ FlagInv' /\ WriteInv' /\ FreshInv'
    BY <1>2, <1>3, <1>9, <1>11, <2>2, <2>3, <2>4, <2>5, DeedsAnswered
  <2>7. KeepInv'
    BY <1>2, <1>8, <1>12 DEF KeepInv, KeepsSaves
  <2>8. ShowInv'
    <3> SUFFICES ASSUME got, NEW r \in section.rows \ (typed' \cup watch'.doubt), ~Awaited(r)'
                 PROVE  shown'[r] = stored[r]
      BY <1>2 DEF ShowInv
    <3>1. CASE r \in c.for
      BY <1>6, <2>3, <2>4, <3>1
    <3>2. CASE r \notin c.for
      <4>1. ~Awaited(r)
        BY <2>2, <3>2 DEF Awaited
      <4> QED
        BY <1>1, <2>2, <2>3, <2>4, <3>2, <4>1 DEF ShowInv
    <3> QED
      BY <3>1, <3>2
  <2> QED
    BY <2>6, <2>7, <2>8 DEF FormInv
<1>13. CASE c.then = "keep"
  <2>1. KeepReturns(c)
    BY <1>3, <1>13
  <2>2. /\ typed' = { r \in typed : r \notin c.for \/ shown[r] # c.values[r] } /\ watch' = w
        /\ flag' = Lowered(c) /\ calls' = calls \ {c} /\ shown' = shown /\ sent' = sent
    BY <1>10, <2>1 DEF KeepReturns
  <2>3. typed' \in SUBSET section.rows /\ calls' = (calls \ {c}) \cup {}
    BY <1>2, <2>2
  <2>4. FormTypeOK' /\ CallsInv' /\ FlagInv' /\ WriteInv' /\ FreshInv'
    BY <1>2, <1>3, <1>9, <1>10, <1>11, <2>2, <2>3, DeedsAnswered
  <2>5. c.for # {} => KeepsSaves /\ Writes(c)
    BY <1>3, <1>7, <1>8, <1>13 DEF KeepsSaves, Writes
  <2>6. KeepInv'
    <3> SUFFICES ASSUME KeepsSaves
                 PROVE  /\ \A x \in calls' : x.kind = "load" => ~x.ends
                        /\ \A x, y \in calls' : Writes(x) /\ Writes(y) => x = y
                        /\ \A x \in calls' : Writes(x) /\ section.gate = "save" => "save" \in flag'
                        /\ \A x \in calls' : Writes(x) => ~x.stale
                        /\ \A x \in calls' : Writes(x) => \A r \in x.for \ (typed' \cup watch'.doubt) : shown'[r] = x.values[r]
      BY <1>2 DEF KeepInv, KeepsSaves, Writes
    <3>1. \A x \in calls' : Writes(x) => c.for = {}
      BY <1>1, <2>2, <2>5 DEF KeepInv
    <3>2. c.for = {} => typed' = typed
      BY <2>2
    <3>3. \A x \in calls' : Writes(x) /\ section.gate = "save" => "save" \in flag'
      <4>1. section.gate = "save" /\ c.for = {} => flag' = flag \ {c.deed} /\ c.deed # "save"
        BY <1>7, <2>2 DEF Lowered, OwnFlags
      <4> QED
        BY <1>1, <2>2, <3>1, <4>1 DEF KeepInv
    <3> QED
      BY <1>1, <1>10, <2>2, <3>1, <3>2, <3>3 DEF KeepInv
  <2>7. ShowInv'
    <3> SUFFICES ASSUME got, NEW r \in section.rows \ (typed' \cup watch'.doubt), ~Awaited(r)'
                 PROVE  shown[r] = stored[r]
      BY <1>2, <2>2 DEF ShowInv
    <3>1. CASE r \in c.for
      <4>1. ~c.stale
        BY <1>1, <2>5, <3>1 DEF KeepInv
      <4>2. r \notin typed => shown[r] = c.values[r]
        BY <1>1, <1>10, <2>2, <2>5, <3>1 DEF KeepInv
      <4>3. r \in typed => shown[r] = c.values[r]
        BY <2>2, <3>1
      <4> QED
        BY <1>6, <3>1, <4>1, <4>2, <4>3
    <3>2. CASE r \notin c.for
      <4>1. ~Awaited(r)
        BY <2>2, <3>2 DEF Awaited
      <4> QED
        BY <1>1, <1>10, <2>2, <3>2, <4>1 DEF ShowInv
    <3> QED
      BY <3>1, <3>2
  <2> QED
    BY <2>4, <2>6, <2>7 DEF FormInv
<1>14. CASE c.then = "leave"
  <2>1. LeaveReturns(c)
    BY <1>3, <1>14
  <2>2. calls' = calls \ {c} /\ shown' = shown /\ sent' = sent /\ typed' = typed /\ watch' = watch /\ flag' = flag
    BY <2>1 DEF LeaveReturns
  <2>3. calls' = (calls \ {c}) \cup {}
    BY <2>2
  <2>4. FormTypeOK' /\ CallsInv' /\ FlagInv' /\ WriteInv' /\ FreshInv'
    BY <1>2, <1>3, <1>9, <1>11, <2>2, <2>3, DeedsAnswered
  <2>5. KeepInv'
    BY <1>2, <1>8, <1>14 DEF KeepInv, KeepsSaves
  <2>6. c.for = {}
    BY <1>7, <1>8, <1>14
  <2>7. ShowInv'
    BY <1>1, <1>2, <2>2, <2>6 DEF ShowInv, Awaited
  <2> QED
    BY <2>4, <2>5, <2>7 DEF FormInv
<1>15. CASE c.then \in {"reload", "again"}
  <2>1. ReloadReturns(c)
    BY <1>3, <1>15
  <2>2. calls' = (calls \ {c}) \cup {l} /\ sent' = sent + 1 /\ shown' = shown /\ typed' = typed /\ watch' = w /\ flag' = flag
    BY <1>9, <1>10, <2>1 DEF ReloadReturns
  <2>3. FormTypeOK' /\ CallsInv' /\ FlagInv' /\ WriteInv' /\ FreshInv'
    BY <1>2, <1>3, <1>9, <1>10, <1>11, <2>2, DeedsAnswered
  <2>4. KeepInv'
    BY <1>2, <1>8, <1>15 DEF KeepInv, KeepsSaves
  <2>5. \A r : Awaited(r) => Awaited(r)'
    BY <1>9, <2>2 DEF Awaited
  <2>6. ShowInv'
    BY <1>1, <1>2, <1>10, <2>2, <2>5 DEF ShowInv
  <2> QED
    BY <2>3, <2>4, <2>6 DEF FormInv
<1> QED
  BY <1>4, <1>12, <1>13, <1>14, <1>15 DEF Thens

(* An error is told.                                                         *)
LEMMA ErrorReturnsKeeps ==
  ASSUME FormInv, ErrorReturns
  PROVE  FormInv'
<1>1. FormTypeOK /\ CallsInv /\ FlagInv /\ WriteInv /\ FreshInv /\ KeepInv /\ ShowInv
  BY DEF FormInv
<1>2. /\ section \in FormSections /\ calls \in SUBSET CallOf /\ watch \in WatchOf
      /\ UNCHANGED << section, stored, shown, got, sent, later, typed >>
  BY <1>1 DEF FormTypeOK, ErrorReturns
<1>3. PICK c \in calls :
        /\ calls' = calls \ {c}
        /\ flag' = IF c.ends THEN Lowered(c) ELSE flag
        /\ watch' = [watch EXCEPT !.doubt = @ \cup c.for, !.failed = IF c.kind = "deed" THEN @ \cup c.for ELSE @]
  BY DEF ErrorReturns
<1>4. /\ watch' \in WatchOf /\ watch'.asked = watch.asked /\ watch'.twice = watch.twice /\ watch'.blind = watch.blind
      /\ watch'.doubt = watch.doubt \cup c.for
      /\ watch'.failed = IF c.kind = "deed" THEN watch.failed \cup c.for ELSE watch.failed
  <2> DEFINE erring == IF c.kind = "deed" THEN watch.failed \cup c.for ELSE watch.failed
             doubt == watch.doubt \cup c.for
  <2>1. erring \in SUBSET section.rows /\ doubt \in SUBSET section.rows
    BY <1>2 DEF WatchOf, CallOf
  <2>2. watch' = [watch EXCEPT !.doubt = doubt, !.failed = erring]
    BY <1>3
  <2> HIDE DEF erring, doubt
  <2>3. /\ watch' \in WatchOf /\ watch'.asked = watch.asked /\ watch'.twice = watch.twice /\ watch'.blind = watch.blind
        /\ watch'.doubt = doubt /\ watch'.failed = erring
    BY <1>2, <2>1, <2>2 DEF WatchOf
  <2> QED
    BY <2>3 DEF erring, doubt
<1>5. FormTypeOK'
  BY <1>1, <1>2, <1>3, <1>4 DEF FormTypeOK, CallOf, WatchOf, Partial
<1>6. CallsInv'
  BY <1>1, <1>2, <1>3 DEF CallsInv, DeedIsSound
<1>7. FlagInv'
  BY <1>1, <1>2, <1>3, <1>4 DEF FlagInv
<1>8. WriteInv'
  <2>1. ASSUME NEW r \in DOMAIN watch'.asked \ (watch'.twice \cup watch'.failed), ~BeingWritten(r)'
        PROVE  stored[r] = watch'.asked[r]
    <3>1. ~(Writes(c) /\ r \in c.for)
      BY <1>4, <2>1 DEF Writes
    <3>2. ~BeingWritten(r)
      BY <1>3, <2>1, <3>1 DEF BeingWritten, Writes
    <3>3. r \in DOMAIN watch.asked \ (watch.twice \cup watch.failed)
      BY <1>4, <2>1
    <3> QED
      BY <1>1, <1>4, <3>2, <3>3 DEF WriteInv
  <2>2. section.waits => watch'.blind = {}
    BY <1>1, <1>4 DEF WriteInv
  <2>3. \A x \in calls' : Writes(x) => \A r \in x.for \ watch'.twice :
          /\ r \in DOMAIN watch'.asked /\ watch'.asked[r] = x.values[r]
          /\ \A d \in calls' : Writes(d) /\ r \in d.for => d = x
          /\ x.step = "back" => stored[r] = x.values[r]
    BY <1>1, <1>3, <1>4 DEF WriteInv
  <2> QED
    BY <1>2, <2>1, <2>2, <2>3 DEF WriteInv, Writes
<1>9. FreshInv'
  BY <1>1, <1>2, <1>3 DEF FreshInv
<1>10. KeepInv'
  <2> SUFFICES ASSUME KeepsSaves
               PROVE  /\ \A x \in calls' : x.kind = "load" => ~x.ends
                      /\ \A x, y \in calls' : Writes(x) /\ Writes(y) => x = y
                      /\ \A x \in calls' : Writes(x) /\ section.gate = "save" => "save" \in flag'
                      /\ \A x \in calls' : Writes(x) => ~x.stale
                      /\ \A x \in calls' : Writes(x) => \A r \in x.for \ (typed \cup watch'.doubt) : shown[r] = x.values[r]
    BY <1>2 DEF KeepInv, KeepsSaves, Writes
  <2>1. \A x \in calls' : Writes(x) => ~Writes(c)
    BY <1>1, <1>3 DEF KeepInv
  <2>2. ~Writes(c) /\ section.gate = "save" /\ "save" \in flag => "save" \in flag'
    <3> SUFFICES ASSUME ~Writes(c), section.gate = "save", "save" \in flag
                 PROVE  "save" \in flag'
      OBVIOUS
    <3>1. CASE c.ends
      <4>1. c.kind = "deed"
        BY <1>1, <1>2, <3>1 DEF KeepInv, CallOf
      <4>2. c.deed # "save"
        BY <1>1, <4>1 DEF CallsInv, DeedIsSound, Writes
      <4> QED
        BY <1>3, <3>1, <4>2 DEF Lowered, OwnFlags
    <3>2. CASE ~c.ends
      BY <1>3, <3>2
    <3> QED
      BY <3>1, <3>2
  <2>3. \A x \in calls' : Writes(x) /\ section.gate = "save" => "save" \in flag'
    BY <1>1, <1>3, <2>1, <2>2 DEF KeepInv
  <2> QED
    BY <1>1, <1>3, <1>4, <2>3 DEF KeepInv
<1>11. ShowInv'
  <2> SUFFICES ASSUME got, NEW r \in section.rows \ (typed \cup watch'.doubt), ~Awaited(r)'
               PROVE  shown[r] = stored[r]
    BY <1>2 DEF ShowInv
  <2>1. r \notin c.for /\ r \notin watch.doubt
    BY <1>4
  <2>2. ~Awaited(r)
    BY <1>3, <2>1 DEF Awaited
  <2> QED
    BY <1>1, <2>1, <2>2 DEF ShowInv
<1> QED
  BY <1>5, <1>6, <1>7, <1>8, <1>9, <1>10, <1>11 DEF FormInv
(* The forms and their rows agree whatever the order of the answers: a       *)
(* section with one flag changes its rows by one request at a time and they  *)
(* hold what the last press asked for, and when nothing is on its way a row  *)
(* shows what is stored unless the user changed it, a change failed or an    *)
(* answer was overtaken (the save, toggle, clear and load handlers of the    *)
(* pages of the web client).                                                 *)
THEOREM DeskFormsAreSound == Spec => []FormsAreSound
<1>1. Init => FormInv
  <2> SUFFICES ASSUME Init
               PROVE  FormInv
    OBVIOUS
  <2>1. \E s \in FormSections : Opened(s)
    BY DEF Init, NoPages, Page, FormSections
  <2> QED
    BY <2>1, FormOpens
<1>2. FormInv /\ [Next]_vars => FormInv'
  <2> SUFFICES ASSUME FormInv, [Next]_vars
               PROVE  FormInv'
    OBVIOUS
  <2>1. CASE EnterTab
    BY <2>1, LoadsStart DEF EnterTab
  <2>2. CASE LoadLater
    BY <2>2, LoadsStart DEF LoadLater
  <2>3. CASE UNCHANGED formVars
    <3>1. FormTypeOK /\ CallsInv /\ FlagInv /\ WriteInv /\ FreshInv /\ KeepInv /\ ShowInv
      BY DEF FormInv
    <3>2. FormTypeOK'
      BY <2>3, <3>1 DEF FormTypeOK, CallOf, WatchOf, Partial
    <3>3. CallsInv' /\ FlagInv'
      BY <2>3, <3>1 DEF CallsInv, DeedIsSound, FlagInv
    <3>4. WriteInv' /\ FreshInv'
      BY <2>3, <3>1 DEF WriteInv, BeingWritten, Writes, FreshInv
    <3>5. KeepInv' /\ ShowInv'
      BY <2>3, <3>1 DEF KeepInv, KeepsSaves, Writes, ShowInv, Awaited
    <3> QED
      BY <3>2, <3>3, <3>4, <3>5 DEF FormInv
  <2> QED
    BY <2>1, <2>2, <2>3, OneAtATime, TypeKeeps, PressesKeep, ServeKeeps, BreakKeeps, LoadReturnsKeeps,
       DeedReturnsKeeps, ErrorReturnsKeeps DEF NextForm
<1>3. FormInv => FormsAreSound
  <2> SUFFICES ASSUME FormInv
               PROVE  SavesLand /\ FormsShowWhatIsStored
    BY DEF FormsAreSound
  <2>1. CallsInv /\ FlagInv /\ WriteInv /\ ShowInv
    BY DEF FormInv
  <2>2. ASSUME section.gate = "section"
        PROVE  Cardinality({ c \in calls : Writes(c) }) <= 1 /\ watch.twice = {}
    <3> DEFINE W == { c \in calls : Writes(c) }
    <3>1. \A c, d \in W : c = d
      BY <2>1, <2>2 DEF CallsInv, FlagInv, DeedIsSound, Writes
    <3>2. watch.twice = {}
      BY <2>1, <2>2 DEF FlagInv
    <3> HIDE DEF W
    <3>3. Cardinality(W) <= 1
      <4>1. CASE W = {}
        BY <4>1, FS_EmptySet
      <4>2. CASE W # {}
        <5>1. PICK t : W = {t}
          BY <3>1, <4>2
        <5>2. Cardinality({t}) = 1
          BY FS_Singleton
        <5> QED
          BY <5>1, <5>2
      <4> QED
        BY <4>1, <4>2
    <3> QED
      BY <3>2, <3>3 DEF W
  <2>3. section.waits => watch.blind = {}
    BY <2>1 DEF WriteInv
  <2>4. \A r \in DOMAIN watch.asked : r \notin watch.twice \cup watch.failed /\ Writing(r) = {} => stored[r] = watch.asked[r]
    BY <2>1 DEF WriteInv, BeingWritten, Writing
  <2>5. FormsShowWhatIsStored
    BY <2>1 DEF FormsShowWhatIsStored, ShowInv, Awaited
  <2>6. SavesLand
    BY <2>2, <2>3, <2>4 DEF SavesLand
  <2> QED
    BY <2>5, <2>6
<1> QED
  BY <1>1, <1>2, <1>3, PTL DEF Spec
-----------------------------------------------------------------------------
(* The lists of instruments *)

ShelfRows == { RowOf(c, days) : c \in Contracts,
                                days \in {None} \cup { DaysLeft(c.title, Days[i]) : c \in Contracts, i \in DOMAIN Days } }
ContractIds == { c.id : c \in Contracts }
ShelfOf == [on : BOOLEAN, day : DOMAIN Days, stored : SUBSET ShelfRows, kept : [day : Nat, ids : SUBSET ContractIds],
            shown : [by : {"none", "name", "ratio"}, ids : SUBSET ContractIds]]

(* The titles kept of this day have passed.                                  *)
KeptHavePassed ==
  shelf.kept.day = shelf.day =>
    \A id \in shelf.kept.ids : \A c \in Contracts : c.id = id => NamePassed(RowOf(c, None), Today)

ShelfInv == shelf \in ShelfOf /\ shelf.kept.day <= shelf.day /\ KeptHavePassed /\ ListedOpens

LEMMA FirstKnownIs ==
  ASSUME NEW a, NEW b
  PROVE  FirstKnown(<< a, b >>) = IF a # None THEN a ELSE b
<1> DEFINE s == << a, b >>
           known == { i \in DOMAIN s : s[i] # None }
<1>1. DOMAIN s = {1, 2} /\ s[1] = a /\ s[2] = b
  OBVIOUS
<1>2. FirstKnown(s) = IF known = {} THEN None ELSE s[Min(known)]
  BY DEF FirstKnown
<1>3. CASE a # None
  <2>1. 1 \in known /\ \A k \in known : k \in {1, 2}
    BY <1>1, <1>3
  <2> HIDE DEF known
  <2>2. Min(known) = 1
    BY <2>1 DEF Min
  <2> QED
    BY <1>1, <1>2, <1>3, <2>1, <2>2
<1>4. CASE a = None /\ b # None
  <2>1. 2 \in known /\ \A k \in known : k = 2
    BY <1>1, <1>4
  <2> HIDE DEF known
  <2>2. Min(known) = 2
    BY <2>1 DEF Min
  <2> QED
    BY <1>1, <1>2, <1>4, <2>1, <2>2
<1>5. CASE a = None /\ b = None
  <2>1. known = {}
    BY <1>1, <1>5
  <2> QED
    BY <1>2, <1>5, <2>1
<1> QED
  BY <1>3, <1>4, <1>5

(* A row is opened unless the date of its title has come or, when the title  *)
(* has none, the days stored with it are over.                               *)
LEMMA RowsOpen ==
  ASSUME TitlesAgree, NEW i \in DOMAIN Days, NEW r \in ShelfRows
  PROVE  /\ r.id \in ContractIds /\ r.kind = "OPTION"
         /\ \E c \in Contracts : c.id = r.id /\ (NamePassed(r, Days[i]) <=> NamePassed(RowOf(c, None), Days[i]))
         /\ NamePassed(r, Days[i]) => LabelExpired(r, Days[i])
         /\ ~NamePassed(r, Days[i]) /\ ~StoredExpired(r) => ~LabelExpired(r, Days[i])
<1>1. PICK c \in Contracts : \E days : r = RowOf(c, days)
  BY DEF ShelfRows
<1>2. r.id = c.id /\ r.kind = "OPTION" /\ r.title = c.title
  BY <1>1 DEF RowOf
<1>3. RowOf(c, None).title = c.title
  BY DEF RowOf
<1>4. NamePassed(r, Days[i]) <=> NamePassed(RowOf(c, None), Days[i])
  BY <1>2, <1>3 DEF NamePassed
<1> DEFINE left == TitleDays(r, Days[i])
<1>5. ParsedDays(r, Days[i]) = IF left # None THEN left ELSE r.stored
  BY FirstKnownIs DEF ParsedDays
<1>6. CASE r.title = NoDate
  <2>1. left = None /\ ~NamePassed(r, Days[i])
    BY <1>6 DEF TitleDays, NamePassed
  <2> QED
    BY <1>1, <1>2, <1>4, <1>5, <2>1 DEF LabelExpired, StoredExpired, ContractIds
<1>7. CASE r.title # NoDate
  <2>1. left = DaysLeft(c.title, Days[i])
    BY <1>2, <1>7 DEF TitleDays
  <2>2. left # None /\ (NamePassed(r, Days[i]) <=> left <= 0)
    BY <1>2, <1>4, <1>7, <2>1 DEF TitlesAgree
  <2>3. LabelExpired(r, Days[i]) <=> left <= 0
    BY <1>2, <1>5, <2>2 DEF LabelExpired, Expired
  <2> QED
    BY <1>1, <1>2, <1>4, <2>2, <2>3 DEF ContractIds
<1> QED
  BY <1>6, <1>7

(* What a list is made of.                                                   *)
LEMMA ListsKeep ==
  ASSUME TitlesAgree, ShelfInv, ListByName \/ ListByRatio
  PROVE  ShelfInv'
<1>1. /\ shelf \in ShelfOf /\ shelf.day \in DOMAIN Days /\ shelf.stored \in SUBSET ShelfRows
      /\ shelf.kept.ids \in SUBSET ContractIds /\ shelf.kept.day \in Nat
  BY DEF ShelfInv, ShelfOf
<1>2. shelf.day \in Nat
  BY <1>1, ListingAssumption
<1>3. \A r \in shelf.stored :
        /\ r.id \in ContractIds /\ r.kind = "OPTION"
        /\ \E c \in Contracts : c.id = r.id /\ (NamePassed(r, Today) <=> NamePassed(RowOf(c, None), Today))
        /\ NamePassed(r, Today) => LabelExpired(r, Today)
        /\ ~NamePassed(r, Today) /\ ~StoredExpired(r) => ~LabelExpired(r, Today)
  BY <1>1, RowsOpen DEF Today
<1>4. Passed \in SUBSET ContractIds /\ \A id \in Passed : \A c \in Contracts : c.id = id => NamePassed(RowOf(c, None), Today)
  BY <1>3, ListingAssumption DEF Passed
<1>5. KeptTitles \in SUBSET ContractIds /\ \A id \in KeptTitles : \A c \in Contracts : c.id = id => NamePassed(RowOf(c, None), Today)
  BY <1>1, <1>4 DEF KeptTitles, ShelfInv, KeptHavePassed
<1> DEFINE open == { r.id : r \in { s \in shelf.stored : Opens(s) } }
           gone == { r.id : r \in { s \in shelf.stored : StoredExpired(s) } }
<1>6. PICK l \in [by : {"name", "ratio"}, ids : SUBSET ContractIds] :
        /\ l.by = "ratio" => l.ids \subseteq open
        /\ l.by = "name" => open \ gone \subseteq l.ids
        /\ shelf' = [shelf EXCEPT !.kept = [day |-> shelf.day, ids |-> KeptTitles], !.shown = l]
  <2>1. CASE ListByName
    <3> DEFINE ids == { r.id : r \in { s \in shelf.stored : ListedWith(s, KeptTitles) } }
    <3>1. ids \in SUBSET ContractIds
      BY <1>3
    <3>2. open \ gone \subseteq ids
      <4> SUFFICES ASSUME NEW r \in shelf.stored, Opens(r), ~StoredExpired(r)
                   PROVE  r.id \notin KeptTitles
        BY DEF ListedWith
      <4>1. ~NamePassed(r, Today)
        BY <1>3 DEF Opens
      <4> QED
        BY <1>3, <1>5, <4>1
    <3>3. shelf' = [shelf EXCEPT !.kept = [day |-> shelf.day, ids |-> KeptTitles], !.shown = [by |-> "name", ids |-> ids]]
      BY <2>1 DEF ListByName
    <3> HIDE DEF ids, open, gone
    <3> QED
      BY <3>1, <3>2, <3>3
  <2>2. CASE ListByRatio
    <3> DEFINE ids == { r.id : r \in { s \in shelf.stored : Listed(s, Today) } }
    <3>1. ids \in SUBSET ContractIds
      BY <1>3
    <3>2. ids \subseteq open
      BY <1>3 DEF Listed, Opens
    <3>3. shelf' = [shelf EXCEPT !.kept = [day |-> shelf.day, ids |-> KeptTitles], !.shown = [by |-> "ratio", ids |-> ids]]
      BY <2>2 DEF ListByRatio
    <3> HIDE DEF ids, open, gone
    <3> QED
      BY <3>1, <3>2, <3>3
  <2> QED
    BY <2>1, <2>2
<1>7. /\ shelf' \in ShelfOf /\ shelf'.day = shelf.day /\ shelf'.stored = shelf.stored
      /\ shelf'.kept.day = shelf.day /\ shelf'.kept.ids = KeptTitles /\ shelf'.shown = l
  <2>1. [day |-> shelf.day, ids |-> KeptTitles] \in [day : Nat, ids : SUBSET ContractIds]
    BY <1>2, <1>5
  <2> HIDE DEF open, gone
  <2> QED
    BY <1>1, <1>6, <2>1 DEF ShelfOf
<1>8. Today' = Today
  BY <1>7 DEF Today
<1>9. KeptHavePassed'
  BY <1>5, <1>7, <1>8 DEF KeptHavePassed
<1>10. ListedOpens'
  BY <1>6, <1>7, <1>8 DEF ListedOpens, Opens
<1> QED
  BY <1>2, <1>7, <1>9, <1>10 DEF ShelfInv

LEMMA ShelfMoves ==
  ASSUME ShelfInv, StoreContract \/ NextDay \/ Restart
  PROVE  ShelfInv'
<1>1. /\ shelf \in ShelfOf /\ shelf.day \in DOMAIN Days /\ shelf.stored \in SUBSET ShelfRows
      /\ shelf.kept.ids \in SUBSET ContractIds /\ shelf.kept.day \in Nat /\ shelf.kept.day <= shelf.day
  BY DEF ShelfInv, ShelfOf
<1>2. shelf.day \in Nat
  BY <1>1, ListingAssumption
<1>3. NoList \in [by : {"none", "name", "ratio"}, ids : SUBSET ContractIds] /\ NoList.by = "none"
  BY DEF NoList
<1>4. CASE StoreContract
  <2> SUFFICES ASSUME NEW c \in Contracts, NEW days \in {None, DaysLeft(c.title, Today)},
                      shelf' = [shelf EXCEPT !.stored = { r \in @ : r.id # c.id } \cup {RowOf(c, days)}, !.shown = NoList]
               PROVE  ShelfInv'
    BY <1>4 DEF StoreContract
  <2> DEFINE rows == { r \in shelf.stored : r.id # c.id } \cup {RowOf(c, days)}
  <2>1. rows \in SUBSET ShelfRows /\ shelf' = [shelf EXCEPT !.stored = rows, !.shown = NoList]
    <3>1. days \in {None} \cup { DaysLeft(t.title, Days[i]) : t \in Contracts, i \in DOMAIN Days }
      BY <1>1 DEF Today
    <3>2. RowOf(c, days) \in ShelfRows
      BY <3>1 DEF ShelfRows
    <3> QED
      BY <1>1, <3>2
  <2> HIDE DEF rows
  <2>2. shelf' \in ShelfOf /\ shelf'.day = shelf.day /\ shelf'.kept = shelf.kept /\ shelf'.shown = NoList
    BY <1>1, <1>3, <2>1 DEF ShelfOf
  <2>3. Today' = Today
    BY <2>2 DEF Today
  <2>4. KeptHavePassed'
    BY <2>2, <2>3 DEF ShelfInv, KeptHavePassed
  <2> QED
    BY <1>1, <1>3, <2>2, <2>4, SMTT(30) DEF ShelfInv, ListedOpens
<1>5. CASE NextDay
  <2>1. shelf.day < Len(Days) /\ shelf' = [shelf EXCEPT !.day = shelf.day + 1, !.shown = NoList]
    BY <1>5 DEF NextDay
  <2>2. shelf.day + 1 \in DOMAIN Days
    BY <1>2, <2>1, ListingAssumption
  <2>3. shelf' \in ShelfOf /\ shelf'.day = shelf.day + 1 /\ shelf'.kept = shelf.kept /\ shelf'.shown = NoList
    BY <1>1, <1>3, <2>1, <2>2 DEF ShelfOf
  <2>4. shelf'.kept.day <= shelf'.day /\ shelf'.kept.day # shelf'.day
    BY <1>1, <1>2, <2>3
  <2> QED
    BY <1>3, <2>3, <2>4 DEF ShelfInv, ListedOpens, KeptHavePassed
<1>6. CASE Restart
  <2> DEFINE kept == [day |-> 0, ids |-> {}]
  <2>1. kept \in [day : Nat, ids : SUBSET ContractIds] /\ kept.day = 0 /\ kept.ids = {}
    OBVIOUS
  <2>2. shelf' = [shelf EXCEPT !.kept = kept, !.shown = NoList]
    BY <1>6 DEF Restart
  <2> HIDE DEF kept
  <2>3. shelf' \in ShelfOf /\ shelf'.day = shelf.day /\ shelf'.kept = kept /\ shelf'.shown = NoList
    BY <1>1, <1>3, <2>1, <2>2 DEF ShelfOf
  <2>4. shelf'.kept.day <= shelf'.day
    BY <1>2, <2>1, <2>3
  <2> QED
    BY <1>3, <2>1, <2>3, <2>4 DEF ShelfInv, ListedOpens, KeptHavePassed
<1> QED
  BY <1>4, <1>5, <1>6

(* What a list with a sort shows can be opened, and the list by name, whose  *)
(* titles are read once a day, hides nothing that can be opened, whatever    *)
(* the contracts, the days and the order in which they are stored, listed    *)
(* and lost by a restart.  That the calendar tells the lists and the page    *)
(* the same of a title is the hypothesis, which TLC evaluates for the        *)
(* contracts and days of its run (market.service.ts: listLatest,             *)
(* getInstrument, nameExpiredOptionIds).                                     *)
THEOREM DeskListedOpens ==
  ASSUME TitlesAgree
  PROVE  Spec => []ListedOpens
<1>1. Init => ShelfInv
  <2> SUFFICES ASSUME shelf \in {NewShelf, NoShelf}
               PROVE  ShelfInv
    BY DEF Init
  <2>1. PICK on \in BOOLEAN : shelf = [on |-> on, day |-> 1, stored |-> {}, kept |-> [day |-> 0, ids |-> {}], shown |-> NoList]
    BY DEF NewShelf, NoShelf
  <2>2. 1 \in DOMAIN Days
    BY ListingAssumption
  <2>3. shelf \in ShelfOf
    BY <2>1, <2>2 DEF ShelfOf, NoList
  <2>4. shelf.kept.day = 0 /\ shelf.day = 1 /\ shelf.shown.by = "none"
    BY <2>1 DEF NoList
  <2> QED
    BY <2>3, <2>4 DEF ShelfInv, KeptHavePassed, ListedOpens
<1>2. ShelfInv /\ [Next]_vars => ShelfInv'
  <2> SUFFICES ASSUME ShelfInv, [Next]_vars
               PROVE  ShelfInv'
    OBVIOUS
  <2>1. CASE NextShelf
    BY <2>1, ListsKeep, ShelfMoves DEF NextShelf
  <2>2. CASE UNCHANGED shelf
    BY <2>2 DEF ShelfInv, KeptHavePassed, ListedOpens, Opens, Today
  <2> QED
    BY <2>1, <2>2, OneAtATime
<1>3. ShelfInv => ListedOpens
  BY DEF ShelfInv
<1> QED
  BY <1>1, <1>2, <1>3, PTL DEF Spec

-----------------------------------------------------------------------------
(* The calendar, for every day of twenty years. *)

(* The sums of leap days over the periods: the recursion is solved by the   *)
(* table of its values.                                                     *)
LEMMA LeapsOfPeriods == LeapsBefore[11] = 294
<1> DEFINE Solved(f) == [i \in 1..Len(Breaks) |->
                         IF i = 1 THEN -14
                         ELSE LET jump == Breaks[i] - Breaks[i - 1]
                              IN  f[i - 1] + (jump \div 33) * 8 + (jump % 33) \div 4]
           table == << -14, 3, 10, 49, 104, 167, 184, 199, 270, 287, 294, 397, 500, 509, 532, 549, 564, 581, 596, 771 >>
           f == [i \in 1..20 |-> table[i]]
<1>1. Len(Breaks) = 20
  BY DEF Breaks
<1>2. \A i \in 1..20 : i \in {1, 2, 3, 4, 5, 6, 7, 8, 9, 10, 11, 12, 13, 14, 15, 16, 17, 18, 19, 20}
  OBVIOUS
<1>3. ASSUME NEW i \in 1..20 PROVE f[i] = Solved(f)[i]
  BY <1>1, <1>2 DEF Breaks
<1>4. f = Solved(f)
  BY <1>1, <1>3
<1>5. LeapsBefore = Solved(LeapsBefore)
  <2> HIDE DEF f
  <2>1. LeapsBefore = CHOOSE g : g = Solved(g)
    BY DEF LeapsBefore
  <2> HIDE DEF Solved
  <2> QED
    BY <1>4, <2>1
<1>6. \A i \in 1..20 : LeapsBefore[i] = Solved(LeapsBefore)[i]
  BY <1>5
<1>7. LeapsBefore[1] = -14 /\ LeapsBefore[2] = 3 /\ LeapsBefore[3] = 10 /\ LeapsBefore[4] = 49
  BY <1>1, <1>6 DEF Breaks
<1>8. LeapsBefore[5] = 104 /\ LeapsBefore[6] = 167 /\ LeapsBefore[7] = 184 /\ LeapsBefore[8] = 199
  BY <1>1, <1>6, <1>7 DEF Breaks
<1>9. LeapsBefore[9] = 270 /\ LeapsBefore[10] = 287 /\ LeapsBefore[11] = 294
  BY <1>1, <1>6, <1>8 DEF Breaks
<1> QED
  BY <1>9

(* The day on which 1391 begins, 20 March 2012. *)
Origin == 2456007
NewYear(jy) == GregorianToJulianDay([y |-> jy + 621, m |-> 3, d |-> JalCal(jy).march])
LeapsSince(jy) ==
  IF jy <= 1391 THEN 0 ELSE IF jy <= 1395 THEN 1 ELSE IF jy <= 1399 THEN 2
  ELSE IF jy <= 1403 THEN 3 ELSE IF jy <= 1408 THEN 4 ELSE 5

LEMMA OriginIs == Origin \in Int
BY SMT DEF Origin

LEMMA PeriodIs == \A jy \in Years : PeriodOf(jy) = 11
<1> SUFFICES ASSUME NEW jy \in Years PROVE PeriodOf(jy) = 11
  OBVIOUS
<1>1. Len(Breaks) = 20 /\ Breaks[11] = 1210 /\ Breaks[12] = 1635
  BY DEF Breaks
<1>2. \A i \in 1..19 : i \in {1, 2, 3, 4, 5, 6, 7, 8, 9, 10, 11, 12, 13, 14, 15, 16, 17, 18, 19}
  OBVIOUS
<1>3. ASSUME NEW i \in 1..19, Breaks[i] <= jy, jy < Breaks[i + 1] PROVE i = 11
  BY <1>2, <1>3 DEF Breaks, Years
<1> QED
  BY <1>1, <1>3 DEF PeriodOf, Years

LEMMA NewYears ==
  ASSUME NEW jy \in Years
  PROVE  /\ JalCal(jy).gy = jy + 621 /\ JalCal(jy).march \in {20, 21}
         /\ JalCal(jy).leap = 1 <=> jy - 1 \in {1391, 1395, 1399, 1403, 1408}
         /\ NewYear(jy) = Origin + 365 * (jy - 1391) + LeapsSince(jy)
<1>1. Breaks[11] = 1210 /\ Breaks[12] = 1635
  BY DEF Breaks
<1> DEFINE n == jy - 1210
           leap == Rem(Rem(n + 1, 33) - 1, 4)
<1>2. JalCal(jy) = [gy |-> jy + 621, march |-> 20 + 294 + LeapsIn(n, 425) - GregorianLeaps(jy + 621),
                    leap |-> IF leap = -1 THEN 4 ELSE leap]
  BY <1>1, PeriodIs, LeapsOfPeriods DEF JalCal, Years
<1>3. jy \in {1391, 1392, 1393, 1394, 1395, 1396, 1397, 1398, 1399, 1400, 1401, 1402,
              1403, 1404, 1405, 1406, 1407, 1408, 1409, 1410, 1411, 1412}
  BY DEF Years
<1>4. JalCal(jy).gy = jy + 621
  BY <1>2
<1>5. JalCal(jy).march = IF jy \in {1391, 1395, 1399, 1403, 1407, 1408, 1411, 1412} THEN 20 ELSE 21
  BY <1>2, <1>3 DEF LeapsIn, GregorianLeaps, Trunc
<1>6. JalCal(jy).leap = 1 <=> jy - 1 \in {1391, 1395, 1399, 1403, 1408}
  BY <1>2, <1>3 DEF Rem, Trunc
<1>7. NewYear(jy) = Origin + 365 * (jy - 1391) + LeapsSince(jy)
  BY <1>3, <1>5, SMT DEF NewYear, GregorianToJulianDay, Rem, Trunc, LeapsSince, Origin
<1> QED
  BY <1>4, <1>5, <1>6, <1>7

(* Days of the year of March before the first of the month.                 *)
MonthStart == << 306, 337, 0, 31, 61, 92, 122, 153, 184, 214, 245, 275 >>
YearOf(g) == IF g.m < 3 THEN g.y - 1 ELSE g.y

LEMMA MonthsAre == \A m \in 1..12 : m \in {1, 2, 3, 4, 5, 6, 7, 8, 9, 10, 11, 12}
  OBVIOUS

LEMMA GregorianDayIs ==
  ASSUME NEW g \in [y : 2012..2034, m : 1..12, d : 1..31]
  PROVE  GregorianToJulianDay(g) = Origin + 365 * (YearOf(g) - 2012) + (YearOf(g) \div 4 - 503) + MonthStart[g.m] + g.d - 20
<1> DEFINE y == g.y + Trunc(g.m - 8, 6) + 100100
<1>1. g.y \in 2012..2034 /\ g.m \in 1..12 /\ g.d \in 1..31
  OBVIOUS
<1>2. y = YearOf(g) + 100100 /\ YearOf(g) \in 2011..2034
  BY <1>1, MonthsAre DEF Trunc, YearOf
<1>3. Trunc(153 * Rem(g.m + 9, 12) + 2, 5) = MonthStart[g.m]
  BY <1>1, MonthsAre DEF Trunc, Rem, MonthStart
<1>4. GregorianToJulianDay(g) = Trunc(y * 1461, 4) + MonthStart[g.m] + g.d - 34840408 - Trunc(Trunc(y, 100) * 3, 4) + 752
  BY <1>3, SMT DEF GregorianToJulianDay
<1> HIDE DEF y
<1>5. Trunc(y, 100) = 1021 /\ Trunc(1021 * 3, 4) = 765
  BY <1>2, SMT DEF Trunc
<1>6. Trunc(y * 1461, 4) = 365 * YearOf(g) + YearOf(g) \div 4 + 36561525
  BY <1>2, SMT DEF Trunc
<1>7. MonthStart[g.m] \in Int
  BY <1>1, MonthsAre DEF MonthStart
<1> QED
  BY <1>1, <1>2, <1>4, <1>5, <1>6, <1>7, SMT DEF Origin

LEMMA GregorianGoesOn ==
  ASSUME NEW g \in GregorianDays, g.y <= 2032
  PROVE  NextGregorian(g) \in GregorianDays /\ GregorianToJulianDay(NextGregorian(g)) = GregorianToJulianDay(g) + 1
<1> DEFINE next == NextGregorian(g)
<1>0. g \in [y : 2012..2034, m : 1..12, d : 1..31]
  BY DEF GregorianDays
<1>1. /\ g.y \in 2013..2032 /\ g.m \in 1..12 /\ g.d \in 1..31
      /\ g.d <= GregorianLength(g.y, g.m)
  BY DEF GregorianDays
<1>2. GregorianLength(g.y, g.m) \in {28, 29, 30, 31} /\ GregorianLength(g.y, g.m) = 28 + (IF g.m = 2 THEN IF g.y % 4 = 0 THEN 1 ELSE 0 ELSE IF g.m \in {4, 6, 9, 11} THEN 2 ELSE 3)
  BY <1>1 DEF GregorianLength, GregorianLeap
<1>6. g.d = GregorianLength(g.y, g.m) => ~(g.d < GregorianLength(g.y, g.m))
  BY <1>2
<1>7. g.m = 12 => ~(g.m < 12)
  OBVIOUS
<1>3. CASE g.d < GregorianLength(g.y, g.m)
  <2>1. next = [y |-> g.y, m |-> g.m, d |-> g.d + 1]
    BY <1>3 DEF NextGregorian, Following
  <2>2. next \in GregorianDays
    <3>1. g.d + 1 \in 1..31 /\ g.d + 1 <= GregorianLength(g.y, g.m)
      BY <1>1, <1>2, <1>3
    <3>2. next.y = g.y /\ next.m = g.m /\ next.d = g.d + 1
      BY <2>1
    <3>3. next \in [y : 2013..2033, m : 1..12, d : 1..31]
      BY <1>1, <2>1, <3>1
    <3>4. next.d <= GregorianLength(next.y, next.m)
      BY <3>1, <3>2
    <3> HIDE DEF next
    <3> QED
      BY <3>3, <3>4 DEF GregorianDays
  <2>3. YearOf(next) = YearOf(g) /\ YearOf(g) \in Int /\ MonthStart[g.m] \in Int
    BY <1>1, <2>1, MonthsAre DEF YearOf, MonthStart
  <2> QED
    BY OriginIs, <1>1, <2>1, <2>2, <2>3, GregorianDayIs DEF GregorianDays
<1>4. CASE g.d = GregorianLength(g.y, g.m) /\ g.m < 12
  <2>1. next = [y |-> g.y, m |-> g.m + 1, d |-> 1]
    BY <1>4, <1>6 DEF NextGregorian, Following
  <2>2. next \in GregorianDays
    BY <1>1, <1>4, <2>1 DEF GregorianDays, GregorianLength, GregorianLeap
  <2>3. GregorianToJulianDay(g) = Origin + 365 * (YearOf(g) - 2012) + (YearOf(g) \div 4 - 503) + MonthStart[g.m] + g.d - 20
    BY <1>0, GregorianDayIs, SMT
  <2>4. GregorianToJulianDay(next) = Origin + 365 * (YearOf(next) - 2012) + (YearOf(next) \div 4 - 503) + MonthStart[g.m + 1] - 19
    <3>1. next \in [y : 2012..2034, m : 1..12, d : 1..31] /\ next.m = g.m + 1 /\ next.d = 1
      BY <2>1, <2>2 DEF GregorianDays
    <3> HIDE DEF next
    <3>2. GregorianToJulianDay(next) = Origin + 365 * (YearOf(next) - 2012) + (YearOf(next) \div 4 - 503) + MonthStart[next.m] + next.d - 20
      BY <3>1, GregorianDayIs, SMT
    <3>3. YearOf(next) \in Int /\ MonthStart[g.m + 1] \in Int
      BY <1>1, <1>4, <3>1, MonthsAre DEF YearOf, MonthStart
    <3> QED
      BY OriginIs, <3>1, <3>2, <3>3
  <2>5. YearOf(next) = (IF g.m < 2 THEN g.y - 1 ELSE g.y) /\ YearOf(g) = IF g.m < 3 THEN g.y - 1 ELSE g.y
    BY <2>1, <1>1 DEF YearOf
  <2>6. CASE g.m = 2
    BY OriginIs, <1>1, <1>2, <1>4, <2>2, <2>3, <2>4, <2>5, <2>6 DEF MonthStart
  <2>7. CASE g.m # 2
    <3>1. YearOf(next) = YearOf(g) /\ YearOf(g) \in Int
      BY <1>1, <2>5, <2>7
    <3>2. MonthStart[g.m + 1] = MonthStart[g.m] + GregorianLength(g.y, g.m) /\ MonthStart[g.m] \in Int
      BY <1>1, <1>2, <1>4, <2>7, MonthsAre DEF MonthStart
    <3> QED
      BY OriginIs, <1>1, <1>4, <2>2, <2>3, <2>4, <3>1, <3>2
  <2> QED
    BY <2>6, <2>7
<1>5. CASE g.d = GregorianLength(g.y, g.m) /\ g.m = 12
  <2>1. next = [y |-> g.y + 1, m |-> 1, d |-> 1]
    BY <1>5, <1>6, <1>7 DEF NextGregorian, Following
  <2>2. next \in GregorianDays
    BY <1>1, <2>1 DEF GregorianDays, GregorianLength
  <2>3. GregorianToJulianDay(g) = Origin + 365 * (g.y - 2012) + (g.y \div 4 - 503) + 286
    <3>1. YearOf(g) = g.y /\ MonthStart[g.m] = 275 /\ g.d = 31
      BY <1>2, <1>5 DEF YearOf, MonthStart
    <3>2. GregorianToJulianDay(g) = Origin + 365 * (YearOf(g) - 2012) + (YearOf(g) \div 4 - 503) + MonthStart[g.m] + g.d - 20
      BY <1>0, GregorianDayIs, SMT
    <3> QED
      BY OriginIs, <1>1, <3>1, <3>2
  <2>4. GregorianToJulianDay(next) = Origin + 365 * (g.y - 2012) + (g.y \div 4 - 503) + 287
    BY OriginIs, <1>1, <2>1, <2>2, GregorianDayIs DEF YearOf, MonthStart, GregorianDays
  <2> QED
    BY OriginIs, <1>1, <2>2, <2>3, <2>4
<1> QED
  BY <1>1, <1>2, <1>3, <1>4, <1>5

YearLength(jy) == IF jy \in JalaliLeaps THEN 366 ELSE 365
DaysBefore(m) == (m - 1) * 31 - (m \div 7) * (m - 7)

LEMMA JalaliDayIs ==
  ASSUME NEW j, j.y \in Years, j.m \in Int, j.d \in Int
  PROVE  JalaliToJulianDay(j) = Origin - 1 + 365 * (j.y - 1391) + LeapsSince(j.y) + DaysBefore(j.m) + j.d
<1>1. JalaliToJulianDay(j) = NewYear(j.y) + DaysBefore(j.m) + j.d - 1
  BY NewYears DEF JalaliToJulianDay, DaysBefore, NewYear
<1>2. NewYear(j.y) = Origin + 365 * (j.y - 1391) + LeapsSince(j.y)
  BY NewYears
<1>3. j.y \in Int /\ LeapsSince(j.y) \in Int /\ DaysBefore(j.m) \in Int
  BY DEF Years, LeapsSince, DaysBefore
<1> QED
  BY OriginIs, <1>1, <1>2, <1>3

LEMMA JalaliMonths ==
  ASSUME NEW jy \in Years, NEW m \in 1..12
  PROVE  /\ JalaliLength(jy, m) \in {29, 30, 31} /\ DaysBefore(m) \in 0..336
         /\ m < 12 => DaysBefore(m + 1) = DaysBefore(m) + JalaliLength(jy, m)
         /\ m = 12 => DaysBefore(m) + JalaliLength(jy, m) = YearLength(jy)
         /\ DaysBefore(m) + JalaliLength(jy, m) <= YearLength(jy) /\ YearLength(jy) \in {365, 366}
BY MonthsAre DEF JalaliLength, DaysBefore, YearLength

(* The day before the first of a year.                                      *)
DayBefore(jy) == Origin - 1 + 365 * (jy - 1391) + LeapsSince(jy)

LEMMA DayInYear ==
  ASSUME NEW j, j.y \in Years, j.m \in Int, j.d \in Int
  PROVE  JalaliToJulianDay(j) = DayBefore(j.y) + DaysBefore(j.m) + j.d
BY JalaliDayIs DEF DayBefore

LEMMA YearsFollow ==
  ASSUME NEW jy \in Years
  PROVE  DayBefore(jy) \in Int /\ (jy < 1412 => DayBefore(jy + 1) = DayBefore(jy) + YearLength(jy))
BY OriginIs DEF DayBefore, LeapsSince, YearLength, JalaliLeaps, Years

(* A later date has a later day.                                            *)
Before(a, b) == a.y < b.y \/ (a.y = b.y /\ (a.m < b.m \/ (a.m = b.m /\ a.d < b.d)))
LEMMA LaterDatesAreLater ==
  ASSUME NEW a \in JalaliDays, NEW b \in JalaliDays, Before(a, b)
  PROVE  JalaliToJulianDay(a) < JalaliToJulianDay(b)
<1>1. /\ a.y \in Years /\ a.m \in 1..12 /\ a.d \in 1..31 /\ a.d <= JalaliLength(a.y, a.m)
      /\ b.y \in Years /\ b.m \in 1..12 /\ b.d \in 1..31 /\ b.d <= JalaliLength(b.y, b.m)
  BY DEF JalaliDays
<1>2. /\ JalaliToJulianDay(a) = Origin - 1 + 365 * (a.y - 1391) + LeapsSince(a.y) + DaysBefore(a.m) + a.d
      /\ JalaliToJulianDay(b) = Origin - 1 + 365 * (b.y - 1391) + LeapsSince(b.y) + DaysBefore(b.m) + b.d
  BY <1>1, JalaliDayIs
<1>3. CASE a.y < b.y
  <2>1. DaysBefore(a.m) \in 0..336 /\ DaysBefore(b.m) \in 0..336 /\ DaysBefore(a.m) + a.d <= YearLength(a.y)
    <3>1. /\ DaysBefore(a.m) \in 0..336 /\ DaysBefore(b.m) \in 0..336
          /\ DaysBefore(a.m) + JalaliLength(a.y, a.m) <= YearLength(a.y) /\ JalaliLength(a.y, a.m) \in {29, 30, 31}
      BY <1>1, JalaliMonths
    <3>2. a.y \in Years /\ a.m \in 1..12 /\ a.d \in Int
      BY <1>1
    <3>3. YearLength(a.y) \in Int
      BY DEF YearLength
    <3> QED
      BY <1>1, <3>1, <3>2, <3>3, SMT
  <2>2. 365 * (a.y - 1391) + LeapsSince(a.y) + YearLength(a.y) <= 365 * (b.y - 1391) + LeapsSince(b.y)
    BY <1>1, <1>3 DEF LeapsSince, YearLength, JalaliLeaps, Years
  <2>3. LeapsSince(a.y) \in Int /\ LeapsSince(b.y) \in Int /\ YearLength(a.y) \in Int /\ a.y \in Int /\ b.y \in Int
    BY <1>1 DEF LeapsSince, YearLength, Years
  <2>4. a.d \in Int /\ b.d \in Int /\ b.d >= 1
    BY <1>1
  <2> QED
    <3> DEFINE u == 365 * (a.y - 1391) + LeapsSince(a.y)
               v == 365 * (b.y - 1391) + LeapsSince(b.y)
               s == DaysBefore(a.m) + a.d
               t == DaysBefore(b.m) + b.d
    <3>1. u \in Int /\ v \in Int /\ s \in Int /\ t \in Int /\ t >= 1 /\ YearLength(a.y) \in Int
      BY <2>1, <2>3, <2>4
    <3>2. JalaliToJulianDay(a) = Origin - 1 + u + s /\ JalaliToJulianDay(b) = Origin - 1 + v + t
      BY OriginIs, <1>2, <2>1, <2>3, <2>4
    <3>3. s <= YearLength(a.y) /\ u + YearLength(a.y) <= v
      BY <2>1, <2>2
    <3> HIDE DEF u, v, s, t
    <3> QED
      BY OriginIs, <3>1, <3>2, <3>3
<1>4. CASE a.y = b.y /\ a.m < b.m
  <2>1. DaysBefore(a.m) + a.d <= DaysBefore(b.m) /\ DaysBefore(a.m) \in Int /\ DaysBefore(b.m) \in Int
    BY <1>1, <1>4, MonthsAre DEF DaysBefore, JalaliLength
  <2>2. LeapsSince(a.y) \in Int /\ a.y \in Int
    BY <1>1 DEF LeapsSince, Years
  <2> QED
    BY OriginIs, <1>1, <1>2, <1>4, <2>1, <2>2
<1>5. CASE a.y = b.y /\ a.m = b.m /\ a.d < b.d
  <2>1. LeapsSince(a.y) \in Int /\ a.y \in Int /\ DaysBefore(a.m) \in Int
    BY <1>1 DEF LeapsSince, Years, DaysBefore
  <2> QED
    BY OriginIs, <1>1, <1>2, <1>5, <2>1
<1> QED
  BY <1>3, <1>4, <1>5 DEF Before

LEMMA NeitherBefore ==
  ASSUME NEW a \in JalaliDays, NEW b \in JalaliDays, ~Before(a, b), ~Before(b, a)
  PROVE  a = b
<1>1. a = [y |-> a.y, m |-> a.m, d |-> a.d] /\ b = [y |-> b.y, m |-> b.m, d |-> b.d]
  BY DEF JalaliDays
<1>2. a.y \in Int /\ a.m \in Int /\ a.d \in Int /\ b.y \in Int /\ b.m \in Int /\ b.d \in Int
  BY DEF JalaliDays, Years
<1>3. a.y = b.y
  BY <1>2 DEF Before
<1>4. a.m = b.m
  BY <1>2, <1>3 DEF Before
<1>5. a.d = b.d
  BY <1>2, <1>3, <1>4 DEF Before
<1> QED
  BY <1>1, <1>3, <1>4, <1>5

LEMMA SameDaySameDate ==
  ASSUME NEW a \in JalaliDays, NEW b \in JalaliDays, JalaliToJulianDay(a) = JalaliToJulianDay(b)
  PROVE  a = b
<1>1. a.y \in Years /\ a.m \in Int /\ a.d \in Int
  BY DEF JalaliDays
<1>2. JalaliToJulianDay(a) \in Int
  <2>1. JalaliToJulianDay(a) = Origin - 1 + 365 * (a.y - 1391) + LeapsSince(a.y) + DaysBefore(a.m) + a.d
    BY <1>1, JalaliDayIs
  <2>2. a.y \in Int /\ LeapsSince(a.y) \in Int /\ DaysBefore(a.m) \in Int
    BY <1>1 DEF LeapsSince, DaysBefore, Years
  <2> QED
    BY OriginIs, <1>1, <2>1, <2>2
<1>3. ASSUME Before(a, b) PROVE FALSE
  <2>1. JalaliToJulianDay(a) < JalaliToJulianDay(b)
    BY <1>3, LaterDatesAreLater
  <2> QED
    BY <1>2, <2>1
<1>4. ASSUME Before(b, a) PROVE FALSE
  <2>1. JalaliToJulianDay(b) < JalaliToJulianDay(a)
    BY <1>4, LaterDatesAreLater
  <2> QED
    BY <1>2, <2>1
<1> QED
  BY <1>3, <1>4, NeitherBefore

Early(y, day) == [y |-> y, m |-> 1 + day \div 31, d |-> (day % 31) + 1]
Late(y, day) == [y |-> y, m |-> 7 + day \div 30, d |-> (day % 30) + 1]

LEMMA EarlyIs ==
  ASSUME NEW y \in Years, NEW day \in 0..185
  PROVE  Early(y, day) \in JalaliDays /\ JalaliToJulianDay(Early(y, day)) = Origin + 365 * (y - 1391) + LeapsSince(y) + day
<1> DEFINE j == Early(y, day)
<1>1. j.y = y /\ j.m = 1 + day \div 31 /\ j.d = (day % 31) + 1
  BY DEF Early
<1>2. j.m \in 1..6 /\ j.d \in 1..31 /\ 31 * (j.m - 1) + j.d = day + 1
  BY <1>1
<1>3. JalaliLength(j.y, j.m) = 31 /\ DaysBefore(j.m) = 31 * (j.m - 1)
  BY <1>2 DEF JalaliLength, DaysBefore
<1>4. j \in [y : Years, m : 1..12, d : 1..31]
  BY <1>1, <1>2 DEF Early
<1>5. LeapsSince(y) \in Int /\ y \in Int
  BY DEF LeapsSince, Years
<1>6. JalaliToJulianDay(j) = Origin - 1 + 365 * (j.y - 1391) + LeapsSince(j.y) + DaysBefore(j.m) + j.d
  BY <1>1, <1>2, JalaliDayIs
<1> HIDE DEF j
<1>7. j \in JalaliDays
  BY <1>2, <1>3, <1>4 DEF JalaliDays
<1>8. JalaliToJulianDay(j) = Origin + 365 * (y - 1391) + LeapsSince(y) + day
  BY OriginIs, <1>1, <1>2, <1>3, <1>5, <1>6, SMT
<1> QED
  BY <1>7, <1>8 DEF j

LEMMA LateIs ==
  ASSUME NEW y \in Years, NEW day \in 0..179, day = 179 => y \in JalaliLeaps
  PROVE  Late(y, day) \in JalaliDays /\ JalaliToJulianDay(Late(y, day)) = Origin + 186 + 365 * (y - 1391) + LeapsSince(y) + day
<1> DEFINE j == Late(y, day)
<1>1. j.y = y /\ j.m = 7 + day \div 30 /\ j.d = (day % 30) + 1
  BY DEF Late
<1>2. j.m \in 7..12 /\ j.d \in 1..30 /\ 30 * (j.m - 7) + j.d = day + 1
  BY <1>1
<1>3. DaysBefore(j.m) = 186 + 30 * (j.m - 7)
  BY <1>2 DEF DaysBefore
<1>4. j.d <= JalaliLength(j.y, j.m)
  <2>1. j.m = 12 /\ j.d = 30 => j.y \in JalaliLeaps
    BY <1>1, <1>2
  <2> HIDE DEF j
  <2> QED
    BY <1>2, <2>1 DEF JalaliLength
<1>5. LeapsSince(y) \in Int /\ y \in Int
  BY DEF LeapsSince, Years
<1>6. JalaliToJulianDay(j) = Origin - 1 + 365 * (j.y - 1391) + LeapsSince(j.y) + DaysBefore(j.m) + j.d
  BY <1>1, <1>2, JalaliDayIs
<1>7. j \in [y : Years, m : 1..12, d : 1..31]
  BY <1>1, <1>2 DEF Late
<1> HIDE DEF j
<1>8. j \in JalaliDays
  BY <1>4, <1>7 DEF JalaliDays
<1>9. JalaliToJulianDay(j) = Origin + 186 + 365 * (y - 1391) + LeapsSince(y) + day
  BY OriginIs, <1>1, <1>2, <1>3, <1>5, <1>6, SMT
<1> QED
  BY <1>8, <1>9 DEF j

LEMMA DateOfDay ==
  ASSUME NEW g \in GregorianDays
  PROVE  GregorianToJalali(g) \in JalaliDays /\ JalaliToJulianDay(GregorianToJalali(g)) = GregorianToJulianDay(g)
<1> DEFINE jy == g.y - 621
           r == JalCal(jy)
           k == GregorianToJulianDay(g) - NewYear(jy)
           late(y, day) == [y |-> y, m |-> 7 + day \div 30, d |-> (day % 30) + 1]
           j == GregorianToJalali(g)
<1>1. /\ g.y \in 2013..2033 /\ g.m \in 1..12 /\ g.d \in 1..31 /\ g.d <= GregorianLength(g.y, g.m) /\ g \in [y : 2012..2034, m : 1..12, d : 1..31]
  BY DEF GregorianDays
<1>2. jy \in Years /\ jy - 1 \in Years /\ jy + 621 = g.y
  BY <1>1 DEF Years
<1>3. j = IF k < 0 THEN late(g.y - 622, k + 179 + (IF r.leap = 1 THEN 1 ELSE 0))
          ELSE IF k <= 185 THEN [y |-> g.y - 621, m |-> 1 + k \div 31, d |-> (k % 31) + 1]
          ELSE late(g.y - 621, k - 186)
  BY <1>2 DEF GregorianToJalali, NewYear
<1>4. NewYear(jy) = Origin + 365 * (jy - 1391) + LeapsSince(jy) /\ (r.leap = 1 <=> jy - 1 \in JalaliLeaps)
  BY <1>2, NewYears DEF JalaliLeaps, Years
<1>5. GregorianToJulianDay(g) = Origin + 365 * (YearOf(g) - 2012) + (YearOf(g) \div 4 - 503) + MonthStart[g.m] + g.d - 20
  BY <1>1, GregorianDayIs
<1>6. k \in (-80)..287
  <2>1. GregorianLength(g.y, g.m) = 28 + (IF g.m = 2 THEN IF g.y % 4 = 0 THEN 1 ELSE 0 ELSE IF g.m \in {4, 6, 9, 11} THEN 2 ELSE 3)
    BY <1>1 DEF GregorianLength, GregorianLeap
  <2>2. MonthStart[g.m] + g.d \in 1..366 /\ (g.m >= 3 => MonthStart[g.m] + g.d <= 306) /\ (g.m < 3 => MonthStart[g.m] + g.d >= 307)
         /\ (g.y % 4 # 0 => MonthStart[g.m] + g.d <= 365)
    BY <1>1, <2>1, MonthsAre DEF MonthStart
  <2>3. MonthStart[g.m] \in Int
    BY <1>1, MonthsAre DEF MonthStart
  <2>4. k = 365 * (YearOf(g) - g.y) + (YearOf(g) \div 4 - 503) + MonthStart[g.m] + g.d - 20 - LeapsSince(jy)
    BY OriginIs, <1>1, <1>4, <1>5, <2>3 DEF YearOf, LeapsSince
  <2>5. g.y \div 4 - 503 - LeapsSince(jy) \in {-1, 0} /\ (g.y % 4 = 0 => g.y \div 4 - 503 - LeapsSince(jy) = 0)
    <3>1. g.y \in {2013, 2014, 2015, 2016, 2017, 2018, 2019, 2020, 2021, 2022, 2023, 2024, 2025, 2026, 2027,
                   2028, 2029, 2030, 2031, 2032, 2033}
      BY <1>1
    <3> QED
      BY <3>1, SMT DEF LeapsSince
  <2>6. LeapsSince(jy) \in Int
    BY DEF LeapsSince
  <2> DEFINE leaps == LeapsSince(jy)
  <2>7. CASE g.m >= 3
    <3>1. k = (g.y \div 4 - 503 - leaps) + (MonthStart[g.m] + g.d) - 20
      BY <1>1, <2>3, <2>4, <2>6, <2>7 DEF YearOf
    <3>2. g.y \div 4 - 503 - leaps \in {-1, 0} /\ MonthStart[g.m] + g.d \in 1..306
      BY <1>1, <2>2, <2>5, <2>7
    <3> HIDE DEF k, leaps
    <3> QED
      BY <3>1, <3>2
  <2>8. CASE g.m < 3
    <3>1. k = ((g.y - 1) \div 4 - 503 - leaps) + (MonthStart[g.m] + g.d) - 385
      <4>1. YearOf(g) = g.y - 1 /\ g.y \in Int /\ g.d \in Int
        BY <1>1, <2>8 DEF YearOf
      <4>2. k = 365 * ((g.y - 1) - g.y) + ((g.y - 1) \div 4 - 503) + MonthStart[g.m] + g.d - 20 - leaps
        BY <2>4, <4>1
      <4> HIDE DEF k, leaps
      <4>3. leaps \in Int
        BY <2>6 DEF leaps
      <4> QED
        BY <2>3, <4>1, <4>2, <4>3
    <3>2. MonthStart[g.m] + g.d \in 307..366
      BY <1>1, <2>2, <2>8
    <3>3. (g.y - 1) \div 4 = IF g.y % 4 = 0 THEN g.y \div 4 - 1 ELSE g.y \div 4
      BY <1>1
    <3> HIDE DEF k, leaps
    <3>4. (g.y - 1) \div 4 - 503 - leaps \in {-1, 0}
      BY <1>1, <2>5, <2>6, <3>3 DEF leaps
    <3> QED
      BY <3>1, <3>2, <3>4
  <2> QED
    BY <1>1, <2>7, <2>8
<1>7. LeapsSince(jy) \in Int /\ LeapsSince(jy - 1) \in Int
  BY DEF LeapsSince
<1>8. GregorianToJulianDay(g) = Origin + 365 * (jy - 1391) + LeapsSince(jy) + k
  <2>1. GregorianToJulianDay(g) \in Int
    <3>1. YearOf(g) \in Int /\ MonthStart[g.m] \in Int
      BY <1>1, MonthsAre DEF YearOf, MonthStart
    <3> QED
      BY OriginIs, <1>1, <1>5, <3>1
  <2> QED
    BY OriginIs, <1>1, <1>4, <1>7, <2>1
<1>9. CASE k < 0
  <2> DEFINE leap == IF r.leap = 1 THEN 1 ELSE 0
             day == k + 179 + leap
  <2>1. j = Late(jy - 1, day)
    BY <1>1, <1>3, <1>9 DEF Late
  <2>2. day \in 0..179 /\ (day = 179 => jy - 1 \in JalaliLeaps)
    BY <1>4, <1>6, <1>9
  <2>3. j \in JalaliDays /\ JalaliToJulianDay(j) = Origin + 186 + 365 * (jy - 1 - 1391) + LeapsSince(jy - 1) + day
    BY <1>2, <2>1, <2>2, LateIs
  <2>4. LeapsSince(jy) = LeapsSince(jy - 1) + leap
    BY <1>2, <1>4 DEF LeapsSince, JalaliLeaps, Years
  <2>5. jy \in Int /\ k \in Int /\ leap \in Int
    BY <1>2, <1>6 DEF Years
  <2> HIDE DEF leap, k, jy
  <2> QED
    BY OriginIs, <1>7, <1>8, <2>3, <2>4, <2>5
<1>10. CASE k \in 0..185
  <2>1. j = Early(jy, k)
    BY <1>1, <1>3, <1>10 DEF Early
  <2> QED
    BY <1>2, <1>8, <1>10, <2>1, EarlyIs
<1>11. CASE k > 185
  <2>1. j = Late(jy, k - 186)
    BY <1>1, <1>3, <1>6, <1>11 DEF Late
  <2>2. k - 186 \in 0..179 /\ k - 186 # 179
    BY <1>6, <1>11
  <2>3. j \in JalaliDays /\ JalaliToJulianDay(j) = Origin + 186 + 365 * (jy - 1391) + LeapsSince(jy) + (k - 186)
    BY <1>2, <2>1, <2>2, LateIs
  <2>4. jy \in Int /\ k \in Int
    BY <1>2, <1>6 DEF Years
  <2> HIDE DEF k, jy
  <2> QED
    BY OriginIs, <1>7, <1>8, <2>3, <2>4
<1>12. k < 0 \/ k \in 0..185 \/ k > 185
  BY <1>6
<1> QED
  BY <1>9, <1>10, <1>11, <1>12

LEMMA YearOfDay ==
  ASSUME NEW g \in GregorianDays
  PROVE  GregorianToJalali(g).y \in {g.y - 622, g.y - 621}
<1> DEFINE k == GregorianToJulianDay(g) - NewYear(g.y - 621)
           lateDay == k + 179 + (IF JalCal(g.y - 621).leap = 1 THEN 1 ELSE 0)
<1>1. g.y - 621 + 621 = g.y
  BY DEF GregorianDays
<1>2. NewYear(g.y - 621) = GregorianToJulianDay([y |-> g.y, m |-> 3, d |-> JalCal(g.y - 621).march])
  BY <1>1 DEF NewYear
<1>3. \/ k < 0 /\ GregorianToJalali(g) = Late(g.y - 622, lateDay)
      \/ GregorianToJalali(g) = Early(g.y - 621, k)
      \/ GregorianToJalali(g) = Late(g.y - 621, k - 186)
  BY <1>2 DEF GregorianToJalali, Late, Early
<1>4. \A y, day : Late(y, day).y = y /\ Early(y, day).y = y
  BY DEF Late, Early
<1> HIDE DEF k, lateDay
<1> QED
  BY <1>3, <1>4

LEMMA JalaliGoesOn ==
  ASSUME NEW j \in JalaliDays, j.y <= 1411
  PROVE  NextJalali(j) \in JalaliDays /\ JalaliToJulianDay(NextJalali(j)) = JalaliToJulianDay(j) + 1
<1> DEFINE next == NextJalali(j)
           length == JalaliLength(j.y, j.m)
<1>1. j.y \in Years /\ j.y \in 1391..1411 /\ j.m \in 1..12 /\ j.d \in 1..31 /\ j.d <= length
  BY DEF JalaliDays, Years
<1>2. /\ length \in {29, 30, 31} /\ DaysBefore(j.m) \in 0..336
      /\ j.m < 12 => DaysBefore(j.m + 1) = DaysBefore(j.m) + length
      /\ j.m = 12 => DaysBefore(j.m) + length = YearLength(j.y)
  BY <1>1, JalaliMonths
<1>3. JalaliToJulianDay(j) = DayBefore(j.y) + DaysBefore(j.m) + j.d
  BY <1>1, DayInYear
<1>4. DayBefore(j.y) \in Int /\ DayBefore(j.y + 1) = DayBefore(j.y) + YearLength(j.y) /\ YearLength(j.y) \in Int /\ j.y + 1 \in Years
  BY <1>1, YearsFollow DEF YearLength, Years
<1> HIDE DEF length
<1>5. CASE j.d < length
  <2>1. next = [y |-> j.y, m |-> j.m, d |-> j.d + 1]
    BY <1>5 DEF NextJalali, Following, length
  <2>2. next.y = j.y /\ next.m = j.m /\ next.d = j.d + 1 /\ j.d + 1 \in 1..31 /\ j.d + 1 <= length
    BY <1>1, <1>2, <1>5, <2>1
  <2>3. next \in [y : Years, m : 1..12, d : 1..31]
    BY <1>1, <2>1, <2>2
  <2> HIDE DEF next
  <2>4. next \in JalaliDays
    BY <2>2, <2>3 DEF JalaliDays, length
  <2>5. JalaliToJulianDay(next) = DayBefore(j.y) + DaysBefore(j.m) + (j.d + 1)
    BY <1>1, <2>2, DayInYear
  <2>6. JalaliToJulianDay(next) = JalaliToJulianDay(j) + 1
    <3>1. DayBefore(j.y) \in Int /\ DaysBefore(j.m) \in Int /\ j.d \in Int
      BY <1>1, <1>2, <1>4
    <3> QED
      BY <1>3, <2>5, <3>1
  <2> QED
    BY <2>4, <2>6 DEF next
<1>6. CASE j.d = length /\ j.m < 12
  <2>1. next = [y |-> j.y, m |-> j.m + 1, d |-> 1]
    <3>1. ~(j.d < length)
      BY <1>2, <1>6
    <3> QED
      BY <1>6, <3>1 DEF NextJalali, Following, length
  <2>2. next.y = j.y /\ next.m = j.m + 1 /\ next.d = 1 /\ j.m + 1 \in 1..12
    BY <1>1, <1>6, <2>1
  <2>3. next \in [y : Years, m : 1..12, d : 1..31]
    BY <1>1, <2>1, <2>2
  <2> HIDE DEF next
  <2>4. next \in JalaliDays
    <3>1. JalaliLength(j.y, j.m + 1) \in {29, 30, 31}
      BY <1>1, <2>2, JalaliMonths
    <3> QED
      BY <2>2, <2>3, <3>1 DEF JalaliDays
  <2>5. JalaliToJulianDay(next) = DayBefore(j.y) + DaysBefore(j.m + 1) + 1
    BY <1>1, <2>2, DayInYear
  <2>6. JalaliToJulianDay(next) = JalaliToJulianDay(j) + 1
    BY <1>1, <1>2, <1>3, <1>4, <1>6, <2>5
  <2> QED
    BY <2>4, <2>6 DEF next
<1>7. CASE j.d = length /\ j.m = 12
  <2>1. next = [y |-> j.y + 1, m |-> 1, d |-> 1]
    <3>1. ~(j.d < length) /\ ~(j.m < 12)
      BY <1>2, <1>7
    <3> QED
      BY <3>1 DEF NextJalali, Following, length
  <2>2. next.y = j.y + 1 /\ next.m = 1 /\ next.d = 1
    BY <2>1
  <2>3. next \in [y : Years, m : 1..12, d : 1..31]
    BY <1>4, <2>1
  <2> HIDE DEF next
  <2>4. next \in JalaliDays
    BY <2>2, <2>3 DEF JalaliDays, JalaliLength
  <2>5. JalaliToJulianDay(next) = DayBefore(j.y + 1) + DaysBefore(1) + 1
    BY <1>4, <2>2, DayInYear
  <2>6. DaysBefore(1) = 0
    BY DEF DaysBefore
  <2>7. JalaliToJulianDay(next) = JalaliToJulianDay(j) + 1
    BY <1>1, <1>2, <1>3, <1>4, <1>7, <2>5, <2>6
  <2> QED
    BY <2>4, <2>7 DEF next
<1> QED
  BY <1>1, <1>2, <1>5, <1>6, <1>7

(* The days of those years are fewer than the code's mark for no number.     *)
LastDay == Origin + 8100

LEMMA YearStarts ==
  ASSUME NEW jy \in Years
  PROVE  Origin - 1 <= DayBefore(jy) /\ DayBefore(jy) <= Origin + 7699
<1> DEFINE n == jy - 1391
           l == LeapsSince(jy)
<1>1. n \in 0..21 /\ l \in 0..5
  BY DEF LeapsSince, Years
<1>2. DayBefore(jy) = Origin - 1 + 365 * n + l
  BY DEF DayBefore
<1> HIDE DEF n, l
<1> QED
  BY OriginIs, <1>1, <1>2

LEMMA DaysOfYears ==
  ASSUME NEW j \in JalaliDays
  PROVE  JalaliToJulianDay(j) \in Int /\ Origin <= JalaliToJulianDay(j) /\ JalaliToJulianDay(j) <= LastDay
<1> DEFINE b == DayBefore(j.y)
           n == DaysBefore(j.m)
           d == j.d
           day == JalaliToJulianDay(j)
<1>1. j.y \in Years /\ j.m \in 1..12 /\ d \in 1..31
  BY DEF JalaliDays
<1>2. b \in Int /\ Origin - 1 <= b /\ b <= Origin + 7699
  BY <1>1, YearStarts, YearsFollow
<1>3. n \in 0..336
  BY <1>1, JalaliMonths
<1>4. day = b + n + d
  BY <1>1, DayInYear
<1> HIDE DEF b, n, d, day
<1>5. day \in Int /\ Origin <= day /\ day <= LastDay
  BY OriginIs, <1>1, <1>2, <1>3, <1>4 DEF LastDay
<1> QED
  BY <1>5 DEF day

LEMMA DateOfNextDay ==
  ASSUME NEW g \in GregorianDays, g.y <= 2032
  PROVE  /\ NextGregorian(g) \in GregorianDays
         /\ GregorianToJalali(NextGregorian(g)) = NextJalali(GregorianToJalali(g))
<1> DEFINE next == NextGregorian(g)
           j == GregorianToJalali(g)
<1>1. next \in GregorianDays /\ GregorianToJulianDay(next) = GregorianToJulianDay(g) + 1
  BY GregorianGoesOn
<1>2. j \in JalaliDays /\ JalaliToJulianDay(j) = GregorianToJulianDay(g)
  BY DateOfDay
<1>3. j.y <= 1411
  BY YearOfDay DEF GregorianDays
<1>4. NextJalali(j) \in JalaliDays /\ JalaliToJulianDay(NextJalali(j)) = JalaliToJulianDay(j) + 1
  BY <1>2, <1>3, JalaliGoesOn
<1>5. GregorianToJalali(next) \in JalaliDays /\ JalaliToJulianDay(GregorianToJalali(next)) = GregorianToJulianDay(next)
  BY <1>1, DateOfDay
<1> HIDE DEF next, j
<1>6. GregorianToJalali(next) = NextJalali(j)
  BY <1>1, <1>2, <1>4, <1>5, SameDaySameDate
<1> QED
  BY <1>1, <1>6 DEF next, j

(* Dates compare as their digits do.                                         *)
Digits(j) == j.y * 10000 + j.m * 100 + j.d

LEMMA LaterDigits ==
  ASSUME NEW a \in JalaliDays, NEW b \in JalaliDays, Before(a, b)
  PROVE  Digits(a) < Digits(b)
<1> DEFINE y == a.y
           m == a.m
           d == a.d
           y2 == b.y
           m2 == b.m
           d2 == b.d
<1>1. y \in Int /\ m \in 1..12 /\ d \in 1..31 /\ y2 \in Int /\ m2 \in 1..12 /\ d2 \in 1..31
  BY DEF JalaliDays, Years
<1>2. y < y2 \/ (y = y2 /\ (m < m2 \/ (m = m2 /\ d < d2)))
  BY Zenon DEF Before
<1>3. Digits(a) = y * 10000 + m * 100 + d /\ Digits(b) = y2 * 10000 + m2 * 100 + d2
  BY SMT DEF Digits
<1> HIDE DEF y, m, d, y2, m2, d2
<1> QED
  BY <1>1, <1>2, <1>3, SMT

LEMMA DigitsCompare ==
  ASSUME NEW a \in JalaliDays, NEW b \in JalaliDays
  PROVE  Digits(a) <= Digits(b) <=> JalaliToJulianDay(a) - JalaliToJulianDay(b) <= 0
<1>1. JalaliToJulianDay(a) \in Int /\ JalaliToJulianDay(b) \in Int
  BY DaysOfYears
<1>2. Digits(a) \in Int /\ Digits(b) \in Int
  <2>1. a.y \in Int /\ a.m \in Int /\ a.d \in Int /\ b.y \in Int /\ b.m \in Int /\ b.d \in Int
    BY DEF JalaliDays, Years
  <2> QED
    BY <2>1, SMT DEF Digits
<1>3. CASE Before(a, b)
  <2>1. Digits(a) < Digits(b) /\ JalaliToJulianDay(a) < JalaliToJulianDay(b)
    BY <1>3, LaterDigits, LaterDatesAreLater
  <2> QED
    BY <1>1, <1>2, <2>1
<1>4. CASE Before(b, a)
  <2>1. Digits(b) < Digits(a) /\ JalaliToJulianDay(b) < JalaliToJulianDay(a)
    BY <1>4, LaterDigits, LaterDatesAreLater
  <2> QED
    BY <1>1, <1>2, <2>1
<1>5. CASE ~Before(a, b) /\ ~Before(b, a)
  <2>1. a = b
    BY <1>5, NeitherBefore
  <2> QED
    BY <1>1, <1>2, <2>1
<1> QED
  BY <1>3, <1>4, <1>5

(* The calculation about a day                                              *)

LEMMA TitlesDoAgree ==
  ASSUME DatesAreKnown
  PROVE  TitlesAgree
<1> SUFFICES ASSUME NEW c \in Contracts, NEW i \in DOMAIN Days, c.title # NoDate
             PROVE  /\ DaysLeft(c.title, Days[i]) # None
                    /\ NamePassed(RowOf(c, None), Days[i]) <=> DaysLeft(c.title, Days[i]) <= 0
  BY DEF TitlesAgree
<1> DEFINE now == GregorianToJalali(Days[i])
<1>1. c.title \in JalaliDays /\ now \in JalaliDays
  BY DateOfDay DEF DatesAreKnown
<1>2. DaysLeft(c.title, Days[i]) = JalaliToJulianDay(c.title) - JalaliToJulianDay(now)
  BY DEF DaysLeft
<1>3. RowOf(c, None).title = c.title
  BY DEF RowOf
<1>4. NamePassed(RowOf(c, None), Days[i]) <=> Digits(c.title) <= Digits(now)
  BY <1>3, SMT DEF NamePassed, Digits
<1> HIDE DEF now
<1>5. DaysLeft(c.title, Days[i]) # None
  <2>1. /\ JalaliToJulianDay(c.title) \in Int /\ Origin <= JalaliToJulianDay(c.title)
        /\ JalaliToJulianDay(now) \in Int /\ JalaliToJulianDay(now) <= LastDay
    BY <1>1, DaysOfYears
  <2> QED
    BY OriginIs, <1>2, <2>1, SMT DEF None, LastDay
<1>6. NamePassed(RowOf(c, None), Days[i]) <=> DaysLeft(c.title, Days[i]) <= 0
  BY <1>1, <1>2, <1>4, DigitsCompare
<1> QED
  BY <1>5, <1>6

(* A question about a day is one of those that are asked, and its answer is  *)
(* the one the code computes.                                                *)
DatedInv ==
  /\ job \in Jobs \cup {NoJob}
  /\ answer.kind = "calendar" =>
       /\ job.kind = "calendar"
       /\ answer.jalali = GregorianToJalali(job.today)
       /\ answer.left = [t \in job.titles |-> DaysLeft(t, job.today)]

LEMMA DatedIs ==
  ASSUME DatesAreKnown, DatedInv
  PROVE  DaysFollowEachOther
<1>1. shelf.on => TitlesAgree
  BY TitlesDoAgree
<1>2. ASSUME answer.kind = "calendar"
      PROVE  LET today == job.today
                 tomorrow == NextGregorian(today)
                 j == answer.jalali
             IN  /\ j.m \in 1..12 /\ j.d \in 1..JalaliLength(j.y, j.m)
                 /\ GregorianToJalali(tomorrow) = NextJalali(j)
                 /\ JalaliToJulianDay(j) = GregorianToJulianDay(today)
                 /\ DaysLeft(j, today) = 0
                 /\ \A t \in job.titles : DaysLeft(t, tomorrow) = answer.left[t] - 1
  <2> DEFINE today == job.today
             tomorrow == NextGregorian(today)
             j == GregorianToJalali(today)
             next == GregorianToJalali(tomorrow)
  <2>1. answer.jalali = j /\ answer.left = [t \in job.titles |-> DaysLeft(t, today)]
    BY <1>2 DEF DatedInv
  <2>2. job.kind = "calendar" /\ job \in Jobs
    BY <1>2 DEF DatedInv, NoJob
  <2>3. today \in GregorianDays /\ today.y < 2033 /\ job.titles \subseteq JalaliDays
    BY <2>2 DEF DatesAreKnown
  <2>4. today.y <= 2032
    BY <2>3 DEF GregorianDays
  <2>5. j \in JalaliDays /\ JalaliToJulianDay(j) = GregorianToJulianDay(today)
    BY <2>3, DateOfDay
  <2>6. tomorrow \in GregorianDays /\ next = NextJalali(j)
    BY <2>3, <2>4, DateOfNextDay
  <2>7. next \in JalaliDays /\ JalaliToJulianDay(next) = JalaliToJulianDay(j) + 1
    BY <2>3, <2>4, <2>5, <2>6, DateOfDay, GregorianGoesOn
  <2>8. j.m \in 1..12 /\ j.d \in 1..JalaliLength(j.y, j.m)
    BY <2>5 DEF JalaliDays, JalaliLength
  <2>9. JalaliToJulianDay(j) \in Int
    BY <2>5, DaysOfYears
  <2>10. DaysLeft(j, today) = 0
    BY <2>9 DEF DaysLeft
  <2>11. ASSUME NEW t \in job.titles PROVE DaysLeft(t, tomorrow) = answer.left[t] - 1
    <3>1. JalaliToJulianDay(t) \in Int
      BY <2>3, DaysOfYears
    <3>2. DaysLeft(t, tomorrow) = JalaliToJulianDay(t) - JalaliToJulianDay(next) /\ answer.left[t] = JalaliToJulianDay(t) - JalaliToJulianDay(j)
      BY <2>1 DEF DaysLeft
    <3> HIDE DEF next, j, tomorrow, today
    <3> QED
      BY <2>7, <2>9, <3>1, <3>2
  <2> HIDE DEF next
  <2> QED
    BY <2>1, <2>5, <2>6, <2>8, <2>10, <2>11 DEF next
<1> QED
  BY <1>1, <1>2 DEF DaysFollowEachOther

LEMMA AnswersDated ==
  ASSUME DatedInv, [Next]_vars
  PROVE  DatedInv'
<1>1. CASE ReadCalendar
  <2>1. job.kind = "calendar" /\ job' = job
    BY <1>1 DEF ReadCalendar, Pending, Answers
  <2> DEFINE a == Dated(job.today, job.titles)
  <2>2. answer' = [f \in DOMAIN a \cup {"kind"} |-> IF f = "kind" THEN job.kind ELSE a[f]]
    BY <1>1 DEF ReadCalendar, Answers
  <2>3. a = [jalali |-> GregorianToJalali(job.today), left |-> [t \in job.titles |-> DaysLeft(t, job.today)]]
    BY DEF Dated
  <2>4. DOMAIN a = {"jalali", "left"} /\ a["jalali"] = GregorianToJalali(job.today) /\ a["left"] = [t \in job.titles |-> DaysLeft(t, job.today)]
    BY <2>3
  <2> HIDE DEF a
  <2>5. answer'.jalali = GregorianToJalali(job.today) /\ answer'.left = [t \in job.titles |-> DaysLeft(t, job.today)]
    BY <2>2, <2>4
  <2> QED
    BY <2>1, <2>5 DEF DatedInv
<1>2. CASE ReadBoard \/ SizeSuggestion \/ SizeHedge \/ ReadAdvice \/ ReadRoutes
  <2>1. job' = job /\ job.kind \in {"board", "sizing", "hedge", "advice", "routes"}
    BY <1>2, Zenon DEF ReadBoard, SizeSuggestion, SizeHedge, ReadAdvice, ReadRoutes, Pending, Answers
  <2>2. answer'.kind = job.kind
    <3>1. PICK a : answer' = [f \in DOMAIN a \cup {"kind"} |-> IF f = "kind" THEN job.kind ELSE a[f]]
      BY <1>2, Zenon DEF ReadBoard, SizeSuggestion, SizeHedge, ReadAdvice, ReadRoutes, Answers
    <3> QED
      BY <3>1
  <2> QED
    BY <2>1, <2>2 DEF DatedInv
<1>3. CASE UNCHANGED << job, answer >>
  BY <1>3 DEF DatedInv
<1>4. ReadCalendar \/ ReadBoard \/ SizeSuggestion \/ SizeHedge \/ ReadAdvice \/ ReadRoutes \/ UNCHANGED << job, answer >>
  BY DEF Next
<1> QED
  BY <1>1, <1>2, <1>3, <1>4

(* The next day is the next date in either calendar, and the days left to   *)
(* the date of a title fall by one a day and are over when the lists, which *)
(* compare dates as digits, let the title pass: for every day from 2013 to  *)
(* 2032 and the titles of those years, whichever are asked for              *)
(* (option-board.ts: gregorianToJalali, jalaliToJulianDay,                   *)
(* daysLeftFromLabels, nameExpiredOptionIds).                                *)
THEOREM DeskDaysFollowEachOther ==
  ASSUME DatesAreKnown
  PROVE  Spec => []DaysFollowEachOther
<1>1. Init => DatedInv
  BY DEF Init, DatedInv, Unanswered
<1>2. DatedInv /\ [Next]_vars => DatedInv'
  BY AnswersDated
<1>3. DatedInv => DaysFollowEachOther
  BY DatedIs
<1> QED
  BY <1>1, <1>2, <1>3, PTL DEF Spec

-----------------------------------------------------------------------------
(* The session of the web client, for any number of tabs and any limits. *)

USE DEF sessionVars

Stores == [token : BOOLEAN, active : 0..Never, cookie : 0..Life]
TabRecords == [page : Pages, going : Goals, due : BOOLEAN, refreshing : BOOLEAN, asking : Waits]

(* Why the doors agree: without a token nothing is stored, and while a      *)
(* session is not idle the cookie has lost no more of its life than the     *)
(* time that passed since the last activity.                                *)
SoundStore(s) ==
  /\ s \in Stores
  /\ ~s.token => s = Cleared
  /\ s.token /\ s.active <= IdleLimit => s.cookie + s.active >= Life

SessionInv == TypeOK /\ SoundStore(store)

(* What the functions of lib/api.ts store is sound when they are called in  *)
(* the place they are written for.                                          *)
LEMMA StoresSound ==
  ASSUME NEW s, SoundStore(s)
  PROVE  /\ SoundStore(Alive) /\ SoundStore(ClearSession)
         /\ ~TimedOut(s) => SoundStore(EnsureAuthCookie(s))
         /\ TimedOut(s) => SoundStore(Read(s))
<1>1. IdleLimit \in Nat /\ Life \in Nat /\ Never \in Nat /\ 0 \in 0..Never /\ 0 \in 0..Life /\ Life \in 0..Life
  BY SessionBounds DEF Never
<1>2. SoundStore(Alive)
  BY <1>1 DEF SoundStore, Stores, Alive
<1>3. SoundStore(ClearSession)
  BY <1>1 DEF SoundStore, Stores, ClearSession, Cleared
<1>4. ASSUME ~TimedOut(s) PROVE SoundStore(EnsureAuthCookie(s))
  <2>1. s.token /\ s \in Stores
    BY <1>4 DEF TimedOut, SoundStore
  <2>2. CASE s.active = Never
    <3>0. WithTime(s) = [token |-> s.token, active |-> 0, cookie |-> s.cookie]
      BY <2>1, <2>2 DEF WithTime, Stores
    <3>1. EnsureAuthCookie(s) = [token |-> s.token, active |-> 0, cookie |-> Life]
      BY <3>0 DEF EnsureAuthCookie
    <3> QED
      BY <1>1, <2>1, <3>1 DEF SoundStore, Stores
  <2>3. CASE s.active # Never
    <3>0. WithTime(s) = s
      BY <2>3 DEF WithTime
    <3>1. EnsureAuthCookie(s) = [token |-> s.token, active |-> s.active, cookie |-> Life]
      <4>1. s = [token |-> s.token, active |-> s.active, cookie |-> s.cookie]
        BY <2>1 DEF Stores
      <4>2. EnsureAuthCookie(s) = [s EXCEPT !.cookie = Life]
        BY <3>0 DEF EnsureAuthCookie
      <4> QED
        BY <4>1, <4>2, Zenon
    <3>2. s.active \in Nat
      BY <1>1, <2>1 DEF Stores
    <3> QED
      BY <1>1, <2>1, <3>1, <3>2 DEF SoundStore, Stores
  <2> QED
    BY <2>2, <2>3
<1>5. ASSUME TimedOut(s) PROVE SoundStore(Read(s))
  <2>1. CASE s.token
    BY <1>3, <1>5, <2>1 DEF TimedOut, Read
  <2>2. CASE ~s.token
    BY <2>2 DEF Read, WithTime
  <2> QED
    BY <2>1, <2>2
<1> QED
  BY <1>2, <1>3, <1>4, <1>5

LEMMA InvParts ==
  SessionInv <=> /\ SoundStore(store) /\ tab \in [Tabs -> TabRecords]
          /\ news \subseteq { u \in Tabs : tab[u].page = "inside" }
          /\ silence \in 0..(IdleLimit + 1) /\ signIns \in 0..MaxSignIns
  BY DEF SessionInv, TypeOK, SoundStore, Stores, TabRecords

LEMMA InvPartsNext ==
  ASSUME SoundStore(store)', tab' \in [Tabs -> TabRecords],
         news' \subseteq { u \in Tabs : tab'[u].page = "inside" },
         silence' \in 0..(IdleLimit + 1), signIns' \in 0..MaxSignIns
  PROVE  SessionInv'
  BY DEF SessionInv, TypeOK, SoundStore, Stores, TabRecords

(* A step that stores something sound and leaves a tab in its type.         *)
LEMMA BecomesKeeps ==
  ASSUME SessionInv, NEW t \in Tabs, NEW s, NEW b, SoundStore(s), b \in TabRecords,
         Becomes(t, s, b), silence' \in 0..(IdleLimit + 1), signIns' \in 0..MaxSignIns
  PROVE  SessionInv'
<1>1. store' = s /\ tab' = [tab EXCEPT ![t] = b] /\ tab \in [Tabs -> TabRecords]
  BY DEF Becomes, SessionInv, TypeOK, TabRecords
<1>2. tab' \in [Tabs -> TabRecords]
  BY <1>1
<1>3. news' \subseteq { u \in Tabs : tab'[u].page = "inside" }
  <2> SUFFICES ASSUME NEW u \in news' PROVE u \in Tabs /\ tab'[u].page = "inside"
    OBVIOUS
  <2>1. news \subseteq { v \in Tabs : tab[v].page = "inside" }
    BY DEF SessionInv, TypeOK
  <2>2. CASE u = t
    <3>1. b.page = "inside"
      BY <2>2 DEF Becomes
    <3> QED
      BY <1>1, <2>2, <3>1
  <2>3. CASE u # t
    <3>1. u \in Tabs /\ tab[u].page = "inside"
      BY <2>1, <2>3 DEF Becomes
    <3> QED
      BY <1>1, <2>3, <3>1
  <2> QED
    BY <2>2, <2>3
<1>4. SoundStore(store)'
  BY <1>1 DEF SoundStore
<1> QED
  BY <1>1, <1>2, <1>3, <1>4 DEF SessionInv, TypeOK, SoundStore, Stores, TabRecords

(* What the handlers make of a tab's record.                                *)
LEMMA RecordsTyped ==
  ASSUME NEW b \in TabRecords,
         NEW place \in Pages, NEW going \in Goals, NEW due \in BOOLEAN, NEW asking \in Waits
  PROVE  /\ RefreshIfNeeded(b) \in TabRecords
         /\ [b EXCEPT !.page = place, !.going = going] \in TabRecords
         /\ [b EXCEPT !.page = place, !.going = going, !.asking = asking] \in TabRecords
         /\ [b EXCEPT !.due = due, !.going = going] \in TabRecords
         /\ [b EXCEPT !.asking = asking, !.due = due, !.going = going] \in TabRecords
         /\ [b EXCEPT !.refreshing = FALSE, !.due = FALSE] \in TabRecords
         /\ [b EXCEPT !.refreshing = FALSE] \in TabRecords
         /\ [b EXCEPT !.asking = asking] \in TabRecords
         /\ [b EXCEPT !.asking = asking, !.due = due] \in TabRecords
         /\ [b EXCEPT !.asking = asking, !.going = going] \in TabRecords
         /\ [b EXCEPT !.due = due] \in TabRecords
         /\ [b EXCEPT !.going = going] \in TabRecords
         /\ b.going \in Goals /\ ToDoor(b.going) \in Goals /\ b.asking \in Waits
<1>1. \A c \in TabRecords : [c EXCEPT !.due = FALSE, !.refreshing = TRUE] \in TabRecords
  BY DEF TabRecords
<1>2. RefreshIfNeeded(b) \in TabRecords
  BY <1>1 DEF RefreshIfNeeded
<1>3. ToDoor(b.going) \in Goals
  BY DEF TabRecords, ToDoor, Goals
<1> QED
  BY <1>2, <1>3 DEF TabRecords

LEMMA SessionStep == SessionInv /\ [SessionNext]_sessionVars => SessionInv'
<1> SUFFICES ASSUME SessionInv, [SessionNext]_sessionVars PROVE SessionInv'
  OBVIOUS
<1> USE DEF Pages, Goals, Waits
<1>0. /\ tab \in [Tabs -> TabRecords] /\ SoundStore(store)
      /\ silence \in 0..(IdleLimit + 1) /\ signIns \in 0..MaxSignIns /\ 0 \in 0..(IdleLimit + 1)
  <2>1. 0 \in 0..(IdleLimit + 1)
    BY SessionBounds
  <2> QED
    BY <2>1, InvParts
<1>1. SoundStore(Alive) /\ SoundStore(ClearSession)
  BY <1>0, StoresSound
<1>2. ~TimedOut(store) => SoundStore(EnsureAuthCookie(store))
  BY <1>0, StoresSound
<1>3. TimedOut(store) => SoundStore(Read(store))
  BY <1>0, StoresSound
<1>4. ASSUME NEW t \in Tabs, Tick(t) PROVE SessionInv'
  <2>1. CASE TimedOut(store)
    <3>1. [tab[t] EXCEPT !.due = TRUE, !.going = ToDoor(@)] \in TabRecords
      BY <1>0, RecordsTyped, ZenonT(60)
    <3> QED
      BY <1>0, <1>1, <1>4, <2>1, <3>1, BecomesKeeps, SMTT(30) DEF Tick, LogoutIdle
  <2>2. CASE ~TimedOut(store)
    <3>1. RefreshIfNeeded(tab[t]) \in TabRecords
      BY <1>0, RecordsTyped, ZenonT(60)
    <3>2. SoundStore(IF RefreshDue(tab[t]) THEN Alive ELSE EnsureAuthCookie(store))
      BY <1>1, <1>2, <2>2
    <3> QED
      BY <1>0, <1>4, <2>2, <3>1, <3>2, BecomesKeeps DEF Tick, KeepAlive
  <2> QED
    BY <2>1, <2>2
<1>5. ASSUME NEW t \in Tabs, Gesture(t) PROVE SessionInv'
  <2>1. /\ [tab[t] EXCEPT !.due = TRUE, !.going = ToDoor(@)] \in TabRecords
        /\ RefreshIfNeeded(tab[t]) \in TabRecords
    BY <1>0, RecordsTyped
  <2> QED
    BY <1>0, <1>1, <1>5, <2>1, BecomesKeeps DEF Gesture, LogoutIdle
<1>6. ASSUME NEW t \in Tabs, Hear(t) PROVE SessionInv'
  <2>1. tab' = [tab EXCEPT ![t] = [tab[t] EXCEPT !.due = TRUE, !.going = ToDoor(@)]]
    BY <1>0, <1>6 DEF Hear
  <2>2. [tab[t] EXCEPT !.due = TRUE, !.going = ToDoor(@)] \in TabRecords
    BY <1>0, RecordsTyped
  <2>3. \A u \in Tabs : tab'[u].page = tab[u].page
    BY <1>0, <2>1 DEF TabRecords
  <2>4. news' \subseteq { u \in Tabs : tab'[u].page = "inside" }
    BY <1>6, <2>3 DEF Hear, SessionInv, TypeOK
  <2>5. SoundStore(store)'
    BY <1>1, <1>6 DEF Hear, SoundStore
  <2> QED
    BY <1>0, <1>6, <2>1, <2>2, <2>4, <2>5, InvPartsNext DEF Hear
<1>7. ASSUME NEW t \in Tabs, Logout(t) PROVE SessionInv'
  <2>1. [tab[t] EXCEPT !.due = TRUE, !.going = "reload"] \in TabRecords
    BY <1>0, RecordsTyped
  <2> QED
    BY <1>0, <1>1, <1>7, <2>1, BecomesKeeps, SMTT(30) DEF Logout
<1>8. ASSUME NEW t \in Tabs, Open(t) PROVE SessionInv'
  <2>1. Blank \in TabRecords
    BY SMTT(30) DEF Blank, TabRecords
  <2>2. \A goal \in {"door", "inside"} : [Blank EXCEPT !.page = "loading", !.going = goal] \in TabRecords
    BY <2>1, RecordsTyped
  <2>3. tab' \in [Tabs -> TabRecords]
    BY <1>0, <1>8, <2>2 DEF Open
  <2>4. \A u \in Tabs \ {t} : tab'[u] = tab[u]
    BY <1>0, <1>8 DEF Open
  <2>5. news' \subseteq { u \in Tabs : tab'[u].page = "inside" }
    BY <1>8, <2>4 DEF Open, SessionInv, TypeOK
  <2> QED
    BY <1>0, <1>8, <2>3, <2>5 DEF Open, SessionInv, TypeOK, SoundStore, Stores, TabRecords
<1>9. ASSUME NEW t \in Tabs, Close(t) PROVE SessionInv'
  <2>1. tab' \in [Tabs -> TabRecords]
    BY <1>0, <1>9 DEF Close, Blank, TabRecords
  <2>2. \A u \in Tabs \ {t} : tab'[u] = tab[u]
    BY <1>0, <1>9 DEF Close
  <2>3. news' \subseteq { u \in Tabs : tab'[u].page = "inside" }
    BY <1>9, <2>2 DEF Close, SessionInv, TypeOK
  <2> QED
    BY <1>0, <1>9, <2>1, <2>3 DEF Close, SessionInv, TypeOK, SoundStore, Stores, TabRecords
<1>10. ASSUME NEW t \in Tabs, Route(t) PROVE SessionInv'
  <2> DEFINE to == IF store.cookie > 0 THEN "at inside" ELSE "at door"
  <2>1. CASE tab[t].going = "reload"
    <3>1. [Blank EXCEPT !.page = "loading", !.going = to] \in TabRecords
      BY DEF Blank, TabRecords
    <3>2. tab' = [tab EXCEPT ![t] = [Blank EXCEPT !.page = "loading", !.going = to]] /\ news' = news \ {t}
      BY <1>10, <2>1 DEF Route
    <3>3. tab' \in [Tabs -> TabRecords] /\ news' \subseteq { u \in Tabs : tab'[u].page = "inside" }
      BY <1>0, <3>1, <3>2, ZenonT(60) DEF SessionInv, TypeOK
    <3> QED
      BY <1>0, <1>10, <3>3 DEF Route, SessionInv, TypeOK, SoundStore, Stores, TabRecords
  <2>2. CASE tab[t].going # "reload"
    <3>1. [tab[t] EXCEPT !.going = to] \in TabRecords
      BY <1>0, RecordsTyped
    <3>2. tab' = [tab EXCEPT ![t] = [tab[t] EXCEPT !.going = to]] /\ UNCHANGED news
      BY <1>0, <1>10, <2>2 DEF Route
    <3>3. \A u \in Tabs : tab'[u].page = tab[u].page
      BY <1>0, <3>2 DEF TabRecords
    <3>4. tab' \in [Tabs -> TabRecords] /\ news' \subseteq { u \in Tabs : tab'[u].page = "inside" }
      BY <1>0, <3>1, <3>2, <3>3 DEF SessionInv, TypeOK
    <3> QED
      BY <1>0, <1>10, <3>4 DEF Route, SessionInv, TypeOK, SoundStore, Stores, TabRecords
  <2> QED
    BY <2>1, <2>2
<1>11. ASSUME NEW t \in Tabs, LandAtDoor(t) PROVE SessionInv'
  <2>1. CASE TimedOut(store)
    <3>1. [tab[t] EXCEPT !.page = "door", !.going = "nowhere"] \in TabRecords
      BY <1>0, RecordsTyped
    <3> QED
      BY <1>0, <1>3, <1>11, <2>1, <3>1, BecomesKeeps DEF LandAtDoor
  <2>2. CASE ~TimedOut(store)
    <3>1. PICK asking \in MayAsk(t) :
            Becomes(t, IF asking # tab[t].asking THEN Alive ELSE EnsureAuthCookie(store),
                    [tab[t] EXCEPT !.page = "door", !.going = "inside", !.asking = asking])
      BY <1>11, <2>2 DEF LandAtDoor
    <3>2. asking \in Waits
      BY <1>0 DEF MayAsk, TabRecords
    <3>3. [tab[t] EXCEPT !.page = "door", !.going = "inside", !.asking = asking] \in TabRecords
      BY <1>0, <3>2, RecordsTyped, ZenonT(60)
    <3>4. SoundStore(IF asking # tab[t].asking THEN Alive ELSE EnsureAuthCookie(store))
      BY <1>1, <1>2, <2>2
    <3>5. silence' \in 0..(IdleLimit + 1) /\ signIns' \in 0..MaxSignIns
      BY <1>0, <1>11 DEF LandAtDoor
    <3> QED
      BY <3>1, <3>3, <3>4, <3>5, BecomesKeeps
  <2> QED
    BY <2>1, <2>2
<1>12. ASSUME NEW t \in Tabs, LandInside(t) PROVE SessionInv'
  <2>1. CASE TimedOut(store)
    <3>1. [tab[t] EXCEPT !.page = "inside", !.going = "door"] \in TabRecords
      BY <1>0, RecordsTyped
    <3> QED
      BY <1>0, <1>3, <1>12, <2>1, <3>1, BecomesKeeps DEF LandInside
  <2>2. CASE ~TimedOut(store)
    <3>1. PICK asking \in MayAsk(t) :
            Becomes(t, Alive, RefreshIfNeeded(
                      [tab[t] EXCEPT !.page = "inside", !.going = "nowhere", !.asking = asking]))
      BY <1>12, <2>2, ZenonT(60) DEF LandInside
    <3>2. asking \in Waits
      BY <1>0 DEF MayAsk, TabRecords
    <3>3. [tab[t] EXCEPT !.page = "inside", !.going = "nowhere", !.asking = asking] \in TabRecords
      BY <1>0, <3>2, RecordsTyped
    <3>4. RefreshIfNeeded([tab[t] EXCEPT !.page = "inside", !.going = "nowhere", !.asking = asking])
             \in TabRecords
      BY <3>3, RecordsTyped
    <3>5. silence' \in 0..(IdleLimit + 1) /\ signIns' \in 0..MaxSignIns
      BY <1>0, <1>12 DEF LandInside
    <3> QED
      BY <1>1, <3>1, <3>4, <3>5, BecomesKeeps
  <2> QED
    BY <2>1, <2>2
<1>13. ASSUME NEW t \in Tabs, Refreshed(t) \/ DataArrives(t) PROVE SessionInv'
  <2>1. /\ [tab[t] EXCEPT !.refreshing = FALSE, !.due = FALSE] \in TabRecords
        /\ [tab[t] EXCEPT !.refreshing = FALSE] \in TabRecords
        /\ [tab[t] EXCEPT !.asking = "nothing"] \in TabRecords
    BY <1>0, RecordsTyped
  <2>2. silence' \in 0..(IdleLimit + 1) /\ signIns' \in 0..MaxSignIns
    BY <1>0, <1>13 DEF Refreshed, DataArrives
  <2> QED
    BY <1>0, <1>1, <1>13, <2>1, <2>2, BecomesKeeps, SMTT(30) DEF Refreshed, DataArrives
<1>14. ASSUME NEW t \in Tabs, Ask(t) PROVE SessionInv'
  <2>1. [tab[t] EXCEPT !.asking = "data"] \in TabRecords
    BY <1>0, RecordsTyped
  <2>2. SoundStore(IF TimedOut(store) THEN Read(store) ELSE Alive)
    BY <1>1, <1>3
  <2>3. silence' \in 0..(IdleLimit + 1) /\ signIns' \in 0..MaxSignIns
    BY <1>0, <1>14 DEF Ask
  <2> QED
    BY <1>14, <2>1, <2>2, <2>3, BecomesKeeps, SMTT(30) DEF Ask
<1>15. ASSUME NEW t \in Tabs, AskingFails(t) PROVE SessionInv'
  <2>1. [tab[t] EXCEPT !.asking = "nothing", !.due = TRUE, !.going = ToDoor(@)] \in TabRecords
    BY <1>0, RecordsTyped
  <2> QED
    BY <1>0, <1>3, <1>15, <2>1, BecomesKeeps, SMTT(30) DEF AskingFails
<1>16. ASSUME NEW t \in Tabs, Refused(t) PROVE SessionInv'
  <2> DEFINE to == IF tab[t].page = "inside" THEN "reload" ELSE tab[t].going
  <2>1. to \in Goals
    BY <1>0, RecordsTyped
  <2>2. [tab[t] EXCEPT !.asking = "nothing", !.due = TRUE, !.going = to] \in TabRecords
    BY <1>0, <2>1, RecordsTyped, ZenonT(60)
  <2>3. Becomes(t, ClearSession, [tab[t] EXCEPT !.asking = "nothing", !.due = TRUE, !.going = to])
    BY <1>16 DEF Refused
  <2>4. silence' \in 0..(IdleLimit + 1) /\ signIns' \in 0..MaxSignIns
    BY <1>0, <1>16 DEF Refused
  <2> QED
    BY <1>1, <2>2, <2>3, <2>4, BecomesKeeps
<1>17. ASSUME NEW t \in Tabs, SubmitLogin(t) PROVE SessionInv'
  <2>1. tab' = [tab EXCEPT ![t] = [tab[t] EXCEPT !.asking = "sign in"]] /\ UNCHANGED <<news, store>>
    BY <1>0, <1>17 DEF SubmitLogin
  <2>2. [tab[t] EXCEPT !.asking = "sign in"] \in TabRecords
    BY <1>0, RecordsTyped
  <2>3. \A u \in Tabs : tab'[u].page = tab[u].page
    BY <1>0, <2>1 DEF TabRecords
  <2>4. news' \subseteq { u \in Tabs : tab'[u].page = "inside" }
    BY <2>1, <2>3 DEF SessionInv, TypeOK
  <2>5. signIns' \in 0..MaxSignIns
    <3>1. signIns \in 0..MaxSignIns /\ signIns < MaxSignIns /\ signIns' = signIns + 1
      BY <1>0, <1>17 DEF SubmitLogin
    <3> QED
      BY <3>1, SessionBounds
  <2>6. silence' \in 0..(IdleLimit + 1) /\ SoundStore(store)' /\ tab' \in [Tabs -> TabRecords]
    BY <1>0, <1>17, <2>1, <2>2 DEF SubmitLogin, SoundStore
  <2> QED
    BY <2>4, <2>5, <2>6, InvPartsNext
<1>18. ASSUME NEW t \in Tabs, SignedIn(t) PROVE SessionInv'
  <2>1. /\ [tab[t] EXCEPT !.asking = "nothing", !.due = FALSE, !.going = "inside"] \in TabRecords
        /\ [tab[t] EXCEPT !.asking = "offer", !.due = FALSE] \in TabRecords
        /\ [tab[t] EXCEPT !.asking = "nothing"] \in TabRecords
    BY <1>0, RecordsTyped
  <2>2. silence' \in 0..(IdleLimit + 1) /\ signIns' \in 0..MaxSignIns
    BY <1>0, <1>18 DEF SignedIn
  <2> QED
    BY <1>0, <1>1, <1>18, <2>1, <2>2, BecomesKeeps DEF SignedIn
<1>19. ASSUME NEW t \in Tabs, EndOffer(t) PROVE SessionInv'
  <2>1. [tab[t] EXCEPT !.asking = "nothing", !.going = "inside"] \in TabRecords
    BY <1>0, RecordsTyped
  <2>2. PICK s \in {store, ClearSession} :
          Becomes(t, s, [tab[t] EXCEPT !.asking = "nothing", !.going = "inside"])
    BY <1>19 DEF EndOffer
  <2>3. SoundStore(s)
    BY <1>0, <1>1
  <2>4. silence' \in 0..(IdleLimit + 1) /\ signIns' \in 0..MaxSignIns
    BY <1>0, <1>19 DEF EndOffer
  <2> QED
    BY <2>1, <2>2, <2>3, <2>4, BecomesKeeps
<1>20. CASE IntervalPasses
  <2> DEFINE active == IF store.active = Never THEN Never ELSE Older(store.active, IdleLimit + 1)
             cookie == IF store.cookie = 0 THEN 0 ELSE store.cookie - 1
  <2>1. IdleLimit \in Nat /\ Life \in Nat /\ IdleLimit < Life /\ Never = IdleLimit + 2
    BY SessionBounds DEF Never
  <2>2. /\ store \in Stores /\ store.active \in 0..Never /\ store.cookie \in 0..Life
        /\ store.token \in BOOLEAN
    BY <1>0 DEF SoundStore, Stores
  <2>3. store' = [token |-> store.token, active |-> active, cookie |-> cookie]
    <3>1. store' = [[store EXCEPT !.active = active] EXCEPT !.cookie = cookie]
      BY <1>20 DEF IntervalPasses
    <3> QED
      BY <2>2, <3>1 DEF Stores
  <2>4. active \in 0..Never /\ cookie \in 0..Life
    BY <2>1, <2>2 DEF Older
  <2>5. ~store.token => store' = Cleared
    <3> SUFFICES ASSUME ~store.token PROVE store' = Cleared
      OBVIOUS
    <3>1. store = [token |-> FALSE, active |-> Never, cookie |-> 0]
      BY <1>0 DEF SoundStore, Cleared
    <3>2. store.token = FALSE /\ active = Never /\ cookie = 0
      BY <3>1
    <3> QED
      BY <2>3, <3>2 DEF Cleared
  <2>6. ASSUME store.token, active <= IdleLimit PROVE cookie + active >= Life
    <3>1. store.active # Never /\ active = store.active + 1 /\ store.active <= IdleLimit
      BY <2>1, <2>2, <2>6 DEF Older
    <3>2. store.cookie + store.active >= Life
      BY <1>0, <2>6, <3>1 DEF SoundStore
    <3> QED
      BY <2>1, <2>2, <3>1, <3>2
  <2>7. SoundStore(store)'
    BY <2>3, <2>4, <2>5, <2>6, <2>2 DEF SoundStore, Stores
  <2>8. \A u \in Tabs : tab'[u] = [tab[u] EXCEPT !.due = TRUE]
    BY <1>20 DEF IntervalPasses
  <2>9. \A u \in Tabs : tab'[u].page = tab[u].page /\ tab'[u] \in TabRecords
    <3> SUFFICES ASSUME NEW u \in Tabs PROVE tab'[u].page = tab[u].page /\ tab'[u] \in TabRecords
      OBVIOUS
    <3>1. tab[u] \in TabRecords
      BY <1>0
    <3>2. tab'[u] = [tab[u] EXCEPT !.due = TRUE]
      BY <2>8
    <3> QED
      BY <3>1, <3>2 DEF TabRecords
  <2>10. tab' \in [Tabs -> TabRecords]
    BY <1>20, <2>9 DEF IntervalPasses
  <2>11. news' \subseteq { u \in Tabs : tab'[u].page = "inside" }
    BY <1>20, <2>9 DEF IntervalPasses, SessionInv, TypeOK
  <2>12. silence' \in 0..(IdleLimit + 1) /\ signIns' \in 0..MaxSignIns
    BY <1>0, <1>20, <2>1 DEF IntervalPasses, Older
  <2> QED
    BY <2>7, <2>10, <2>11, <2>12 DEF SessionInv, TypeOK, SoundStore, Stores, TabRecords
<1>21. CASE UNCHANGED sessionVars
  BY <1>21 DEF SessionInv, TypeOK, SoundStore, Stores
<1> QED
  BY <1>4, <1>5, <1>6, <1>7, <1>8, <1>9, <1>10, <1>11, <1>12, <1>13, <1>14, <1>15, <1>16,
     <1>17, <1>18, <1>19, <1>20, <1>21 DEF SessionNext, Move, Receive, User

LEMMA SessionBegins == SessionInit => SessionInv
<1> SUFFICES ASSUME SessionInit PROVE SessionInv
  OBVIOUS
<1>1. IdleLimit \in Nat /\ Life \in Nat /\ Never = IdleLimit + 2 /\ MaxSignIns \in Nat
  BY SessionBounds DEF Never
<1>2. store.active = Never /\ SoundStore(store)
  <2>1. CASE store = Cleared
    BY <1>1, <2>1 DEF Cleared, SoundStore, Stores
  <2>2. CASE store = [Cleared EXCEPT !.token = TRUE]
    <3>1. store = [token |-> TRUE, active |-> Never, cookie |-> 0]
      BY <2>2 DEF Cleared
    <3> QED
      BY <1>1, <3>1 DEF SoundStore, Stores
  <2> QED
    BY <2>1, <2>2 DEF SessionInit
<1>3. tab \in [Tabs -> TabRecords]
  BY DEF SessionInit, Blank, TabRecords, Pages, Goals, Waits
<1> QED
  BY <1>1, <1>2, <1>3 DEF SessionInit, SessionInv, TypeOK, SoundStore, Stores, TabRecords

(* Type correctness of the session, whatever the tabs do to each other.     *)
THEOREM SessionTypeOK == SessionSpec => []TypeOK
<1>1. SessionInv => TypeOK
  BY DEF SessionInv
<1> QED
  BY <1>1, SessionBegins, SessionStep, PTL DEF SessionSpec

(* The middleware, which sees the cookie, and the shell, which sees the     *)
(* token and its age, agree on who may enter, for any number of tabs and as *)
(* long as the cookie outlives an idle session.                             *)
THEOREM SessionDoorsAgree == SessionSpec => []DoorsAgree
<1>1. SessionInv => DoorsAgree
  <2> SUFFICES ASSUME SessionInv PROVE DoorsAgree
    OBVIOUS
  <2>1. /\ IdleLimit \in Nat /\ Life \in Nat /\ IdleLimit < Life /\ Never = IdleLimit + 2
        /\ store.active \in 0..Never /\ store.cookie \in 0..Life /\ SoundStore(store)
    BY SessionBounds DEF SessionInv, SoundStore, Stores, Never
  <2>2. store.cookie > 0 => store.token
    BY <2>1 DEF SoundStore, Cleared
  <2>3. store.token /\ store.active <= IdleLimit => store.cookie > 0
    BY <2>1 DEF SoundStore
  <2> QED
    BY <2>2, <2>3 DEF DoorsAgree
<1> QED
  BY <1>1, SessionBegins, SessionStep, PTL DEF SessionSpec
=============================================================================
