------------------------------- MODULE Lists -------------------------------
(***************************************************************************)
(* The lists of the web client that are loaded again whenever the user asks *)
(* for something else: the market's instruments (market/page.tsx), the      *)
(* reports of a fund (funds/page.tsx), the history of the model's calls and *)
(* the texts of one of them (admin/ai-history/page.tsx).                    *)
(*                                                                          *)
(* A question is [about, page]; an answer shows the questions its rows      *)
(* answer.  The market's list and the texts number their requests and take  *)
(* only the answer to the last; the other two take every answer as it comes.*)
(***************************************************************************)
EXTENDS Integers, FiniteSets

CONSTANTS Topics,         \* what may be asked for
          MaxAsked        \* requests of a visit

VARIABLES list,           \* the list that is open
          wants,          \* the question the page's fields say
          timer,          \* whether a pause in typing is waited for
          asked,          \* requests that are not answered
          newest,         \* the number of the last request
          shows,          \* the questions the rows shown answer
          broken,         \* whether the last request failed
          loading,        \* what the history says of itself: any answer clears it
          crossed         \* whether requests for different things ever overlapped

listVars == << list, wants, timer, asked, newest, shows, broken, loading, crossed >>

-----------------------------------------------------------------------------
(* The lists *)

\* guarded: only the answer to the last request is taken.  typed: the topic is typed,
\* and asked for after a pause.  pages: they replace each other ("page") or are added
\* ("more").  work: long requests after which the list of before is loaded again.
\* shuts: what is open can be closed.
MarketList == [guarded |-> TRUE, typed |-> TRUE, pages |-> "page", work |-> {}, shuts |-> FALSE]
FundTimeline == [guarded |-> FALSE, typed |-> FALSE, pages |-> "none", work |-> {"analyze", "upload"}, shuts |-> FALSE]
CallHistory == [guarded |-> FALSE, typed |-> FALSE, pages |-> "more", work |-> {}, shuts |-> FALSE]
CallTexts == [guarded |-> TRUE, typed |-> FALSE, pages |-> "none", work |-> {}, shuts |-> TRUE]
NothingListed == [guarded |-> TRUE, typed |-> FALSE, pages |-> "none", work |-> {}, shuts |-> FALSE]
Lists == {MarketList, FundTimeline, CallHistory, CallTexts}

Closed == [about |-> "closed", page |-> 1]
About(t) == [about |-> t, page |-> 1]

\* Mutant: requests are not numbered.
AcceptsAny(c) == TRUE

Accepts(c) == list.guarded => c.n = newest

Asking(n, question, kind, work) ==
  [n |-> n, for |-> question, kind |-> kind, work |-> work, ok |-> TRUE, done |-> FALSE]

\* A request is sent for a question, as the fields said it when it was made.
Request(question, kind, work) ==
  /\ newest < MaxAsked
  /\ newest' = newest + 1
  /\ asked' = asked \cup {Asking(newest + 1, question, kind, work)}
  /\ loading' = (list.pages = "more")
  /\ crossed' = (crossed \/ \E c \in asked : c.for # question)

OpenedList(l) ==
  /\ list = l /\ timer = l.typed
  /\ wants \in IF l.shuts \/ l = NothingListed THEN {Closed} ELSE { About(t) : t \in Topics }
  /\ asked = IF l.typed \/ l.shuts \/ l = NothingListed THEN {} ELSE {Asking(1, wants, "load", "none")}
  /\ newest = Cardinality(asked) /\ shows = {} /\ broken = FALSE /\ crossed = FALSE /\ loading = (l.pages = "more")

\* The text of the search changes at once; every letter starts the pause again.
TypeText ==
  /\ list.typed
  /\ \E t \in Topics \ {wants.about} : wants' = [wants EXCEPT !.about = t]
  /\ timer' = TRUE
  /\ UNCHANGED << list, asked, newest, shows, broken, loading, crossed >>

PauseEnds ==
  /\ timer /\ timer' = FALSE
  /\ Request(About(wants.about), "load", "none")
  /\ UNCHANGED << list, wants, shows, broken >>

\* Another type or order, another fund, another user, another row: asked for at once.
Choose ==
  /\ list # NothingListed
  /\ \E t \in Topics \ {wants.about} :
       wants' = About(t) /\ Request(About(t), "load", "none")
  /\ shows' = IF list.shuts THEN {} ELSE shows
  /\ broken' = IF list.shuts THEN FALSE ELSE broken
  /\ UNCHANGED << list, timer >>

\* The open row is closed; its texts may still be on their way.
Shut ==
  /\ list.shuts /\ wants # Closed
  /\ wants' = Closed /\ shows' = {}
  /\ UNCHANGED << list, timer, asked, newest, broken, loading, crossed >>

NextPage ==
  /\ list.pages = "page" /\ shows # {}
  /\ \E p \in 1..2 \ {wants.page} : wants' = [wants EXCEPT !.page = p] /\ Request([wants EXCEPT !.page = p], "load", "none")
  /\ UNCHANGED << list, timer, shows, broken >>

\* The rows after those shown; the button waits while the list says it is loading.
More ==
  /\ list.pages = "more" /\ shows # {} /\ ~loading
  /\ Request(wants, "more", "none")
  /\ UNCHANGED << list, wants, timer, shows, broken >>

\* The reports of the fund are analysed, or one is uploaded (or removed); each button
\* waits for the end of its own work only.
Work ==
  /\ \E w \in list.work :
       /\ \A c \in asked : c.work # w
       /\ w = "analyze" => shows # {}
       /\ Request(wants, "work", w)
  /\ UNCHANGED << list, wants, timer, shows, broken >>

ServerAnswers ==
  /\ \E c \in asked : ~c.done /\ \E ok \in BOOLEAN :
       asked' = (asked \ {c}) \cup {[c EXCEPT !.done = TRUE, !.ok = ok]}
  /\ UNCHANGED << list, wants, timer, newest, shows, broken, loading, crossed >>

\* The page of the answer becomes the page of the list.
Take ==
  /\ \E c \in asked :
       /\ c.done /\ c.ok /\ c.kind # "work" /\ asked' = asked \ {c}
       /\ IF Accepts(c)
          THEN /\ shows' = IF c.kind = "more" THEN shows \cup {c.for} ELSE {c.for}
               /\ wants' = IF list.pages = "page" THEN [wants EXCEPT !.page = c.for.page] ELSE wants
               /\ broken' = (broken /\ c.kind = "more")
          ELSE UNCHANGED << shows, wants, broken >>
  /\ loading' = FALSE
  /\ UNCHANGED << list, timer, newest, crossed >>

RequestFails ==
  /\ \E c \in asked :
       /\ c.done /\ ~c.ok /\ asked' = asked \ {c}
       /\ broken' = (broken \/ (Accepts(c) /\ c.kind = "load"))
  /\ loading' = FALSE
  /\ UNCHANGED << list, wants, timer, newest, shows, crossed >>

\* After the work the list is loaded for the fund it was done for.
WorkEnds ==
  /\ \E c \in asked :
       /\ c.done /\ c.ok /\ c.kind = "work" /\ newest < MaxAsked
       /\ asked' = (asked \ {c}) \cup {[c EXCEPT !.n = newest + 1, !.kind = "load", !.done = FALSE]}
       /\ crossed' = (crossed \/ \E o \in asked \ {c} : o.for # c.for)
       /\ newest' = newest + 1
  /\ UNCHANGED << list, wants, timer, shows, broken, loading >>

NextList == TypeText \/ PauseEnds \/ Choose \/ Shut \/ NextPage \/ More \/ Work \/ ServerAnswers \/ Take \/ RequestFails \/ WorkEnds

-----------------------------------------------------------------------------
(* Properties *)

\* When nothing is waited for, a list shows what its fields ask for: always, however
\* answers overtake each other, where requests are numbered; elsewhere when requests
\* for different things never overlapped.  A list whose last request failed, or an
\* open row that was closed, shows what it showed
\* (market/page.tsx: load, onAssetType, toggleSort, goToPage, the pause of 300 ms;
\* ai-history: openGroup; funds: loadTimeline).
LastQuestionIsShown ==
  asked = {} /\ ~timer /\ ~broken /\ (list.guarded \/ ~crossed) /\ wants # Closed =>
    shows = {} \/ shows = {wants}
=============================================================================
