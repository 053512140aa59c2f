--------------------------- MODULE PortfolioPage ---------------------------
(***************************************************************************)
(* The page of a portfolio (portfolios/[id]/page.tsx).  Every button sends  *)
(* a request, says in `busy` which one is on its way and loads the portfolio *)
(* again when it is done; every button but the two that move cash is        *)
(* disabled while anything is busy, and the end of any request clears       *)
(* `busy`.  The suggestions of an analysis can be applied one by one, which *)
(* marks them, or all together.                                             *)
(*                                                                          *)
(* The portfolio is the number of changes made to it; an analysis is a      *)
(* number.                                                                  *)
(***************************************************************************)
EXTENDS Integers, FiniteSets

CONSTANTS Indices,        \* the suggestions of an analysis
          MaxTrips        \* requests of a visit

VARIABLES page,           \* "open", "left" or "none"
          changes,        \* changes made to the portfolio
          seen,           \* the changes the page shows, and the request that loaded them
          busy,           \* what the page says is on its way
          trips,          \* requests that are not answered
          trip,           \* the number of the last one
          edit,           \* whether the fields of a holding were changed
          analysis,       \* the analysis shown, 0 for none
          marks,          \* its suggestions that are marked as applied
          applied,        \* what was applied: [trip, analysis, one or all, index]
          failed,         \* requests answered with an error
          mixed           \* whether cash was moved while something was on its way

pageVars == << page, changes, seen, busy, trips, trip, edit, analysis, marks, applied, failed, mixed >>

NotLoaded == [changes |-> -1, by |-> -1]
Idle == "idle"

-----------------------------------------------------------------------------
(* Requests *)

\* The change every button but those below makes: suggest, evaluate, rebalance, add,
\* remove, hide the events, take a strategy.
Changes == {"change", "cash", "edit", "one", "all"}

Trip(kind, index) ==
  [n |-> trip + 1, kind |-> kind, index |-> index, analysis |-> analysis, step |-> "sent", seen |-> NotLoaded]

InitPage(where) ==
  /\ page = where /\ changes = 0 /\ seen = NotLoaded /\ busy = Idle /\ edit = FALSE
  /\ analysis = 0 /\ marks = {} /\ applied = {} /\ failed = {} /\ mixed = FALSE
  /\ trip = 0
  /\ trips = IF where = "open" THEN {[n |-> 0, kind |-> "first", index |-> 0, analysis |-> 0, step |-> "load", seen |-> NotLoaded]} ELSE {}

Ready == page = "open" /\ seen # NotLoaded /\ trip < MaxTrips
Go(kind, index) ==
  /\ trip' = trip + 1 /\ trips' = trips \cup {Trip(kind, index)} /\ busy' = kind
  /\ mixed' = (mixed \/ (trips # {} /\ \E t \in trips \cup {Trip(kind, index)} : t.kind = "cash"))
  /\ UNCHANGED << page, changes, seen, applied, failed >>

EditHolding ==
  /\ Ready /\ busy = Idle /\ ~edit /\ edit' = TRUE
  /\ UNCHANGED << page, changes, seen, busy, trips, trip, analysis, marks, applied, failed, mixed >>

\* run, addSymbol, saveHolding, removeSymbol, clearEvents, suggestPortfolio,
\* applyStrategy: what is written is loaded again.
Change ==
  /\ Ready /\ busy = Idle
  /\ \/ Go("change", 0)
     \/ edit /\ Go("edit", 0)
  /\ UNCHANGED << edit, analysis, marks >>

\* The two buttons that are never disabled.
MoveCash == Ready /\ Go("cash", 0) /\ UNCHANGED << edit, analysis, marks >>

\* Mutant: a new analysis comes with the marks of the one before.
AnalyzeKeepingMarks ==
  /\ Ready /\ busy = Idle /\ Go("analyze", 0)
  /\ analysis' = 0
  /\ UNCHANGED << edit, marks >>

\* analyzePortfolio: the analysis shown is dropped first, and its marks.
Analyze ==
  /\ Ready /\ busy = Idle /\ Go("analyze", 0)
  /\ analysis' = 0 /\ marks' = {}
  /\ UNCHANGED edit

\* applyOneSuggestion, applyAllSuggestions: all are sent, those applied before too.
Apply ==
  /\ Ready /\ busy = Idle /\ analysis # 0
  /\ \/ \E i \in Indices \ marks : Go("one", i)
     \/ Go("all", 0)
  /\ UNCHANGED << edit, analysis, marks >>

DeletePortfolio ==
  /\ Ready /\ busy = Idle /\ Go("delete", 0)
  /\ UNCHANGED << edit, analysis, marks >>

-----------------------------------------------------------------------------
(* Answers *)

Replaced(t, u) == (trips \ {t}) \cup {u}

\* The server makes the change, or reads the portfolio.
ServerActs ==
  /\ \E t \in trips :
       \/ /\ t.step = "sent" /\ trips' = Replaced(t, [t EXCEPT !.step = "back"])
          /\ changes' = IF t.kind \in Changes THEN changes + 1 ELSE changes
          /\ applied' = applied \cup { [trip |-> t.n, analysis |-> t.analysis, by |-> t.kind, index |-> i] :
                                         i \in IF t.kind = "one" THEN {t.index} ELSE IF t.kind = "all" THEN Indices ELSE {} }
       \/ /\ t.step = "load" /\ trips' = Replaced(t, [t EXCEPT !.step = "loaded", !.seen = [changes |-> changes, by |-> t.n]])
          /\ UNCHANGED << changes, applied >>
  /\ UNCHANGED << page, seen, busy, trip, edit, analysis, marks, failed, mixed >>

\* Mutant: the answer to a change ends it.
EndAtOnce(t) == trips' = trips \ {t} /\ busy' = Idle

LoadAgain(t) == trips' = Replaced(t, [t EXCEPT !.step = "load"]) /\ UNCHANGED busy

Done ==
  /\ \E t \in { x \in trips : x.step = "back" /\ x.kind \in Changes } :
       /\ LoadAgain(t)
       /\ edit' = (edit /\ t.kind # "edit")
       /\ marks' = CASE t.kind = "one" -> marks \cup {t.index} [] t.kind = "all" -> Indices [] OTHER -> marks
  /\ UNCHANGED << page, changes, seen, trip, analysis, applied, failed, mixed >>

Analyzed ==
  /\ \E t \in trips : /\ t.step = "back" /\ t.kind = "analyze"
                      /\ analysis' = t.n /\ trips' = trips \ {t}
  /\ busy' = Idle
  /\ UNCHANGED << page, changes, seen, trip, edit, marks, applied, failed, mixed >>

\* The page gives way to the list of portfolios.
Deleted ==
  /\ \E t \in trips : t.step = "back" /\ t.kind = "delete"
  /\ page' = "left" /\ trips' = {}
  /\ UNCHANGED << changes, seen, busy, trip, edit, analysis, marks, applied, failed, mixed >>

Loaded ==
  /\ \E t \in trips :
       /\ t.step = "loaded" /\ trips' = trips \ {t} /\ seen' = t.seen
       /\ busy' = IF t.kind = "first" THEN busy ELSE Idle
  /\ UNCHANGED << page, changes, trip, edit, analysis, marks, applied, failed, mixed >>

\* The request failed, before or after the server acted, or the load that follows
\* it; the first load that fails leads back to the list.
Failed ==
  /\ \E t \in trips :
       /\ trips' = trips \ {t} /\ busy' = Idle
       /\ page' = IF t.kind = "first" THEN "left" ELSE page
       /\ failed' = failed \cup {t.n}
  /\ UNCHANGED << changes, seen, trip, edit, analysis, marks, applied, mixed >>

NextPortfolioPage ==
  \/ EditHolding \/ Change \/ MoveCash \/ Analyze \/ Apply \/ DeletePortfolio
  \/ ServerActs \/ Done \/ Analyzed \/ Deleted \/ Loaded \/ Failed

-----------------------------------------------------------------------------
(* Properties *)

\* Unless cash was moved while something else was on its way, one request at a time
\* is out; and when none is, and no request failed since the portfolio was loaded,
\* the page shows it as it is (run and the other handlers, with `busy`).
PageShowsTheServer ==
  page = "open" /\ ~mixed =>
    /\ Cardinality(trips) <= 1
    /\ trips = {} /\ (\A f \in failed : f < seen.by) => seen.changes = changes

\* Unless cash was moved in between, a suggestion marked as applied was applied, of
\* the analysis shown; and it was applied once on its own, but for requests that
\* were answered with an error (analyzePortfolio, applyOneSuggestion,
\* applyAllSuggestions).
AppliedMarksAreTrue ==
  page = "open" /\ ~mixed =>
    /\ analysis # 0 => \A i \in marks : \E a \in applied : a.analysis = analysis /\ a.index = i
    /\ \A a, b \in { x \in applied : x.by = "one" /\ x.trip \notin failed } :
         a.analysis = b.analysis /\ a.index = b.index => a = b

\* What the page says is so.
PageIsSound == PageShowsTheServer /\ AppliedMarksAreTrue
=============================================================================
