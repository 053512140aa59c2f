------------------------------- MODULE Forms -------------------------------
(***************************************************************************)
(* The forms of the web client: one section of one page, open in a browser, *)
(* and the rows of the database it shows and changes.                       *)
(*                                                                          *)
(* All sections are built alike.  A load asks for the rows and puts them    *)
(* over whatever the form shows.  A button sends a request, raises a busy   *)
(* flag, and on the answer puts the rows of the answer into the form        *)
(* ("echo"), loads again and only then lowers the flag ("reload"), or       *)
(* leaves the form alone ("keep").  An error lowers the flag.  Nothing      *)
(* orders the answers, and no request is ever cancelled.  The sections      *)
(* differ in when they load, in what their buttons do, and in which buttons *)
(* the flag disables.                                                       *)
(***************************************************************************)
EXTENDS Integers, FiniteSets

CONSTANTS Row, Rows,     \* the row of a section with one; those of one with several
          MaxSent,       \* requests of a visit
          MaxLoads       \* loads on their way when the tab is chosen again

VARIABLES section,       \* the section that is open
          stored,        \* row -> value in the database
          shown,         \* row -> value in the form
          got,           \* whether a load has been answered
          flag,          \* what is busy
          calls,         \* requests that are not answered
          sent,          \* requests sent so far
          later,         \* loads a timer will send
          typed,         \* rows the user changed since they were put there
          watch          \* what happened to the rows: see Unwatched

formVars == << section, stored, shown, got, flag, calls, sent, later, typed, watch >>

-----------------------------------------------------------------------------
(* The sections *)

Absent == 0              \* a default, a switch that is off, a row that is not there
Values == 0..2
Whole == "section"
Timers == 3              \* loads after a message was sent to everybody
Single == {Row}
Several == Rows

\* loads: when the section asks for its rows.  deeds: its buttons, each with what
\* follows a good answer.  gate: a button waits until nothing is busy ("section"),
\* its own row is not ("row"), it is not itself ("deed"; "save": saving waits until
\* nothing is), or for nothing ("none").
\* waits: there is nothing to press before a load was answered.  panel: what is
\* typed is a copy a load leaves alone.  locks: fields are disabled while busy.
Section(rows, loads, deeds) ==
  [rows |-> rows, loads |-> loads, deeds |-> deeds, gate |-> "section", waits |-> FALSE, panel |-> FALSE, locks |-> FALSE]
Table(loads, deeds) == [Section(Several, loads, deeds) EXCEPT !.waits = TRUE]

\* settings
RefreshTimes == Section(Single, {"mount", "tab"}, [save |-> "echo"])
BrsApi == Section(Single, {"tab"}, [save |-> "reload", test |-> "keep"])
WorldApis == Section(Single, {"mount", "tab"}, [save |-> "echo"])
SpotPrices == Section(Single, {"mount", "tab"}, [save |-> "echo", test |-> "keep"])
Profile == Section(Single, {"mount"}, [save |-> "keep", test |-> "keep"])
TelegramLink == Section(Single, {"mount"}, [toggle |-> "reload", test |-> "keep"])
Assistant == Section(Single, {"mount", "tab"}, [save |-> "reload", test |-> "keep"])
LlmConnection == [Section(Single, {"mount"}, [save |-> "keep", test |-> "keep"]) EXCEPT !.gate = "save"]
TradeFees == [Section(Single, {"tab"}, [save |-> "echo"]) EXCEPT !.locks = TRUE]
LlmErrors == Table({"tab"}, [clear |-> "echo"])
MobileLogs == Table({"tab"}, [clear |-> "echo"])
MobileSwitch == Section(Single, {"tab"}, [toggle |-> "echo"])
FundNames == [Table({"mount"}, [toggle |-> "reload", save |-> "reload"]) EXCEPT !.panel = TRUE]
Prompts == [Table({"mount"}, [save |-> "reload", reset |-> "reload"]) EXCEPT !.gate = "row"]
Charge == Section(Single, {"mount"}, [test |-> "leave"])
WalletSettings == [Section(Single, {"mount"}, [save |-> "echo"]) EXCEPT !.waits = TRUE]
Credits == Table({"mount"}, [toggle |-> "reload"])
\* the other pages
Users == [Table({"mount"}, [toggle |-> "reload", save |-> "reload", test |-> "keep"]) EXCEPT !.panel = TRUE]
UserAccess == [Table({"mount"}, [toggle |-> "reload"]) EXCEPT !.gate = "none"]
DailyMessage == Section(Single, {"mount"}, [save |-> "reload", test |-> "keep", unlink |-> "reload", send |-> "again"])
BotLinks == Table({"mount"}, [toggle |-> "reload"])
Economy == [Section(Single, {"mount"}, [save |-> "echo", toggle |-> "reload"]) EXCEPT !.gate = "deed"]
MineUsers == Table({"mount"}, [toggle |-> "reload", test |-> "keep"])
Lessons == [Table({"mount"}, [toggle |-> "reload"]) EXCEPT !.gate = "none"]

Sections == { RefreshTimes, BrsApi, WorldApis, SpotPrices, Profile, TelegramLink, Assistant, LlmConnection, TradeFees,
              LlmErrors, MobileLogs, MobileSwitch, FundNames, Prompts, Charge, WalletSettings, Credits, Users,
              UserAccess, DailyMessage, BotLinks, Economy, MineUsers, Lessons }
NoSection == Section({}, {}, <<>>)

-----------------------------------------------------------------------------
(* Requests *)

Load(n, ends, for) ==
  [n |-> n, kind |-> "load", deed |-> Whole, then |-> "echo", values |-> <<>>, step |-> "sent", ends |-> ends, for |-> for, stale |-> FALSE]
Deed(n, d, r, values) ==
  [n |-> n, kind |-> "deed", deed |-> IF section.gate = "row" THEN r ELSE d, then |-> section.deeds[d], values |-> values,
   step |-> "sent", ends |-> TRUE, for |-> DOMAIN values, stale |-> FALSE]
\* The values of f, and those of g for the other rows.
Over(f, g) == [r \in DOMAIN f \cup DOMAIN g |-> IF r \in DOMAIN f THEN f[r] ELSE g[r]]
Writes(c) == c.kind = "deed" /\ c.for # {}
Writing(r) == { c \in calls : Writes(c) /\ r \in c.for }

\* asked: what the last press on a row asked for.  failed: rows whose last change
\* was answered with an error.  twice: rows changed by two requests at a time.
\* blind: rows a default was sent for.  doubt: rows the form may show wrongly, as
\* the answer to a change was lost or an answer was overtaken by a change.
Unwatched == [asked |-> <<>>, failed |-> {}, twice |-> {}, blind |-> {}, doubt |-> {}]

Opened(s) ==
  /\ section = s
  /\ stored = [r \in s.rows |-> 1] /\ shown = [r \in s.rows |-> Absent]
  /\ got = FALSE /\ flag = {} /\ later = 0 /\ typed = {} /\ watch = Unwatched
  /\ IF "mount" \in s.loads THEN calls = {Load(1, FALSE, {})} /\ sent = 1 ELSE calls = {} /\ sent = 0

\* The tab is chosen, again perhaps: the section loads what it shows.
EnterTab ==
  /\ "tab" \in section.loads /\ sent < MaxSent
  /\ Cardinality({ c \in calls : c.kind = "load" }) < MaxLoads
  /\ calls' = calls \cup {Load(sent + 1, FALSE, {})} /\ sent' = sent + 1
  /\ UNCHANGED << section, stored, shown, got, flag, later, typed, watch >>

\* A timer after a message to everybody loads the form again.
LoadLater ==
  /\ later > 0 /\ sent < MaxSent
  /\ later' = later - 1
  /\ calls' = calls \cup {Load(sent + 1, FALSE, {})} /\ sent' = sent + 1
  /\ UNCHANGED << section, stored, shown, got, flag, typed, watch >>

Type ==
  /\ "save" \in DOMAIN section.deeds
  /\ section.waits => got
  /\ section.locks => flag = {}
  /\ \E r \in section.rows : \E v \in Values \ {shown[r], Absent} :
       /\ shown' = [shown EXCEPT ![r] = v]
       /\ typed' = typed \cup {r}
  /\ UNCHANGED << section, stored, got, flag, calls, sent, later, watch >>

Other(v) == IF v = Absent THEN 1 ELSE Absent
Sends(d, r) ==
  CASE d = "save" -> [x \in {r} |-> shown[r]]
    [] d = "toggle" -> [x \in {r} |-> Other(shown[r])]
    [] d = "reset" -> [x \in {r} |-> Absent]
    [] d = "clear" -> [x \in section.rows |-> Absent]
    [] OTHER -> <<>>

Enabled(d, r) ==
  /\ section.waits => got
  /\ d = "clear" => \E x \in section.rows : shown[x] # Absent
  /\ CASE section.gate = "section" -> flag = {}
       [] section.gate = "row" -> r \notin flag
       [] section.gate = "deed" -> d \notin flag
       [] section.gate = "save" -> d \notin flag /\ (d = "save" => flag = {})
       [] OTHER -> TRUE

OwnFlags == section.gate \in {"deed", "save"}
Raised(d, r) ==
  CASE section.gate = "row" -> {r}
    [] OwnFlags -> flag \cup {d}
    [] OTHER -> {Whole}
Lowered(c) == IF OwnFlags THEN flag \ {c.deed} ELSE {}

Noted(values) ==
  LET rows == DOMAIN values
  IN  [watch EXCEPT !.asked = Over(values, @),
                    !.twice = @ \cup { x \in rows : Writing(x) # {} },
                    !.blind = @ \cup { x \in rows : ~got /\ x \notin typed }]

Send(d, r) ==
  LET values == Sends(d, r)
  IN  /\ flag' = Raised(d, r)
      /\ calls' = calls \cup {Deed(sent + 1, d, r, values)} /\ sent' = sent + 1
      /\ watch' = Noted(values)
      /\ UNCHANGED << section, stored, shown, got, later, typed >>

\* Mutant: the button is not disabled.
PressAnyTime ==
  /\ sent < MaxSent
  /\ \E d \in DOMAIN section.deeds, r \in section.rows : (section.waits => got) /\ Send(d, r)

Press ==
  /\ sent < MaxSent
  /\ \E d \in DOMAIN section.deeds, r \in section.rows : Enabled(d, r) /\ Send(d, r)

-----------------------------------------------------------------------------
(* Answers *)

\* The server reads or writes the rows.
Serve ==
  /\ \E c \in { x \in calls : x.step = "sent" } :
       IF c.kind = "load"
       THEN /\ calls' = (calls \ {c}) \cup {[c EXCEPT !.step = "back", !.values = stored]}
            /\ UNCHANGED stored
       ELSE /\ stored' = Over(c.values, stored)
            /\ calls' = { IF Writes(c) /\ x.step = "back" THEN [x EXCEPT !.stale = TRUE] ELSE x : x \in calls \ {c} }
                        \cup {[c EXCEPT !.step = "back"]}
  /\ UNCHANGED << section, shown, got, flag, sent, later, typed, watch >>

\* The server refuses, or the answer to a change is lost (of a load it is all one).
Break ==
  /\ \E c \in { x \in calls : x.step = "sent" \/ (x.step = "back" /\ x.kind = "deed") } :
       calls' = (calls \ {c}) \cup {[c EXCEPT !.step = "error"]}
  /\ UNCHANGED << section, stored, shown, got, flag, sent, later, typed, watch >>

\* What a load brings goes over everything but what is typed in a panel.
LoadReturns ==
  /\ \E c \in { x \in calls : x.kind = "load" /\ x.step = "back" } :
       LET kept == IF section.panel THEN typed \ c.for ELSE {}
       IN  /\ shown' = [r \in section.rows |-> IF r \in kept THEN shown[r] ELSE c.values[r]]
           /\ typed' = kept
           /\ watch' = [watch EXCEPT !.doubt = IF c.stale THEN section.rows
                                               ELSE { r \in section.rows : Writing(r) # {} }]
           /\ calls' = calls \ {c}
           /\ flag' = IF c.ends THEN Lowered(c) ELSE flag
           /\ later' = IF c.then = "again" THEN Timers ELSE later
  /\ got' = TRUE
  /\ UNCHANGED << section, stored, sent >>

Settled(c) == [watch EXCEPT !.failed = @ \ c.for]

EchoReturns(c) ==
  /\ shown' = [r \in section.rows |-> IF r \in c.for THEN c.values[r] ELSE shown[r]]
  /\ typed' = typed \ c.for
  /\ watch' = [Settled(c) EXCEPT !.doubt = IF c.stale THEN @ \cup c.for ELSE @ \ c.for]
  /\ flag' = Lowered(c) /\ calls' = calls \ {c}
  /\ UNCHANGED << sent, later >>

KeepReturns(c) ==
  /\ typed' = { r \in typed : r \notin c.for \/ shown[r] # c.values[r] }
  /\ watch' = Settled(c)
  /\ flag' = Lowered(c) /\ calls' = calls \ {c}
  /\ UNCHANGED << shown, sent, later >>

\* Mutant: the answer is taken for the rows.
ReloadForgotten(c) == KeepReturns(c)

\* The rows are loaded before the flag is lowered; a failure of this load counts as
\* one of the change.
ReloadReturns(c) ==
  /\ sent < MaxSent
  /\ watch' = Settled(c)
  /\ calls' = (calls \ {c}) \cup {[Load(sent + 1, TRUE, c.for) EXCEPT !.deed = c.deed, !.then = c.then]}
  /\ sent' = sent + 1
  /\ UNCHANGED << shown, flag, later, typed >>

\* The browser goes to the gateway; the flag stays.
LeaveReturns(c) == calls' = calls \ {c} /\ UNCHANGED << shown, flag, sent, later, typed, watch >>

DeedReturns ==
  /\ \E c \in { x \in calls : x.kind = "deed" /\ x.step = "back" } :
       CASE c.then = "echo" -> EchoReturns(c)
         [] c.then = "keep" -> KeepReturns(c)
         [] c.then = "leave" -> LeaveReturns(c)
         [] OTHER -> ReloadReturns(c)
  /\ UNCHANGED << section, stored, got >>

\* An error is told and the flag lowered, whatever became of the rows.
ErrorReturns ==
  /\ \E c \in { x \in calls : x.step = "error" } :
       /\ calls' = calls \ {c}
       /\ flag' = IF c.ends THEN Lowered(c) ELSE flag
       /\ watch' = [watch EXCEPT !.doubt = @ \cup c.for, !.failed = IF c.kind = "deed" THEN @ \cup c.for ELSE @]
  /\ UNCHANGED << section, stored, shown, got, sent, later, typed >>

NextForm == EnterTab \/ LoadLater \/ Type \/ Press \/ Serve \/ Break \/ LoadReturns \/ DeedReturns \/ ErrorReturns

-----------------------------------------------------------------------------
(* Properties *)

\* A section with one flag never changes its rows by two requests at a time; so a
\* row holds what the last press asked for, unless it was changed twice at a time
\* or the last answer was an error; and a section whose rows have to be there to be
\* pressed never stores a default nobody chose (the pages' save, toggle and clear
\* handlers with their busy flags).
SavesLand ==
  /\ section.gate = "section" => Cardinality({ c \in calls : Writes(c) }) <= 1 /\ watch.twice = {}
  /\ section.waits => watch.blind = {}
  /\ \A r \in DOMAIN watch.asked :
       r \notin watch.twice \cup watch.failed /\ Writing(r) = {} => stored[r] = watch.asked[r]

\* When nothing is on its way a row shows what is stored, unless the user changed
\* it, a change was answered with an error, or an answer was overtaken by a change
\* (the loaders, and what the handlers do with an answer).
FormsShowWhatIsStored ==
  got /\ calls = {} => \A r \in section.rows \ (typed \cup watch.doubt) : shown[r] = stored[r]

\* Whatever the order of the answers, a form and its rows agree.
FormsAreSound == SavesLand /\ FormsShowWhatIsStored
=============================================================================
