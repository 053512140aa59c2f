------------------------------ MODULE Session ------------------------------
(***************************************************************************)
(* The session of the web client, as the tabs of one browser share it       *)
(* (apps/web/src: lib/api.ts, components/AppShell.tsx, middleware.ts,        *)
(* app/page.tsx).                                                           *)
(*                                                                          *)
(* The token and the time of the last activity are in localStorage; beside  *)
(* them the browser keeps a cookie, the only thing the middleware sees.     *)
(* Every tab runs its own timers and waits for its own answers.  What a     *)
(* handler does between two awaits is one step; the tabs interleave.        *)
(*                                                                          *)
(* Time passes in units of the refresh interval (60 s); a tick of a tab is  *)
(* every 5 s, the throttle of touchSession 1 s, so neither is seen in these *)
(* units.  A token is only present or absent: whether the API still takes   *)
(* it (it expires, its user is deactivated) is open in every answer.  The   *)
(* role and the labels of the menu, which a tab keeps beside the token,     *)
(* choose the links that are drawn and nothing else; they are left out.    *)
(***************************************************************************)
EXTENDS Naturals, FiniteSets

CONSTANTS Tabs,
          IdleLimit,    \* SESSION_IDLE_MS, in refresh intervals
          Life,         \* COOKIE_MAX_AGE_SEC, in refresh intervals
          MaxSignIns    \* bound: how often someone signs in

ASSUME SessionBounds == IdleLimit \in Nat \ {0} /\ Life \in Nat /\ IdleLimit < Life /\ MaxSignIns \in Nat

VARIABLES store,    \* the token, the age of the last activity, what is left of the cookie
          tab,      \* the tabs
          news,     \* the tabs that have not yet heard that the token was removed
          silence,  \* how long ago the user last did something, or was shown what he asked for
          signIns

sessionVars == << store, tab, news, silence, signIns >>

Never == IdleLimit + 2  \* no activity is recorded
Cleared == [token |-> FALSE, active |-> Never, cookie |-> 0]

\* A tab: the page it shows, where it is going, whether a refresh is due, and the
\* answers it waits for.
Blank == [page |-> "closed", going |-> "nowhere", due |-> TRUE, refreshing |-> FALSE, asking |-> "nothing"]
Pages == {"closed", "loading", "door", "inside"}
Goals == {"nowhere", "door", "inside", "reload", "at door", "at inside"}
Waits == {"nothing", "data", "sign in", "offer"}

\* A browser is opened with nothing, or with what an earlier version left there:
\* a token without a time.
SessionInit ==
  /\ store \in {Cleared, [Cleared EXCEPT !.token = TRUE]}
  /\ tab = [t \in Tabs |-> Blank]
  /\ news = {}
  /\ silence = 0
  /\ signIns = 0

-----------------------------------------------------------------------------
(* lib/api.ts *)

IdleExpired(s) == IF s.active = Never THEN ~s.token ELSE s.active > IdleLimit
TimedOut(s) == ~s.token \/ IdleExpired(s)

\* Mutant: the cookie outlives the session.
ClearTokenOnly == [Cleared EXCEPT !.cookie = store.cookie]

\* setToken with a token, and touchSession when there is one.
Alive == [token |-> TRUE, active |-> 0, cookie |-> Life]
\* clearSession.
ClearSession == Cleared

\* idleExpired, for a token whose time is not known: the time becomes now.
WithTime(s) == IF s.token /\ s.active = Never THEN [s EXCEPT !.active = 0] ELSE s

\* getToken: reading an idle token clears the session.
Read(s) == IF s.token /\ IdleExpired(s) THEN ClearSession ELSE WithTime(s)

\* ensureAuthCookie, for a session that has not timed out.
EnsureAuthCookie(s) == [WithTime(s) EXCEPT !.cookie = Life]

\* refreshSessionIfNeeded, for such a session: the request is one that touches it.
RefreshDue(b) == b.due /\ ~b.refreshing
RefreshIfNeeded(b) == IF RefreshDue(b) THEN [b EXCEPT !.due = FALSE, !.refreshing = TRUE] ELSE b

\* The step of tab t leaves s stored and b in the tab.  When it removes the token,
\* the other tabs that listen will hear of it.
Becomes(t, s, b) ==
  /\ store' = s
  /\ tab' = [tab EXCEPT ![t] = b]
  /\ news' = (IF store.token /\ ~s.token THEN { u \in Tabs \ {t} : tab[u].page = "inside" } ELSE {})
             \cup (IF b.page = "inside" THEN news ELSE news \ {t})

-----------------------------------------------------------------------------
(* The shell around every page *)

\* A page that is on its way already is not asked for again.
ToDoor(going) == IF going \in {"door", "reload", "at door"} THEN going ELSE "door"

\* logoutIdle.
LogoutIdle(t) == Becomes(t, ClearSession, [tab[t] EXCEPT !.due = TRUE, !.going = ToDoor(@)])

KeepAlive(t) ==
  Becomes(t, IF RefreshDue(tab[t]) THEN Alive ELSE EnsureAuthCookie(store), RefreshIfNeeded(tab[t]))

\* Mutant: the tick keeps the session alive, and does not look whether there is one.
TickBlindly(t) ==
  /\ tab[t].page = "inside" /\ ~TimedOut(store)
  /\ KeepAlive(t)
  /\ UNCHANGED << silence, signIns >>

\* The interval of the shell.
Tick(t) ==
  /\ tab[t].page = "inside"
  /\ IF TimedOut(store) THEN LogoutIdle(t) ELSE KeepAlive(t)
  /\ UNCHANGED << silence, signIns >>

\* onActivity, and the same when the tab becomes visible.
Gesture(t) ==
  /\ tab[t].page = "inside"
  /\ IF TimedOut(store) THEN LogoutIdle(t) ELSE Becomes(t, Alive, RefreshIfNeeded(tab[t]))
  /\ silence' = 0
  /\ UNCHANGED signIns

\* onStorage: the event may come long after the removal it tells of.
Hear(t) ==
  /\ t \in news
  /\ store' = ClearSession
  /\ tab' = [tab EXCEPT ![t].due = TRUE, ![t].going = ToDoor(@)]
  /\ news' = (news \ {t}) \cup (IF store.token THEN { u \in Tabs \ {t} : tab[u].page = "inside" } ELSE {})
  /\ UNCHANGED << silence, signIns >>

\* logout: the page is loaded anew.
Logout(t) ==
  /\ tab[t].page = "inside" /\ tab[t].going = "nowhere"
  /\ Becomes(t, ClearSession, [tab[t] EXCEPT !.due = TRUE, !.going = "reload"])
  /\ silence' = 0
  /\ UNCHANGED signIns

-----------------------------------------------------------------------------
(* Pages *)

\* The user opens a tab, at the door or at a page inside, or closes it.
Open(t) ==
  /\ tab[t].page = "closed"
  /\ \E goal \in {"door", "inside"} : tab' = [tab EXCEPT ![t] = [Blank EXCEPT !.page = "loading", !.going = goal]]
  /\ silence' = 0
  /\ UNCHANGED << store, news, signIns >>

Close(t) ==
  /\ tab[t].page # "closed"
  /\ tab' = [tab EXCEPT ![t] = Blank]
  /\ news' = news \ {t}
  /\ UNCHANGED << store, silence, signIns >>

\* middleware: the cookie decides between the door and the pages inside.  A page
\* loaded anew forgets what it waited for.
Route(t) ==
  /\ tab[t].going \in {"door", "inside", "reload"}
  /\ LET to == IF store.cookie > 0 THEN "at inside" ELSE "at door"
     IN  IF tab[t].going = "reload"
         THEN /\ tab' = [tab EXCEPT ![t] = [Blank EXCEPT !.page = "loading", !.going = to]]
              /\ news' = news \ {t}
         ELSE tab' = [tab EXCEPT ![t].going = to] /\ UNCHANGED news
  /\ UNCHANGED << store, silence, signIns >>

\* The first effect of the shell on a page with a session asks who signed in, unless
\* it knows already.
MayAsk(t) == IF tab[t].asking = "nothing" THEN {"nothing", "data"} ELSE {tab[t].asking}

\* The door: with a session the way leads inside at once.
LandAtDoor(t) ==
  /\ tab[t].going = "at door"
  /\ IF TimedOut(store)
     THEN Becomes(t, Read(store), [tab[t] EXCEPT !.page = "door", !.going = "nowhere"])
     ELSE \E asking \in MayAsk(t) :
            Becomes(t, IF asking # tab[t].asking THEN Alive ELSE EnsureAuthCookie(store),
                    [tab[t] EXCEPT !.page = "door", !.going = "inside", !.asking = asking])
  /\ silence' = 0 /\ UNCHANGED signIns

\* Mutant: an idle session is sent to the door without being cleared.
LandInsideKeeping(t) ==
  /\ tab[t].going = "at inside"
  /\ IF TimedOut(store)
     THEN Becomes(t, store, [tab[t] EXCEPT !.page = "loading", !.going = "door"])
     ELSE \E asking \in MayAsk(t) :
            Becomes(t, Alive, RefreshIfNeeded([tab[t] EXCEPT !.page = "inside", !.going = "nowhere", !.asking = asking]))
  /\ silence' = 0 /\ UNCHANGED signIns

\* A page inside: without a session the way leads back to the door.
LandInside(t) ==
  /\ tab[t].going = "at inside"
  /\ IF TimedOut(store)
     THEN Becomes(t, Read(store), [tab[t] EXCEPT !.page = "inside", !.going = "door"])
     ELSE \E asking \in MayAsk(t) :
            Becomes(t, Alive, RefreshIfNeeded([tab[t] EXCEPT !.page = "inside", !.going = "nowhere", !.asking = asking]))
  /\ silence' = 0 /\ UNCHANGED signIns

-----------------------------------------------------------------------------
(* Requests and answers *)

\* The answer to a refresh is stored, whatever happened to the session meanwhile.
\* Its failure, the refusal of the token included, changes nothing.
Refreshed(t) ==
  /\ tab[t].refreshing
  /\ \/ Becomes(t, Alive, [tab[t] EXCEPT !.refreshing = FALSE, !.due = FALSE])
     \/ Becomes(t, store, [tab[t] EXCEPT !.refreshing = FALSE])
  /\ UNCHANGED << silence, signIns >>

\* Any other request of a page, taken for something the user does: it touches the
\* session there is.
Ask(t) ==
  /\ tab[t].page = "inside" /\ tab[t].asking = "nothing"
  /\ Becomes(t, IF TimedOut(store) THEN Read(store) ELSE Alive, [tab[t] EXCEPT !.asking = "data"])
  /\ silence' = 0 /\ UNCHANGED signIns

DataArrives(t) ==
  /\ tab[t].asking = "data"
  /\ Becomes(t, store, [tab[t] EXCEPT !.asking = "nothing"])
  /\ UNCHANGED << silence, signIns >>

\* Neither an answer nor a refusal.  Only the question who signed in does something
\* about it: when there is no session any more, the way leads to the door.
AskingFails(t) ==
  /\ tab[t].asking = "data" /\ tab[t].page = "inside" /\ TimedOut(store)
  /\ Becomes(t, Read(store), [tab[t] EXCEPT !.asking = "nothing", !.due = TRUE, !.going = ToDoor(@)])
  /\ UNCHANGED << silence, signIns >>

\* expireAndRedirect: a refusal ends the session that is stored by now.
Refused(t) ==
  /\ tab[t].asking = "data"
  /\ Becomes(t, ClearSession, [tab[t] EXCEPT !.asking = "nothing", !.due = TRUE,
                                             !.going = IF tab[t].page = "inside" THEN "reload" ELSE @])
  /\ UNCHANGED << silence, signIns >>

-----------------------------------------------------------------------------
(* Signing in *)

SubmitLogin(t) ==
  /\ tab[t].page = "door" /\ tab[t].going = "nowhere" /\ tab[t].asking = "nothing"
  /\ signIns < MaxSignIns
  /\ tab' = [tab EXCEPT ![t].asking = "sign in"]
  /\ signIns' = signIns + 1
  /\ silence' = 0
  /\ UNCHANGED << store, news >>

\* onSubmit with maybeOfferPasskey, and finishLogin: the way leads inside, or a
\* mobile is first asked whether the device may sign in the next time.
SignedIn(t) ==
  /\ tab[t].asking = "sign in"
  /\ \/ Becomes(t, Alive, [tab[t] EXCEPT !.asking = "nothing", !.due = FALSE, !.going = "inside"])
     \/ Becomes(t, Alive, [tab[t] EXCEPT !.asking = "offer", !.due = FALSE])
     \/ Becomes(t, store, [tab[t] EXCEPT !.asking = "nothing"])
  /\ silence' = 0 /\ UNCHANGED signIns

\* The list of keys is not empty or not to be had; or skipEnable, enablePasskey.  A
\* refusal on the way ends the session.
EndOffer(t) ==
  /\ tab[t].asking = "offer"
  /\ \E s \in {store, ClearSession} : Becomes(t, s, [tab[t] EXCEPT !.asking = "nothing", !.going = "inside"])
  /\ UNCHANGED << silence, signIns >>

-----------------------------------------------------------------------------
Older(age, top) == IF age < top THEN age + 1 ELSE age

IntervalPasses ==
  /\ store' = [store EXCEPT !.active = IF @ = Never THEN @ ELSE Older(@, IdleLimit + 1), !.cookie = IF @ = 0 THEN 0 ELSE @ - 1]
  /\ tab' = [t \in Tabs |-> [tab[t] EXCEPT !.due = TRUE]]
  /\ silence' = Older(silence, IdleLimit + 1)
  /\ UNCHANGED << news, signIns >>

Move(t) == Route(t) \/ LandAtDoor(t) \/ LandInside(t)
Receive(t) == Refreshed(t) \/ DataArrives(t) \/ AskingFails(t) \/ Refused(t) \/ SignedIn(t) \/ EndOffer(t)
User(t) == Gesture(t) \/ Logout(t) \/ Open(t) \/ Close(t) \/ SubmitLogin(t)

SessionNext ==
  \/ \E t \in Tabs : Tick(t) \/ Hear(t) \/ Ask(t) \/ Move(t) \/ Receive(t) \/ User(t)
  \/ IntervalPasses

\* The timers of a page run, and a page that is asked for is loaded.  Nothing is
\* assumed of the user, of the API or of the events between tabs.
Fairness == \A t \in Tabs : WF_sessionVars(Tick(t)) /\ WF_sessionVars(Move(t))

SessionSpec == SessionInit /\ [][SessionNext]_sessionVars /\ Fairness

-----------------------------------------------------------------------------
(* Properties *)

TypeOK ==
  /\ store \in [token : BOOLEAN, active : 0..Never, cookie : 0..Life]
  /\ tab \in [Tabs -> [page : Pages, going : Goals, due : BOOLEAN, refreshing : BOOLEAN, asking : Waits]]
  /\ news \subseteq { t \in Tabs : tab[t].page = "inside" }
  /\ silence \in 0..(IdleLimit + 1)
  /\ signIns \in 0..MaxSignIns

\* The door and the pages agree on who may enter: a cookie is never without the
\* token it stands for, and a session that is not idle is let in by the middleware
\* (lib/api.ts: the cookie lives as long as the JWT and longer than an idle session;
\* the only exception is a token stored without a time, before any page was shown).
DoorsAgree ==
  /\ store.cookie > 0 => store.token
  /\ store.token /\ store.active <= IdleLimit => store.cookie > 0

\* A way between the door and the pages inside comes to an end and does not lead to
\* and fro, whatever the other tabs do to the session meanwhile, unless the session
\* itself comes and goes for ever (middleware.ts and the effects of app/page.tsx and
\* AppShell.tsx send the user to each other, and do not look at the same thing).
WaysEnd ==
  \A t \in Tabs : []<>(tab[t].going = "nowhere") \/ ([]<>(store.cookie = 0) /\ []<>(store.cookie > 0))

\* When the session has ended, every page that is open inside learns of it, unless
\* somebody signs in again or the late answer to a refresh brings the session back.
EveryTabLearns ==
  \A t \in Tabs : ~store.token ~> store.token \/ tab[t].page # "inside"

\* Whatever the other tabs do, a tab finds its place: its ways end, and it learns
\* that the session has ended.
TabsFindTheirPlace == WaysEnd /\ EveryTabLearns

\* What lib/api.ts:34 says of SESSION_IDLE_MS: when the user does nothing for that
\* long, the session ends.  (A token of an earlier version has no time yet.)
SessionEndsWhenIdle == silence > IdleLimit /\ store.active # Never => TimedOut(store)
=============================================================================
