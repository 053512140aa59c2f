------------------------------- MODULE Content -------------------------------
(***************************************************************************)
(* All jobs that bring content, side by side: crons that come again before *)
(* the last round has ended, the admin's buttons, uploads, a midnight, a   *)
(* restart.                                                                *)
(***************************************************************************)
EXTENDS Reading

vars == <<jobVars, quoteVars, readingVars>>

Init == InitJobs /\ InitQuotes /\ InitReading

Script(kind) == IF kind \in QuoteKinds THEN ScriptOfQuotes(kind) ELSE ScriptOfReading(kind)

Start(j) ==
    /\ \E kind \in QuoteKinds \cup ReadingKinds : Begin(j, kind, Script(kind))
    /\ UNCHANGED <<quoteVars, readingVars>>

(* A statement fails; what was stored before it stays.                     *)
StatementFails(j) ==
    /\ "statement" \in Failures /\ Disturb
    /\ Underway(j)
    /\ Fails(j, Len(Script(job[j].kind)))
    /\ UNCHANGED <<today, scene, quoteVars, readingVars>>

Next ==
    \/ \E j \in Jobs : QuoteStep(j) /\ UNCHANGED readingVars
    \/ \E j \in Jobs : ReadingStep(j)
    \/ \E j \in Jobs : Start(j) \/ StatementFails(j)
    \/ Clockwork /\ UNCHANGED <<quoteVars, readingVars>>

Spec == Init /\ [][Next]_vars

----------------------------------------------------------------------------
TypeOK ==
    /\ today \in Days /\ flags \subseteq Flags /\ left \in 0..Disturbances
    /\ \A j \in Jobs : job[j].at \in {"idle", "run", "ok", "failed"} /\ (Underway(j) <=> job[j].todo # << >>)
    /\ spot \in [Days -> [usd: Rates \cup {Unset}, gold: {Unset, 1}]]
    /\ macro \in [0..LastDay -> [is: BOOLEAN, usd: Rates \cup {Unset}, interest: Interest \cup {Unset}]]
    /\ bar \in [Days -> Points \cup {Unset}]
    /\ dollar \in [Days -> [points: Points \cup {Unset}, rate: Rates \cup {Unset}]]
    /\ world \in [price: Coins \cup {Unset}, day: Days \cup {Unset}, diff: Coins \cup {Unset}]
    /\ worldNews \in Days \cup {Unset}
    /\ lessons \in [Lucid -> Nat]
    /\ batch \in [Days -> [is: BOOLEAN, items: SUBSET Jobs]]
    /\ \A d \in Days : ~batch[d].is => batch[d].items = {}
    /\ reports \subseteq [by: Jobs, month: Months, lessons: BOOLEAN, holdings: BOOLEAN]
    /\ snaps \subseteq [by: Jobs, n: 1..Cardinality(Jobs)]

(* Fields as locks: no two jobs refresh the world, fill in Yahoo's prices, *)
(* read the news by the clock or capture a graph at the same time, and a   *)
(* field that is set has a job that will give it back.                     *)
Holders(f) == {j \in Jobs : f \in job[j].holds}
OneOfAKind ==
    /\ \A f \in {"world", "yahoo", "news", "forex"} :
          Cardinality(Holders(f)) <= 1 /\ (f \in flags <=> Holders(f) # {})
    /\ "spot" \in flags => Holders("spot") # {}

(* "For each day the index over the dollar of the same day; the rate of    *)
(* another day does not stand in": a stored row is made of points and a    *)
(* rate that this very day had, whoever stores meanwhile; and a round that *)
(* nobody disturbs leaves exactly the rows it should.                      *)
Exact ==
    \A d \in Days : dollar[d] = IF bar[d] # Unset /\ spot[d].usd # Unset
                                THEN [points |-> bar[d], rate |-> spot[d].usd] ELSE NoRow
Pruned(j) == job[j].at = "ok" \/ Step(j, "readRates")
DollarRowsOfTheirDay ==
    [][/\ \A d \in Days : dollar'[d] # NoRow =>
             dollar'[d].points \in known'.points[d] /\ dollar'[d].rate \in known'.rates[d]
       /\ \A j \in Jobs : Step(j, "pruneRows") /\ Pruned(j)' /\ left' = left /\ job[j].alone => Exact']_vars

(* What is stored stays until there is something to take its place: rates, *)
(* what the admin noted, the world's markets and news, graphs.  No source  *)
(* that fails or answers nothing, and no restart, takes it away.           *)
LastGoodContentStays ==
    [][/\ \A d \in Days : /\ spot[d].usd # Unset => spot'[d].usd # Unset
                          /\ spot[d].gold # Unset => spot'[d].gold # Unset
                          /\ bar[d] # Unset => bar'[d] # Unset
       /\ \A d \in 0..LastDay : macro[d].interest # Unset => macro'[d].interest # Unset
       /\ world.price # Unset => world'.price # Unset
       /\ worldNews # Unset => worldNews' >= worldNews
       /\ \A s \in snaps : Cardinality({t \in snaps : t.n > s.n}) < Keep => s \in snaps']_vars

(* The clock pays for one reading a day: of the Iranian news once whatever *)
(* becomes of it, restarts included; of the world's only while none of the *)
(* day are stored.                                                         *)
StoresNews(j) == Step(j, "storeWorldNews")
OneReadADay ==
    [][/\ \A d \in Days : Cardinality(reads'[d]) <= 1
       /\ \A j \in Jobs : Step(j, "askWorld") /\ StoresNews(j)' => worldNews # job[j].day]_vars

(* Titles twice in the table, or news of two readings under one day, take  *)
(* two jobs at the same time: a job that failed half way is made good by   *)
(* the next one, which adds nothing twice and leaves nothing of the old.   *)
Overlapped(kinds) == Cardinality({j \in Jobs : job[j].kind \in kinds /\ ~job[j].alone}) >= 2
MixturesNeedOverlap ==
    /\ \A t \in Lucid : lessons[t] > 1 => Overlapped({"lesson", "pdf", "world"})
    /\ \A d \in Days : Cardinality(batch[d].items) > 1 => Overlapped({"newsTick", "newsForce"})

(* Jobs keep apart, by their fields or by not overlapping.                 *)
JobsStayApart == OneOfAKind /\ MixturesNeedOverlap

(* Content outlasts failures, and is not asked for again because of them.  *)
ContentLasts == LastGoodContentStays /\ OneReadADay
=============================================================================
