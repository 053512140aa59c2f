----------------------------- MODULE ContentJobs ------------------------------
(***************************************************************************)
(* The jobs that bring content into the database: crons, buttons of the    *)
(* admin, and uploads.  None holds a lock over its steps.  A job is a list *)
(* of blocks of steps, each step one statement or one answer from outside; *)
(* what keeps two of a kind apart is a field of a service, which is lost   *)
(* with the process.                                                       *)
(***************************************************************************)
EXTENDS Integers, FiniteSets, Sequences

CONSTANTS
    Jobs,          \* each runs once
    AtOnce,        \* bound on the jobs under way at the same time
    LastDay,       \* bound on the days of Tehran
    Scenes,        \* how often each kind of job may occur in one behaviour
    Disturbances,  \* how many failing statements and restarts
    Failures       \* "statement", "source", "restart"

VARIABLES
    today,
    scene,
    job,
    flags,         \* the fields of the services
    left

jobVars == <<today, scene, job, flags, left>>

ASSUME JobsAssumption ==
    /\ LastDay \in Nat \ {0} /\ AtOnce \in Nat \ {0} /\ Disturbances \in Nat
    /\ IsFiniteSet(Jobs)

Days == 1..LastDay
Unset == 0         \* null, or no row

Flags == {"world", "yahoo", "yahooMissed", "spot", "spotDelayed", "news", "forex"}

(* What a job has read or been given.                                      *)
NothingSeen ==
    [price |-> Unset, usd |-> Unset, gold |-> Unset, utc |-> 0,
     interest |-> Unset, rates |-> << >>, points |-> << >>, written |-> {}, titles |-> {}, reports |-> {}]
NoJob == [at |-> "idle", kind |-> "none", todo |-> << >>, day |-> 1, rateDay |-> 1,
          holds |-> {}, alone |-> FALSE, seen |-> NothingSeen]

InitJobs ==
    /\ today = 1
    /\ scene \in Scenes
    /\ job = [j \in Jobs |-> NoJob]
    /\ flags = {}
    /\ left = Disturbances

Underway(j) == job[j].at = "run"
Step(j, name) == Underway(j) /\ Head(Head(job[j].todo)) = name
Disturb == left > 0 /\ left' = left - 1

(* How a service's fields look when a job has ended: finally gives back    *)
(* what it held, and a failure is remembered until some minutes have gone. *)
FlagsAfter(rec) ==
    CASE rec.at = "failed" /\ "spot" \in rec.holds  -> (flags \ rec.holds) \cup {"spotDelayed"}
      [] rec.at = "failed" /\ "yahoo" \in rec.holds -> (flags \ rec.holds) \cup {"yahooMissed"}
      [] rec.at = "ok" /\ "spot" \in rec.holds      -> flags \ {"spot", "spotDelayed"}
      [] OTHER                                      -> flags \ rec.holds

Settled(rec) ==
    IF rec.at = "run" THEN rec
    ELSE [rec EXCEPT !.todo = << >>, !.holds = {}, !.seen = NothingSeen]

Becomes(j, rec) ==
    /\ job' = [job EXCEPT ![j] = Settled(rec)]
    /\ flags' = IF rec.at = "run" THEN flags ELSE FlagsAfter(rec)

Goes(j, todo, seen) ==
    Becomes(j, [job[j] EXCEPT !.todo = todo, !.seen = seen, !.at = IF todo = << >> THEN "ok" ELSE "run"])

Rest(j) ==
    LET todo == job[j].todo IN
    IF Len(Head(todo)) = 1 THEN Tail(todo) ELSE <<Tail(Head(todo))>> \o Tail(todo)

Onward(j, seen) == Goes(j, Rest(j), seen)
Continues(j) == Onward(j, job[j].seen)
LeavesBlock(j) == Goes(j, Tail(job[j].todo), job[j].seen)
Finishes(j) == Becomes(j, [job[j] EXCEPT !.at = "ok"])
Throws(j) == Becomes(j, [job[j] EXCEPT !.at = "failed"])

(* A job's first block is its own; the errors of the others are logged and *)
(* forgotten.                                                              *)
Fails(j, blocks) == IF Len(job[j].todo) = blocks THEN Throws(j) ELSE LeavesBlock(j)

Claims(j, flag) ==
    /\ job' = [job EXCEPT ![j].todo = Rest(j), ![j].holds = {flag}]
    /\ flags' = flags \cup {flag}

Begin(j, kind, script) ==
    /\ job[j].at = "idle"
    /\ kind \in DOMAIN scene /\ Cardinality({i \in Jobs : job[i].kind = kind}) < scene[kind]
    /\ Cardinality({i \in Jobs : Underway(i)}) < AtOnce
    /\ job' = [k \in Jobs |->
           IF k = j THEN [NoJob EXCEPT !.at = "run", !.kind = kind, !.todo = script, !.day = today,
                                       !.alone = \A i \in Jobs : ~Underway(i)]
                    ELSE [job[k] EXCEPT !.alone = FALSE]]
    /\ UNCHANGED <<today, scene, flags, left>>

Midnight ==
    /\ today < LastDay
    /\ today' = today + 1
    /\ UNCHANGED <<scene, job, flags, left>>

(* retryAfter and yahooMissAt are over.                                    *)
Elapse ==
    /\ flags \cap {"spotDelayed", "yahooMissed"} # {}
    /\ flags' = flags \ {"spotDelayed", "yahooMissed"}
    /\ UNCHANGED <<today, scene, job, left>>

Restart ==
    /\ "restart" \in Failures /\ Disturb
    /\ \E j \in Jobs : Underway(j)
    /\ job' = [j \in Jobs |-> IF Underway(j) THEN Settled([job[j] EXCEPT !.at = "failed"]) ELSE job[j]]
    /\ flags' = {}
    /\ UNCHANGED <<today, scene>>

Clockwork == Midnight \/ Elapse \/ Restart
=============================================================================
