------------------------------ MODULE Requests -------------------------------
(***************************************************************************)
(* Requests of users, polls of bots and work in the background, as the one *)
(* process of the API runs them: each a list of steps, every step one      *)
(* statement or one answer from outside, interleaved at every await.  The  *)
(* only locks are fields of the services, which a restart forgets.         *)
(***************************************************************************)
EXTENDS Integers, FiniteSets, Sequences

CONSTANTS
    AtOnce,        \* bound on those under way at the same time
    Scenes,        \* how often each kind, and talk to bots, may occur in one behaviour
    Disturbances,  \* how many failures and restarts
    Failures,      \* "statement", "restart"
    Users,
    Nobody

VARIABLES
    scene,
    req,
    held,          \* fields of the services that are set
    left

reqVars == <<scene, req, held, left>>

ASSUME RequestsAssumption ==
    AtOnce \in Nat \ {0} /\ Disturbances \in Nat /\ Nobody \notin Users

(* A request is named by its kind and a number.                            *)
Slots == UNION {{<<kind, i>> : i \in 1..scene[kind]} : kind \in DOMAIN scene \ {"say"}}
Requests == DOMAIN req

NoToken == [user |-> Nobody, role |-> "USER"]
NoRequest ==
    [at |-> "idle", kind |-> "none", todo |-> << >>, by |-> NoToken, of |-> Nobody, to |-> "none", n |-> 0,
     saw |-> << >>, device |-> Nobody, holds |-> {}, moved |-> {}]

InitRequests ==
    /\ scene \in Scenes
    /\ req = [r \in Slots |-> NoRequest]
    /\ held = {}
    /\ left = Disturbances

Underway(r) == req[r].at = "run"
Step(r, name) == Underway(r) /\ Head(req[r].todo) = name
Disturb == left > 0 /\ left' = left - 1

(* What is over needs no memory.                                           *)
Settled(rec) ==
    IF rec.at = "run" THEN rec
    ELSE [NoRequest EXCEPT !.at = rec.at, !.kind = rec.kind]

(* A request's next state; "what" tells everybody who is under way what it *)
(* has written meanwhile (history, for the properties).                    *)
Moves(r, rec, what) ==
    /\ req' = [q \in Requests |-> IF q = r THEN Settled(rec)
                                  ELSE IF Underway(q) THEN [req[q] EXCEPT !.moved = @ \cup what] ELSE req[q]]
    /\ held' = IF rec.at = "run" THEN held ELSE held \ rec.holds

Popped(rec) == [rec EXCEPT !.todo = Tail(@), !.at = IF Len(rec.todo) = 1 THEN "done" ELSE "run"]
Goes(r, rec) == Moves(r, Popped(rec), {})
Wrote(r, what) == Moves(r, Popped(req[r]), what)
Continues(r) == Goes(r, req[r])
Saw(r, value) == Goes(r, [req[r] EXCEPT !.saw = value])
Ends(r) == Moves(r, [req[r] EXCEPT !.at = "done"], {})
Rejects(r) == Moves(r, [req[r] EXCEPT !.at = "failed"], {})
Turns(r, todo) == Moves(r, [req[r] EXCEPT !.todo = todo], {})

Claims(r, flag) ==
    /\ req' = [req EXCEPT ![r].todo = Tail(@), ![r].holds = @ \cup {flag}]
    /\ held' = held \cup {flag}

(* The kind that request r could be now, if any.                           *)
Open(r) ==
    IF /\ req[r].at = "idle" /\ Cardinality({q \in Requests : Underway(q)}) < AtOnce
       /\ \A q \in Requests : q[1] = r[1] /\ q[2] < r[2] => req[q].at # "idle"
    THEN {r[1]} ELSE {}

Begin(r, kind, script, by, of, to, n) ==
    /\ req' = [req EXCEPT ![r] = [NoRequest EXCEPT !.at = "run", !.kind = kind, !.todo = script,
                                                   !.by = by, !.of = of, !.to = to, !.n = n]]
    /\ UNCHANGED <<scene, held, left>>

CutOff == [r \in Requests |-> IF Underway(r) THEN Settled([req[r] EXCEPT !.at = "cut"]) ELSE req[r]]
=============================================================================
