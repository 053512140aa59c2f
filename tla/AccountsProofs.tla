--------------------------- MODULE AccountsProofs ----------------------------
(* Proofs about Accounts for any users, devices, numbers, chats and codes, *)
(* any scenes and any number of requests at a time.                        *)
EXTENDS Accounts, FiniteSetTheorems, SequenceTheorems, TLAPS

----------------------------------------------------------------------------
(* What a request is, and the way its steps take.                          *)

Fields == {"at", "kind", "todo", "by", "of", "to", "n", "saw", "device", "holds", "moved"}
Shape(rec) == rec = [f \in Fields |-> rec[f]]

Way(k, s, t) ==
    \/ k = "setRole" /\ <<s, t>> \in {<<"readUser", "countAdmins">>, <<"countAdmins", "freshCode">>, <<"freshCode", "writeRole">>}
    \/ k = "setActive" /\ <<s, t>> = <<"readLesser", "writeActive">>
    \/ k = "setReferral" /\ <<s, t>> \in {<<"readReseller", "codeTaken">>, <<"codeTaken", "writeCode">>}
    \/ k = "createMine" /\ <<s, t>> = <<"requireReseller", "createUser">>
    \/ k = "edit" /\ <<s, t>> = <<"readLesser", "writeHand">>
    \/ k = "editMine" /\ <<s, t>> \in {<<"requireReseller", "readMine">>, <<"readMine", "writeHand">>}
    \/ k = "editOwn" /\ <<s, t>> \in {<<"readUser", "compare">>, <<"compare", "writeHand">>}
    \/ k = "profile" /\ <<s, t>> = <<"readUser", "writeProfile">>
    \/ k = "login" /\ <<s, t>> \in {<<"readAccount", "compare">>, <<"compare", "sign">>}
    \/ k = "refresh" /\ <<s, t>> = <<"readAccount", "sign">>
    \/ k = "offer" /\ <<s, t>> \in {<<"readDevices", "purge">>, <<"purge", "createChallenge">>}
    \/ k = "ask" /\ <<s, t>> = <<"purge", "createChallenge">>
    \/ k = "register" /\ <<s, t>> \in {<<"readAccount", "purge">>, <<"purge", "findChallenge">>, <<"findChallenge", "deleteChallenge">>,
                                       <<"deleteChallenge", "findCredential">>, <<"findCredential", "createCredential">>}
    \/ k = "authenticate" /\ <<s, t>> \in {<<"readCredential", "purge">>, <<"purge", "findChallenge">>,
                                           <<"findChallenge", "deleteChallenge">>, <<"deleteChallenge", "updateCounter">>,
                                           <<"updateCounter", "sign">>}
    \/ k = "forget" /\ <<s, t>> = <<"findOwn", "deleteCredential">>
    \/ k = "visit" /\ <<s, t>> = <<"readEnabled", "createVisit">>
    \/ k = "fill" /\ <<s, t>> \in {<<"readEnabled", "requireRow">>, <<"requireRow", "updateVisit">>}
    \/ k \in {"poll", "pollA"} /\ <<s, t>> \in {<<"claimPoll", "readToken">>, <<"readToken", "readConfig">>, <<"readConfig", "getUpdates">>}
    \/ k = "poll" /\ <<s, t>> \in {<<"findProfile", "unlinkOthers">>, <<"unlinkOthers", "link">>, <<"link", "reply">>, <<"unlinkChat", "reply">>}
    \/ k \in {"save", "saveA"} /\ <<s, t>> \in {<<"readBot", "writeBot">>, <<"writeBot", "forgetSkip">>}
    \/ k = "unlink" /\ <<s, t>> = <<"readUser", "unlink">>
    \/ k = "unlinkA" /\ <<s, t>> \in {<<"readLinked", "tell">>, <<"tell", "readUser">>, <<"readUser", "unlink">>}
    \/ k = "backup" /\ <<s, t>> \in {<<"startCreate", "openDump">>, <<"openDump", "pgDump">>, <<"pgDump", "prune">>, <<"prune", "ready">>}
    \/ k = "restore" /\ <<s, t>> \in {<<"check", "exclusive">>, <<"exclusive", "assertDump">>, <<"assertDump", "disconnect">>,
                                      <<"disconnect", "pgRestore">>, <<"pgRestore", "cleanUp">>}

(* The steps a list may end with.                                          *)
Final(k, s) ==
    \/ k = "setRole" /\ s = "writeRole"
    \/ k = "setActive" /\ s = "writeActive"
    \/ k = "setReferral" /\ s = "writeCode"
    \/ k \in {"create", "createMine"} /\ s = "createUser"
    \/ k \in {"edit", "editMine", "editOwn"} /\ s = "writeHand"
    \/ k = "profile" /\ s = "writeProfile"
    \/ k \in {"login", "refresh", "authenticate"} /\ s = "sign"
    \/ k \in {"offer", "ask"} /\ s = "createChallenge"
    \/ k = "register" /\ s = "createCredential"
    \/ k = "forget" /\ s = "deleteCredential"
    \/ k = "visit" /\ s = "createVisit"
    \/ k = "fill" /\ s = "updateVisit"
    \/ k = "switch" /\ s = "setEnabled"
    \/ k = "clear" /\ s = "clearLogs"
    \/ k = "poll" /\ s \in {"getUpdates", "saveOffset", "handle", "reply"}
    \/ k = "pollA" /\ s \in {"getUpdates", "saveOffset", "spawn"}
    \/ k \in {"save", "saveA"} /\ s = "forgetSkip"
    \/ k \in {"unlink", "unlinkA"} /\ s = "unlink"
    \/ k = "backup" /\ s = "ready"
    \/ k = "restore" /\ s = "cleanUp"

StepNames ==
    {"readUser", "countAdmins", "freshCode", "writeRole", "readLesser", "writeActive", "readReseller",
     "codeTaken", "writeCode", "requireReseller", "createUser", "writeHand", "readMine", "compare",
     "writeProfile", "readAccount", "sign", "readDevices", "purge", "createChallenge", "findChallenge",
     "deleteChallenge", "findCredential", "createCredential", "readCredential", "updateCounter",
     "findOwn", "deleteCredential", "readEnabled", "createVisit", "requireRow", "updateVisit",
     "setEnabled", "clearLogs", "claimPoll", "readToken", "readConfig", "getUpdates", "saveOffset",
     "handle", "findProfile", "unlinkOthers", "link", "unlinkChat", "reply", "spawn", "readBot",
     "writeBot", "forgetSkip", "unlink", "readLinked", "tell", "startCreate", "openDump", "pgDump",
     "prune", "ready", "check", "exclusive", "assertDump", "disconnect", "pgRestore", "cleanUp"}

Path(k, todo) ==
    /\ todo \in Seq(StepNames) /\ todo # << >>
    /\ \A i \in 1 .. Len(todo) - 1 : Way(k, todo[i], todo[i + 1])
    /\ Final(k, todo[Len(todo)])

(* Who is where; what is held there.                                       *)
At(r) == Head(req[r].todo)
HoldsOf(k, s) ==
    IF k \in {"poll", "pollA"} /\ s # "claimPoll" THEN {k}
    ELSE IF (k = "backup" /\ s # "startCreate") \/ (k = "restore" /\ s \notin {"check", "exclusive"}) THEN {"backup"}
    ELSE {}

Sound(rec) ==
    /\ Shape(rec) /\ rec.at \in {"idle", "run", "done", "failed", "cut"}
    /\ IF rec.at = "run" THEN Path(rec.kind, rec.todo) /\ rec.holds = HoldsOf(rec.kind, Head(rec.todo))
       ELSE rec.todo = << >> /\ rec.holds = {} /\ rec.moved = {}
ReqInv == req = [q \in Requests |-> req[q]] /\ \A q \in Requests : Sound(req[q])

LEMMA NotEmpty == ASSUME NEW S, NEW s \in Seq(S), Len(s) # 0 PROVE s # << >>
OBVIOUS

(* A list of one step, and the rest of a longer one.                       *)
LEMMA PathTail ==
    ASSUME NEW k, NEW todo, Path(k, todo)
    PROVE  /\ Len(todo) = 1 => Final(k, Head(todo)) /\ Tail(todo) = << >>
           /\ Len(todo) # 1 => Path(k, Tail(todo)) /\ Way(k, Head(todo), Head(Tail(todo)))
<1>1. todo \in Seq(StepNames) /\ Len(todo) \in Nat \ {0} /\ Head(todo) = todo[1]
  BY DEF Path
<1>2. ASSUME Len(todo) = 1 PROVE Final(k, Head(todo)) /\ Tail(todo) = << >>
  <2>1. Final(k, Head(todo))
    BY <1>1, <1>2 DEF Path
  <2>2. Tail(todo) \in Seq(StepNames) /\ Len(Tail(todo)) = 0
    BY <1>1, <1>2
  <2> QED
    BY <2>1, <2>2, EmptySeq
<1>3. ASSUME Len(todo) # 1 PROVE Path(k, Tail(todo)) /\ Way(k, Head(todo), Head(Tail(todo)))
  <2> DEFINE rest == Tail(todo)
  <2>1. /\ rest \in Seq(StepNames) /\ Len(rest) = Len(todo) - 1 /\ rest # << >>
        /\ \A i \in 1 .. Len(rest) : rest[i] = todo[i + 1]
    <3>1. rest \in Seq(StepNames) /\ Len(rest) = Len(todo) - 1 /\ \A i \in 1 .. Len(rest) : rest[i] = todo[i + 1]
      BY <1>1, <1>3
    <3>2. Len(rest) # 0
      BY <1>1, <1>3, <3>1
    <3>3. rest # << >>
      BY <3>1, <3>2, NotEmpty
    <3> QED
      BY <3>1, <3>3
  <2>2. \A i \in 1 .. Len(rest) - 1 : Way(k, rest[i], rest[i + 1])
    <3> SUFFICES ASSUME NEW i \in 1 .. Len(rest) - 1 PROVE Way(k, rest[i], rest[i + 1])
      OBVIOUS
    <3>1. i + 1 \in 1 .. Len(todo) - 1 /\ rest[i] = todo[i + 1] /\ rest[i + 1] = todo[(i + 1) + 1]
      BY <1>1, <2>1
    <3> QED
      BY <3>1 DEF Path
  <2>3. rest[Len(rest)] = todo[Len(todo)]
    BY <1>1, <1>3, <2>1
  <2>4. Head(rest) = todo[2] /\ 1 \in 1 .. Len(todo) - 1
    BY <1>1, <1>3, <2>1
  <2>5. Way(k, todo[1], todo[1 + 1])
    BY <2>4 DEF Path
  <2> QED
    BY <1>1, <2>1, <2>2, <2>3, <2>4, <2>5 DEF Path
<1> QED
  BY <1>2, <1>3

----------------------------------------------------------------------------
(* What a step does to the requests and the flags.                         *)

Same(p, q) ==
    /\ p.at = q.at /\ p.kind = q.kind /\ p.todo = q.todo /\ p.by = q.by /\ p.of = q.of /\ p.to = q.to
    /\ p.n = q.n /\ p.saw = q.saw /\ p.device = q.device /\ p.holds = q.holds

(* The others go on, and are told.                                         *)
Others(r, what) ==
    /\ req' = [q \in Requests |-> req'[q]]
    /\ \A q \in Requests \ {r} :
          /\ Same(req'[q], req[q]) /\ Sound(req'[q])
          /\ req'[q].moved = IF Underway(q) THEN req[q].moved \cup what ELSE req[q].moved

(* Whoever gets a flag finds it free, and with him it goes.                *)
Flags == {"poll", "pollA", "backup"}
KeepsFlags(r) ==
    \A f \in Flags :
        /\ f \in held' <=> (f \in held /\ f \notin req[r].holds \ req'[r].holds) \/ f \in req'[r].holds \ req[r].holds
        /\ f \in req'[r].holds /\ f \notin req[r].holds => f \notin held

Served(r, what) ==
    /\ Others(r, what) /\ Sound(req'[r]) /\ req'[r].at # "idle" /\ KeepsFlags(r)
    /\ Underway(r)' => req'[r].kind = req[r].kind /\ req'[r].by = req[r].by /\ req'[r].to = req[r].to

LEMMA ShapeExcept ==
    ASSUME NEW rec, Shape(rec), NEW v
    PROVE  /\ Shape([rec EXCEPT !.at = v]) /\ Shape([rec EXCEPT !.todo = v]) /\ Shape([rec EXCEPT !.saw = v])
           /\ Shape([rec EXCEPT !.device = v]) /\ Shape([rec EXCEPT !.moved = v]) /\ Shape([rec EXCEPT !.of = v])
           /\ Shape([rec EXCEPT !.n = v]) /\ Shape([rec EXCEPT !.holds = v])
BY DEF Shape, Fields

LEMMA MovesForm ==
    ASSUME ReqInv, NEW r \in Requests, NEW rec, NEW what, Moves(r, rec, what)
    PROVE  Others(r, what) /\ req'[r] = Settled(rec) /\ held' = IF rec.at = "run" THEN held ELSE held \ rec.holds
<1>1. /\ req' = [q \in Requests |-> req'[q]] /\ req'[r] = Settled(rec)
      /\ \A q \in Requests \ {r} : req'[q] = IF Underway(q) THEN [req[q] EXCEPT !.moved = @ \cup what] ELSE req[q]
  BY DEF Moves
<1>2. ASSUME NEW q \in Requests \ {r}
      PROVE  /\ Same(req'[q], req[q]) /\ Sound(req'[q])
             /\ req'[q].moved = IF Underway(q) THEN req[q].moved \cup what ELSE req[q].moved
  <2>1. Sound(req[q])
    BY DEF ReqInv
  <2>2. CASE Underway(q)
    <3> DEFINE p == [req[q] EXCEPT !.moved = @ \cup what]
    <3>1. p = [req[q] EXCEPT !.moved = req[q].moved \cup what]
      BY <2>1 DEF Sound
    <3>2. Shape(p) /\ Same(p, req[q]) /\ p.moved = req[q].moved \cup what
      BY <2>1, <3>1, ShapeExcept DEF Sound, Same, Shape, Fields
    <3>3. req'[q] = p
      BY <1>1, <2>2
    <3> HIDE DEF p
    <3> QED
      BY <2>1, <2>2, <3>2, <3>3 DEF Sound, Same, Underway
  <2>3. CASE ~Underway(q)
    BY <1>1, <2>1, <2>3 DEF Same
  <2> QED
    BY <2>2, <2>3
<1> QED
  BY <1>1, <1>2 DEF Others, Moves

(* A request at a step has it at the head of a list that is a path.        *)
LEMMA AtWork ==
    ASSUME ReqInv, NEW r \in Requests, Underway(r)
    PROVE  /\ Shape(req[r]) /\ Path(req[r].kind, req[r].todo) /\ req[r].holds = HoldsOf(req[r].kind, At(r))
           /\ req[r].at = "run"
BY DEF ReqInv, Sound, Underway, At

(* It is over: Ends, Rejects, the last step.                               *)
LEMMA StepOver ==
    ASSUME ReqInv, NEW r \in Requests, Underway(r), NEW a \in {"done", "failed"}, NEW what, NEW rec,
           rec.at = a, rec.kind = req[r].kind, rec.holds = req[r].holds, Moves(r, rec, what)
    PROVE  Served(r, what) /\ ~Underway(r)'
<1>1. /\ Others(r, what) /\ req'[r] = [NoRequest EXCEPT !.at = a, !.kind = rec.kind]
      /\ held' = held \ req[r].holds
  BY MovesForm DEF Settled
<1>2. /\ Shape(req'[r]) /\ req'[r].at = a /\ req'[r].todo = << >> /\ req'[r].holds = {} /\ req'[r].moved = {}
  BY <1>1 DEF NoRequest, Shape, Fields
<1> QED
  BY <1>1, <1>2 DEF Served, Sound, KeepsFlags, Underway

LEMMA SameHolds ==
    ASSUME NEW k, NEW s, NEW t, Way(k, s, t), s \notin {"claimPoll", "startCreate", "exclusive"}
    PROVE  HoldsOf(k, t) = HoldsOf(k, s)
BY DEF Way, HoldsOf

(* It goes on, with the same flags: every field but the list as in "rec".  *)
Becomes(r, rec) ==
    /\ Underway(r)' /\ req'[r].kind = rec.kind /\ req'[r].by = rec.by /\ req'[r].of = rec.of /\ req'[r].to = rec.to
    /\ req'[r].n = rec.n /\ req'[r].saw = rec.saw /\ req'[r].device = rec.device /\ req'[r].holds = rec.holds
    /\ req'[r].moved = rec.moved

Kept(r, rec) ==
    /\ Shape(rec) /\ rec.at = "run" /\ rec.kind = req[r].kind /\ rec.todo = req[r].todo /\ rec.holds = req[r].holds
    /\ rec.by = req[r].by /\ rec.to = req[r].to

Advanced(r, rec) ==
    \/ ~Underway(r)' /\ Final(req[r].kind, At(r))
    \/ Becomes(r, rec) /\ req'[r].todo = Tail(req[r].todo) /\ Way(req[r].kind, At(r), At(r)')

LEMMA StepGoes ==
    ASSUME ReqInv, NEW r \in Requests, Underway(r), At(r) \notin {"claimPoll", "startCreate", "exclusive"},
           NEW rec, Kept(r, rec), NEW what, Moves(r, Popped(rec), what)
    PROVE  Served(r, what) /\ Advanced(r, rec)
<1>1. /\ Shape(req[r]) /\ Path(req[r].kind, req[r].todo) /\ req[r].holds = HoldsOf(req[r].kind, At(r)) /\ req[r].at = "run"
  BY AtWork
<1> DEFINE p == Popped(rec)
<1>2. p = [[rec EXCEPT !.todo = Tail(req[r].todo)] EXCEPT !.at = IF Len(req[r].todo) = 1 THEN "done" ELSE "run"]
  BY DEF Popped, Kept, Shape, Fields
<1>3. /\ Shape(p) /\ p.kind = rec.kind /\ p.todo = Tail(req[r].todo) /\ p.by = rec.by /\ p.of = rec.of /\ p.to = rec.to
      /\ p.n = rec.n /\ p.saw = rec.saw /\ p.device = rec.device /\ p.holds = rec.holds /\ p.moved = rec.moved
      /\ p.at = IF Len(req[r].todo) = 1 THEN "done" ELSE "run"
  BY <1>2 DEF Kept, Shape, Fields
<1>4. Moves(r, p, what)
  OBVIOUS
<1> HIDE DEF p
<1>5. CASE Len(req[r].todo) = 1
  <2>1. Served(r, what) /\ ~Underway(r)'
    BY <1>3, <1>4, <1>5, StepOver DEF Kept
  <2> QED
    BY <1>1, <1>5, <2>1, PathTail DEF Advanced, At
<1>6. CASE Len(req[r].todo) # 1
  <2>1. Others(r, what) /\ req'[r] = p /\ held' = held
    BY <1>3, <1>4, <1>6, MovesForm DEF Settled
  <2>2. Path(req[r].kind, Tail(req[r].todo)) /\ Way(req[r].kind, At(r), Head(Tail(req[r].todo)))
    BY <1>1, <1>6, PathTail DEF At
  <2>3. HoldsOf(req[r].kind, Head(Tail(req[r].todo))) = HoldsOf(req[r].kind, At(r))
    BY <2>2, SameHolds
  <2>4. Sound(req'[r]) /\ req'[r].holds = req[r].holds
    BY <1>1, <1>3, <1>6, <2>1, <2>2, <2>3 DEF Sound, Kept
  <2>5. Becomes(r, rec) /\ req'[r].todo = Tail(req[r].todo) /\ At(r)' = Head(Tail(req[r].todo))
    BY <1>3, <1>6, <2>1 DEF Becomes, Underway, At
  <2>6. KeepsFlags(r)
    BY <1>1, <2>1, <2>4 DEF KeepsFlags
  <2> QED
    BY <1>3, <2>1, <2>2, <2>4, <2>5, <2>6 DEF Served, Advanced, Kept
<1> QED
  BY <1>5, <1>6

(* Ways to go on: nothing else changes; something is remembered.           *)
LEMMA KeptExcept ==
    ASSUME ReqInv, NEW r \in Requests, Underway(r), NEW v
    PROVE  /\ Kept(r, req[r]) /\ Kept(r, [req[r] EXCEPT !.saw = v]) /\ Kept(r, [req[r] EXCEPT !.device = v])
           /\ Kept(r, [req[r] EXCEPT !.of = v]) /\ Kept(r, [req[r] EXCEPT !.moved = v])
BY AtWork DEF Kept, Shape, Fields

(* A list of one's own.                                                    *)
LEMMA StepTurns ==
    ASSUME ReqInv, NEW r \in Requests, Underway(r), NEW rec, NEW todo, rec.todo = todo, NEW what,
           Shape(rec), rec.at = "run", rec.kind = req[r].kind, rec.holds = req[r].holds, rec.by = req[r].by, rec.to = req[r].to,
           Path(req[r].kind, todo), HoldsOf(req[r].kind, Head(todo)) = HoldsOf(req[r].kind, At(r)), Moves(r, rec, what)
    PROVE  Served(r, what) /\ Becomes(r, rec) /\ req'[r].todo = todo
<1>1. req[r].holds = HoldsOf(req[r].kind, At(r)) /\ req[r].at = "run"
  BY AtWork
<1>2. Others(r, what) /\ req'[r] = rec /\ held' = held
  BY MovesForm DEF Settled
<1>3. Sound(req'[r]) /\ KeepsFlags(r)
  BY <1>1, <1>2 DEF Sound, KeepsFlags
<1> QED
  BY <1>1, <1>2, <1>3 DEF Served, Becomes, Underway

(* A change of the request alone.                                          *)
LEMMA OthersStay ==
    ASSUME ReqInv, NEW r \in Requests, NEW rec, req' = [req EXCEPT ![r] = rec]
    PROVE  Others(r, {}) /\ req'[r] = rec
<1>1. /\ req' = [q \in Requests |-> req'[q]] /\ req'[r] = rec
      /\ \A q \in Requests \ {r} : req'[q] = req[q] /\ Sound(req[q])
  BY DEF ReqInv
<1> QED
  BY <1>1 DEF Others, Same

(* A free flag is claimed.                                                 *)
LEMMA StepClaims ==
    ASSUME ReqInv, NEW r \in Requests, Underway(r), NEW flag, flag \notin held, Claims(r, flag), Len(req[r].todo) # 1,
           HoldsOf(req[r].kind, At(r)) = {}, HoldsOf(req[r].kind, Head(Tail(req[r].todo))) = {flag}
    PROVE  Served(r, {}) /\ Becomes(r, [req[r] EXCEPT !.holds = {flag}]) /\ req'[r].todo = Tail(req[r].todo)
<1>1. /\ Shape(req[r]) /\ Path(req[r].kind, req[r].todo) /\ req[r].holds = {} /\ req[r].at = "run"
      /\ Path(req[r].kind, Tail(req[r].todo))
  BY AtWork, PathTail
<1> DEFINE p == [[req[r] EXCEPT !.todo = Tail(@)] EXCEPT !.holds = @ \cup {flag}]
<1>2. req' = [req EXCEPT ![r] = p]
  BY DEF Claims, ReqInv
<1>3. p = [[req[r] EXCEPT !.todo = Tail(req[r].todo)] EXCEPT !.holds = {flag}]
  BY <1>1 DEF Shape, Fields
<1>4. /\ Shape(p) /\ p.at = "run" /\ p.kind = req[r].kind /\ p.todo = Tail(req[r].todo) /\ p.by = req[r].by
      /\ p.of = req[r].of /\ p.to = req[r].to /\ p.n = req[r].n /\ p.saw = req[r].saw /\ p.device = req[r].device
      /\ p.holds = {flag} /\ p.moved = req[r].moved
  BY <1>1, <1>3 DEF Shape, Fields
<1> HIDE DEF p
<1>5. Others(r, {}) /\ req'[r] = p
  BY <1>2, OthersStay
<1>6. Sound(req'[r]) /\ KeepsFlags(r)
  BY <1>1, <1>4, <1>5 DEF Sound, KeepsFlags, Claims
<1>7. Becomes(r, [req[r] EXCEPT !.holds = {flag}])
  BY <1>1, <1>4, <1>5 DEF Becomes, Underway, Shape, Fields
<1> QED
  BY <1>4, <1>5, <1>6, <1>7 DEF Served, Becomes

(* A request begins with the whole of its script.                          *)
LEMMA StepBegins ==
    ASSUME ReqInv, NEW r \in Requests, req[r].at = "idle", NEW kind, NEW script, Path(kind, script), HoldsOf(kind, Head(script)) = {},
           NEW by, NEW of, NEW to, NEW n, Begin(r, kind, script, by, of, to, n)
    PROVE  /\ Others(r, {}) /\ Sound(req'[r]) /\ KeepsFlags(r) /\ Underway(r)' /\ req'[r].moved = {} /\ req'[r].todo = script
           /\ req'[r].kind = kind /\ req'[r].by = by /\ req'[r].of = of /\ req'[r].to = to /\ req'[r].n = n /\ held' = held
<1> DEFINE p == [NoRequest EXCEPT !.at = "run", !.kind = kind, !.todo = script, !.by = by, !.of = of, !.to = to, !.n = n]
<1>1. req' = [req EXCEPT ![r] = p] /\ held' = held
  BY DEF Begin
<1>2. /\ Shape(p) /\ p.at = "run" /\ p.kind = kind /\ p.todo = script /\ p.by = by /\ p.of = of /\ p.to = to /\ p.n = n
      /\ p.holds = {} /\ p.moved = {}
  BY DEF NoRequest, Shape, Fields
<1> HIDE DEF p
<1>3. Others(r, {}) /\ req'[r] = p
  BY <1>1, OthersStay
<1>4. req[r].holds = {}
  BY DEF ReqInv, Sound
<1> QED
  BY <1>1, <1>2, <1>3, <1>4 DEF Sound, KeepsFlags, Underway

----------------------------------------------------------------------------
(* Every script is a path.                                                 *)

LEMMA PathOf1 ==
    ASSUME NEW k, NEW a \in StepNames,
           Final(k, a)
    PROVE  Path(k, <<a>>)
<1> DEFINE todo == <<a>>
<1>1. todo \in Seq(StepNames) /\ todo # << >> /\ Len(todo) = 1 /\ todo[1] = a
  OBVIOUS
<1> HIDE DEF todo
<1>3. Final(k, todo[Len(todo)])
  BY <1>1
<1>4. Path(k, todo)
  <2>1. \A i \in 1 .. Len(todo) - 1 : Way(k, todo[i], todo[i + 1])
    BY <1>1
  <2> QED
    BY <1>1, <1>3, <2>1 DEF Path
<1> QED
  BY <1>4 DEF todo

LEMMA PathOf2 ==
    ASSUME NEW k, NEW a \in StepNames, NEW b \in StepNames,
           Way(k, a, b), Final(k, b)
    PROVE  Path(k, <<a, b>>)
<1> DEFINE todo == <<a, b>>
<1>1. todo \in Seq(StepNames) /\ todo # << >> /\ Len(todo) = 2 /\ todo[1] = a /\ todo[2] = b
  OBVIOUS
<1> HIDE DEF todo
<1>2. \A i \in 1 .. Len(todo) - 1 : Way(k, todo[i], todo[i + 1])
  BY <1>1
<1>3. Final(k, todo[Len(todo)])
  BY <1>1
<1>4. Path(k, todo)
  BY <1>1, <1>2, <1>3 DEF Path
<1> QED
  BY <1>4 DEF todo

LEMMA PathOf3 ==
    ASSUME NEW k, NEW a \in StepNames, NEW b \in StepNames, NEW c \in StepNames,
           Way(k, a, b), Way(k, b, c), Final(k, c)
    PROVE  Path(k, <<a, b, c>>)
<1> DEFINE todo == <<a, b, c>>
<1>1. todo \in Seq(StepNames) /\ todo # << >> /\ Len(todo) = 3 /\ todo[1] = a /\ todo[2] = b /\ todo[3] = c
  OBVIOUS
<1> HIDE DEF todo
<1>2. \A i \in 1 .. Len(todo) - 1 : Way(k, todo[i], todo[i + 1])
  BY <1>1
<1>3. Final(k, todo[Len(todo)])
  BY <1>1
<1>4. Path(k, todo)
  BY <1>1, <1>2, <1>3 DEF Path
<1> QED
  BY <1>4 DEF todo

LEMMA PathOf4 ==
    ASSUME NEW k, NEW a \in StepNames, NEW b \in StepNames, NEW c \in StepNames, NEW d \in StepNames,
           Way(k, a, b), Way(k, b, c), Way(k, c, d), Final(k, d)
    PROVE  Path(k, <<a, b, c, d>>)
<1> DEFINE todo == <<a, b, c, d>>
<1>1. todo \in Seq(StepNames) /\ todo # << >> /\ Len(todo) = 4 /\ todo[1] = a /\ todo[2] = b /\ todo[3] = c /\ todo[4] = d
  OBVIOUS
<1> HIDE DEF todo
<1>2. \A i \in 1 .. Len(todo) - 1 : Way(k, todo[i], todo[i + 1])
  BY <1>1
<1>3. Final(k, todo[Len(todo)])
  BY <1>1
<1>4. Path(k, todo)
  BY <1>1, <1>2, <1>3 DEF Path
<1> QED
  BY <1>4 DEF todo

LEMMA PathOf5 ==
    ASSUME NEW k, NEW a \in StepNames, NEW b \in StepNames, NEW c \in StepNames, NEW d \in StepNames, NEW e \in StepNames,
           Way(k, a, b), Way(k, b, c), Way(k, c, d), Way(k, d, e), Final(k, e)
    PROVE  Path(k, <<a, b, c, d, e>>)
<1> DEFINE todo == <<a, b, c, d, e>>
<1>1. todo \in Seq(StepNames) /\ todo # << >> /\ Len(todo) = 5 /\ todo[1] = a /\ todo[2] = b /\ todo[3] = c /\ todo[4] = d /\ todo[5] = e
  OBVIOUS
<1> HIDE DEF todo
<1>2. \A i \in 1 .. Len(todo) - 1 : Way(k, todo[i], todo[i + 1])
  BY <1>1
<1>3. Final(k, todo[Len(todo)])
  BY <1>1
<1>4. Path(k, todo)
  BY <1>1, <1>2, <1>3 DEF Path
<1> QED
  BY <1>4 DEF todo

LEMMA PathOf6 ==
    ASSUME NEW k, NEW a \in StepNames, NEW b \in StepNames, NEW c \in StepNames, NEW d \in StepNames, NEW e \in StepNames, NEW f \in StepNames,
           Way(k, a, b), Way(k, b, c), Way(k, c, d), Way(k, d, e), Way(k, e, f), Final(k, f)
    PROVE  Path(k, <<a, b, c, d, e, f>>)
<1> DEFINE todo == <<a, b, c, d, e, f>>
<1>1. todo \in Seq(StepNames) /\ todo # << >> /\ Len(todo) = 6 /\ todo[1] = a /\ todo[2] = b /\ todo[3] = c /\ todo[4] = d /\ todo[5] = e /\ todo[6] = f
  OBVIOUS
<1> HIDE DEF todo
<1>2. \A i \in 1 .. Len(todo) - 1 : Way(k, todo[i], todo[i + 1])
  BY <1>1
<1>3. Final(k, todo[Len(todo)])
  BY <1>1
<1>4. Path(k, todo)
  BY <1>1, <1>2, <1>3 DEF Path
<1> QED
  BY <1>4 DEF todo

FirstSteps ==
    {"readUser", "readLesser", "readReseller", "createUser", "requireReseller", "readAccount", "readDevices", "purge",
     "readCredential", "findOwn", "readEnabled", "setEnabled", "clearLogs", "claimPoll", "readBot", "readLinked",
     "startCreate", "check"}
Starts(kind, script) ==
    /\ Path(kind, script) /\ HoldsOf(kind, Head(script)) = {}
    /\ Head(script) \in FirstSteps /\ (Head(script) = "purge" => kind = "ask")

LEMMA ListOfSix ==
    ASSUME NEW a \in StepNames, NEW b \in StepNames, NEW c \in StepNames, NEW d \in StepNames, NEW e \in StepNames, NEW f \in StepNames
    PROVE  <<a>> \o <<b, c, d>> \o <<e, f>> = <<a, b, c, d, e, f>>
<1> DEFINE o == <<a>>
  p == <<b, c, d>>
  q == <<e, f>>
<1>1. /\ o \in Seq(StepNames) /\ Len(o) = 1 /\ o[1] = a
      /\ p \in Seq(StepNames) /\ Len(p) = 3 /\ p[1] = b /\ p[2] = c /\ p[3] = d
      /\ q \in Seq(StepNames) /\ Len(q) = 2 /\ q[1] = e /\ q[2] = f
  OBVIOUS
<1> HIDE DEF o, p, q
<1> DEFINE h == o \o p
<1>2. /\ h \in Seq(StepNames) /\ Len(h) = 4 
      /\ \A i \in 1 .. 4 : h[i] = IF i <= 1 THEN o[i] ELSE p[i-1]
  <2>1. /\ h \in Seq(StepNames) /\ Len(h) = Len(o) + Len(p)
        /\ \A i \in 1 .. Len(o) + Len(p) : h[i] = IF i <= Len(o) THEN o[i] ELSE p[i - Len(o)]
    <3>1. o \in Seq(StepNames) /\ p \in Seq(StepNames)
      BY <1>1
    <3> QED
      BY <3>1, ConcatProperties, Zenon
  <2> QED
    BY <1>1, <2>1
<1>3. h[1] = a /\ h[2] = b /\ h[3] = c /\ h[4] = d
  BY <1>1, <1>2
<1> HIDE DEF h
<1> DEFINE all == h \o q
<1>4. /\ all \in Seq(StepNames) /\ Len(all) = 6 
      /\ \A i \in 1 .. 6 : all[i] = IF i <= 4 THEN h[i] ELSE q[i-4]
  <2>1. /\ all \in Seq(StepNames) /\ Len(all) = Len(h) + Len(q)
        /\ \A i \in 1 .. Len(h) + Len(q) : all[i] = IF i <= Len(h) THEN h[i] ELSE q[i - Len(h)]
    <3>1. h \in Seq(StepNames) /\ q \in Seq(StepNames)
      BY <1>1, <1>2
    <3> QED
      BY <3>1, ConcatProperties, Zenon
  <2> QED
    BY <1>1, <1>2, <2>1
<1>5. all[1] = a /\ all[2] = b /\ all[3] = c /\ all[4] = d /\ all[5] = e /\ all[6] = f
  BY <1>1, <1>3, <1>4
<1> HIDE DEF all
<1>6. all = <<a, b, c, d, e, f>>
  BY <1>4, <1>5
<1> QED
  BY <1>6 DEF all, h, o, p, q

LEMMA PathsOfMembers == \A kind \in MemberKinds : Starts(kind, ScriptOfMembers(kind))
<1>1. Starts("setRole", ScriptOfMembers("setRole"))
  <2>1. ScriptOfMembers("setRole") = <<"readUser", "countAdmins", "freshCode", "writeRole">>
    BY DEF ScriptOfMembers
  <2>2. Way("setRole", "readUser", "countAdmins") /\ Way("setRole", "countAdmins", "freshCode") /\ Way("setRole", "freshCode", "writeRole") /\ Final("setRole", "writeRole")
    BY DEF Way, Final
  <2>3. Path("setRole", <<"readUser", "countAdmins", "freshCode", "writeRole">>)
    <3>1. {"readUser", "countAdmins", "freshCode", "writeRole"} \subseteq StepNames
      BY DEF StepNames
    <3> QED
      BY <2>2, <3>1, PathOf4
  <2> QED
    BY <2>1, <2>3 DEF Starts, HoldsOf, FirstSteps
<1>2. Starts("setActive", ScriptOfMembers("setActive"))
  <2>1. ScriptOfMembers("setActive") = <<"readLesser", "writeActive">>
    BY DEF ScriptOfMembers
  <2>2. Way("setActive", "readLesser", "writeActive") /\ Final("setActive", "writeActive")
    BY DEF Way, Final
  <2>3. Path("setActive", <<"readLesser", "writeActive">>)
    <3>1. {"readLesser", "writeActive"} \subseteq StepNames
      BY DEF StepNames
    <3> QED
      BY <2>2, <3>1, PathOf2
  <2> QED
    BY <2>1, <2>3 DEF Starts, HoldsOf, FirstSteps
<1>3. Starts("setReferral", ScriptOfMembers("setReferral"))
  <2>1. ScriptOfMembers("setReferral") = <<"readReseller", "codeTaken", "writeCode">>
    BY DEF ScriptOfMembers
  <2>2. Way("setReferral", "readReseller", "codeTaken") /\ Way("setReferral", "codeTaken", "writeCode") /\ Final("setReferral", "writeCode")
    BY DEF Way, Final
  <2>3. Path("setReferral", <<"readReseller", "codeTaken", "writeCode">>)
    <3>1. {"readReseller", "codeTaken", "writeCode"} \subseteq StepNames
      BY DEF StepNames
    <3> QED
      BY <2>2, <3>1, PathOf3
  <2> QED
    BY <2>1, <2>3 DEF Starts, HoldsOf, FirstSteps
<1>4. Starts("create", ScriptOfMembers("create"))
  <2>1. ScriptOfMembers("create") = <<"createUser">>
    BY DEF ScriptOfMembers
  <2>2. Final("create", "createUser")
    BY DEF Way, Final
  <2>3. Path("create", <<"createUser">>)
    <3>1. {"createUser"} \subseteq StepNames
      BY DEF StepNames
    <3> QED
      BY <2>2, <3>1, PathOf1
  <2> QED
    BY <2>1, <2>3 DEF Starts, HoldsOf, FirstSteps
<1>5. Starts("createMine", ScriptOfMembers("createMine"))
  <2>1. ScriptOfMembers("createMine") = <<"requireReseller", "createUser">>
    BY DEF ScriptOfMembers
  <2>2. Way("createMine", "requireReseller", "createUser") /\ Final("createMine", "createUser")
    BY DEF Way, Final
  <2>3. Path("createMine", <<"requireReseller", "createUser">>)
    <3>1. {"requireReseller", "createUser"} \subseteq StepNames
      BY DEF StepNames
    <3> QED
      BY <2>2, <3>1, PathOf2
  <2> QED
    BY <2>1, <2>3 DEF Starts, HoldsOf, FirstSteps
<1>6. Starts("edit", ScriptOfMembers("edit"))
  <2>1. ScriptOfMembers("edit") = <<"readLesser", "writeHand">>
    BY DEF ScriptOfMembers
  <2>2. Way("edit", "readLesser", "writeHand") /\ Final("edit", "writeHand")
    BY DEF Way, Final
  <2>3. Path("edit", <<"readLesser", "writeHand">>)
    <3>1. {"readLesser", "writeHand"} \subseteq StepNames
      BY DEF StepNames
    <3> QED
      BY <2>2, <3>1, PathOf2
  <2> QED
    BY <2>1, <2>3 DEF Starts, HoldsOf, FirstSteps
<1>7. Starts("editMine", ScriptOfMembers("editMine"))
  <2>1. ScriptOfMembers("editMine") = <<"requireReseller", "readMine", "writeHand">>
    BY DEF ScriptOfMembers
  <2>2. Way("editMine", "requireReseller", "readMine") /\ Way("editMine", "readMine", "writeHand") /\ Final("editMine", "writeHand")
    BY DEF Way, Final
  <2>3. Path("editMine", <<"requireReseller", "readMine", "writeHand">>)
    <3>1. {"requireReseller", "readMine", "writeHand"} \subseteq StepNames
      BY DEF StepNames
    <3> QED
      BY <2>2, <3>1, PathOf3
  <2> QED
    BY <2>1, <2>3 DEF Starts, HoldsOf, FirstSteps
<1>8. Starts("editOwn", ScriptOfMembers("editOwn"))
  <2>1. ScriptOfMembers("editOwn") = <<"readUser", "compare", "writeHand">>
    BY DEF ScriptOfMembers
  <2>2. Way("editOwn", "readUser", "compare") /\ Way("editOwn", "compare", "writeHand") /\ Final("editOwn", "writeHand")
    BY DEF Way, Final
  <2>3. Path("editOwn", <<"readUser", "compare", "writeHand">>)
    <3>1. {"readUser", "compare", "writeHand"} \subseteq StepNames
      BY DEF StepNames
    <3> QED
      BY <2>2, <3>1, PathOf3
  <2> QED
    BY <2>1, <2>3 DEF Starts, HoldsOf, FirstSteps
<1>9. Starts("profile", ScriptOfMembers("profile"))
  <2>1. ScriptOfMembers("profile") = <<"readUser", "writeProfile">>
    BY DEF ScriptOfMembers
  <2>2. Way("profile", "readUser", "writeProfile") /\ Final("profile", "writeProfile")
    BY DEF Way, Final
  <2>3. Path("profile", <<"readUser", "writeProfile">>)
    <3>1. {"readUser", "writeProfile"} \subseteq StepNames
      BY DEF StepNames
    <3> QED
      BY <2>2, <3>1, PathOf2
  <2> QED
    BY <2>1, <2>3 DEF Starts, HoldsOf, FirstSteps
<1> QED
  BY <1>1, <1>2, <1>3, <1>4, <1>5, <1>6, <1>7, <1>8, <1>9 DEF MemberKinds

LEMMA PathsOfSignIn == \A kind \in SignInKinds : Starts(kind, ScriptOfSignIn(kind))
<1>1. Starts("login", ScriptOfSignIn("login"))
  <2>1. ScriptOfSignIn("login") = <<"readAccount", "compare", "sign">>
    BY DEF ScriptOfSignIn, Consume
  <2>2. Way("login", "readAccount", "compare") /\ Way("login", "compare", "sign") /\ Final("login", "sign")
    BY DEF Way, Final
  <2>3. Path("login", <<"readAccount", "compare", "sign">>)
    <3>1. {"readAccount", "compare", "sign"} \subseteq StepNames
      BY DEF StepNames
    <3> QED
      BY <2>2, <3>1, PathOf3
  <2> QED
    BY <2>1, <2>3 DEF Starts, HoldsOf, FirstSteps
<1>2. Starts("refresh", ScriptOfSignIn("refresh"))
  <2>1. ScriptOfSignIn("refresh") = <<"readAccount", "sign">>
    BY DEF ScriptOfSignIn, Consume
  <2>2. Way("refresh", "readAccount", "sign") /\ Final("refresh", "sign")
    BY DEF Way, Final
  <2>3. Path("refresh", <<"readAccount", "sign">>)
    <3>1. {"readAccount", "sign"} \subseteq StepNames
      BY DEF StepNames
    <3> QED
      BY <2>2, <3>1, PathOf2
  <2> QED
    BY <2>1, <2>3 DEF Starts, HoldsOf, FirstSteps
<1>3. Starts("offer", ScriptOfSignIn("offer"))
  <2>1. ScriptOfSignIn("offer") = <<"readDevices", "purge", "createChallenge">>
    BY DEF ScriptOfSignIn, Consume
  <2>2. Way("offer", "readDevices", "purge") /\ Way("offer", "purge", "createChallenge") /\ Final("offer", "createChallenge")
    BY DEF Way, Final
  <2>3. Path("offer", <<"readDevices", "purge", "createChallenge">>)
    <3>1. {"readDevices", "purge", "createChallenge"} \subseteq StepNames
      BY DEF StepNames
    <3> QED
      BY <2>2, <3>1, PathOf3
  <2> QED
    BY <2>1, <2>3 DEF Starts, HoldsOf, FirstSteps
<1>4. Starts("register", ScriptOfSignIn("register"))
  <2>1. ScriptOfSignIn("register") = <<"readAccount", "purge", "findChallenge", "deleteChallenge", "findCredential", "createCredential">>
    <3>1. {"readAccount", "purge", "findChallenge", "deleteChallenge", "findCredential", "createCredential"} \subseteq StepNames
      BY DEF StepNames
    <3>2. ScriptOfSignIn("register") = <<"readAccount">> \o <<"purge", "findChallenge", "deleteChallenge">> \o <<"findCredential", "createCredential">>
      BY DEF ScriptOfSignIn, Consume
    <3> QED
      BY <3>1, <3>2, ListOfSix
  <2>2. Way("register", "readAccount", "purge") /\ Way("register", "purge", "findChallenge") /\ Way("register", "findChallenge", "deleteChallenge") /\ Way("register", "deleteChallenge", "findCredential") /\ Way("register", "findCredential", "createCredential") /\ Final("register", "createCredential")
    BY DEF Way, Final
  <2>3. Path("register", <<"readAccount", "purge", "findChallenge", "deleteChallenge", "findCredential", "createCredential">>)
    <3>1. {"readAccount", "purge", "findChallenge", "deleteChallenge", "findCredential", "createCredential"} \subseteq StepNames
      BY DEF StepNames
    <3> QED
      BY <2>2, <3>1, PathOf6
  <2> QED
    BY <2>1, <2>3 DEF Starts, HoldsOf, FirstSteps
<1>5. Starts("ask", ScriptOfSignIn("ask"))
  <2>1. ScriptOfSignIn("ask") = <<"purge", "createChallenge">>
    BY DEF ScriptOfSignIn, Consume
  <2>2. Way("ask", "purge", "createChallenge") /\ Final("ask", "createChallenge")
    BY DEF Way, Final
  <2>3. Path("ask", <<"purge", "createChallenge">>)
    <3>1. {"purge", "createChallenge"} \subseteq StepNames
      BY DEF StepNames
    <3> QED
      BY <2>2, <3>1, PathOf2
  <2> QED
    BY <2>1, <2>3 DEF Starts, HoldsOf, FirstSteps
<1>6. Starts("authenticate", ScriptOfSignIn("authenticate"))
  <2>1. ScriptOfSignIn("authenticate") = <<"readCredential", "purge", "findChallenge", "deleteChallenge", "updateCounter", "sign">>
    <3>1. {"readCredential", "purge", "findChallenge", "deleteChallenge", "updateCounter", "sign"} \subseteq StepNames
      BY DEF StepNames
    <3>2. ScriptOfSignIn("authenticate") = <<"readCredential">> \o <<"purge", "findChallenge", "deleteChallenge">> \o <<"updateCounter", "sign">>
      BY DEF ScriptOfSignIn, Consume
    <3> QED
      BY <3>1, <3>2, ListOfSix
  <2>2. Way("authenticate", "readCredential", "purge") /\ Way("authenticate", "purge", "findChallenge") /\ Way("authenticate", "findChallenge", "deleteChallenge") /\ Way("authenticate", "deleteChallenge", "updateCounter") /\ Way("authenticate", "updateCounter", "sign") /\ Final("authenticate", "sign")
    BY DEF Way, Final
  <2>3. Path("authenticate", <<"readCredential", "purge", "findChallenge", "deleteChallenge", "updateCounter", "sign">>)
    <3>1. {"readCredential", "purge", "findChallenge", "deleteChallenge", "updateCounter", "sign"} \subseteq StepNames
      BY DEF StepNames
    <3> QED
      BY <2>2, <3>1, PathOf6
  <2> QED
    BY <2>1, <2>3 DEF Starts, HoldsOf, FirstSteps
<1>7. Starts("forget", ScriptOfSignIn("forget"))
  <2>1. ScriptOfSignIn("forget") = <<"findOwn", "deleteCredential">>
    BY DEF ScriptOfSignIn, Consume
  <2>2. Way("forget", "findOwn", "deleteCredential") /\ Final("forget", "deleteCredential")
    BY DEF Way, Final
  <2>3. Path("forget", <<"findOwn", "deleteCredential">>)
    <3>1. {"findOwn", "deleteCredential"} \subseteq StepNames
      BY DEF StepNames
    <3> QED
      BY <2>2, <3>1, PathOf2
  <2> QED
    BY <2>1, <2>3 DEF Starts, HoldsOf, FirstSteps
<1>8. Starts("visit", ScriptOfSignIn("visit"))
  <2>1. ScriptOfSignIn("visit") = <<"readEnabled", "createVisit">>
    BY DEF ScriptOfSignIn, Consume
  <2>2. Way("visit", "readEnabled", "createVisit") /\ Final("visit", "createVisit")
    BY DEF Way, Final
  <2>3. Path("visit", <<"readEnabled", "createVisit">>)
    <3>1. {"readEnabled", "createVisit"} \subseteq StepNames
      BY DEF StepNames
    <3> QED
      BY <2>2, <3>1, PathOf2
  <2> QED
    BY <2>1, <2>3 DEF Starts, HoldsOf, FirstSteps
<1>9. Starts("fill", ScriptOfSignIn("fill"))
  <2>1. ScriptOfSignIn("fill") = <<"readEnabled", "requireRow", "updateVisit">>
    BY DEF ScriptOfSignIn, Consume
  <2>2. Way("fill", "readEnabled", "requireRow") /\ Way("fill", "requireRow", "updateVisit") /\ Final("fill", "updateVisit")
    BY DEF Way, Final
  <2>3. Path("fill", <<"readEnabled", "requireRow", "updateVisit">>)
    <3>1. {"readEnabled", "requireRow", "updateVisit"} \subseteq StepNames
      BY DEF StepNames
    <3> QED
      BY <2>2, <3>1, PathOf3
  <2> QED
    BY <2>1, <2>3 DEF Starts, HoldsOf, FirstSteps
<1>10. Starts("switch", ScriptOfSignIn("switch"))
  <2>1. ScriptOfSignIn("switch") = <<"setEnabled">>
    BY DEF ScriptOfSignIn, Consume
  <2>2. Final("switch", "setEnabled")
    BY DEF Way, Final
  <2>3. Path("switch", <<"setEnabled">>)
    <3>1. {"setEnabled"} \subseteq StepNames
      BY DEF StepNames
    <3> QED
      BY <2>2, <3>1, PathOf1
  <2> QED
    BY <2>1, <2>3 DEF Starts, HoldsOf, FirstSteps
<1>11. Starts("clear", ScriptOfSignIn("clear"))
  <2>1. ScriptOfSignIn("clear") = <<"clearLogs">>
    BY DEF ScriptOfSignIn, Consume
  <2>2. Final("clear", "clearLogs")
    BY DEF Way, Final
  <2>3. Path("clear", <<"clearLogs">>)
    <3>1. {"clearLogs"} \subseteq StepNames
      BY DEF StepNames
    <3> QED
      BY <2>2, <3>1, PathOf1
  <2> QED
    BY <2>1, <2>3 DEF Starts, HoldsOf, FirstSteps
<1> QED
  BY <1>1, <1>2, <1>3, <1>4, <1>5, <1>6, <1>7, <1>8, <1>9, <1>10, <1>11 DEF SignInKinds

LEMMA PathsOfBots == \A kind \in BotKinds : Starts(kind, ScriptOfBots(kind))
<1>1. Starts("poll", ScriptOfBots("poll"))
  <2>1. ScriptOfBots("poll") = <<"claimPoll", "readToken", "readConfig", "getUpdates">>
    BY DEF ScriptOfBots, PollSteps
  <2>2. Way("poll", "claimPoll", "readToken") /\ Way("poll", "readToken", "readConfig") /\ Way("poll", "readConfig", "getUpdates") /\ Final("poll", "getUpdates")
    BY DEF Way, Final
  <2>3. Path("poll", <<"claimPoll", "readToken", "readConfig", "getUpdates">>)
    <3>1. {"claimPoll", "readToken", "readConfig", "getUpdates"} \subseteq StepNames
      BY DEF StepNames
    <3> QED
      BY <2>2, <3>1, PathOf4
  <2> QED
    BY <2>1, <2>3 DEF Starts, HoldsOf, FirstSteps
<1>2. Starts("pollA", ScriptOfBots("pollA"))
  <2>1. ScriptOfBots("pollA") = <<"claimPoll", "readToken", "readConfig", "getUpdates">>
    BY DEF ScriptOfBots, PollSteps
  <2>2. Way("pollA", "claimPoll", "readToken") /\ Way("pollA", "readToken", "readConfig") /\ Way("pollA", "readConfig", "getUpdates") /\ Final("pollA", "getUpdates")
    BY DEF Way, Final
  <2>3. Path("pollA", <<"claimPoll", "readToken", "readConfig", "getUpdates">>)
    <3>1. {"claimPoll", "readToken", "readConfig", "getUpdates"} \subseteq StepNames
      BY DEF StepNames
    <3> QED
      BY <2>2, <3>1, PathOf4
  <2> QED
    BY <2>1, <2>3 DEF Starts, HoldsOf, FirstSteps
<1>3. Starts("save", ScriptOfBots("save"))
  <2>1. ScriptOfBots("save") = <<"readBot", "writeBot", "forgetSkip">>
    BY DEF ScriptOfBots, PollSteps
  <2>2. Way("save", "readBot", "writeBot") /\ Way("save", "writeBot", "forgetSkip") /\ Final("save", "forgetSkip")
    BY DEF Way, Final
  <2>3. Path("save", <<"readBot", "writeBot", "forgetSkip">>)
    <3>1. {"readBot", "writeBot", "forgetSkip"} \subseteq StepNames
      BY DEF StepNames
    <3> QED
      BY <2>2, <3>1, PathOf3
  <2> QED
    BY <2>1, <2>3 DEF Starts, HoldsOf, FirstSteps
<1>4. Starts("saveA", ScriptOfBots("saveA"))
  <2>1. ScriptOfBots("saveA") = <<"readBot", "writeBot", "forgetSkip">>
    BY DEF ScriptOfBots, PollSteps
  <2>2. Way("saveA", "readBot", "writeBot") /\ Way("saveA", "writeBot", "forgetSkip") /\ Final("saveA", "forgetSkip")
    BY DEF Way, Final
  <2>3. Path("saveA", <<"readBot", "writeBot", "forgetSkip">>)
    <3>1. {"readBot", "writeBot", "forgetSkip"} \subseteq StepNames
      BY DEF StepNames
    <3> QED
      BY <2>2, <3>1, PathOf3
  <2> QED
    BY <2>1, <2>3 DEF Starts, HoldsOf, FirstSteps
<1>5. Starts("unlink", ScriptOfBots("unlink"))
  <2>1. ScriptOfBots("unlink") = <<"readUser", "unlink">>
    BY DEF ScriptOfBots, PollSteps
  <2>2. Way("unlink", "readUser", "unlink") /\ Final("unlink", "unlink")
    BY DEF Way, Final
  <2>3. Path("unlink", <<"readUser", "unlink">>)
    <3>1. {"readUser", "unlink"} \subseteq StepNames
      BY DEF StepNames
    <3> QED
      BY <2>2, <3>1, PathOf2
  <2> QED
    BY <2>1, <2>3 DEF Starts, HoldsOf, FirstSteps
<1>6. Starts("unlinkA", ScriptOfBots("unlinkA"))
  <2>1. ScriptOfBots("unlinkA") = <<"readLinked", "tell", "readUser", "unlink">>
    BY DEF ScriptOfBots, PollSteps
  <2>2. Way("unlinkA", "readLinked", "tell") /\ Way("unlinkA", "tell", "readUser") /\ Way("unlinkA", "readUser", "unlink") /\ Final("unlinkA", "unlink")
    BY DEF Way, Final
  <2>3. Path("unlinkA", <<"readLinked", "tell", "readUser", "unlink">>)
    <3>1. {"readLinked", "tell", "readUser", "unlink"} \subseteq StepNames
      BY DEF StepNames
    <3> QED
      BY <2>2, <3>1, PathOf4
  <2> QED
    BY <2>1, <2>3 DEF Starts, HoldsOf, FirstSteps
<1> QED
  BY <1>1, <1>2, <1>3, <1>4, <1>5, <1>6 DEF BotKinds

LEMMA PathsOfBackups == \A kind \in BackupKinds : Starts(kind, ScriptOfBackups(kind))
<1>1. Starts("backup", ScriptOfBackups("backup"))
  <2>1. ScriptOfBackups("backup") = <<"startCreate", "openDump", "pgDump", "prune", "ready">>
    BY DEF ScriptOfBackups
  <2>2. Way("backup", "startCreate", "openDump") /\ Way("backup", "openDump", "pgDump") /\ Way("backup", "pgDump", "prune") /\ Way("backup", "prune", "ready") /\ Final("backup", "ready")
    BY DEF Way, Final
  <2>3. Path("backup", <<"startCreate", "openDump", "pgDump", "prune", "ready">>)
    <3>1. {"startCreate", "openDump", "pgDump", "prune", "ready"} \subseteq StepNames
      BY DEF StepNames
    <3> QED
      BY <2>2, <3>1, PathOf5
  <2> QED
    BY <2>1, <2>3 DEF Starts, HoldsOf, FirstSteps
<1>2. Starts("restore", ScriptOfBackups("restore"))
  <2>1. ScriptOfBackups("restore") = <<"check", "exclusive", "assertDump", "disconnect", "pgRestore", "cleanUp">>
    BY DEF ScriptOfBackups
  <2>2. Way("restore", "check", "exclusive") /\ Way("restore", "exclusive", "assertDump") /\ Way("restore", "assertDump", "disconnect") /\ Way("restore", "disconnect", "pgRestore") /\ Way("restore", "pgRestore", "cleanUp") /\ Final("restore", "cleanUp")
    BY DEF Way, Final
  <2>3. Path("restore", <<"check", "exclusive", "assertDump", "disconnect", "pgRestore", "cleanUp">>)
    <3>1. {"check", "exclusive", "assertDump", "disconnect", "pgRestore", "cleanUp"} \subseteq StepNames
      BY DEF StepNames
    <3> QED
      BY <2>2, <3>1, PathOf6
  <2> QED
    BY <2>1, <2>3 DEF Starts, HoldsOf, FirstSteps
<1> QED
  BY <1>1, <1>2 DEF BackupKinds
(* The ways of a step, by name.                                            *)
LEMMA OnOver ==
    ASSUME ReqInv, NEW r \in Requests, Underway(r), Rejects(r) \/ Ends(r)
    PROVE  Served(r, {}) /\ ~Underway(r)'
<1>1. /\ [req[r] EXCEPT !.at = "failed"].at = "failed" /\ [req[r] EXCEPT !.at = "failed"].kind = req[r].kind
      /\ [req[r] EXCEPT !.at = "failed"].holds = req[r].holds
      /\ [req[r] EXCEPT !.at = "done"].at = "done" /\ [req[r] EXCEPT !.at = "done"].kind = req[r].kind
      /\ [req[r] EXCEPT !.at = "done"].holds = req[r].holds
  BY AtWork DEF Shape, Fields
<1> QED
  BY <1>1, StepOver DEF Rejects, Ends

Plain(r) == At(r) \notin {"claimPoll", "startCreate", "exclusive"}

LEMMA OnWrote ==
    ASSUME ReqInv, NEW r \in Requests, Underway(r), Plain(r), NEW what, Wrote(r, what)
    PROVE  Served(r, what) /\ Advanced(r, req[r])
BY StepGoes, KeptExcept DEF Wrote, Plain

LEMMA OnContinues ==
    ASSUME ReqInv, NEW r \in Requests, Underway(r), Plain(r), Continues(r)
    PROVE  Served(r, {}) /\ Advanced(r, req[r])
BY StepGoes, KeptExcept DEF Continues, Goes, Plain

LEMMA OnSaw ==
    ASSUME ReqInv, NEW r \in Requests, Underway(r), Plain(r), NEW v, Saw(r, v)
    PROVE  Served(r, {}) /\ Advanced(r, [req[r] EXCEPT !.saw = v])
BY StepGoes, KeptExcept DEF Saw, Goes, Plain

LEMMA OnGoes ==
    ASSUME ReqInv, NEW r \in Requests, Underway(r), Plain(r), NEW rec, Kept(r, rec), Goes(r, rec)
    PROVE  Served(r, {}) /\ Advanced(r, rec)
BY StepGoes DEF Goes, Plain

LEMMA OnTurns ==
    ASSUME ReqInv, NEW r \in Requests, Underway(r), NEW todo, Path(req[r].kind, todo),
           HoldsOf(req[r].kind, Head(todo)) = HoldsOf(req[r].kind, At(r)), Turns(r, todo)
    PROVE  Served(r, {}) /\ Becomes(r, req[r]) /\ req'[r].todo = todo
<1> DEFINE rec == [req[r] EXCEPT !.todo = todo]
<1>1. /\ rec.todo = todo /\ Shape(rec) /\ rec.at = "run" /\ rec.kind = req[r].kind /\ rec.holds = req[r].holds
      /\ rec.by = req[r].by /\ rec.to = req[r].to /\ rec.of = req[r].of /\ rec.n = req[r].n /\ rec.saw = req[r].saw
      /\ rec.device = req[r].device /\ rec.moved = req[r].moved
  BY AtWork DEF Shape, Fields
<1>2. Moves(r, rec, {})
  BY DEF Turns
<1> HIDE DEF rec
<1>3. Served(r, {}) /\ Becomes(r, rec) /\ req'[r].todo = todo
  BY <1>1, <1>2, StepTurns
<1> QED
  BY <1>1, <1>3 DEF Becomes

(* A restart.                                                              *)
LEMMA OnRestart ==
    ASSUME ReqInv, req' = CutOff
    PROVE  ReqInv' /\ \A q \in Requests : ~Underway(q)' /\ req'[q].holds = {}
<1>1. Requests' = Requests /\ req' = [q \in Requests |-> req'[q]]
  BY DEF CutOff, Requests
<1>2. ASSUME NEW q \in Requests PROVE Sound(req'[q]) /\ ~Underway(q)' /\ req'[q].holds = {}
  <2>1. Sound(req[q]) /\ req'[q] = IF Underway(q) THEN Settled([req[q] EXCEPT !.at = "cut"]) ELSE req[q]
    BY DEF ReqInv, CutOff
  <2>2. CASE Underway(q)
    <3> DEFINE p == [req[q] EXCEPT !.at = "cut"]
    <3>1. p.at = "cut"
      BY <2>1 DEF Sound, Shape, Fields
    <3> HIDE DEF p
    <3>2. req'[q] = [NoRequest EXCEPT !.at = "cut", !.kind = p.kind]
      BY <2>1, <2>2, <3>1 DEF Settled, p
    <3>3. Shape(req'[q]) /\ req'[q].at = "cut" /\ req'[q].todo = << >> /\ req'[q].holds = {} /\ req'[q].moved = {}
      BY <3>2 DEF NoRequest, Shape, Fields
    <3> QED
      BY <3>3 DEF Sound, Underway
  <2>3. CASE ~Underway(q)
    BY <2>1, <2>3 DEF Sound, Underway
  <2> QED
    BY <2>2, <2>3
<1> QED
  BY <1>1, <1>2 DEF ReqInv

LEMMA OthersHold ==
    ASSUME ReqInv, NEW r \in Requests, NEW what, Others(r, what), Sound(req'[r])
    PROVE  ReqInv' /\ Requests' = Requests
<1>1. Requests' = Requests
  BY DEF Others, Requests
<1> QED
  BY <1>1 DEF Others, ReqInv

----------------------------------------------------------------------------
(* What every step keeps of the rest: an account keeps what it is for all  *)
(* who were not told; what bots have seen or mixed stays so.               *)
RowFields == {"is", "role", "active", "boss", "code", "codeOn", "hand", "mobile", "chat", "proof"}
RowShape(row) == row = [f \in RowFields |-> row[f]]
BotFields == {"token", "on", "last", "mixed"}
BotShape(row) == row = [f \in BotFields |-> row[f]]
BoxShape(box) == box = [t \in 1..Tokens |-> [said |-> box[t].said, confirmed |-> box[t].confirmed]]

Shapes ==
    /\ user = [u \in Users |-> user[u]] /\ \A u \in Users : RowShape(user[u])
    /\ bot = [b \in Bot |-> bot[b]] /\ \A b \in Bot : BotShape(bot[b])
    /\ inbox = [b \in Bot |-> inbox[b]] /\ \A b \in Bot : BoxShape(inbox[b])

AsBefore(u) ==
    /\ user'[u].is = user[u].is /\ user'[u].role = user[u].role /\ user'[u].active = user[u].active
    /\ user'[u].boss = user[u].boss /\ user'[u].mobile = user[u].mobile

Rely(what) ==
    /\ \A u \in Users : (u \notin what => AsBefore(u)) /\ (user[u].is => user'[u].is)
    /\ "switch" \notin what => mobileLogin' = mobileLogin
    /\ seen \subseteq seen'
    /\ \A b \in Bot : bot[b].mixed \subseteq bot'[b].mixed /\ (b \notin what => bot'[b].token = bot[b].token)
    /\ \A b \in Bot, t \in 1..Tokens : inbox'[b][t].said = inbox[b][t].said

Told(r) == \E what : Served(r, what) /\ Rely(what)

LEMMA Unmoved == UNCHANGED <<user, mobileLogin, seen, bot, inbox>> => Rely({})
BY DEF Rely, AsBefore

(* A change of one row.                                                    *)
LEMMA OneRow ==
    ASSUME Shapes, NEW u, NEW row, user' = [user EXCEPT ![u] = row], u \in Users => RowShape(row)
    PROVE  /\ user' = [v \in Users |-> user'[v]]
           /\ \A v \in Users : user'[v] = (IF v = u THEN row ELSE user[v]) /\ RowShape(user'[v])
BY DEF Shapes

LEMMA Quiet ==
    ASSUME Shapes, UNCHANGED <<user, mobileLogin, seen, bot, inbox>>, NEW r, Served(r, {})
    PROVE  Told(r) /\ Shapes'
BY Unmoved DEF Told, Shapes

(* A step that writes one account and tells the others.                    *)
LEMMA WritesRow ==
    ASSUME Shapes, UNCHANGED <<mobileLogin, seen, bot, inbox>>, NEW r, NEW u, NEW row, NEW what, Served(r, what),
           user' = [user EXCEPT ![u] = row],
           u \in Users => RowShape(row) /\ (user[u].is => row.is),
           u \in Users /\ u \notin what => /\ row.is = user[u].is /\ row.role = user[u].role /\ row.active = user[u].active
                                           /\ row.boss = user[u].boss /\ row.mobile = user[u].mobile
    PROVE  Told(r) /\ Shapes'
<1>1. /\ user' = [v \in Users |-> user'[v]]
      /\ \A v \in Users : user'[v] = (IF v = u THEN row ELSE user[v]) /\ RowShape(user'[v])
  BY OneRow
<1>2. Rely(what)
  BY <1>1 DEF Rely, AsBefore
<1> QED
  BY <1>1, <1>2 DEF Told, Shapes

(* One that takes links away.                                              *)
LEMMA Unlinks ==
    ASSUME Shapes, UNCHANGED <<mobileLogin, seen, bot, inbox>>, NEW r, Served(r, {}), NEW S,
           user' = [u \in Users |-> IF u \in S THEN Unlinked(user[u]) ELSE user[u]]
    PROVE  Told(r) /\ Shapes'
<1>1. \A u \in Users : RowShape(user'[u]) /\ AsBefore(u)
  BY DEF Shapes, Unlinked, RowShape, RowFields, AsBefore
<1>2. Rely({})
  BY <1>1 DEF Rely, AsBefore
<1> QED
  BY <1>1, <1>2 DEF Told, Shapes

Kin(p, q) == p.is = q.is /\ p.role = q.role /\ p.active = q.active /\ p.boss = q.boss
LEMMA UnlinkedRow ==
    ASSUME NEW row, RowShape(row)
    PROVE  LET p == Unlinked(row) IN
           RowShape(p) /\ Kin(p, row) /\ p.mobile = row.mobile /\ p.chat = "none" /\ p.proof = "none" /\ p.code = row.code
BY DEF Unlinked, RowShape, RowFields, Kin

LEMMA ProfileRow ==
    ASSUME NEW row, RowShape(row), NEW old, NEW m
    PROVE  LET p == Profile(row, old, m) IN
           /\ RowShape(p) /\ Kin(p, row) /\ p.mobile = m
           /\ p.chat = IF m # old.mobile THEN "none" ELSE row.chat
           /\ p.proof = IF m # old.mobile THEN "none" ELSE row.proof
<1>1. CASE m # old.mobile
  BY <1>1 DEF Profile, Unlinked, RowShape, RowFields, Kin
<1>2. CASE m = old.mobile
  BY <1>2 DEF Profile, RowShape, RowFields, Kin
<1> QED
  BY <1>1, <1>2

LEMMA MarkedRow ==
    ASSUME NEW row, RowShape(row), NEW r
    PROVE  LET p == Marked(row, r) IN
           /\ RowShape(p) /\ Kin(p, row) /\ p.mobile = row.mobile /\ p.chat = row.chat
           /\ p.proof = IF row.chat # "none" /\ req[r].of \in req[r].moved THEN "overlap" ELSE row.proof
BY DEF Marked, RowShape, RowFields, Kin

(* The steps of the four services.                                         *)
LEMMA MembersTell ==
    ASSUME ReqInv, Shapes, NEW r \in Requests, MemberStep(r),
           UNCHANGED <<scene, left, signInVars, botVars, backupVars>>
    PROVE  Told(r) /\ Shapes'
<1>1. CASE ReadUser(r)
  <2>1. Served(r, {})
    BY <1>1, OnOver, OnSaw DEF ReadUser, Reads, At, Step, Plain
  <2> QED
    BY <1>1, <2>1, Quiet DEF ReadUser, Reads, memberVars, signInVars, botVars
<1>2. CASE ReadReseller(r)
  <2>1. Served(r, {})
    BY <1>2, OnOver, OnSaw DEF ReadReseller, Reads, At, Step, Plain
  <2> QED
    BY <1>2, <2>1, Quiet DEF ReadReseller, Reads, memberVars, signInVars, botVars
<1>3. CASE ReadLesser(r)
  <2>1. Served(r, {})
    BY <1>3, OnOver, OnSaw DEF ReadLesser, Reads, At, Step, Plain
  <2> QED
    BY <1>3, <2>1, Quiet DEF ReadLesser, Reads, memberVars, signInVars, botVars
<1>4. CASE RequireReseller(r)
  <2>1. Served(r, {})
    BY <1>4, OnOver, OnContinues DEF RequireReseller, At, Step, Plain
  <2> QED
    BY <1>4, <2>1, Quiet DEF RequireReseller, memberVars, signInVars, botVars
<1>5. CASE ReadMine(r)
  <2>1. Served(r, {})
    BY <1>5, OnOver, OnSaw DEF ReadMine, Reads, At, Step, Plain
  <2> QED
    BY <1>5, <2>1, Quiet DEF ReadMine, Reads, memberVars, signInVars, botVars
<1>6. CASE CountAdmins(r)
  <2>1. Served(r, {})
    BY <1>6, OnOver, OnContinues DEF CountAdmins, At, Step, Plain
  <2> QED
    BY <1>6, <2>1, Quiet DEF CountAdmins, memberVars, signInVars, botVars
<1>7. CASE FreshCode(r)
  <2>1. Served(r, {})
    BY <1>7, OnOver, OnSaw, OnContinues DEF FreshCode, At, Step, Plain
  <2> QED
    BY <1>7, <2>1, Quiet DEF FreshCode, memberVars, signInVars, botVars
<1>8. CASE CodeTaken(r)
  <2>1. Served(r, {})
    BY <1>8, OnOver, OnContinues DEF CodeTaken, At, Step, Plain
  <2> QED
    BY <1>8, <2>1, Quiet DEF CodeTaken, memberVars, signInVars, botVars
<1>9. CASE Compare(r)
  <2>1. Served(r, {})
    BY <1>9, OnOver, OnContinues DEF Compare, At, Step, Plain
  <2> QED
    BY <1>9, <2>1, Quiet DEF Compare, memberVars, signInVars, botVars
<1>10. CASE WriteRole(r)
  <2>0. Underway(r) /\ Plain(r)
    BY <1>10 DEF WriteRole, Step, At, Plain
  <2> DEFINE row == RoleGiven(user[req[r].of], Read(r), req[r].to)
  <2>1. ASSUME user' = [user EXCEPT ![req[r].of] = row], Wrote(r, {req[r].of}) PROVE Told(r) /\ Shapes'
    <3>1. Served(r, {req[r].of})
      BY <2>0, <2>1, OnWrote
    <3>2. req[r].of \in Users => /\ RowShape(row) /\ (user[req[r].of].is => row.is)
      BY DEF Shapes, RowShape, RowFields, RoleGiven
    <3> HIDE DEF row
    <3> QED
      BY <1>10, <2>1, <3>1, <3>2, WritesRow DEF WriteRole, signInVars, botVars, BotsAlone
  <2>2. ASSUME Rejects(r), UNCHANGED user PROVE Told(r) /\ Shapes'
    BY <1>10, <2>0, <2>2, OnOver, Quiet DEF WriteRole, signInVars, botVars
  <2> QED
    BY <1>10, <2>1, <2>2 DEF WriteRole
<1>11. CASE WriteActive(r)
  <2>0. Underway(r) /\ Plain(r)
    BY <1>11 DEF WriteActive, Step, At, Plain
  <2> DEFINE row == [user[req[r].of] EXCEPT !.active = (req[r].to = "on")]
  <2>1. ASSUME user' = [user EXCEPT ![req[r].of] = row], Wrote(r, {req[r].of}) PROVE Told(r) /\ Shapes'
    <3>1. Served(r, {req[r].of})
      BY <2>0, <2>1, OnWrote
    <3>2. req[r].of \in Users => /\ RowShape(row) /\ (user[req[r].of].is => row.is)
      BY DEF Shapes, RowShape, RowFields
    <3> HIDE DEF row
    <3> QED
      BY <1>11, <2>1, <3>1, <3>2, WritesRow DEF WriteActive, signInVars, botVars, BotsAlone
  <2> QED
    BY <1>11, <2>1 DEF WriteActive
<1>12. CASE WriteCode(r)
  <2>0. Underway(r) /\ Plain(r)
    BY <1>12 DEF WriteCode, Step, At, Plain
  <2>1. CASE Rejects(r) /\ UNCHANGED user
    BY <1>12, <2>0, <2>1, OnOver, Quiet DEF WriteCode, signInVars, botVars
  <2>2. CASE Wrote(r, {}) /\ \E on \in BOOLEAN : user' = [user EXCEPT ![req[r].of].code = req[r].to, ![req[r].of].codeOn = on]
    <3>1. PICK on \in BOOLEAN : user' = [user EXCEPT ![req[r].of].code = req[r].to, ![req[r].of].codeOn = on]
      BY <2>2
    <3> DEFINE row == [user[req[r].of] EXCEPT !.code = req[r].to, !.codeOn = on]
    <3>2. user' = [user EXCEPT ![req[r].of] = row]
      BY <3>1 DEF Shapes
    <3>3. Served(r, {})
      BY <2>0, <2>2, OnWrote
    <3>4. req[r].of \in Users => /\ RowShape(row) /\ (user[req[r].of].is => row.is)
                                   /\ row.is = user[req[r].of].is /\ row.role = user[req[r].of].role /\ row.active = user[req[r].of].active
                                   /\ row.boss = user[req[r].of].boss /\ row.mobile = user[req[r].of].mobile
      BY DEF Shapes, RowShape, RowFields
    <3> HIDE DEF row
    <3> QED
      BY <1>12, <3>2, <3>3, <3>4, WritesRow DEF WriteCode, signInVars, botVars
  <2> QED
    BY <1>12, <2>1, <2>2 DEF WriteCode
<1>13. CASE CreateUser(r)
  <2>0. Underway(r) /\ Plain(r)
    BY <1>13 DEF CreateUser, Step, At, Plain
  <2> DEFINE row == [NoUser EXCEPT !.is = TRUE, !.hand = Actor(r), !.boss = IF req[r].kind = "createMine" THEN Actor(r) ELSE Nobody]
  <2>1. ASSUME user' = [user EXCEPT ![req[r].of] = row], Wrote(r, {req[r].of}) PROVE Told(r) /\ Shapes'
    <3>1. Served(r, {req[r].of})
      BY <2>0, <2>1, OnWrote
    <3>2. req[r].of \in Users => /\ RowShape(row) /\ (user[req[r].of].is => row.is)
      BY DEF Shapes, RowShape, RowFields, NoUser
    <3> HIDE DEF row
    <3> QED
      BY <1>13, <2>1, <3>1, <3>2, WritesRow DEF CreateUser, signInVars, botVars, BotsAlone
  <2>2. ASSUME Rejects(r), UNCHANGED user PROVE Told(r) /\ Shapes'
    BY <1>13, <2>0, <2>2, OnOver, Quiet DEF CreateUser, signInVars, botVars
  <2> QED
    BY <1>13, <2>1, <2>2 DEF CreateUser
<1>14. CASE WriteHand(r)
  <2>0. Underway(r) /\ Plain(r)
    BY <1>14 DEF WriteHand, Step, At, Plain
  <2> DEFINE row == [user[req[r].of] EXCEPT !.hand = Actor(r)]
  <2>1. ASSUME user' = [user EXCEPT ![req[r].of] = row], Wrote(r, {}) PROVE Told(r) /\ Shapes'
    <3>1. Served(r, {})
      BY <2>0, <2>1, OnWrote
    <3>2. req[r].of \in Users => /\ RowShape(row) /\ (user[req[r].of].is => row.is)
                                   /\ row.is = user[req[r].of].is /\ row.role = user[req[r].of].role /\ row.active = user[req[r].of].active
                                   /\ row.boss = user[req[r].of].boss /\ row.mobile = user[req[r].of].mobile
      BY DEF Shapes, RowShape, RowFields
    <3> HIDE DEF row
    <3> QED
      BY <1>14, <2>1, <3>1, <3>2, WritesRow DEF WriteHand, signInVars, botVars, BotsAlone
  <2> QED
    BY <1>14, <2>1 DEF WriteHand
<1>15. CASE WriteProfile(r)
  <2>0. Underway(r) /\ Plain(r)
    BY <1>15 DEF WriteProfile, Step, At, Plain
  <2> DEFINE row == Marked(Profile(user[req[r].of], Read(r), req[r].to), r)
  <2>1. ASSUME user' = [user EXCEPT ![req[r].of] = row], Wrote(r, {req[r].of}) PROVE Told(r) /\ Shapes'
    <3>1. Served(r, {req[r].of})
      BY <2>0, <2>1, OnWrote
    <3>2. req[r].of \in Users => RowShape(row) /\ (user[req[r].of].is => row.is)
      <4> SUFFICES ASSUME req[r].of \in Users PROVE RowShape(row) /\ row.is = user[req[r].of].is
        OBVIOUS
      <4> DEFINE p == Profile(user[req[r].of], Read(r), req[r].to)
      <4>1. RowShape(user[req[r].of])
        BY DEF Shapes
      <4>2. RowShape(p) /\ Kin(p, user[req[r].of])
        BY <4>1, ProfileRow
      <4> HIDE DEF p
      <4>3. RowShape(Marked(p, r)) /\ Kin(Marked(p, r), p)
        BY <4>2, MarkedRow
      <4> QED
        BY <4>2, <4>3 DEF p, Kin
    <3> HIDE DEF row
    <3> QED
      BY <1>15, <2>1, <3>1, <3>2, WritesRow DEF WriteProfile, signInVars, botVars, BotsAlone
  <2> QED
    BY <1>15, <2>1 DEF WriteProfile
<1> QED
  BY <1>1, <1>2, <1>3, <1>4, <1>5, <1>6, <1>7, <1>8, <1>9, <1>10, <1>11, <1>12, <1>13, <1>14, <1>15 DEF MemberStep

LEMMA SignInTells ==
    ASSUME ReqInv, Shapes, NEW r \in Requests, SignInStep(r),
           UNCHANGED <<scene, left, botVars, backupVars>>
    PROVE  Told(r) /\ Shapes'
<1>1. CASE ReadAccount(r)
  <2>1. Served(r, {})
    BY <1>1, OnOver, OnSaw DEF ReadAccount, Reads, At, Step, Plain
  <2> QED
    BY <1>1, <2>1, Quiet DEF ReadAccount, Reads, memberVars, SignInAlone, botVars
<1>2. CASE Sign(r)
  <2>1. Served(r, {})
    BY <1>2, OnOver DEF Sign, At, Step, Plain
  <2> QED
    BY <1>2, <2>1, Quiet DEF Sign, memberVars, SignInAlone, botVars
<1>3. CASE ReadDevices(r)
  <2>1. Served(r, {})
    BY <1>3, OnOver, OnContinues DEF ReadDevices, At, Step, Plain
  <2> QED
    BY <1>3, <2>1, Quiet DEF ReadDevices, memberVars, SignInAlone, botVars
<1>4. CASE Purge(r)
  <2>1. Served(r, {})
    BY <1>4, OnContinues DEF Purge, At, Step, Plain
  <2> QED
    BY <1>4, <2>1, Quiet DEF Purge, memberVars, SignInAlone, botVars
<1>5. CASE CreateChallenge(r)
  <2>1. Served(r, {})
    BY <1>5, OnContinues DEF CreateChallenge, At, Step, Plain
  <2> QED
    BY <1>5, <2>1, Quiet DEF CreateChallenge, memberVars, SignInAlone, botVars
<1>6. CASE FindChallenge(r)
  <2>1. Served(r, {})
    BY <1>6, OnOver, OnContinues DEF FindChallenge, At, Step, Plain
  <2> QED
    BY <1>6, <2>1, Quiet DEF FindChallenge, memberVars, SignInAlone, botVars
<1>7. CASE DeleteChallenge(r)
  <2>1. Served(r, {})
    BY <1>7, OnOver, OnContinues DEF DeleteChallenge, At, Step, Plain
  <2> QED
    BY <1>7, <2>1, Quiet DEF DeleteChallenge, memberVars, SignInAlone, botVars
<1>8. CASE FindCredential(r)
  <2>1. Served(r, {})
    BY <1>8, OnOver, OnGoes, KeptExcept DEF FindCredential, At, Step, Plain
  <2> QED
    BY <1>8, <2>1, Quiet DEF FindCredential, memberVars, SignInAlone, botVars
<1>9. CASE CreateCredential(r)
  <2>1. Served(r, {})
    BY <1>9, OnOver, OnContinues DEF CreateCredential, At, Step, Plain
  <2> QED
    BY <1>9, <2>1, Quiet DEF CreateCredential, memberVars, SignInAlone, botVars
<1>10. CASE ReadCredential(r)
  <2>1. Served(r, {})
    <3>1. \A v, w : Kept(r, [req[r] EXCEPT !.saw = v, !.device = w])
      BY <1>10, AtWork DEF ReadCredential, Step, Kept, Shape, Fields
    <3> QED
      BY <1>10, <3>1, OnOver, OnGoes DEF ReadCredential, At, Step, Plain
  <2> QED
    BY <1>10, <2>1, Quiet DEF ReadCredential, memberVars, SignInAlone, botVars
<1>11. CASE UpdateCounter(r)
  <2>1. Served(r, {})
    BY <1>11, OnOver, OnContinues DEF UpdateCounter, At, Step, Plain
  <2> QED
    BY <1>11, <2>1, Quiet DEF UpdateCounter, memberVars, SignInAlone, botVars
<1>12. CASE FindOwn(r)
  <2>1. Served(r, {})
    BY <1>12, OnOver, OnGoes, KeptExcept DEF FindOwn, At, Step, Plain
  <2> QED
    BY <1>12, <2>1, Quiet DEF FindOwn, memberVars, SignInAlone, botVars
<1>13. CASE DeleteCredential(r)
  <2>1. Served(r, {})
    BY <1>13, OnOver, OnContinues DEF DeleteCredential, At, Step, Plain
  <2> QED
    BY <1>13, <2>1, Quiet DEF DeleteCredential, memberVars, SignInAlone, botVars
<1>14. CASE ReadEnabled(r)
  <2>1. Served(r, {})
    BY <1>14, OnOver, OnContinues DEF ReadEnabled, At, Step, Plain
  <2> QED
    BY <1>14, <2>1, Quiet DEF ReadEnabled, memberVars, SignInAlone, botVars
<1>15. CASE CreateVisit(r)
  <2>1. Served(r, {})
    BY <1>15, OnContinues DEF CreateVisit, At, Step, Plain
  <2> QED
    BY <1>15, <2>1, Quiet DEF CreateVisit, memberVars, SignInAlone, botVars
<1>16. CASE VisitThere(r, "requireRow") \/ VisitThere(r, "updateVisit")
  <2>1. Served(r, {})
    BY <1>16, OnOver, OnContinues DEF VisitThere, At, Step, Plain
  <2> QED
    BY <1>16, <2>1, Quiet DEF VisitThere, memberVars, SignInAlone, botVars
<1>17. CASE SetEnabled(r)
  <2>1. Served(r, {"switch"})
    BY <1>17, OnWrote DEF SetEnabled, At, Step, Plain
  <2>2. Rely({"switch"})
    BY <1>17 DEF SetEnabled, Rely, AsBefore, memberVars, botVars
  <2> QED
    BY <1>17, <2>1, <2>2 DEF SetEnabled, Told, Shapes, memberVars, botVars
<1>18. CASE ClearLogs(r)
  <2>1. Served(r, {})
    BY <1>18, OnContinues DEF ClearLogs, At, Step, Plain
  <2> QED
    BY <1>18, <2>1, Quiet DEF ClearLogs, memberVars, SignInAlone, botVars
<1> QED
  BY <1>1, <1>2, <1>3, <1>4, <1>5, <1>6, <1>7, <1>8, <1>9, <1>10, <1>11, <1>12, <1>13, <1>14, <1>15, <1>16, <1>17, <1>18 DEF SignInStep

(* Which kinds come to which steps.                                        *)
PollPlaces == {"claimPoll", "readToken", "readConfig", "getUpdates", "saveOffset"}
DigestPlaces == {"handle", "findProfile", "unlinkOthers", "link", "unlinkChat", "reply"}
LEMMA KindOf ==
    ASSUME ReqInv, NEW r \in Requests, Underway(r)
    PROVE  LET k == req[r].kind
               s == At(r)
           IN
           /\ s \in PollPlaces => k \in {"poll", "pollA"}
           /\ s \in DigestPlaces => k = "poll"
           /\ s = "spawn" => k = "pollA"
           /\ s \in {"readBot", "writeBot", "forgetSkip"} => k \in {"save", "saveA"}
           /\ s \in {"readLinked", "tell"} => k = "unlinkA"
           /\ s = "unlink" => k \in {"unlink", "unlinkA"}
           /\ s \in {"startCreate", "openDump", "pgDump", "prune", "ready"} => k = "backup"
           /\ s \in {"check", "exclusive", "assertDump", "disconnect", "pgRestore", "cleanUp"} => k = "restore"
<1>1. Final(req[r].kind, At(r)) \/ Way(req[r].kind, At(r), Head(Tail(req[r].todo)))
  BY AtWork, PathTail DEF At
<1> QED
  BY <1>1 DEF Way, Final, PollPlaces, DigestPlaces

(* Where flags are claimed there is a next step, which holds them.         *)
LEMMA ClaimPlaces ==
    ASSUME ReqInv, NEW r \in Requests, Underway(r), At(r) \in {"claimPoll", "startCreate", "exclusive"}
    PROVE  LET k == req[r].kind
               flag == IF At(r) = "claimPoll" THEN k ELSE "backup"
           IN
           /\ Len(req[r].todo) # 1 /\ HoldsOf(k, At(r)) = {} /\ HoldsOf(k, Head(Tail(req[r].todo))) = {flag}
<1>1. Len(req[r].todo) = 1 => Final(req[r].kind, At(r))
  BY AtWork, PathTail DEF At
<1>2. Len(req[r].todo) # 1 => Way(req[r].kind, At(r), Head(Tail(req[r].todo)))
  BY AtWork, PathTail DEF At
<1>3. Len(req[r].todo) # 1
  BY <1>1 DEF Final
<1> QED
  BY <1>2, <1>3 DEF Way, HoldsOf

(* The lists of an update.                                                 *)
LEMMA PathsOfUpdates ==
    /\ \A k \in {"poll", "pollA"} : Path(k, <<"saveOffset">>)
    /\ Path("poll", <<"handle">>) /\ Path("pollA", <<"spawn">>)
    /\ \A wish : Path("poll", Answers(wish)) /\ Head(Answers(wish)) \in {"findProfile", "unlinkChat", "reply"}
    /\ Path("poll", <<"reply">>) /\ Path("restore", <<"cleanUp">>)
<1>1. {"saveOffset", "handle", "spawn", "reply", "findProfile", "unlinkOthers", "link", "unlinkChat", "cleanUp"} \subseteq StepNames
  BY DEF StepNames
<1>2. /\ Final("poll", "saveOffset") /\ Final("pollA", "saveOffset") /\ Final("poll", "handle") /\ Final("pollA", "spawn")
      /\ Final("poll", "reply") /\ Final("restore", "cleanUp")
      /\ Way("poll", "findProfile", "unlinkOthers") /\ Way("poll", "unlinkOthers", "link") /\ Way("poll", "link", "reply")
      /\ Way("poll", "unlinkChat", "reply")
  BY DEF Final, Way
<1>3. /\ Path("poll", <<"saveOffset">>) /\ Path("pollA", <<"saveOffset">>) /\ Path("poll", <<"handle">>)
      /\ Path("pollA", <<"spawn">>) /\ Path("poll", <<"reply">>) /\ Path("restore", <<"cleanUp">>)
  BY <1>1, <1>2, PathOf1
<1>4. Path("poll", <<"unlinkChat", "reply">>)
  BY <1>1, <1>2, PathOf2
<1>5. Path("poll", <<"findProfile", "unlinkOthers", "link", "reply">>)
  BY <1>1, <1>2, PathOf4
<1>6. ASSUME NEW wish PROVE Path("poll", Answers(wish)) /\ Head(Answers(wish)) \in {"findProfile", "unlinkChat", "reply"}
  <2>1. Answers(wish) \in {<<"findProfile", "unlinkOthers", "link", "reply">>, <<"unlinkChat", "reply">>, <<"reply">>}
    BY DEF Answers
  <2> QED
    BY <1>3, <1>4, <1>5, <2>1
<1> QED
  BY <1>3, <1>6

(* A poll asks: it ends, or goes on with what came.                        *)
LEMMA OnGetUpdates ==
    ASSUME ReqInv, NEW r \in Requests, GetUpdates(r)
    PROVE  LET after == Larger(inbox[Of(r)][Read(r).token].confirmed, Read(r).last)
               max == Len(inbox[Of(r)][Read(r).token].said)
               rec == [req[r] EXCEPT !.saw = [Read(r) EXCEPT !.max = max], !.n = after + 1]
           IN
           /\ Served(r, {})
           /\ \/ ~Underway(r)' /\ seen' = seen
              \/ /\ Becomes(r, rec) /\ ~(max <= after)
                 /\ \/ req'[r].todo = <<"saveOffset">> /\ seen' = seen \cup Heard(r, max)
                    \/ req'[r].todo = <<IF req[r].kind = "poll" THEN "handle" ELSE "spawn">> /\ seen' = seen
<1> DEFINE after == Larger(inbox[Of(r)][Read(r).token].confirmed, Read(r).last)
           max == Len(inbox[Of(r)][Read(r).token].said)
           rec == [req[r] EXCEPT !.saw = [Read(r) EXCEPT !.max = max], !.n = after + 1]
           answered == [req[r] EXCEPT !.saw.max = max, !.n = after + 1]
           next == IF req[r].kind = "poll" THEN "handle" ELSE "spawn"
           p(todo) == [answered EXCEPT !.todo = todo]
<1>1. Underway(r) /\ At(r) = "getUpdates" /\ req[r].kind \in {"poll", "pollA"}
  BY KindOf DEF GetUpdates, Step, At, PollPlaces
<1>2. answered = rec /\ Shape(rec) /\ next = IF Of(r) = "digest" THEN "handle" ELSE "spawn"
  BY <1>1, AtWork DEF Shape, Fields, Read, Of
<1>3. ASSUME NEW todo
      PROVE  /\ Shape(p(todo)) /\ p(todo).todo = todo /\ p(todo).at = "run" /\ p(todo).kind = req[r].kind
             /\ p(todo).holds = req[r].holds /\ p(todo).by = req[r].by /\ p(todo).to = req[r].to /\ p(todo).of = rec.of
             /\ p(todo).n = rec.n /\ p(todo).saw = rec.saw /\ p(todo).device = rec.device /\ p(todo).moved = rec.moved
             /\ p(todo).by = rec.by /\ p(todo).to = rec.to /\ p(todo).kind = rec.kind /\ p(todo).holds = rec.holds
  BY <1>1, <1>2, AtWork DEF Shape, Fields
<1>4. /\ Path(req[r].kind, <<"saveOffset">>) /\ Path(req[r].kind, <<next>>)
      /\ HoldsOf(req[r].kind, "saveOffset") = HoldsOf(req[r].kind, At(r))
      /\ HoldsOf(req[r].kind, next) = HoldsOf(req[r].kind, At(r))
  BY <1>1, PathsOfUpdates DEF HoldsOf
<1>5. \/ Ends(r) /\ UNCHANGED seen
      \/ /\ ~(max <= after) /\ req' = [req EXCEPT ![r] = p(<<"saveOffset">>)]
         /\ held' = held \cup {SkipFlag(Of(r))} /\ seen' = seen \cup Heard(r, max)
      \/ ~(max <= after) /\ Moves(r, p(<<next>>), {}) /\ UNCHANGED seen
  BY <1>2 DEF GetUpdates
<1> HIDE DEF p, answered, after, max
<1>7. CASE Ends(r) /\ UNCHANGED seen
  BY <1>1, <1>7, OnOver
<1>8. CASE ~(max <= after) /\ Moves(r, p(<<next>>), {}) /\ UNCHANGED seen
  <2>1. Served(r, {}) /\ Becomes(r, p(<<next>>)) /\ req'[r].todo = <<next>>
    BY <1>1, <1>3, <1>4, <1>8, StepTurns
  <2>2. Becomes(r, rec)
    BY <1>3, <2>1 DEF Becomes
  <2> QED
    BY <1>8, <2>1, <2>2 DEF after, max
<1>9. CASE /\ ~(max <= after) /\ req' = [req EXCEPT ![r] = p(<<"saveOffset">>)]
           /\ held' = held \cup {SkipFlag(Of(r))} /\ seen' = seen \cup Heard(r, max)
  <2>1. Others(r, {}) /\ req'[r] = p(<<"saveOffset">>)
    BY <1>9, OthersStay
  <2>2. Becomes(r, rec) /\ req'[r].todo = <<"saveOffset">> /\ Shape(req'[r]) /\ req'[r].at = "run"
    BY <1>3, <2>1 DEF Becomes, Underway
  <2>3. Sound(req'[r]) /\ req'[r].holds = req[r].holds
    BY <1>1, <1>3, <1>4, <2>1, <2>2, AtWork DEF Sound
  <2>4. KeepsFlags(r)
    BY <1>9, <2>3 DEF KeepsFlags, SkipFlag, Of, Flags
  <2>5. Served(r, {})
    BY <1>3, <2>1, <2>2, <2>3, <2>4 DEF Served
  <2> QED
    BY <1>9, <2>2, <2>5 DEF after, max
<1> QED
  BY <1>5, <1>7, <1>8, <1>9 DEF after, max

(* The answer to an update, and on to the next one.                        *)
LEMMA OnReply ==
    ASSUME ReqInv, NEW r \in Requests, Reply(r)
    PROVE  Served(r, {}) /\ Becomes(r, [req[r] EXCEPT !.n = @ + 1]) /\ req'[r].todo = <<"handle">>
<1> DEFINE p == [[req[r] EXCEPT !.todo = <<"handle">>] EXCEPT !.n = @ + 1]
<1>1. Underway(r) /\ At(r) = "reply" /\ req[r].kind = "poll"
  BY KindOf DEF Reply, Step, At, DigestPlaces
<1>2. req' = [req EXCEPT ![r] = p] /\ held' = held
  BY DEF Reply, ReqInv
<1>3. /\ Shape(p) /\ p.at = "run" /\ p.kind = req[r].kind /\ p.todo = <<"handle">> /\ p.by = req[r].by
      /\ p.of = req[r].of /\ p.to = req[r].to /\ p.n = req[r].n + 1 /\ p.saw = req[r].saw /\ p.device = req[r].device
      /\ p.holds = req[r].holds /\ p.moved = req[r].moved
  BY <1>1, AtWork DEF Shape, Fields
<1> HIDE DEF p
<1>4. Others(r, {}) /\ req'[r] = p
  BY <1>2, OthersStay
<1>5. Becomes(r, [req[r] EXCEPT !.n = @ + 1])
  BY <1>1, <1>3, <1>4, AtWork DEF Becomes, Underway, Shape, Fields
<1>6. Sound(req'[r])
  BY <1>1, <1>3, <1>4, AtWork, PathsOfUpdates DEF Sound, HoldsOf
<1>7. KeepsFlags(r)
  BY <1>2, <1>3, <1>4 DEF KeepsFlags
<1> QED
  BY <1>3, <1>4, <1>5, <1>6, <1>7 DEF Served

LEMMA OnForgetSkip ==
    ASSUME ReqInv, NEW r \in Requests, ForgetSkip(r)
    PROVE  Served(r, {}) /\ ~Underway(r)'
<1> DEFINE p == [req[r] EXCEPT !.at = "done"]
<1>1. Underway(r) /\ At(r) = "forgetSkip" /\ req[r].kind \in {"save", "saveA"}
  BY KindOf DEF ForgetSkip, Step, At
<1>2. req' = [req EXCEPT ![r] = Settled(p)] /\ held' = held \ {SkipFlag(Of(r))}
  BY DEF ForgetSkip
<1>3. p.at = "done" /\ p.kind = req[r].kind
  BY <1>1, AtWork DEF Shape, Fields
<1> HIDE DEF p
<1>4. Settled(p) = [NoRequest EXCEPT !.at = "done", !.kind = p.kind]
  BY <1>3 DEF Settled
<1>5. Others(r, {}) /\ req'[r] = Settled(p)
  BY <1>2, OthersStay
<1>6. Shape(req'[r]) /\ req'[r].at = "done" /\ req'[r].todo = << >> /\ req'[r].holds = {} /\ req'[r].moved = {}
  BY <1>4, <1>5 DEF NoRequest, Shape, Fields
<1>7. req[r].holds = {}
  BY <1>1, AtWork DEF HoldsOf
<1>8. KeepsFlags(r)
  BY <1>2, <1>6, <1>7 DEF KeepsFlags, SkipFlag, Of, Flags
<1> QED
  BY <1>5, <1>6, <1>8 DEF Served, Sound, Underway

(* Bots: the history of a row grows; more is seen; more is confirmed.      *)
LEMMA MixesMore ==
    ASSUME Shapes, UNCHANGED <<user, mobileLogin, seen, inbox>>, NEW r, Served(r, {}), NEW S, NEW v,
           \/ bot' = [bot EXCEPT ![Of(r)] = [bot[Of(r)] EXCEPT !.mixed = @ \cup S]]
           \/ bot' = [bot EXCEPT ![Of(r)] = [[bot[Of(r)] EXCEPT !.last = v] EXCEPT !.mixed = @ \cup S]]
    PROVE  Told(r) /\ Shapes'
<1>1. Of(r) \in Bot
  BY DEF Of, Bot
<1>2. BotShape(bot[Of(r)]) /\ bot = [b \in Bot |-> bot[b]]
  BY <1>1 DEF Shapes
<1>3. PICK row : /\ bot' = [bot EXCEPT ![Of(r)] = row] /\ BotShape(row)
                 /\ row.token = bot[Of(r)].token /\ bot[Of(r)].mixed \subseteq row.mixed
  <2> DEFINE p == [bot[Of(r)] EXCEPT !.mixed = @ \cup S]
             q == [[bot[Of(r)] EXCEPT !.last = v] EXCEPT !.mixed = @ \cup S]
  <2>1. /\ BotShape(p) /\ p.token = bot[Of(r)].token /\ bot[Of(r)].mixed \subseteq p.mixed
        /\ BotShape(q) /\ q.token = bot[Of(r)].token /\ bot[Of(r)].mixed \subseteq q.mixed
    BY <1>2 DEF BotShape, BotFields
  <2>2. bot' = [bot EXCEPT ![Of(r)] = p] \/ bot' = [bot EXCEPT ![Of(r)] = q]
    OBVIOUS
  <2> HIDE DEF p, q
  <2> QED
    BY <2>1, <2>2
<1>5. /\ bot' = [b \in Bot |-> bot'[b]]
      /\ \A b \in Bot : BotShape(bot'[b]) /\ bot'[b].token = bot[b].token /\ bot[b].mixed \subseteq bot'[b].mixed
  BY <1>2, <1>3 DEF Shapes
<1>4. Rely({})
  BY <1>5 DEF Rely, AsBefore
<1> QED
  BY <1>4, <1>5 DEF Told, Shapes

LEMMA SeesMore ==
    ASSUME Shapes, UNCHANGED <<user, mobileLogin, bot, inbox>>, NEW r, Served(r, {}), NEW S, seen' = seen \cup S
    PROVE  Told(r) /\ Shapes'
BY DEF Told, Rely, AsBefore, Shapes

LEMMA Confirms ==
    ASSUME Shapes, UNCHANGED <<user, mobileLogin, bot>>, NEW r, Served(r, {}), seen \subseteq seen', NEW b, NEW t, NEW n,
           inbox' = [inbox EXCEPT ![b][t].confirmed = n]
    PROVE  Told(r) /\ Shapes'
<1>1. \A c \in Bot : BoxShape(inbox[c])
  BY DEF Shapes
<1>2. inbox' = [c \in Bot |-> inbox'[c]] /\ \A c \in Bot : c # b => inbox'[c] = inbox[c]
  BY DEF Shapes
<1>3. b \in Bot => inbox'[b] = [inbox[b] EXCEPT ![t] = [inbox[b][t] EXCEPT !.confirmed = n]]
  BY DEF Shapes
<1>4. \A c \in Bot : BoxShape(inbox'[c]) /\ \A s \in 1..Tokens : inbox'[c][s].said = inbox[c][s].said
  <2> SUFFICES ASSUME NEW c \in Bot
               PROVE  BoxShape(inbox'[c]) /\ \A s \in 1..Tokens : inbox'[c][s].said = inbox[c][s].said
    OBVIOUS
  <2>1. CASE c # b
    BY <1>1, <1>2, <2>1
  <2>2. CASE c = b
    <3> DEFINE old == inbox[b]
               box == inbox'[b]
               row == [old[t] EXCEPT !.confirmed = n]
    <3>1. BoxShape(old) /\ box = [old EXCEPT ![t] = row]
      BY <1>1, <1>3, <2>2
    <3>2. t \in 1..Tokens => row = [said |-> old[t].said, confirmed |-> n]
      BY <3>1 DEF BoxShape
    <3> HIDE DEF row, old, box
    <3>3. \A s \in 1..Tokens : box[s] = IF s = t THEN row ELSE old[s]
      BY <3>1 DEF BoxShape
    <3>4. /\ box = [s \in 1..Tokens |-> box[s]]
          /\ \A s \in 1..Tokens : box[s] = [said |-> box[s].said, confirmed |-> box[s].confirmed] /\ box[s].said = old[s].said
      <4>1. \A s \in 1..Tokens : old[s] = [said |-> old[s].said, confirmed |-> old[s].confirmed]
        BY <3>1 DEF BoxShape
      <4>2. \A s \in 1..Tokens : box[s] = [said |-> box[s].said, confirmed |-> box[s].confirmed] /\ box[s].said = old[s].said
        <5> SUFFICES ASSUME NEW s \in 1..Tokens
                     PROVE  box[s] = [said |-> box[s].said, confirmed |-> box[s].confirmed] /\ box[s].said = old[s].said
          OBVIOUS
        <5>1. CASE s = t
          BY <3>2, <3>3, <5>1
        <5>2. CASE s # t
          BY <3>3, <4>1, <5>2
        <5> QED
          BY <5>1, <5>2
      <4>3. box = [s \in 1..Tokens |-> box[s]]
        BY <3>1 DEF BoxShape
      <4> QED
        BY <4>2, <4>3
    <3> QED
      BY <2>2, <3>4 DEF BoxShape, old, box
  <2> QED
    BY <2>1, <2>2
<1>5. Rely({})
  BY <1>4 DEF Rely, AsBefore
<1> QED
  BY <1>2, <1>4, <1>5 DEF Told, Shapes

LEMMA BotsTell ==
    ASSUME ReqInv, Shapes, NEW r \in Requests, BotStep(r),
           UNCHANGED <<scene, left, backupVars>>
    PROVE  Told(r) /\ Shapes'
<1>1. CASE ClaimPoll(r)
  <2>0. Underway(r) /\ At(r) = "claimPoll" /\ req[r].kind \in {"poll", "pollA"} /\ PollFlag(Of(r)) = req[r].kind
    BY <1>1, KindOf DEF ClaimPoll, Step, At, PollPlaces, PollFlag, Of
  <2>1. Served(r, {})
    BY <1>1, <2>0, OnOver, StepClaims, ClaimPlaces DEF ClaimPoll
  <2> QED
    BY <1>1, <2>1, Quiet DEF ClaimPoll, memberVars, BotsAlone, signInVars, botVars
<1>2. CASE ReadToken(r)
  <2>1. Served(r, {})
    BY <1>2, OnSaw DEF ReadToken, At, Step, Plain
  <2> QED
    BY <1>2, <2>1, Quiet DEF ReadToken, memberVars, BotsAlone, signInVars, botVars
<1>3. CASE ReadConfig(r)
  <2>1. Served(r, {})
    BY <1>3, OnOver, OnSaw DEF ReadConfig, At, Step, Plain
  <2>2. bot' = [bot EXCEPT ![Of(r)] = [bot[Of(r)] EXCEPT !.mixed = @ \cup ({Read(r).token} \ {Row(r).token})]]
    BY <1>3 DEF ReadConfig
  <2> QED
    BY <1>3, <2>1, <2>2, MixesMore DEF ReadConfig, memberVars, signInVars
<1>4. CASE GetUpdates(r)
  <2>1. Served(r, {})
    BY <1>4, OnGetUpdates
  <2> QED
    BY <1>4, <2>1, Confirms DEF GetUpdates, memberVars, signInVars
<1>5. CASE SaveOffset(r)
  <2>1. Served(r, {})
    BY <1>5, OnWrote DEF SaveOffset, At, Step, Plain
  <2>2. bot' = [bot EXCEPT ![Of(r)] = [[bot[Of(r)] EXCEPT !.last = Read(r).max]
                                        EXCEPT !.mixed = @ \cup ({Row(r).token} \ {Read(r).token})]]
    BY <1>5 DEF SaveOffset, Shapes
  <2> QED
    BY <1>5, <2>1, <2>2, MixesMore DEF SaveOffset, memberVars, signInVars
<1>6. CASE Handle(r)
  <2>1. Underway(r) /\ At(r) = "handle" /\ req[r].kind = "poll"
    BY <1>6, KindOf DEF Handle, Step, At, DigestPlaces
  <2>2. PICK todo \in {<<"saveOffset">>, Answers(Message(r).wish)} : Turns(r, todo)
    BY <1>6 DEF Handle
  <2>3. Path("poll", todo) /\ Head(todo) \in {"saveOffset", "findProfile", "unlinkChat", "reply"}
    BY <2>2, PathsOfUpdates
  <2>4. Served(r, {})
    BY <2>1, <2>2, <2>3, OnTurns DEF HoldsOf
  <2> QED
    BY <1>6, <2>4, Quiet DEF Handle, memberVars, BotsAlone, signInVars, botVars
<1>7. CASE FindProfile(r)
  <2>1. Underway(r) /\ At(r) = "findProfile" /\ req[r].kind = "poll"
    BY <1>7, KindOf DEF FindProfile, Step, At, DigestPlaces
  <2>2. Turns(r, <<"reply">>) => Served(r, {})
    <3>1. HoldsOf(req[r].kind, Head(<<"reply">>)) = HoldsOf(req[r].kind, At(r)) /\ Path(req[r].kind, <<"reply">>)
      BY <2>1, PathsOfUpdates DEF HoldsOf
    <3> QED
      BY <2>1, <3>1, OnTurns
  <2>3. \A u, w : Kept(r, [req[r] EXCEPT !.of = u, !.moved = w])
    BY <2>1, AtWork DEF Kept, Shape, Fields
  <2>4. (\E u \in Found(Message(r).wish) : Goes(r, [req[r] EXCEPT !.of = u, !.moved = @ \cap Bot])) => Served(r, {})
    BY <2>1, <2>3, OnGoes DEF Plain
  <2>5. Served(r, {})
    BY <1>7, <2>2, <2>4 DEF FindProfile
  <2> QED
    BY <1>7, <2>5, Quiet DEF FindProfile, memberVars, BotsAlone, signInVars, botVars
<1>8. CASE UnlinkOthers(r)
  <2>1. Served(r, {})
    BY <1>8, OnWrote DEF UnlinkOthers, At, Step, Plain
  <2>2. PICK S : user' = [u \in Users |-> IF u \in S THEN Unlinked(user[u]) ELSE user[u]]
    <3> DEFINE S == {u \in Users : user[u].chat = Message(r).chat /\ u # req[r].of}
    <3>1. user' = [u \in Users |-> IF u \in S THEN Unlinked(user[u]) ELSE user[u]]
      BY <1>8 DEF UnlinkOthers, LeavesChat
    <3> QED
      BY <3>1
  <2> QED
    BY <1>8, <2>1, <2>2, Unlinks DEF UnlinkOthers, BotsAlone, signInVars, botVars
<1>9. CASE Link(r)
  <2>0. Underway(r) /\ Plain(r)
    BY <1>9 DEF Link, Step, At, Plain
  <2> DEFINE linked == [user[req[r].of] EXCEPT !.chat = Message(r).chat, !.proof = Message(r).wish]
             row == Marked(linked, r)
  <2>1. Served(r, {req[r].of})
    BY <1>9, <2>0, OnWrote DEF Link
  <2>2. user' = [user EXCEPT ![req[r].of] = row]
    BY <1>9 DEF Link
  <2>3. req[r].of \in Users => RowShape(row) /\ (user[req[r].of].is => row.is)
    <3> SUFFICES ASSUME req[r].of \in Users PROVE RowShape(row) /\ row.is = user[req[r].of].is
      OBVIOUS
    <3>1. RowShape(linked) /\ linked.is = user[req[r].of].is
      BY DEF Shapes, RowShape, RowFields
    <3> HIDE DEF linked
    <3> QED
      BY <3>1, MarkedRow DEF Kin
  <2> HIDE DEF row
  <2> QED
    BY <1>9, <2>1, <2>2, <2>3, WritesRow DEF Link, BotsAlone, signInVars, botVars
<1>10. CASE UnlinkChat(r)
  <2>1. Served(r, {})
    BY <1>10, OnWrote DEF UnlinkChat, At, Step, Plain
  <2>2. PICK S : user' = [u \in Users |-> IF u \in S THEN Unlinked(user[u]) ELSE user[u]]
    <3> DEFINE S == {u \in Users : user[u].chat = Message(r).chat /\ u # Nobody}
    <3>1. user' = [u \in Users |-> IF u \in S THEN Unlinked(user[u]) ELSE user[u]]
      BY <1>10 DEF UnlinkChat, LeavesChat
    <3> QED
      BY <3>1
  <2> QED
    BY <1>10, <2>1, <2>2, Unlinks DEF UnlinkChat, BotsAlone, signInVars, botVars
<1>11. CASE Reply(r)
  <2>1. Served(r, {})
    BY <1>11, OnReply
  <2> QED
    BY <1>11, <2>1, SeesMore DEF Reply, memberVars, signInVars
<1>12. CASE Spawn(r)
  <2>1. Underway(r) /\ At(r) = "spawn" /\ req[r].kind = "pollA"
    BY <1>12, KindOf DEF Spawn, Step, At
  <2>2. Served(r, {})
    <3>1. /\ HoldsOf(req[r].kind, Head(<<"saveOffset">>)) = HoldsOf(req[r].kind, At(r))
          /\ Path(req[r].kind, <<"saveOffset">>) /\ Turns(r, <<"saveOffset">>)
      BY <1>12, <2>1, PathsOfUpdates DEF Spawn, HoldsOf
    <3> QED
      BY <2>1, <3>1, OnTurns
  <2> QED
    BY <1>12, <2>2, SeesMore DEF Spawn, memberVars, signInVars
<1>13. CASE ReadBot(r)
  <2>1. Served(r, {})
    BY <1>13, OnSaw DEF ReadBot, At, Step, Plain
  <2> QED
    BY <1>13, <2>1, Quiet DEF ReadBot, memberVars, BotsAlone, signInVars, botVars
<1>14. CASE WriteBot(r)
  <2>1. Served(r, {Of(r)})
    BY <1>14, OnWrote DEF WriteBot, At, Step, Plain
  <2>2. PICK row : /\ bot' = [bot EXCEPT ![Of(r)] = row] /\ BotShape(row) /\ bot[Of(r)].mixed \subseteq row.mixed
    <3> DEFINE b == Of(r)
               n == req[r].n
               row == [token |-> IF n = 1 THEN bot[b].token + 1 ELSE Read(r).token,
                       on |-> IF n \in {2, 3} THEN n = 3 ELSE Read(r).on,
                       last |-> IF n = 1 THEN Unset ELSE bot[b].last,
                       mixed |-> IF n = 1 THEN bot[b].mixed ELSE bot[b].mixed \cup ({Read(r).token} \ {bot[b].token})]
    <3>1. bot' = [bot EXCEPT ![b] = row]
      BY <1>14 DEF WriteBot
    <3>2. BotShape(row) /\ bot[b].mixed \subseteq row.mixed
      BY DEF BotShape, BotFields
    <3> QED
      BY <3>1, <3>2
  <2>3. /\ bot' = [b \in Bot |-> bot'[b]]
        /\ \A b \in Bot : BotShape(bot'[b]) /\ bot[b].mixed \subseteq bot'[b].mixed /\ (b # Of(r) => bot'[b] = bot[b])
    BY <2>2 DEF Shapes
  <2>4. Rely({Of(r)})
    BY <1>14, <2>3 DEF WriteBot, Rely, AsBefore, memberVars, signInVars
  <2> QED
    BY <1>14, <2>1, <2>3, <2>4 DEF WriteBot, Told, Shapes, memberVars
<1>15. CASE ForgetSkip(r)
  <2>1. Served(r, {})
    BY <1>15, OnForgetSkip
  <2> QED
    BY <1>15, <2>1, Quiet DEF ForgetSkip, memberVars, BotsAlone, signInVars, botVars
<1>16. CASE Unlink(r)
  <2>1. Served(r, {})
    BY <1>16, OnWrote DEF Unlink, At, Step, Plain
  <2>2. PICK S : user' = [u \in Users |-> IF u \in S THEN Unlinked(user[u]) ELSE user[u]]
    <3> DEFINE S == {u \in Users : IF Read(r).mobile = "none" THEN u = req[r].of ELSE user[u].mobile = Read(r).mobile}
    <3>1. user' = [u \in Users |-> IF u \in S THEN Unlinked(user[u]) ELSE user[u]]
      BY <1>16 DEF Unlink
    <3> QED
      BY <3>1
  <2> QED
    BY <1>16, <2>1, <2>2, Unlinks DEF Unlink, BotsAlone, signInVars, botVars
<1>17. CASE ReadLinked(r)
  <2>1. Served(r, {})
    BY <1>17, OnOver, OnSaw DEF ReadLinked, Reads, At, Step, Plain
  <2> QED
    BY <1>17, <2>1, Quiet DEF ReadLinked, Reads, memberVars, BotsAlone, signInVars, botVars
<1>18. CASE Tell(r)
  <2>1. Served(r, {})
    BY <1>18, OnContinues DEF Tell, At, Step, Plain
  <2> QED
    BY <1>18, <2>1, Quiet DEF Tell, memberVars, BotsAlone, signInVars, botVars
<1> QED
  BY <1>1, <1>2, <1>3, <1>4, <1>5, <1>6, <1>7, <1>8, <1>9, <1>10, <1>11, <1>12, <1>13, <1>14, <1>15, <1>16, <1>17, <1>18 DEF BotStep

LEMMA BackupsTell ==
    ASSUME ReqInv, Shapes, NEW r \in Requests, BackupStep(r)
    PROVE  Told(r) /\ Shapes'
<1>1. CASE PgDump(r)
  <2>1. Served(r, {})
    BY <1>1, OnOver, OnContinues DEF PgDump, JobFails, At, Step, Plain
  <2> QED
    BY <1>1, <2>1, Quiet DEF PgDump, JobFails, BackupsAlone, RestoresAlone, memberVars, signInVars, botVars
<1>2. CASE Prune(r)
  <2>1. Served(r, {})
    BY <1>2, OnOver, OnContinues DEF Prune, JobFails, At, Step, Plain
  <2> QED
    BY <1>2, <2>1, Quiet DEF Prune, JobFails, BackupsAlone, RestoresAlone, memberVars, signInVars, botVars
<1>3. CASE StartCreate(r)
  <2>0. Underway(r) /\ At(r) = "startCreate"
    BY <1>3 DEF StartCreate, Step, At
  <2>1. Served(r, {})
    BY <1>3, <2>0, OnOver, StepClaims, ClaimPlaces DEF StartCreate
  <2> QED
    BY <1>3, <2>1, Quiet DEF StartCreate, BackupsAlone, RestoresAlone, memberVars, signInVars, botVars
<1>4. CASE OpenDump(r)
  <2>1. Served(r, {})
    BY <1>4, OnContinues DEF OpenDump, At, Step, Plain
  <2> QED
    BY <1>4, <2>1, Quiet DEF OpenDump, BackupsAlone, RestoresAlone, memberVars, signInVars, botVars
<1>5. CASE Ready(r)
  <2>1. Served(r, {})
    BY <1>5, OnContinues DEF Ready, At, Step, Plain
  <2> QED
    BY <1>5, <2>1, Quiet DEF Ready, BackupsAlone, RestoresAlone, memberVars, signInVars, botVars
<1>6. CASE Check(r)
  <2>1. Served(r, {})
    BY <1>6, OnOver, OnContinues DEF Check, At, Step, Plain
  <2> QED
    BY <1>6, <2>1, Quiet DEF Check, BackupsAlone, RestoresAlone, memberVars, signInVars, botVars
<1>7. CASE Exclusive(r)
  <2>0. Underway(r) /\ At(r) = "exclusive"
    BY <1>7 DEF Exclusive, Step, At
  <2>1. Served(r, {})
    BY <1>7, <2>0, OnOver, StepClaims, ClaimPlaces DEF Exclusive
  <2> QED
    BY <1>7, <2>1, Quiet DEF Exclusive, BackupsAlone, RestoresAlone, memberVars, signInVars, botVars
<1>8. CASE RestoreStep(r)
  <2>1. Underway(r) /\ Plain(r) /\ req[r].kind = "restore" /\ At(r) \in {"assertDump", "disconnect", "pgRestore"}
    BY <1>8, KindOf DEF RestoreStep, Step, At, Plain
  <2>2. HoldsOf(req[r].kind, Head(<<"cleanUp">>)) = HoldsOf(req[r].kind, At(r)) /\ Path(req[r].kind, <<"cleanUp">>)
    BY <2>1, PathsOfUpdates DEF HoldsOf
  <2>3. Served(r, {})
    BY <1>8, <2>1, <2>2, OnContinues, OnTurns DEF RestoreStep
  <2> QED
    BY <1>8, <2>3, Quiet DEF RestoreStep, BackupsAlone, RestoresAlone, memberVars, signInVars, botVars
<1>9. CASE CleanUp(r)
  <2>1. Served(r, {})
    BY <1>9, OnContinues DEF CleanUp, At, Step, Plain
  <2> QED
    BY <1>9, <2>1, Quiet DEF CleanUp, BackupsAlone, RestoresAlone, memberVars, signInVars, botVars
<1> QED
  BY <1>1, <1>2, <1>3, <1>4, <1>5, <1>6, <1>7, <1>8, <1>9 DEF BackupStep

(* Every step of a request.                                                *)
LEMMA ServeTells ==
    ASSUME ReqInv, Shapes, NEW r \in Requests, Serve(r)
    PROVE  Told(r) /\ Shapes'
BY MembersTell, SignInTells, BotsTell, BackupsTell DEF Serve

(* Every way for a request to begin.                                       *)
Begun(r) ==
    \E kind, script, by, of, to, n : Starts(kind, script) /\ Begin(r, kind, script, by, of, to, n)

LEMMA AskBegins ==
    ASSUME NEW r \in Requests, Ask(r)
    PROVE  Begun(r) /\ req[r].at = "idle" /\ UNCHANGED <<user, mobileLogin, seen, bot, inbox>>
<1>1. CASE AskMembers(r) /\ UNCHANGED <<signInVars, botVars, backupVars>>
  BY <1>1, PathsOfMembers DEF AskMembers, Begun, Open, memberVars, signInVars, botVars
<1>2. CASE AskSignIn(r) /\ UNCHANGED <<botVars, backupVars>>
  BY <1>2, PathsOfSignIn DEF AskSignIn, Begun, Open, memberVars, signInVars, botVars
<1>3. CASE AskBots(r) /\ UNCHANGED backupVars
  BY <1>3, PathsOfBots DEF AskBots, Begun, Open, BotsAlone, memberVars, signInVars, botVars
<1>4. CASE AskBackups(r)
  BY <1>4, PathsOfBackups DEF AskBackups, Begun, Open, memberVars, signInVars, botVars
<1> QED
  BY <1>1, <1>2, <1>3, <1>4 DEF Ask

----------------------------------------------------------------------------
(* Every request is on its way, holding what its place asks for.           *)
Core == ReqInv /\ Shapes

LEMMA InitCore == Init => Core
<1> SUFFICES ASSUME Init PROVE Core
  OBVIOUS
<1>1. Requests = Slots /\ req = [q \in Requests |-> NoRequest]
  BY DEF Init, InitRequests, Requests
<1>2. Sound(NoRequest)
  BY DEF Sound, NoRequest, Shape, Fields
<1>3. ReqInv
  BY <1>1, <1>2 DEF ReqInv
<1>4. \A u \in Users : user[u] \in UserRow
  <2>1. \A u \in DOMAIN FirstUsers : u \in Users /\ FirstUsers[u] \in UserRow
    BY MembersAssumption
  <2>2. NoUser \in UserRow
    BY DEF NoUser, UserRow, Roles
  <2> QED
    BY <2>1, <2>2 DEF Init, InitMembers
<1>5. user = [u \in Users |-> user[u]] /\ \A u \in Users : RowShape(user[u])
  <2>1. \A row \in UserRow : RowShape(row)
    BY DEF UserRow, RowShape, RowFields
  <2> QED
    BY <1>4, <2>1 DEF Init, InitMembers
<1>6. bot = [b \in Bot |-> bot[b]] /\ \A b \in Bot : BotShape(bot[b])
  BY DEF Init, InitBots, BotShape, BotFields
<1>7. inbox = [b \in Bot |-> inbox[b]] /\ \A b \in Bot : BoxShape(inbox[b])
  BY DEF Init, InitBots, BoxShape
<1> QED
  BY <1>3, <1>5, <1>6, <1>7 DEF Core, Shapes

(* Somebody writes.                                                        *)
LEMMA SayShapes == Shapes /\ Say => Shapes'
<1> SUFFICES ASSUME Shapes, Say PROVE Shapes'
  OBVIOUS
<1>1. UNCHANGED <<user, bot>>
  BY DEF Say, memberVars
<1>2. PICK b \in Bot : \E line : inbox' = [inbox EXCEPT ![b][bot[b].token].said = Append(@, line)]
  BY DEF Say
<1>3. PICK line : inbox' = [inbox EXCEPT ![b][bot[b].token].said = Append(@, line)]
  BY <1>2
<1> DEFINE old == inbox[b]
           t == bot[b].token
           row == [old[t] EXCEPT !.said = Append(@, line)]
           box == [old EXCEPT ![t] = row]
<1>4. inbox' = [inbox EXCEPT ![b] = box]
  BY <1>3 DEF Shapes
<1>5. BoxShape(old)
  BY DEF Shapes
<1>6. t \in 1..Tokens => row = [said |-> row.said, confirmed |-> row.confirmed]
  <2> SUFFICES ASSUME t \in 1..Tokens PROVE row = [said |-> row.said, confirmed |-> row.confirmed]
    OBVIOUS
  <2> DEFINE p == old[t]
  <2>1. p = [said |-> p.said, confirmed |-> p.confirmed]
    BY <1>5 DEF BoxShape
  <2>2. row = [p EXCEPT !.said = Append(p.said, line)]
    OBVIOUS
  <2> HIDE DEF p, row
  <2> QED
    BY <2>1, <2>2
<1> HIDE DEF row, old
<1>7. box = [s \in 1..Tokens |-> box[s]] /\ \A s \in 1..Tokens : box[s] = IF s = t THEN row ELSE old[s]
  BY <1>5 DEF BoxShape
<1>8. \A s \in 1..Tokens : old[s] = [said |-> old[s].said, confirmed |-> old[s].confirmed]
  BY <1>5 DEF BoxShape
<1> HIDE DEF box
<1>9. BoxShape(box)
  <2>1. \A s \in 1..Tokens : box[s] = [said |-> box[s].said, confirmed |-> box[s].confirmed]
    <3> SUFFICES ASSUME NEW s \in 1..Tokens PROVE box[s] = [said |-> box[s].said, confirmed |-> box[s].confirmed]
      OBVIOUS
    <3>1. CASE s = t
      BY <1>6, <1>7, <3>1
    <3>2. CASE s # t
      BY <1>7, <1>8, <3>2
    <3> QED
      BY <3>1, <3>2
  <2> QED
    BY <1>7, <2>1 DEF BoxShape
<1>10. inbox' = [c \in Bot |-> inbox'[c]] /\ \A c \in Bot : BoxShape(inbox'[c])
  BY <1>4, <1>9 DEF Shapes
<1> QED
  BY <1>1, <1>10 DEF Shapes

LEMMA RestartShapes == Shapes /\ Restart => Shapes'
<1> SUFFICES ASSUME Shapes, Restart PROVE Shapes'
  OBVIOUS
<1>1. UNCHANGED <<bot, inbox>>
  BY DEF Restart
<1> DEFINE row == [NoUser EXCEPT !.is = TRUE, !.role = "ADMIN"]
<1>2. user' = user \/ user' = [user EXCEPT ![Root] = row]
  BY DEF Restart
<1>3. RowShape(row)
  BY DEF NoUser, RowShape, RowFields
<1> HIDE DEF row
<1>4. user' = [u \in Users |-> user'[u]] /\ \A u \in Users : RowShape(user'[u])
  BY <1>2, <1>3 DEF Shapes
<1> QED
  BY <1>1, <1>4 DEF Shapes

LEMMA NextCore == Core /\ [Next]_vars => Core'
<1> SUFFICES ASSUME Core, [Next]_vars PROVE Core'
  OBVIOUS
<1>1. ReqInv /\ Shapes
  BY DEF Core
<1>2. ASSUME NEW r \in Requests, Ask(r) PROVE Core'
  <2>1. Begun(r) /\ req[r].at = "idle" /\ UNCHANGED <<user, mobileLogin, seen, bot, inbox>>
    BY <1>2, AskBegins
  <2>2. Others(r, {}) /\ Sound(req'[r])
    BY <1>1, <2>1, StepBegins DEF Begun, Starts
  <2> QED
    BY <1>1, <2>1, <2>2, OthersHold DEF Core, Shapes
<1>3. ASSUME NEW r \in Requests, Serve(r) PROVE Core'
  BY <1>1, <1>3, ServeTells, OthersHold DEF Told, Served, Core
<1>4. ASSUME NEW r \in Requests, StatementFails(r) PROVE Core'
  BY <1>1, <1>4, OnOver, OthersHold DEF StatementFails, Served, Core, Shapes, memberVars, botVars
<1>5. CASE Age /\ UNCHANGED <<botVars, backupVars, up>>
  BY <1>1, <1>5 DEF Age, Core, ReqInv, Sound, Requests, Shapes, reqVars, memberVars, botVars
<1>6. CASE Say
  BY <1>1, <1>6, SayShapes DEF Say, Core, ReqInv, Sound, Requests, reqVars
<1>7. CASE TaskStep \/ TaskFails
  BY <1>1, <1>7 DEF TaskStep, TaskFails, Core, ReqInv, Sound, Requests, Shapes, reqVars, memberVars
<1>8. CASE Restart
  BY <1>1, <1>8, OnRestart, RestartShapes DEF Restart, Core
<1>9. CASE UNCHANGED vars
  BY <1>1, <1>9 DEF vars, Core, ReqInv, Sound, Requests, Shapes, reqVars, memberVars, botVars
<1> QED
  BY <1>2, <1>3, <1>4, <1>5, <1>6, <1>7, <1>8, <1>9 DEF Next

(* Every request under way is at a step of its kind's list, and holds just *)
(* the flags that this step asks for; all others hold nothing.             *)
THEOREM RequestsKeepToTheirScripts == Spec => []Core
<1> QED
  BY InitCore, NextCore, PTL DEF Spec

----------------------------------------------------------------------------
(* Each action at its own step.                                            *)
LEMMA NamesOfMembers ==
    ASSUME NEW r
    PROVE  /\ ReadUser(r) => Step(r, "readUser")
           /\ ReadReseller(r) => Step(r, "readReseller")
           /\ ReadLesser(r) => Step(r, "readLesser")
           /\ RequireReseller(r) => Step(r, "requireReseller")
           /\ ReadMine(r) => Step(r, "readMine")
           /\ CountAdmins(r) => Step(r, "countAdmins")
           /\ FreshCode(r) => Step(r, "freshCode")
           /\ WriteRole(r) => Step(r, "writeRole")
           /\ WriteActive(r) => Step(r, "writeActive")
           /\ CodeTaken(r) => Step(r, "codeTaken")
           /\ WriteCode(r) => Step(r, "writeCode")
           /\ CreateUser(r) => Step(r, "createUser")
           /\ WriteHand(r) => Step(r, "writeHand")
           /\ Compare(r) => Step(r, "compare")
           /\ WriteProfile(r) => Step(r, "writeProfile")
BY DEF ReadUser, ReadReseller, ReadLesser, RequireReseller, ReadMine, CountAdmins, FreshCode, WriteRole, WriteActive, CodeTaken, WriteCode, CreateUser, WriteHand, Compare, WriteProfile, Reads

LEMMA NamesOfSignIn ==
    ASSUME NEW r
    PROVE  /\ ReadAccount(r) => Step(r, "readAccount")
           /\ Sign(r) => Step(r, "sign")
           /\ ReadDevices(r) => Step(r, "readDevices")
           /\ Purge(r) => Step(r, "purge")
           /\ CreateChallenge(r) => Step(r, "createChallenge")
           /\ FindChallenge(r) => Step(r, "findChallenge")
           /\ DeleteChallenge(r) => Step(r, "deleteChallenge")
           /\ FindCredential(r) => Step(r, "findCredential")
           /\ CreateCredential(r) => Step(r, "createCredential")
           /\ ReadCredential(r) => Step(r, "readCredential")
           /\ UpdateCounter(r) => Step(r, "updateCounter")
           /\ FindOwn(r) => Step(r, "findOwn")
           /\ DeleteCredential(r) => Step(r, "deleteCredential")
           /\ ReadEnabled(r) => Step(r, "readEnabled")
           /\ CreateVisit(r) => Step(r, "createVisit")
           /\ SetEnabled(r) => Step(r, "setEnabled")
           /\ ClearLogs(r) => Step(r, "clearLogs")
           /\ \A name \in {"requireRow", "updateVisit"} : VisitThere(r, name) => Step(r, name)
BY DEF ReadAccount, Sign, ReadDevices, Purge, CreateChallenge, FindChallenge, DeleteChallenge, FindCredential, CreateCredential, ReadCredential, UpdateCounter, FindOwn, DeleteCredential, ReadEnabled, CreateVisit, SetEnabled, ClearLogs, VisitThere, Reads

LEMMA NamesOfBots ==
    ASSUME NEW r
    PROVE  /\ ClaimPoll(r) => Step(r, "claimPoll")
           /\ ReadToken(r) => Step(r, "readToken")
           /\ ReadConfig(r) => Step(r, "readConfig")
           /\ GetUpdates(r) => Step(r, "getUpdates")
           /\ SaveOffset(r) => Step(r, "saveOffset")
           /\ Handle(r) => Step(r, "handle")
           /\ FindProfile(r) => Step(r, "findProfile")
           /\ UnlinkOthers(r) => Step(r, "unlinkOthers")
           /\ Link(r) => Step(r, "link")
           /\ UnlinkChat(r) => Step(r, "unlinkChat")
           /\ Reply(r) => Step(r, "reply")
           /\ Spawn(r) => Step(r, "spawn")
           /\ ReadBot(r) => Step(r, "readBot")
           /\ WriteBot(r) => Step(r, "writeBot")
           /\ ForgetSkip(r) => Step(r, "forgetSkip")
           /\ Unlink(r) => Step(r, "unlink")
           /\ ReadLinked(r) => Step(r, "readLinked")
           /\ Tell(r) => Step(r, "tell")
BY DEF ClaimPoll, ReadToken, ReadConfig, GetUpdates, SaveOffset, Handle, FindProfile, UnlinkOthers, Link, UnlinkChat, Reply, Spawn, ReadBot, WriteBot, ForgetSkip, Unlink, ReadLinked, Tell, Reads

LEMMA NamesOfBackups ==
    ASSUME NEW r
    PROVE  /\ StartCreate(r) => Step(r, "startCreate")
           /\ OpenDump(r) => Step(r, "openDump")
           /\ PgDump(r) => Step(r, "pgDump")
           /\ Prune(r) => Step(r, "prune")
           /\ Ready(r) => Step(r, "ready")
           /\ Check(r) => Step(r, "check")
           /\ Exclusive(r) => Step(r, "exclusive")
           /\ CleanUp(r) => Step(r, "cleanUp")
           /\ RestoreStep(r) => \E name \in {"assertDump", "disconnect", "pgRestore"} : Step(r, name)
BY DEF StartCreate, OpenDump, PgDump, Prune, Ready, Check, Exclusive, CleanUp, RestoreStep

(* And the step tells the action.                                          *)
LEMMA ActionOf ==
    ASSUME NEW r, Serve(r)
    PROVE  /\ Underway(r)
           /\ At(r) = "readUser" => ReadUser(r)
           /\ At(r) = "readReseller" => ReadReseller(r)
           /\ At(r) = "readLesser" => ReadLesser(r)
           /\ At(r) = "requireReseller" => RequireReseller(r)
           /\ At(r) = "readMine" => ReadMine(r)
           /\ At(r) = "countAdmins" => CountAdmins(r)
           /\ At(r) = "freshCode" => FreshCode(r)
           /\ At(r) = "writeRole" => WriteRole(r)
           /\ At(r) = "writeActive" => WriteActive(r)
           /\ At(r) = "codeTaken" => CodeTaken(r)
           /\ At(r) = "writeCode" => WriteCode(r)
           /\ At(r) = "createUser" => CreateUser(r)
           /\ At(r) = "writeHand" => WriteHand(r)
           /\ At(r) = "compare" => Compare(r)
           /\ At(r) = "writeProfile" => WriteProfile(r)
           /\ At(r) = "readAccount" => ReadAccount(r)
           /\ At(r) = "sign" => Sign(r)
           /\ At(r) = "readDevices" => ReadDevices(r)
           /\ At(r) = "purge" => Purge(r)
           /\ At(r) = "createChallenge" => CreateChallenge(r)
           /\ At(r) = "findChallenge" => FindChallenge(r)
           /\ At(r) = "deleteChallenge" => DeleteChallenge(r)
           /\ At(r) = "findCredential" => FindCredential(r)
           /\ At(r) = "createCredential" => CreateCredential(r)
           /\ At(r) = "readCredential" => ReadCredential(r)
           /\ At(r) = "updateCounter" => UpdateCounter(r)
           /\ At(r) = "findOwn" => FindOwn(r)
           /\ At(r) = "deleteCredential" => DeleteCredential(r)
           /\ At(r) = "readEnabled" => ReadEnabled(r)
           /\ At(r) = "createVisit" => CreateVisit(r)
           /\ At(r) = "setEnabled" => SetEnabled(r)
           /\ At(r) = "clearLogs" => ClearLogs(r)
           /\ At(r) = "claimPoll" => ClaimPoll(r)
           /\ At(r) = "readToken" => ReadToken(r)
           /\ At(r) = "readConfig" => ReadConfig(r)
           /\ At(r) = "getUpdates" => GetUpdates(r)
           /\ At(r) = "saveOffset" => SaveOffset(r)
           /\ At(r) = "handle" => Handle(r)
           /\ At(r) = "findProfile" => FindProfile(r)
           /\ At(r) = "unlinkOthers" => UnlinkOthers(r)
           /\ At(r) = "link" => Link(r)
           /\ At(r) = "unlinkChat" => UnlinkChat(r)
           /\ At(r) = "reply" => Reply(r)
           /\ At(r) = "spawn" => Spawn(r)
           /\ At(r) = "readBot" => ReadBot(r)
           /\ At(r) = "writeBot" => WriteBot(r)
           /\ At(r) = "forgetSkip" => ForgetSkip(r)
           /\ At(r) = "unlink" => Unlink(r)
           /\ At(r) = "readLinked" => ReadLinked(r)
           /\ At(r) = "tell" => Tell(r)
           /\ At(r) = "startCreate" => StartCreate(r)
           /\ At(r) = "openDump" => OpenDump(r)
           /\ At(r) = "pgDump" => PgDump(r)
           /\ At(r) = "prune" => Prune(r)
           /\ At(r) = "ready" => Ready(r)
           /\ At(r) = "check" => Check(r)
           /\ At(r) = "exclusive" => Exclusive(r)
           /\ At(r) = "cleanUp" => CleanUp(r)
           /\ At(r) = "requireRow" => VisitThere(r, "requireRow")
           /\ At(r) = "updateVisit" => VisitThere(r, "updateVisit")
           /\ At(r) = "assertDump" => RestoreStep(r)
           /\ At(r) = "disconnect" => RestoreStep(r)
           /\ At(r) = "pgRestore" => RestoreStep(r)
<1>1. CASE MemberStep(r)
  BY <1>1, NamesOfMembers DEF MemberStep, Step, At
<1>2. CASE SignInStep(r)
  BY <1>2, NamesOfSignIn DEF SignInStep, Step, At
<1>3. CASE BotStep(r)
  BY <1>3, NamesOfBots DEF BotStep, Step, At
<1>4. CASE BackupStep(r)
  BY <1>4, NamesOfBackups DEF BackupStep, Step, At
<1> QED
  BY <1>1, <1>2, <1>3, <1>4 DEF Serve
(* Which steps the kinds take.                                             *)
LEMMA StepsOf ==
    ASSUME ReqInv, NEW r \in Requests, Underway(r)
    PROVE  LET k == req[r].kind
               s == At(r)
           IN
           /\ k = "setRole" => s \in {"readUser", "countAdmins", "freshCode", "writeRole"}
           /\ k = "setActive" => s \in {"readLesser", "writeActive"}
           /\ k = "setReferral" => s \in {"readReseller", "codeTaken", "writeCode"}
           /\ k = "edit" => s \in {"readLesser", "writeHand"}
           /\ k = "editMine" => s \in {"requireReseller", "readMine", "writeHand"}
           /\ k = "editOwn" => s \in {"readUser", "compare", "writeHand"}
           /\ k = "profile" => s \in {"readUser", "writeProfile"}
           /\ k = "login" => s \in {"readAccount", "compare", "sign"}
           /\ k = "refresh" => s \in {"readAccount", "sign"}
           /\ k = "authenticate" => s \in {"readCredential", "purge", "findChallenge", "deleteChallenge", "updateCounter", "sign"}
           /\ k = "visit" => s \in {"readEnabled", "createVisit"}
           /\ k = "fill" => s \in {"readEnabled", "requireRow", "updateVisit"}
           /\ s = "writeRole" => k = "setRole"
           /\ s = "writeActive" => k = "setActive"
           /\ s = "writeHand" => k \in {"edit", "editMine", "editOwn"}
           /\ s = "writeProfile" => k = "profile"
           /\ s = "sign" => k \in {"login", "refresh", "authenticate"}
           /\ s = "createVisit" => k = "visit"
           /\ s = "createChallenge" => k \in {"offer", "ask"}
<1>1. Final(req[r].kind, At(r)) \/ Way(req[r].kind, At(r), Head(Tail(req[r].todo)))
  BY AtWork, PathTail DEF At
<1> QED
  BY <1>1 DEF Way, Final

(* Who writes accounts.                                                    *)
LEMMA UserWriters ==
    ASSUME NEW r, Serve(r)
    PROVE  \/ user' = user
           \/ WriteRole(r) \/ WriteActive(r) \/ WriteCode(r) \/ CreateUser(r) \/ WriteHand(r) \/ WriteProfile(r)
           \/ UnlinkOthers(r) \/ Link(r) \/ UnlinkChat(r) \/ Unlink(r)
<1>1. CASE MemberStep(r)
  BY <1>1 DEF MemberStep, ReadUser, ReadReseller, ReadLesser, RequireReseller, ReadMine, CountAdmins, FreshCode, CodeTaken,
              Compare, Reads, memberVars
<1>2. CASE SignInStep(r)
  BY <1>2 DEF SignInStep, ReadAccount, Sign, ReadDevices, Purge, CreateChallenge, FindChallenge, DeleteChallenge, FindCredential,
              CreateCredential, ReadCredential, UpdateCounter, FindOwn, DeleteCredential, ReadEnabled, CreateVisit, VisitThere,
              SetEnabled, ClearLogs, Reads, memberVars
<1>3. CASE BotStep(r)
  BY <1>3 DEF BotStep, ClaimPoll, ReadToken, ReadConfig, GetUpdates, SaveOffset, Handle, FindProfile, Reply, Spawn, ReadBot,
              WriteBot, ForgetSkip, ReadLinked, Tell, Reads, memberVars
<1>4. CASE BackupStep(r)
  BY <1>4 DEF BackupStep, StartCreate, OpenDump, PgDump, Prune, Ready, Check, Exclusive, RestoreStep, CleanUp,
              BackupsAlone, RestoresAlone, memberVars
<1> QED
  BY <1>1, <1>2, <1>3, <1>4 DEF Serve

(* Who writes tokens, visits, challenges and who was served.               *)
LEMMA SignInWriters ==
    ASSUME NEW r, Serve(r)
    PROVE  /\ tokens' = tokens \/ Sign(r)
           /\ visits' = visits \/ CreateVisit(r) \/ ClearLogs(r)
           /\ UNCHANGED <<challenges, served>> \/ Purge(r) \/ CreateChallenge(r) \/ DeleteChallenge(r)
<1>1. CASE MemberStep(r) /\ UNCHANGED <<scene, left, signInVars, botVars, backupVars>>
  <2>1. UNCHANGED tokens
    BY <1>1 DEF MemberStep, ReadUser, ReadReseller, ReadLesser, RequireReseller, ReadMine, CountAdmins, FreshCode, CodeTaken,
                Compare, WriteRole, WriteActive, WriteCode, CreateUser, WriteHand, WriteProfile, Reads, memberVars
  <2> QED
    BY <1>1, <2>1 DEF signInVars
<1>2. CASE SignInStep(r)
  BY <1>2 DEF SignInStep, ReadAccount, ReadDevices, Purge, CreateChallenge, FindChallenge, DeleteChallenge, FindCredential,
              CreateCredential, ReadCredential, UpdateCounter, FindOwn, DeleteCredential, ReadEnabled, CreateVisit, VisitThere,
              SetEnabled, ClearLogs, Sign, Reads, memberVars, SignInAlone
<1>3. CASE BotStep(r)
  BY <1>3 DEF BotStep, ClaimPoll, ReadToken, ReadConfig, GetUpdates, SaveOffset, Handle, FindProfile, Reply, Spawn, ReadBot,
              WriteBot, ForgetSkip, ReadLinked, Tell, UnlinkOthers, Link, UnlinkChat, Unlink, Reads, memberVars, BotsAlone, signInVars
<1>4. CASE BackupStep(r)
  BY <1>4 DEF BackupStep, StartCreate, OpenDump, PgDump, Prune, Ready, Check, Exclusive, RestoreStep, CleanUp,
              BackupsAlone, RestoresAlone, memberVars, signInVars
<1> QED
  BY <1>1, <1>2, <1>3, <1>4 DEF Serve

----------------------------------------------------------------------------
(* What a request has made sure of, and still holds unless it was told of  *)
(* a change.                                                               *)
Warned(r) == req[r].of \in req[r].moved

Aims(r) ==
    req[r].kind \in {"setRole", "setActive", "setReferral", "edit", "editMine", "editOwn", "profile", "login", "refresh", "authenticate"}
        => req[r].of \in Users

SetsRole(r) ==
    req[r].kind = "setRole" =>
        /\ At(r) \in {"countAdmins", "freshCode", "writeRole"} => Warned(r) \/ Read(r).role = user[req[r].of].role
        /\ At(r) \in {"freshCode", "writeRole"} /\ Demotes(r) /\ req[r].moved = {} => \E v \in Admins : v # req[r].of

IsLesser(r) ==
    /\ req[r].kind = "setActive" /\ At(r) = "writeActive" => Warned(r) \/ user[req[r].of].role # "ADMIN"
    /\ req[r].kind = "edit" => /\ req[r].by.role = "ADMIN"
                               /\ At(r) = "writeHand" => Warned(r) \/ user[req[r].of].role # "ADMIN"

IsMine(r) ==
    req[r].kind = "editMine" /\ At(r) = "writeHand" =>
        Warned(r) \/ (user[req[r].of].boss = Actor(r) /\ user[req[r].of].role = "USER")

IsOwn(r) == req[r].kind = "editOwn" => req[r].of = Actor(r)

IsAccount(r) ==
    \/ req[r].kind \in {"login", "refresh"} /\ At(r) # "readAccount"
    \/ req[r].kind = "authenticate" /\ At(r) # "readCredential"
    => Warned(r) \/ (Read(r).role = user[req[r].of].role /\ Read(r).active = user[req[r].of].active)

IsNumber(r) == req[r].kind = "profile" /\ At(r) = "writeProfile" => Warned(r) \/ Read(r).mobile = user[req[r].of].mobile

IsEnabled(r) == req[r].kind = "visit" /\ At(r) = "createVisit" => mobileLogin \/ "switch" \in req[r].moved

Rights(r) == Aims(r) /\ SetsRole(r) /\ IsLesser(r) /\ IsMine(r) /\ IsOwn(r) /\ IsAccount(r) /\ IsNumber(r) /\ IsEnabled(r)

RightsInv ==
    /\ \A t \in tokens : t.user \in Users
    /\ \A r \in Requests : Underway(r) => Rights(r)

(* A step of another one.                                                  *)
LEMMA RightsStay ==
    ASSUME ReqInv, NEW r \in Requests, NEW q \in Requests \ {r}, NEW what, Others(q, what), Rely(what), Underway(r), Rights(r)
    PROVE  Rights(r)'
<1>1. /\ Same(req'[r], req[r]) /\ req'[r].moved = req[r].moved \cup what
  BY DEF Others
<1>2. /\ At(r)' = At(r) /\ Actor(r)' = Actor(r) /\ Read(r)' = Read(r) /\ Demotes(r)' = Demotes(r)
      /\ req'[r].kind = req[r].kind /\ req'[r].of = req[r].of /\ req'[r].by = req[r].by
  BY <1>1 DEF Same, At, Actor, Read, Demotes
<1>3. Warned(r) \/ req[r].of \in what => Warned(r)'
  BY <1>1, <1>2 DEF Warned
<1>4. Aims(r)' /\ IsOwn(r)'
  BY <1>2 DEF Rights, Aims, IsOwn
<1>5. req[r].of \in Users /\ req[r].of \notin what => AsBefore(req[r].of)
  BY DEF Rely
<1>6. req'[r].moved = {} => req[r].moved = {} /\ Admins' = Admins
  BY <1>1 DEF Rely, AsBefore, Admins
<1>7. SetsRole(r)'
  BY <1>2, <1>3, <1>5, <1>6 DEF Rights, Aims, SetsRole, AsBefore
<1>8. IsLesser(r)' /\ IsMine(r)'
  BY <1>2, <1>3, <1>5 DEF Rights, Aims, IsLesser, IsMine, AsBefore
<1>9. IsAccount(r)'
  BY <1>2, <1>3, <1>5 DEF Rights, Aims, IsAccount, AsBefore
<1>10. IsNumber(r)'
  BY <1>2, <1>3, <1>5 DEF Rights, Aims, IsNumber, AsBefore
<1>11. IsEnabled(r)'
  BY <1>1, <1>2 DEF Rights, IsEnabled, Rely
<1> QED
  BY <1>4, <1>7, <1>8, <1>9, <1>10, <1>11 DEF Rights

(* A step of its own.                                                      *)
LEMMA SetRoleGoes ==
    ASSUME ReqInv, Shapes, NEW r \in Requests, Serve(r), Underway(r), Rights(r), Underway(r)', req[r].kind = "setRole"
    PROVE  req'[r].of = req[r].of /\ req'[r].kind = "setRole" /\ SetsRole(r)'
<1>0. At(r) \in {"readUser", "countAdmins", "freshCode", "writeRole"} /\ Plain(r)
  BY StepsOf DEF Plain
<1>1. CASE At(r) = "readUser"
  <2>1. Saw(r, Target(r)) /\ UNCHANGED user
    BY <1>1, ActionOf, OnOver DEF ReadUser, Reads, memberVars
  <2>2. Advanced(r, [req[r] EXCEPT !.saw = Target(r)])
    BY <1>0, <2>1, OnSaw
  <2>3. /\ req'[r].of = req[r].of /\ req'[r].kind = "setRole" /\ req'[r].saw = user[req[r].of]
        /\ Way("setRole", At(r), At(r)')
    BY <2>2, AtWork DEF Advanced, Becomes, Shape, Fields, Target
  <2>4. At(r)' = "countAdmins"
    BY <1>1, <2>3 DEF Way
  <2> QED
    BY <2>1, <2>3, <2>4 DEF SetsRole, Read
<1>2. CASE At(r) = "countAdmins"
  <2>1. Continues(r) /\ ~(Demotes(r) /\ Cardinality(Admins) <= 1) /\ UNCHANGED user
    BY <1>2, ActionOf, OnOver DEF CountAdmins, memberVars
  <2>2. Advanced(r, req[r])
    BY <1>0, <2>1, OnContinues
  <2>3. /\ req'[r].of = req[r].of /\ req'[r].kind = "setRole" /\ req'[r].saw = req[r].saw /\ req'[r].to = req[r].to
        /\ req'[r].moved = req[r].moved
    BY <2>2 DEF Advanced, Becomes
  <2>4. Demotes(r) => \E v \in Admins : v # req[r].of
    <3> SUFFICES ASSUME Demotes(r), \A v \in Admins : v = req[r].of PROVE FALSE
      OBVIOUS
    <3>1. IsFiniteSet({req[r].of}) /\ Cardinality({req[r].of}) = 1
      BY FS_Singleton
    <3>2. Admins \subseteq {req[r].of}
      OBVIOUS
    <3>3. Cardinality(Admins) <= 1
      BY <3>1, <3>2, FS_Subset
    <3> QED
      BY <2>1, <3>3
  <2>5. Read(r)' = Read(r) /\ Demotes(r)' = Demotes(r) /\ Admins' = Admins /\ Warned(r)' = Warned(r)
    BY <2>1, <2>3 DEF Read, Demotes, Admins, Warned
  <2> QED
    BY <1>2, <2>1, <2>3, <2>4, <2>5 DEF SetsRole, Rights
<1>3. CASE At(r) = "freshCode"
  <2>1. FreshCode(r) /\ UNCHANGED user
    BY <1>3, ActionOf DEF FreshCode, memberVars
  <2>2. PICK rec : /\ Advanced(r, rec) /\ rec.of = req[r].of /\ rec.kind = "setRole" /\ rec.to = req[r].to /\ rec.moved = req[r].moved
                   /\ rec.saw.role = Read(r).role
    <3>1. CASE Continues(r)
      BY <1>0, <3>1, OnContinues DEF Read
    <3>2. CASE \E code \in Codes : Saw(r, [Read(r) EXCEPT !.code = code])
      <4>1. PICK code \in Codes : Saw(r, [Read(r) EXCEPT !.code = code])
        BY <3>2
      <4> DEFINE v == [Read(r) EXCEPT !.code = code]
                 rec == [req[r] EXCEPT !.saw = v]
      <4>2. v.role = Read(r).role
        OBVIOUS
      <4>3. Advanced(r, rec)
        BY <1>0, <4>1, OnSaw
      <4>4. rec.of = req[r].of /\ rec.kind = "setRole" /\ rec.to = req[r].to /\ rec.moved = req[r].moved /\ rec.saw = v
        BY AtWork DEF Shape, Fields
      <4> HIDE DEF v, rec
      <4> QED
        BY <4>2, <4>3, <4>4
    <3> QED
      BY <1>3, <2>1, <3>1, <3>2, OnOver DEF FreshCode
  <2>3. /\ req'[r].of = req[r].of /\ req'[r].kind = "setRole" /\ req'[r].saw.role = Read(r).role /\ req'[r].to = req[r].to
        /\ req'[r].moved = req[r].moved
    BY <2>2 DEF Advanced, Becomes
  <2>4. Read(r)'.role = Read(r).role /\ Demotes(r)' = Demotes(r) /\ Admins' = Admins /\ Warned(r)' = Warned(r)
    BY <2>1, <2>3 DEF Read, Demotes, Admins, Warned
  <2> QED
    BY <1>3, <2>1, <2>3, <2>4 DEF SetsRole, Rights
<1>4. CASE At(r) = "writeRole"
  <2>1. Wrote(r, {req[r].of})
    BY <1>4, ActionOf, OnOver DEF WriteRole
  <2>2. Advanced(r, req[r])
    BY <1>0, <2>1, OnWrote
  <2> QED
    BY <1>4, <2>2 DEF Advanced, Way
<1> QED
  BY <1>0, <1>1, <1>2, <1>3, <1>4

(* The account was read just now.                                          *)
LEMMA SawGo ==
    ASSUME ReqInv, NEW r \in Requests, Underway(r), Plain(r), Saw(r, Target(r)), Underway(r)'
    PROVE  /\ req'[r].of = req[r].of /\ req'[r].saw = user[req[r].of] /\ req'[r].by = req[r].by
           /\ Way(req[r].kind, At(r), At(r)') /\ req'[r].kind = req[r].kind
<1>1. Advanced(r, [req[r] EXCEPT !.saw = Target(r)])
  BY OnSaw
<1> QED
  BY <1>1, AtWork DEF Advanced, Becomes, Shape, Fields, Target

(* It just goes on.                                                        *)
LEMMA PlainGo ==
    ASSUME ReqInv, NEW r \in Requests, Underway(r), Plain(r), NEW what, Wrote(r, what) \/ Continues(r), Underway(r)'
    PROVE  /\ req'[r].of = req[r].of /\ req'[r].saw = req[r].saw /\ req'[r].by = req[r].by /\ req'[r].moved = req[r].moved
           /\ Way(req[r].kind, At(r), At(r)') /\ req'[r].kind = req[r].kind
<1>1. Advanced(r, req[r])
  BY OnWrote, OnContinues
<1> QED
  BY <1>1 DEF Advanced, Becomes

LEMMA MembersGo ==
    ASSUME ReqInv, Shapes, NEW r \in Requests, Serve(r), Underway(r), Rights(r), Underway(r)',
           req[r].kind \in {"setActive", "setReferral", "edit", "editMine", "editOwn", "profile"}
    PROVE  /\ req'[r].of = req[r].of /\ req'[r].kind = req[r].kind /\ req'[r].by = req[r].by
           /\ IsLesser(r)' /\ IsMine(r)' /\ IsNumber(r)'
<1>0. /\ At(r) \in {"readLesser", "readReseller", "requireReseller", "readMine", "readUser", "codeTaken", "compare",
                    "writeActive", "writeCode", "writeHand", "writeProfile"}
      /\ Plain(r)
  BY StepsOf DEF Plain
<1>1. CASE At(r) \in {"readLesser", "readReseller", "readMine", "readUser"}
  <2>1. /\ Saw(r, Target(r)) /\ UNCHANGED user
        /\ At(r) = "readLesser" => Target(r).role # "ADMIN"
        /\ At(r) = "readMine" => Target(r).boss = Actor(r) /\ Target(r).role = "USER"
    BY <1>1, ActionOf, OnOver DEF ReadLesser, ReadReseller, ReadMine, ReadUser, Reads, memberVars
  <2>2. /\ req'[r].of = req[r].of /\ req'[r].saw = user[req[r].of] /\ req'[r].by = req[r].by
        /\ Way(req[r].kind, At(r), At(r)') /\ req'[r].kind = req[r].kind
    BY <1>0, <2>1, SawGo
  <2>3. At(r)' = "writeHand" /\ req[r].kind = "editMine" => At(r) = "readMine"
    BY <2>2 DEF Way
  <2>4. At(r)' = "writeHand" /\ req[r].kind = "edit" => At(r) = "readLesser"
    BY <2>2 DEF Way
  <2>5. At(r)' = "writeActive" => At(r) = "readLesser"
    BY <2>2 DEF Way
  <2>6. IsMine(r)'
    BY <2>1, <2>2, <2>3 DEF IsMine, Target, Actor
  <2>7. IsLesser(r)'
    BY <2>1, <2>2, <2>4, <2>5 DEF IsLesser, Rights, Target
  <2>8. IsNumber(r)'
    BY <2>1, <2>2 DEF IsNumber, Read
  <2> QED
    BY <2>2, <2>6, <2>7, <2>8
<1>2. CASE At(r) \in {"requireReseller", "codeTaken", "compare", "writeActive", "writeCode", "writeHand", "writeProfile"}
  <2>1. \E what : Wrote(r, what) \/ Continues(r)
    BY <1>2, ActionOf, OnOver DEF RequireReseller, CodeTaken, Compare, WriteActive, WriteCode, WriteHand, WriteProfile
  <2>2. /\ req'[r].of = req[r].of /\ req'[r].saw = req[r].saw /\ req'[r].by = req[r].by /\ req'[r].moved = req[r].moved
        /\ Way(req[r].kind, At(r), At(r)') /\ req'[r].kind = req[r].kind
    BY <1>0, <2>1, PlainGo
  <2>3. At(r)' \notin {"writeActive", "writeProfile"} /\ (At(r)' = "writeHand" => req[r].kind = "editOwn")
    BY <1>2, <2>2 DEF Way
  <2> QED
    BY <2>2, <2>3 DEF IsMine, IsLesser, IsNumber, Rights
<1> QED
  BY <1>0, <1>1, <1>2

LEMMA SignInGoes ==
    ASSUME ReqInv, Shapes, NEW r \in Requests, Serve(r), Underway(r), Rights(r), Underway(r)',
           req[r].kind \in {"login", "refresh", "authenticate"}
    PROVE  req'[r].of = req[r].of /\ req'[r].kind = req[r].kind /\ IsAccount(r)'
<1>0. /\ At(r) \in {"readAccount", "readCredential", "compare", "purge", "findChallenge", "deleteChallenge", "updateCounter", "sign"}
      /\ Plain(r)
  BY StepsOf DEF Plain
<1>1. CASE At(r) = "readAccount"
  <2>1. Saw(r, Target(r)) /\ UNCHANGED user
    BY <1>1, ActionOf, OnOver DEF ReadAccount, Reads, memberVars
  <2> QED
    BY <1>0, <2>1, SawGo DEF IsAccount, Read
<1>2. CASE At(r) = "readCredential"
  <2>1. /\ UNCHANGED user
        /\ \E c \in Own(req[r].of) : Goes(r, [req[r] EXCEPT !.saw = Target(r), !.device = c.device])
    BY <1>2, ActionOf, OnOver DEF ReadCredential, memberVars
  <2>2. PICK c \in Own(req[r].of) : Goes(r, [req[r] EXCEPT !.saw = Target(r), !.device = c.device])
    BY <2>1
  <2> DEFINE rec == [req[r] EXCEPT !.saw = Target(r), !.device = c.device]
  <2>3. Kept(r, rec) /\ rec.of = req[r].of /\ rec.saw = Target(r)
    BY AtWork DEF Kept, Shape, Fields
  <2>4. Goes(r, rec)
    BY <2>2
  <2> HIDE DEF rec
  <2>5. Advanced(r, rec)
    BY <1>0, <2>3, <2>4, OnGoes
  <2>6. req'[r].of = req[r].of /\ req'[r].kind = req[r].kind /\ req'[r].saw = user[req[r].of]
    BY <2>3, <2>5 DEF Advanced, Becomes, Kept, Target
  <2> QED
    BY <2>1, <2>6 DEF IsAccount, Read
<1>3. CASE At(r) \in {"compare", "purge", "findChallenge", "deleteChallenge", "updateCounter"}
  <2>1. UNCHANGED user /\ Continues(r)
    BY <1>3, ActionOf, OnOver DEF Compare, Purge, FindChallenge, DeleteChallenge, UpdateCounter, memberVars
  <2>2. /\ req'[r].of = req[r].of /\ req'[r].saw = req[r].saw /\ req'[r].moved = req[r].moved /\ req'[r].kind = req[r].kind
    BY <1>0, <2>1, PlainGo
  <2> QED
    BY <1>3, <2>1, <2>2 DEF IsAccount, Rights, Read, Warned
<1>4. CASE At(r) = "sign"
  BY <1>4, ActionOf, OnOver DEF Sign
<1> QED
  BY <1>0, <1>1, <1>2, <1>3, <1>4

LEMMA VisitGoes ==
    ASSUME ReqInv, Shapes, NEW r \in Requests, Serve(r), Underway(r), Rights(r), Underway(r)', req[r].kind = "visit"
    PROVE  IsEnabled(r)'
<1>0. At(r) \in {"readEnabled", "createVisit"} /\ Plain(r)
  BY StepsOf DEF Plain
<1>1. CASE At(r) = "readEnabled"
  <2>1. mobileLogin /\ mobileLogin' = mobileLogin
    BY <1>1, ActionOf, OnOver DEF ReadEnabled, SignInAlone
  <2> QED
    BY <2>1 DEF IsEnabled
<1>2. CASE At(r) = "createVisit"
  <2>1. Continues(r)
    BY <1>2, ActionOf DEF CreateVisit
  <2> QED
    BY <1>0, <1>2, <2>1, PlainGo DEF Way
<1> QED
  BY <1>0, <1>1, <1>2

LEMMA RightsGo ==
    ASSUME ReqInv, Shapes, NEW r \in Requests, Serve(r), Rights(r), Underway(r)'
    PROVE  Rights(r)'
<1>1. Underway(r) /\ req'[r].kind = req[r].kind /\ req'[r].by = req[r].by
  BY ServeTells, ActionOf DEF Told, Served
<1>2. CASE req[r].kind = "setRole"
  BY <1>1, <1>2, SetRoleGoes
     DEF Rights, Aims, IsLesser, IsMine, IsOwn, IsAccount, IsNumber, IsEnabled
<1>3. CASE req[r].kind \in {"setActive", "setReferral", "edit", "editMine", "editOwn", "profile"}
  <2>1. /\ req'[r].of = req[r].of /\ IsLesser(r)' /\ IsMine(r)' /\ IsNumber(r)'
    BY <1>1, <1>3, MembersGo
  <2> QED
    BY <1>1, <1>3, <2>1 DEF Rights, Aims, SetsRole, IsOwn, IsAccount, IsEnabled, Actor
<1>4. CASE req[r].kind \in {"login", "refresh", "authenticate"}
  BY <1>1, <1>4, SignInGoes
     DEF Rights, Aims, SetsRole, IsLesser, IsMine, IsOwn, IsNumber, IsEnabled
<1>5. CASE req[r].kind = "visit"
  BY <1>1, <1>5, VisitGoes DEF Rights, Aims, SetsRole, IsLesser, IsMine, IsOwn, IsAccount, IsNumber
<1>6. CASE req[r].kind \notin {"setRole", "setActive", "setReferral", "edit", "editMine", "editOwn", "profile", "login", "refresh",
                               "authenticate", "visit"}
  BY <1>1, <1>6 DEF Rights, Aims, SetsRole, IsLesser, IsMine, IsOwn, IsAccount, IsNumber, IsEnabled
<1> QED
  BY <1>2, <1>3, <1>4, <1>5, <1>6

(* A request begins for somebody there is.                                 *)
LEMMA AskRights ==
    ASSUME Core, RightsInv, NEW r \in Requests, Ask(r)
    PROVE  Rights(r)' /\ Underway(r)' /\ UNCHANGED tokens
<1> DEFINE First(kind, by, of) ==
               \E script, to, n : Starts(kind, script) /\ Begin(r, kind, script, by, of, to, n)
<1>1. /\ UNCHANGED tokens
      /\ \E kind, by, of :
            /\ First(kind, by, of)
            /\ kind \in {"setRole", "setActive", "setReferral", "edit", "editMine", "editOwn", "profile", "login", "refresh",
                         "authenticate"} => of \in Users
            /\ kind = "edit" => by.role = "ADMIN"
            /\ kind = "editOwn" => of = by.user
  <2>1. CASE AskMembers(r)
    <3>1. UNCHANGED tokens
      BY <2>1 DEF AskMembers, memberVars
    <3>2. PICK kind \in MemberKinds, t \in tokens :
             \E u \in IF kind \in OwnKinds THEN {t.user} ELSE Users :
                /\ MayAsk(kind, t)
                /\ \E to \in Wanted(kind) : Begin(r, kind, ScriptOfMembers(kind), t, u, to, 0)
      BY <2>1 DEF AskMembers
    <3>3. PICK u \in IF kind \in OwnKinds THEN {t.user} ELSE Users :
                /\ MayAsk(kind, t)
                /\ \E to \in Wanted(kind) : Begin(r, kind, ScriptOfMembers(kind), t, u, to, 0)
      BY <3>2
    <3>4. First(kind, t, u)
      BY <3>3, PathsOfMembers
    <3>5. u \in Users /\ (kind = "edit" => t.role = "ADMIN") /\ (kind = "editOwn" => u = t.user)
      BY <3>3 DEF RightsInv, MayAsk, OwnKinds
    <3> HIDE DEF First
    <3> QED
      BY <3>1, <3>4, <3>5
  <2>2. CASE AskSignIn(r)
    <3>1. UNCHANGED tokens
      BY <2>2 DEF AskSignIn, memberVars
    <3>7. PICK kind \in SignInKinds : \E t \in IF kind \in Anybody THEN {NoToken} ELSE tokens :
             \E u \in Named(kind, t) : \E to, n : Begin(r, kind, ScriptOfSignIn(kind), t, u, to, n)
      BY <2>2 DEF AskSignIn
    <3>2. PICK t \in IF kind \in Anybody THEN {NoToken} ELSE tokens :
             \E u \in Named(kind, t) : \E to, n : Begin(r, kind, ScriptOfSignIn(kind), t, u, to, n)
      BY <3>7
    <3>3. PICK u \in Named(kind, t) : \E to, n : Begin(r, kind, ScriptOfSignIn(kind), t, u, to, n)
      BY <3>2
    <3>4. First(kind, t, u)
      BY <3>3, PathsOfSignIn
    <3>5. kind \in {"login", "refresh", "authenticate"} => u \in Users
      BY <3>3 DEF RightsInv, Named, Anybody
    <3>6. kind \notin {"setRole", "setActive", "setReferral", "edit", "editMine", "editOwn", "profile"}
      BY DEF SignInKinds
    <3> HIDE DEF First
    <3> QED
      BY <3>1, <3>4, <3>5, <3>6
  <2>3. CASE AskBots(r)
    <3>1. UNCHANGED tokens
      BY <2>3 DEF AskBots, memberVars
    <3>2. \E kind \in BotKinds : \E t, u, n : Begin(r, kind, ScriptOfBots(kind), t, u, "none", n)
      BY <2>3 DEF AskBots
    <3>3. \E kind \in BotKinds : \E t, u : First(kind, t, u)
      BY <3>2, PathsOfBots
    <3> HIDE DEF First
    <3> QED
      BY <3>1, <3>3 DEF BotKinds
  <2>4. CASE AskBackups(r)
    <3>1. UNCHANGED tokens
      BY <2>4 DEF AskBackups, memberVars
    <3>2. \E kind \in BackupKinds : \E t, u, n : Begin(r, kind, ScriptOfBackups(kind), t, u, "none", n)
      BY <2>4 DEF AskBackups
    <3>3. \E kind \in BackupKinds : \E t, u : First(kind, t, u)
      BY <3>2, PathsOfBackups
    <3> HIDE DEF First
    <3> QED
      BY <3>1, <3>3 DEF BackupKinds
  <2> QED
    BY <2>1, <2>2, <2>3, <2>4 DEF Ask
<1>2. PICK kind, by, of :
         /\ First(kind, by, of)
         /\ kind \in {"setRole", "setActive", "setReferral", "edit", "editMine", "editOwn", "profile", "login", "refresh",
                      "authenticate"} => of \in Users
         /\ kind = "edit" => by.role = "ADMIN"
         /\ kind = "editOwn" => of = by.user
  BY <1>1
<1>3. PICK script, to, n : Starts(kind, script) /\ Begin(r, kind, script, by, of, to, n)
  BY <1>2
<1>4. /\ Underway(r)' /\ req'[r].kind = kind /\ req'[r].by = by /\ req'[r].of = of /\ At(r)' = Head(script)
      /\ Others(r, {}) /\ Sound(req'[r])
  BY <1>3, AskBegins, StepBegins DEF Core, Starts, At
<1>5. At(r)' \in FirstSteps /\ (At(r)' = "purge" => kind = "ask")
  BY <1>3, <1>4 DEF Starts
<1>6. ReqInv' /\ Requests' = Requests
  BY <1>4, OthersHold DEF Core
<1>7. (kind \in {"login", "refresh"} => At(r)' = "readAccount") /\ (kind = "authenticate" => At(r)' = "readCredential")
  <2>1. Final(kind, At(r)') \/ Way(kind, At(r)', Head(Tail(req'[r].todo)))
    BY <1>4, <1>6, AtWork, PathTail DEF At, Sound, Underway
  <2> QED
    BY <1>5, <2>1 DEF Way, Final, FirstSteps
<1> HIDE DEF First
<1> QED
  BY <1>1, <1>2, <1>4, <1>5, <1>7
     DEF Rights, Aims, SetsRole, IsLesser, IsMine, IsOwn, IsAccount, IsNumber, IsEnabled, FirstSteps, Actor

LEMMA InitRights == Init => RightsInv
<1> SUFFICES ASSUME Init PROVE RightsInv
  OBVIOUS
<1>1. \A t \in tokens : t.user \in Users
  BY MembersAssumption DEF Init, InitMembers
<1>2. \A r \in Requests : ~Underway(r)
  BY DEF Init, InitRequests, Requests, Underway, NoRequest
<1> QED
  BY <1>1, <1>2 DEF RightsInv

LEMMA NextRights == Core /\ RightsInv /\ [Next]_vars => RightsInv'
<1> SUFFICES ASSUME Core, RightsInv, [Next]_vars PROVE RightsInv'
  OBVIOUS
<1>1. ReqInv /\ Shapes
  BY DEF Core
<1>2. ASSUME NEW r \in Requests, Ask(r) PROVE RightsInv'
  <2>1. Others(r, {}) /\ Sound(req'[r]) /\ Rely({})
    BY <1>1, <1>2, AskBegins, StepBegins, Unmoved DEF Begun, Starts
  <2>2. Rights(r)' /\ UNCHANGED tokens
    BY <1>2, AskRights
  <2>3. Requests' = Requests
    BY <1>1, <2>1, OthersHold
  <2>4. ASSUME NEW q \in Requests \ {r}, Underway(q)' PROVE Rights(q)'
    <3>1. Underway(q)
      BY <2>1, <2>4 DEF Others, Same, Underway
    <3> QED
      BY <1>1, <2>1, <3>1, RightsStay DEF RightsInv
  <2> QED
    BY <2>2, <2>3, <2>4 DEF RightsInv
<1>3. ASSUME NEW r \in Requests, Serve(r) PROVE RightsInv'
  <2>1. PICK what : Served(r, what) /\ Rely(what)
    BY <1>1, <1>3, ServeTells DEF Told
  <2>2. Requests' = Requests /\ Underway(r)
    BY <1>1, <1>3, <2>1, OthersHold, ActionOf DEF Served
  <2>3. ASSUME NEW q \in Requests \ {r}, Underway(q)' PROVE Rights(q)'
    <3>1. Underway(q)
      BY <2>1, <2>3 DEF Served, Others, Same, Underway
    <3> QED
      BY <1>1, <2>1, <3>1, RightsStay DEF RightsInv, Served
  <2>4. Underway(r)' => Rights(r)'
    BY <1>1, <1>3, <2>2, RightsGo DEF RightsInv
  <2>5. \A t \in tokens' : t.user \in Users
    <3>1. CASE tokens' = tokens
      BY <3>1 DEF RightsInv
    <3>2. CASE Sign(r)
      <4>1. req[r].of \in Users
        <5>1. At(r) = "sign"
          BY <3>2 DEF Sign, Step, At
        <5> QED
          BY <1>1, <2>2, <5>1, StepsOf DEF RightsInv, Rights, Aims
      <4> QED
        BY <3>2, <4>1 DEF Sign, RightsInv
    <3> QED
      BY <1>3, <3>1, <3>2, SignInWriters
  <2> QED
    BY <2>2, <2>3, <2>4, <2>5 DEF RightsInv
<1>4. ASSUME NEW r \in Requests, StatementFails(r) PROVE RightsInv'
  <2>1. Served(r, {}) /\ ~Underway(r)' /\ Rely({}) /\ UNCHANGED tokens
    BY <1>1, <1>4, OnOver, Unmoved DEF StatementFails, memberVars, signInVars, botVars
  <2>2. Requests' = Requests
    BY <1>1, <2>1, OthersHold DEF Served
  <2>3. ASSUME NEW q \in Requests \ {r}, Underway(q)' PROVE Rights(q)'
    <3>1. Underway(q)
      BY <2>1, <2>3 DEF Served, Others, Same, Underway
    <3> QED
      BY <1>1, <2>1, <3>1, RightsStay DEF RightsInv, Served
  <2> QED
    BY <2>1, <2>2, <2>3 DEF RightsInv
<1>5. CASE UNCHANGED <<req, user, tokens, mobileLogin>>
  BY <1>5 DEF RightsInv, Requests, Underway, Rights, Aims, SetsRole, IsLesser, IsMine, IsOwn, IsAccount, IsNumber, IsEnabled,
              Warned, At, Read, Actor, Demotes, Admins
<1>6. CASE Restart
  <2>1. req' = CutOff /\ UNCHANGED tokens
    BY <1>6 DEF Restart
  <2>2. Requests' = Requests /\ \A q \in Requests : ~Underway(q)'
    BY <1>1, <2>1, OnRestart DEF CutOff, Requests
  <2> QED
    BY <2>1, <2>2 DEF RightsInv
<1>7. Age \/ Say \/ TaskStep \/ TaskFails \/ UNCHANGED vars => UNCHANGED <<req, user, tokens, mobileLogin>>
  BY DEF Age, Say, TaskStep, TaskFails, vars, reqVars, memberVars, signInVars
<1> QED
  BY <1>2, <1>3, <1>4, <1>5, <1>6, <1>7 DEF Next

LEMMA RightsHold == Spec => []RightsInv
<1> QED
  BY InitRights, NextRights, RequestsKeepToTheirScripts, PTL DEF Spec

(* Writers that leave role and access as they are.                         *)
LEMMA KindredWrites ==
    ASSUME Shapes, NEW r,
           WriteCode(r) \/ WriteHand(r) \/ WriteProfile(r) \/ UnlinkOthers(r) \/ Link(r) \/ UnlinkChat(r) \/ Unlink(r)
    PROVE  \A u \in Users : Kin(user'[u], user[u])
<1> SUFFICES ASSUME NEW u \in Users PROVE Kin(user'[u], user[u])
  OBVIOUS
<1>1. RowShape(user[u]) /\ user = [v \in Users |-> user[v]]
  BY DEF Shapes
<1>2. CASE WriteCode(r)
  <2>1. user' = user \/ \E on \in BOOLEAN : user' = [user EXCEPT ![req[r].of].code = req[r].to, ![req[r].of].codeOn = on]
    BY <1>2 DEF WriteCode
  <2>2. user'[u] = user[u] \/ \E on \in BOOLEAN : user'[u] = [user[u] EXCEPT !.code = req[r].to, !.codeOn = on]
    BY <1>1, <2>1
  <2>3. \A on : Kin([user[u] EXCEPT !.code = req[r].to, !.codeOn = on], user[u])
    BY <1>1 DEF Kin, RowShape, RowFields
  <2> QED
    BY <2>2, <2>3 DEF Kin
<1>3. CASE WriteHand(r)
  <2>1. user'[u] = user[u] \/ user'[u] = [user[u] EXCEPT !.hand = Actor(r)]
    BY <1>1, <1>3 DEF WriteHand
  <2> QED
    BY <1>1, <2>1 DEF Kin, RowShape, RowFields
<1>4. CASE WriteProfile(r)
  <2> DEFINE p == Profile(user[u], Read(r), req[r].to)
  <2>1. user'[u] = user[u] \/ user'[u] = Marked(p, r)
    BY <1>1, <1>4 DEF WriteProfile
  <2>2. RowShape(p) /\ Kin(p, user[u])
    BY <1>1, ProfileRow
  <2> HIDE DEF p
  <2>3. Kin(Marked(p, r), p)
    BY <2>2, MarkedRow
  <2> QED
    BY <2>1, <2>2, <2>3 DEF Kin
<1>5. CASE Link(r)
  <2> DEFINE p == [user[u] EXCEPT !.chat = Message(r).chat, !.proof = Message(r).wish]
  <2>1. user'[u] = user[u] \/ user'[u] = Marked(p, r)
    BY <1>1, <1>5 DEF Link
  <2>2. RowShape(p) /\ Kin(p, user[u])
    BY <1>1 DEF RowShape, RowFields, Kin
  <2> HIDE DEF p
  <2>3. Kin(Marked(p, r), p)
    BY <2>2, MarkedRow
  <2> QED
    BY <2>1, <2>2, <2>3 DEF Kin
<1>6. CASE UnlinkOthers(r) \/ UnlinkChat(r) \/ Unlink(r)
  <2>1. user'[u] = user[u] \/ user'[u] = Unlinked(user[u])
    BY <1>1, <1>6 DEF UnlinkOthers, UnlinkChat, Unlink, LeavesChat
  <2> QED
    BY <1>1, <2>1, UnlinkedRow DEF Kin
<1> QED
  BY <1>2, <1>3, <1>4, <1>5, <1>6

(* Somebody who may not be the last admin stays one.                       *)
LEMMA AdminsStay ==
    ASSUME Core, RightsInv, NEW r \in Requests, Serve(r), Admins # {}, Admins' = {}
    PROVE  ~Underway(r)' /\ req[r].moved # {}
<1>0. ReqInv /\ Shapes /\ Underway(r) /\ Rights(r)
  BY ActionOf DEF Core, RightsInv
<1>1. PICK a : a \in Admins
  OBVIOUS
<1>2. a \in Users /\ a \notin Admins'
  BY <1>1 DEF Admins
<1>3. ASSUME \A u \in Users : user'[u].is = user[u].is /\ user'[u].role = user[u].role /\ user'[u].active = user[u].active
      PROVE  FALSE
  BY <1>1, <1>2, <1>3 DEF Admins
<1>4. CASE WriteRole(r)
  <2>1. At(r) = "writeRole" /\ req[r].kind = "setRole" /\ Plain(r)
    BY <1>0, <1>4, StepsOf DEF WriteRole, Step, At, Plain
  <2>2. Wrote(r, {req[r].of}) /\ user' = [user EXCEPT ![req[r].of] = RoleGiven(@, Read(r), req[r].to)]
    BY <1>3, <1>4 DEF WriteRole
  <2>3. ~Underway(r)'
    BY <1>0, <2>1, <2>2, PlainGo DEF Way
  <2>4. req[r].of \in Users
    BY <1>0, <2>1 DEF Rights, Aims
  <2>5. \A u \in Users \ {req[r].of} : user'[u] = user[u]
    BY <1>0, <2>2 DEF Shapes
  <2>6. \A u \in Admins : u = req[r].of
    BY <2>5 DEF Admins
  <2>7. /\ user'[req[r].of].is = user[req[r].of].is /\ user'[req[r].of].active = user[req[r].of].active
        /\ user'[req[r].of].role = req[r].to
    <3> DEFINE row == user[req[r].of]
    <3>1. user'[req[r].of] = RoleGiven(row, Read(r), req[r].to) /\ RowShape(row)
      BY <1>0, <2>2, <2>4 DEF Shapes
    <3> HIDE DEF row
    <3>2. LET p == RoleGiven(row, Read(r), req[r].to) IN p.is = row.is /\ p.active = row.active /\ p.role = req[r].to
      BY <3>1 DEF RoleGiven, RowShape, RowFields
    <3> QED
      BY <3>1, <3>2 DEF row
  <2>8. user[req[r].of].role = "ADMIN" /\ req[r].to # "ADMIN"
    BY <1>1, <2>4, <2>6, <2>7 DEF Admins
  <2>9. req[r].moved # {}
    BY <1>0, <2>1, <2>6, <2>8 DEF Rights, SetsRole, Warned, Demotes
  <2> QED
    BY <2>3, <2>9
<1>5. CASE WriteActive(r)
  <2>1. At(r) = "writeActive" /\ req[r].kind = "setActive" /\ Plain(r)
    BY <1>0, <1>5, StepsOf DEF WriteActive, Step, At, Plain
  <2>2. Wrote(r, {req[r].of}) /\ user' = [user EXCEPT ![req[r].of].active = (req[r].to = "on")]
    BY <1>5 DEF WriteActive
  <2>3. ~Underway(r)'
    BY <1>0, <2>1, <2>2, PlainGo DEF Way
  <2>4. \A u \in Users \ {req[r].of} : user'[u] = user[u]
    BY <1>0, <2>2 DEF Shapes
  <2>5. a = req[r].of
    BY <1>1, <1>2, <2>4 DEF Admins
  <2>6. req[r].moved # {}
    BY <1>0, <1>1, <2>1, <2>5 DEF Rights, IsLesser, Warned, Admins
  <2> QED
    BY <2>3, <2>6
<1>6. CASE CreateUser(r)
  <2>1. ~user[req[r].of].is /\ \A u \in Users \ {req[r].of} : user'[u] = user[u]
    BY <1>0, <1>3, <1>6 DEF CreateUser, Shapes
  <2> QED
    BY <1>1, <1>2, <2>1 DEF Admins
<1>7. CASE WriteCode(r) \/ WriteHand(r) \/ WriteProfile(r) \/ UnlinkOthers(r) \/ Link(r) \/ UnlinkChat(r) \/ Unlink(r)
  <2>1. \A u \in Users : user'[u].is = user[u].is /\ user'[u].role = user[u].role /\ user'[u].active = user[u].active
    BY <1>0, <1>7, KindredWrites DEF Kin
  <2> QED
    BY <1>3, <2>1
<1>8. CASE user' = user
  BY <1>3, <1>8
<1> QED
  BY <1>4, <1>5, <1>6, <1>7, <1>8, UserWriters

(* The last active admin keeps the role, whoever asks (setRoleByAdmin      *)
(* counts, setActiveByAdmin is not for admins): only a request that was    *)
(* told of a change of accounts, while it was under way, can end with      *)
(* none; no restart, failure or bot can.                                   *)
THEOREM TheLastAdminStays == Spec => AnAdminRemains
<1> DEFINE Remains == Admins # {} /\ Admins' = {} => \E r \in Requests : Underway(r) /\ ~Underway(r)' /\ req[r].moved # {}
<1>1. Core /\ RightsInv /\ [Next]_vars => Remains
  <2> SUFFICES ASSUME Core, RightsInv, [Next]_vars, Admins # {}, Admins' = {}
               PROVE  \E r \in Requests : Underway(r) /\ ~Underway(r)' /\ req[r].moved # {}
    OBVIOUS
  <2>1. ASSUME UNCHANGED user PROVE FALSE
    BY <2>1 DEF Admins
  <2>2. ASSUME NEW r \in Requests, Serve(r) PROVE \E q \in Requests : Underway(q) /\ ~Underway(q)' /\ req[q].moved # {}
    BY <2>2, AdminsStay, ActionOf
  <2>3. ASSUME NEW r \in Requests, Ask(r) PROVE FALSE
    BY <2>1, <2>3, AskBegins DEF Core, Begun
  <2>4. Restart => UNCHANGED user
    BY DEF Restart, Admins
  <2>5. (\E r \in Requests : StatementFails(r)) \/ Age \/ Say \/ TaskStep \/ TaskFails \/ UNCHANGED vars => UNCHANGED user
    BY DEF StatementFails, Age, Say, TaskStep, TaskFails, vars, memberVars
  <2> QED
    BY <2>1, <2>2, <2>3, <2>4, <2>5 DEF Next
<1> QED
  BY <1>1, RequestsKeepToTheirScripts, RightsHold, PTL DEF Spec, AnAdminRemains

----------------------------------------------------------------------------
(* A challenge is named by the request that got it, which is over; it is   *)
(* there, or has let somebody pass, once.                                  *)
Over(q) == q \in Requests /\ req[q].at \notin {"idle", "run"}
ChallengeShape(c) == c = [f \in {"name", "kind", "old", "user"} |-> c[f]]
ChallengesInv ==
    /\ \A c \in challenges : ChallengeShape(c) /\ Over(c.name)
    /\ \A c, d \in challenges : c.name = d.name => c = d
    /\ \A s \in served : Over(s.challenge) /\ \A c \in challenges : c.name # s.challenge
    /\ \A s, t \in served : s.challenge = t.challenge => s = t

LEMMA ChallengeMayAge ==
    ASSUME NEW c, ChallengeShape(c)
    PROVE  ChallengeShape([c EXCEPT !.old = TRUE]) /\ [c EXCEPT !.old = TRUE].name = c.name
BY DEF ChallengeShape

LEMMA OverStays ==
    ASSUME Core, [Next]_vars
    PROVE  \A q : Over(q) => Over(q)'
<1>1. ReqInv
  BY DEF Core
<1>2. ASSUME NEW r \in Requests, Ask(r) PROVE \A q : Over(q) => Over(q)'
  <2>1. Others(r, {}) /\ Sound(req'[r]) /\ req[r].at = "idle"
    BY <1>1, <1>2, AskBegins, StepBegins DEF Begun, Starts
  <2>2. Requests' = Requests
    BY <1>1, <2>1, OthersHold
  <2> QED
    BY <2>1, <2>2 DEF Over, Others, Same
<1>3. ASSUME NEW r \in Requests, Serve(r) PROVE \A q : Over(q) => Over(q)'
  <2>1. PICK what : Served(r, what)
    BY <1>1, <1>3, ServeTells DEF Told, Core
  <2>2. Requests' = Requests /\ Underway(r)
    BY <1>1, <1>3, <2>1, OthersHold, ActionOf DEF Served
  <2> QED
    BY <2>1, <2>2 DEF Over, Served, Others, Same, Underway
<1>4. ASSUME NEW r \in Requests, StatementFails(r) PROVE \A q : Over(q) => Over(q)'
  <2>1. Served(r, {}) /\ Underway(r)
    BY <1>1, <1>4, OnOver DEF StatementFails
  <2>2. Requests' = Requests
    BY <1>1, <2>1, OthersHold DEF Served
  <2> QED
    BY <2>1, <2>2 DEF Over, Served, Others, Same, Underway
<1>5. ASSUME Restart PROVE \A q : Over(q) => Over(q)'
  <2>1. req' = CutOff
    BY <1>5 DEF Restart
  <2>2. Requests' = Requests /\ \A q \in Requests : req[q].at # "run" => req'[q] = req[q]
    BY <2>1 DEF CutOff, Requests, Underway
  <2> QED
    BY <2>2 DEF Over
<1>6. Age \/ Say \/ TaskStep \/ TaskFails \/ UNCHANGED vars => UNCHANGED req
  BY DEF Age, Say, TaskStep, TaskFails, vars, reqVars
<1>7. UNCHANGED req => \A q : Over(q) => Over(q)'
  BY DEF Over, Requests
<1> QED
  BY <1>2, <1>3, <1>4, <1>5, <1>6, <1>7 DEF Next

LEMMA InitChallenges == Init => ChallengesInv
BY DEF Init, InitSignIn, ChallengesInv

LEMMA NextChallenges == Core /\ ChallengesInv /\ [Next]_vars => ChallengesInv'
<1> SUFFICES ASSUME Core, ChallengesInv, [Next]_vars PROVE ChallengesInv'
  OBVIOUS
<1>1. \A q : Over(q) => Over(q)'
  BY OverStays
<1>2. ASSUME challenges' \subseteq challenges, UNCHANGED served PROVE ChallengesInv'
  BY <1>1, <1>2 DEF ChallengesInv
<1>3. ASSUME NEW r \in Requests, Serve(r) PROVE ChallengesInv'
  <2>1. CASE CreateChallenge(r)
    <3>0. ReqInv /\ Underway(r) /\ Plain(r) /\ At(r) = "createChallenge"
      BY <2>1 DEF Core, CreateChallenge, Step, At, Plain
    <3>1. Over(r)' /\ ~Over(r)
      <4>1. Served(r, {}) /\ ~Underway(r)'
        BY <2>1, <3>0, OnContinues DEF CreateChallenge, Advanced, Way
      <4>2. Requests' = Requests
        BY <3>0, <4>1, OthersHold DEF Served
      <4> QED
        BY <3>0, <4>1, <4>2 DEF Over, Served, Underway
    <3>2. PICK c : c = [name |-> r, kind |-> req[r].kind, old |-> FALSE,
                        user |-> IF req[r].kind = "offer" THEN req[r].of ELSE Nobody]
      OBVIOUS
    <3>3. challenges' = challenges \cup {c} /\ UNCHANGED served
      BY <2>1, <3>2 DEF CreateChallenge
    <3>4. ChallengeShape(c) /\ c.name = r
      BY <3>2 DEF ChallengeShape
    <3> QED
      BY <1>1, <3>1, <3>3, <3>4 DEF ChallengesInv
  <2>2. CASE DeleteChallenge(r)
    <3>1. challenges' = challenges \ Meant(r)
      BY <2>2 DEF DeleteChallenge
    <3>2. \A c \in Meant(r) : c \in challenges /\ c.name = req[r].to
      BY DEF Meant
    <3>3. CASE UNCHANGED served
      BY <1>2, <3>1, <3>3
    <3>4. CASE Meant(r) # {} /\ served' = served \cup {[challenge |-> req[r].to, by |-> r]}
      <4>1. PICK c : c \in challenges /\ c.name = req[r].to /\ c \in Meant(r)
        BY <3>2, <3>4
      <4>2. Over(req[r].to) /\ \A s \in served : s.challenge # req[r].to
        BY <4>1 DEF ChallengesInv
      <4>3. \A d \in challenges' : d \in challenges /\ d.name # req[r].to
        BY <3>1, <4>1 DEF ChallengesInv
      <4>4. PICK n : n = [challenge |-> req[r].to, by |-> r]
        OBVIOUS
      <4>5. served' = served \cup {n} /\ n.challenge = req[r].to
        BY <3>4, <4>4
      <4> QED
        BY <1>1, <4>2, <4>3, <4>5 DEF ChallengesInv
    <3> QED
      BY <2>2, <3>3, <3>4 DEF DeleteChallenge
  <2>3. Purge(r) => challenges' \subseteq challenges /\ UNCHANGED served
    BY DEF Purge
  <2> QED
    BY <1>2, <1>3, <2>1, <2>2, <2>3, SignInWriters
<1>4. CASE Age
  <2>1. PICK c \in challenges : challenges' = (challenges \ {c}) \cup {[c EXCEPT !.old = TRUE]}
    BY <1>4 DEF Age
  <2>2. PICK d : d = [c EXCEPT !.old = TRUE]
    OBVIOUS
  <2>3. ChallengeShape(d) /\ d.name = c.name
    <3>1. ChallengeShape(c)
      BY DEF ChallengesInv
    <3> QED
      BY <2>2, <3>1, ChallengeMayAge
  <2>4. challenges' = (challenges \ {c}) \cup {d} /\ UNCHANGED served
    BY <1>4, <2>1, <2>2 DEF Age
  <2> QED
    BY <1>1, <2>3, <2>4 DEF ChallengesInv
<1>5. ASSUME NEW r \in Requests, Ask(r) PROVE UNCHANGED <<challenges, served>>
  BY <1>5 DEF Ask, AskMembers, AskSignIn, AskBots, AskBackups, signInVars, BotsAlone
<1>6. (\E r \in Requests : StatementFails(r)) \/ Say \/ TaskStep \/ TaskFails \/ Restart \/ UNCHANGED vars
      => UNCHANGED <<challenges, served>>
  BY DEF StatementFails, Say, TaskStep, TaskFails, Restart, vars, signInVars
<1> QED
  BY <1>2, <1>3, <1>4, <1>5, <1>6 DEF Next

LEMMA ChallengesHold == Spec => []ChallengesInv
<1> QED
  BY InitChallenges, NextChallenges, RequestsKeepToTheirScripts, PTL DEF Spec

(* Who stands at "writeHand" may.                                          *)
LEMMA HandsMayWrite ==
    ASSUME Core, RightsInv, NEW r \in Requests, Step(r, "writeHand")
    PROVE  MayEdit(r, req[r].of) \/ req[r].of \in req[r].moved
<1>1. ReqInv /\ Underway(r) /\ At(r) = "writeHand" /\ Rights(r)
  BY DEF Core, RightsInv, Step, At
<1>2. req[r].kind \in {"edit", "editMine", "editOwn"}
  BY <1>1, StepsOf
<1> QED
  BY <1>1, <1>2 DEF Rights, IsLesser, IsMine, IsOwn, Warned, MayEdit

(* A token comes from who ends at "sign".                                  *)
LEMMA TokensAreSigned ==
    ASSUME Core, RightsInv, NEW r \in Requests, Serve(r), ~(tokens' \subseteq tokens)
    PROVE  /\ Sign(r) /\ \A q \in Requests \ {r} : Underway(q)' <=> Underway(q)
           /\ \/ req[r].of \in req[r].moved
              \/ user[req[r].of].active /\ [user |-> req[r].of, role |-> user[req[r].of].role] \in tokens'
<1>1. ReqInv /\ Shapes /\ Underway(r) /\ Rights(r)
  BY ActionOf DEF Core, RightsInv
<1>2. Sign(r)
  BY SignInWriters
<1>3. \A q \in Requests \ {r} : Underway(q)' <=> Underway(q)
  BY <1>1, ServeTells DEF Told, Served, Others, Same, Underway
<1>4. At(r) = "sign"
  BY <1>2 DEF Sign, Step, At
<1>5. req[r].kind \in {"login", "refresh", "authenticate"}
  BY <1>1, <1>4, StepsOf
<1>6. Read(r).active /\ tokens' = tokens \cup {[user |-> req[r].of, role |-> Read(r).role]}
  BY <1>2 DEF Sign
<1>7. Warned(r) \/ (Read(r).role = user[req[r].of].role /\ Read(r).active = user[req[r].of].active)
  BY <1>1, <1>4, <1>5 DEF Rights, IsAccount
<1> QED
  BY <1>2, <1>3, <1>6, <1>7 DEF Warned

LEMMA VisitsAreEnabled ==
    ASSUME Core, RightsInv, NEW r \in Requests, Serve(r)
    PROVE  \A q \in Requests : q \in visits' \ visits => mobileLogin \/ "switch" \in req[q].moved
<1>1. ReqInv /\ Underway(r) /\ Rights(r)
  BY ActionOf DEF Core, RightsInv
<1>2. CASE CreateVisit(r)
  <2>1. At(r) = "createVisit" /\ visits' = visits \cup {r}
    BY <1>2 DEF CreateVisit, Step, At
  <2>2. req[r].kind = "visit"
    BY <1>1, <2>1, StepsOf
  <2> QED
    BY <1>1, <2>1, <2>2 DEF Rights, IsEnabled
<1>3. ClearLogs(r) \/ visits' = visits => visits' \subseteq visits
  BY DEF ClearLogs
<1> QED
  BY <1>2, <1>3, SignInWriters

(* Passwords and access are set by the account's owner, an admin who is    *)
(* above it or its reseller; a token is given out only for an account that *)
(* is open, and with its role; the log of mobile sign-in grows only while  *)
(* that is on: each as it is at that moment, or the request was told of a  *)
(* change.  No challenge of WebAuthn lets two requests pass.               *)
THEOREM NobodyGoesBeyondHisRights == Spec => RightsAreKept
<1> DEFINE Edits == \A r \in Requests : Step(r, "writeHand") /\ user' # user => MayEdit(r, req[r].of) \/ req[r].of \in req[r].moved
           Signs == \A r \in Requests : Step(r, "sign") /\ ~Underway(r)' /\ ~(tokens' \subseteq tokens) =>
                       LET u == req[r].of IN
                       \/ u \in req[r].moved
                       \/ user[u].active /\ [user |-> u, role |-> user[u].role] \in tokens'
           Enters == \A r \in Requests : r \in visits' \ visits => mobileLogin \/ "switch" \in req[r].moved
           Once == \A s, t \in served' : s.challenge = t.challenge => s = t
<1>1. Core /\ RightsInv /\ [Next]_vars => Edits
  BY HandsMayWrite
<1>2. Core /\ RightsInv /\ [Next]_vars => Signs /\ Enters
  <2> SUFFICES ASSUME Core, RightsInv, [Next]_vars PROVE Signs /\ Enters
    OBVIOUS
  <2>1. ASSUME NEW r \in Requests, Serve(r) PROVE Signs /\ Enters
    BY <2>1, TokensAreSigned, VisitsAreEnabled DEF Step
  <2>2. ASSUME NEW r \in Requests, Ask(r) PROVE UNCHANGED <<tokens, visits>>
    BY <2>2 DEF Ask, AskMembers, AskSignIn, AskBots, AskBackups, memberVars, signInVars, BotsAlone
  <2>3. (\E r \in Requests : StatementFails(r)) \/ Age \/ Say \/ TaskStep \/ TaskFails \/ Restart \/ UNCHANGED vars
        => UNCHANGED <<tokens, visits>>
    BY DEF StatementFails, Age, Say, TaskStep, TaskFails, Restart, vars, memberVars, signInVars
  <2> QED
    BY <2>1, <2>2, <2>3 DEF Next
<1>3. ChallengesInv' => Once
  BY DEF ChallengesInv
<1>4. Core /\ RightsInv /\ ChallengesInv' /\ [Next]_vars => Signs /\ Enters /\ Once
  BY <1>2, <1>3
<1>5. Spec => EditsKeepRank
  BY <1>1, RequestsKeepToTheirScripts, RightsHold, PTL DEF Spec, EditsKeepRank
<1>6. Spec => OnlyTheAdmissible
  BY <1>4, RequestsKeepToTheirScripts, RightsHold, ChallengesHold, PTL DEF Spec, OnlyTheAdmissible
<1> QED
  BY <1>5, <1>6 DEF RightsAreKept

----------------------------------------------------------------------------
(* The bots' rows and boxes, field by field.                               *)
LEMMA BotWriters ==
    ASSUME NEW r, Serve(r)
    PROVE  /\ bot' = bot \/ ReadConfig(r) \/ SaveOffset(r) \/ WriteBot(r)
           /\ inbox' = inbox \/ GetUpdates(r)
           /\ seen' = seen \/ GetUpdates(r) \/ Reply(r) \/ Spawn(r)
           /\ UNCHANGED <<tasks, dirs>> \/ Spawn(r)
<1>1. CASE MemberStep(r) /\ UNCHANGED <<scene, left, signInVars, botVars, backupVars>>
  BY <1>1 DEF botVars
<1>2. CASE SignInStep(r) /\ UNCHANGED <<scene, left, botVars, backupVars>>
  BY <1>2 DEF botVars
<1>3. CASE BotStep(r)
  BY <1>3 DEF BotStep, ClaimPoll, ReadToken, ReadConfig, GetUpdates, SaveOffset, Handle, FindProfile, Reply, Spawn, ReadBot,
              WriteBot, ForgetSkip, ReadLinked, Tell, UnlinkOthers, Link, UnlinkChat, Unlink, BotsAlone, botVars
<1>4. CASE BackupStep(r)
  BY <1>4 DEF BackupStep, StartCreate, OpenDump, PgDump, Prune, Ready, Check, Exclusive, RestoreStep, CleanUp,
              BackupsAlone, RestoresAlone, botVars
<1> QED
  BY <1>1, <1>2, <1>3, <1>4 DEF Serve

LEMMA BotRows ==
    ASSUME Shapes, NEW r
    PROVE  LET b == Of(r)
               old == bot[b]
               new == bot'[b]
           IN
           /\ b \in Bot
           /\ ReadConfig(r) => new.token = old.token /\ new.last = old.last /\ new.mixed = old.mixed \cup ({Read(r).token} \ {old.token})
           /\ SaveOffset(r) => /\ new.token = old.token /\ new.last = Read(r).max
                               /\ new.mixed = old.mixed \cup ({old.token} \ {Read(r).token})
           /\ WriteBot(r) /\ req[r].n = 1 => old.token < Tokens /\ new.token = old.token + 1 /\ new.last = Unset /\ new.mixed = old.mixed
           /\ WriteBot(r) /\ req[r].n # 1 => /\ new.token = Read(r).token /\ new.last = old.last
                                             /\ new.mixed = old.mixed \cup ({Read(r).token} \ {old.token})
           /\ ReadConfig(r) \/ SaveOffset(r) \/ WriteBot(r) => \A c \in Bot : c # b => bot'[c] = bot[c]
<1> DEFINE b == Of(r)
           old == bot[b]
<1>1. b \in Bot /\ bot = [c \in Bot |-> bot[c]] /\ BotShape(old)
  BY DEF Of, Bot, Shapes
<1>2. ASSUME ReadConfig(r)
      PROVE  /\ bot'[b].token = old.token /\ bot'[b].last = old.last
             /\ bot'[b].mixed = old.mixed \cup ({Read(r).token} \ {old.token})
             /\ \A c \in Bot : c # b => bot'[c] = bot[c]
  <2>1. bot' = [bot EXCEPT ![b] = [old EXCEPT !.mixed = @ \cup ({Read(r).token} \ {old.token})]]
    BY <1>2 DEF ReadConfig, Row
  <2> QED
    BY <1>1, <2>1 DEF BotShape, BotFields
<1>3. ASSUME SaveOffset(r)
      PROVE  /\ bot'[b].token = old.token /\ bot'[b].last = Read(r).max
             /\ bot'[b].mixed = old.mixed \cup ({old.token} \ {Read(r).token})
             /\ \A c \in Bot : c # b => bot'[c] = bot[c]
  <2>1. bot' = [bot EXCEPT ![b] = [[old EXCEPT !.last = Read(r).max] EXCEPT !.mixed = @ \cup ({old.token} \ {Read(r).token})]]
    BY <1>1, <1>3 DEF SaveOffset, Row
  <2> QED
    BY <1>1, <2>1 DEF BotShape, BotFields
<1>4. ASSUME WriteBot(r)
      PROVE  /\ req[r].n = 1 => old.token < Tokens /\ bot'[b].token = old.token + 1 /\ bot'[b].last = Unset /\ bot'[b].mixed = old.mixed
             /\ req[r].n # 1 => /\ bot'[b].token = Read(r).token /\ bot'[b].last = old.last
                                /\ bot'[b].mixed = old.mixed \cup ({Read(r).token} \ {old.token})
             /\ \A c \in Bot : c # b => bot'[c] = bot[c]
  BY <1>1, <1>4 DEF WriteBot
<1> QED
  BY <1>1, <1>2, <1>3, <1>4

LEMMA BoxRows ==
    ASSUME Shapes, NEW r, GetUpdates(r), NEW b \in Bot, NEW t \in 1..Tokens
    PROVE  inbox'[b][t].confirmed = IF b = Of(r) /\ t = Read(r).token
                                    THEN Larger(inbox[b][t].confirmed, Read(r).last) ELSE inbox[b][t].confirmed
<1> DEFINE c == Of(r)
           s == Read(r).token
           n == Larger(inbox[c][s].confirmed, Read(r).last)
<1>1. inbox' = [inbox EXCEPT ![c][s].confirmed = n]
  BY DEF GetUpdates
<1>2. inbox = [d \in Bot |-> inbox[d]] /\ BoxShape(inbox[b])
  BY DEF Shapes
<1> HIDE DEF n, c, s
<1>3. CASE b # c
  BY <1>1, <1>2, <1>3 DEF c
<1>4. CASE b = c
  <2>1. inbox'[b] = [inbox[b] EXCEPT ![s] = [inbox[b][s] EXCEPT !.confirmed = n]]
    BY <1>1, <1>2, <1>4
  <2>2. CASE t # s
    <3>1. inbox'[b][t] = inbox[b][t]
      BY <1>2, <2>1, <2>2 DEF BoxShape
    <3> QED
      BY <2>2, <3>1 DEF s
  <2>3. CASE t = s
    <3>1. inbox'[b][t] = [inbox[b][t] EXCEPT !.confirmed = n]
      BY <1>2, <2>1, <2>3 DEF BoxShape
    <3>2. inbox[b][t] = [said |-> inbox[b][t].said, confirmed |-> inbox[b][t].confirmed]
      BY <1>2 DEF BoxShape
    <3>3. inbox'[b][t].confirmed = n
      <4> DEFINE old == inbox[b][t]
      <4>1. old = [said |-> old.said, confirmed |-> old.confirmed] /\ inbox'[b][t] = [old EXCEPT !.confirmed = n]
        BY <3>1, <3>2
      <4> HIDE DEF old
      <4> QED
        BY <4>1
    <3> QED
      BY <1>4, <2>3, <3>3 DEF n, s, c
  <2> QED
    BY <2>2, <2>3
<1> QED
  BY <1>3, <1>4

(* Who writes to a bot adds to what was said.                              *)
LEMMA SayAdds ==
    ASSUME Shapes, Say
    PROVE  \E b \in Bot, w \in UNION {Wishes[c] : c \in Bot}, c \in Chats :
              /\ \A d \in Bot, t \in 1..Tokens :
                    /\ inbox'[d][t].confirmed = inbox[d][t].confirmed
                    /\ inbox'[d][t].said = IF d = b /\ t = bot[b].token THEN Append(inbox[d][t].said, [wish |-> w, chat |-> c])
                                           ELSE inbox[d][t].said
<1>1. PICK b \in Bot : \E w \in Wishes[b], c \in Chats :
         inbox' = [inbox EXCEPT ![b][bot[b].token].said = Append(@, [wish |-> w, chat |-> c])]
  BY DEF Say
<1>2. PICK w \in Wishes[b], c \in Chats :
         inbox' = [inbox EXCEPT ![b][bot[b].token].said = Append(@, [wish |-> w, chat |-> c])]
  BY <1>1
<1> DEFINE line == [wish |-> w, chat |-> c]
           s == bot[b].token
<1>3. inbox' = [inbox EXCEPT ![b] = [inbox[b] EXCEPT ![s] = [inbox[b][s] EXCEPT !.said = Append(inbox[b][s].said, line)]]]
  BY <1>2 DEF Shapes
<1> HIDE DEF line, s
<1>4. ASSUME NEW d \in Bot, NEW t \in 1..Tokens
      PROVE  /\ inbox'[d][t].confirmed = inbox[d][t].confirmed
             /\ inbox'[d][t].said = IF d = b /\ t = s THEN Append(inbox[d][t].said, line) ELSE inbox[d][t].said
  <2>1. inbox = [e \in Bot |-> inbox[e]] /\ BoxShape(inbox[d])
    BY DEF Shapes
  <2> DEFINE old == inbox[d][t]
  <2>2. old = [said |-> old.said, confirmed |-> old.confirmed]
    BY <2>1 DEF BoxShape
  <2>3. CASE d = b /\ t = s
    <3>1. inbox'[d][t] = [old EXCEPT !.said = Append(old.said, line)]
      BY <1>3, <2>1, <2>3 DEF BoxShape
    <3> HIDE DEF old
    <3>2. inbox'[d][t].said = Append(old.said, line) /\ inbox'[d][t].confirmed = old.confirmed
      BY <2>2, <3>1
    <3> QED
      BY <2>3, <3>2 DEF old
  <2>4. CASE ~(d = b /\ t = s)
    <3>1. inbox'[d][t] = inbox[d][t]
      BY <1>3, <2>1, <2>4 DEF BoxShape
    <3> QED
      BY <2>4, <3>1
  <2> QED
    BY <2>3, <2>4
<1>5. w \in UNION {Wishes[d] : d \in Bot}
  OBVIOUS
<1> QED
  BY <1>4, <1>5 DEF line, s

(* The way of a poll.                                                      *)
SameMemory(r) == req'[r].n = req[r].n /\ req'[r].saw = req[r].saw
LEMMA PollMoves ==
    ASSUME Core, NEW r \in Requests, Serve(r), req[r].kind \in {"poll", "pollA"}, Underway(r)'
    PROVE  LET b == Of(r)
               s == At(r)
               t == At(r)'
               said == inbox[b][Read(r).token].said
               after == Larger(inbox[b][Read(r).token].confirmed, Read(r).last)
           IN
           /\ Of(r)' = b /\ req'[r].kind = req[r].kind
           /\ s \in {"claimPoll", "readToken", "readConfig", "getUpdates", "handle", "findProfile", "unlinkOthers", "link",
                     "unlinkChat", "reply", "spawn"}
           /\ s = "claimPoll" => t = "readToken"
           /\ s = "readToken" => t = "readConfig" /\ req'[r].saw = [token |-> bot[b].token, last |-> Unset, max |-> Unset]
           /\ s = "readConfig" => t = "getUpdates" /\ req'[r].saw = [Read(r) EXCEPT !.last = bot[b].last]
           /\ s = "getUpdates" => /\ req'[r].saw = [Read(r) EXCEPT !.max = Len(said)] /\ req'[r].n = after + 1 /\ ~(Len(said) <= after)
                                  /\ \/ t = "saveOffset" /\ seen' = seen \cup Heard(r, Len(said))
                                     \/ t = (IF req[r].kind = "poll" THEN "handle" ELSE "spawn") /\ seen' = seen
           /\ s = "handle" => SameMemory(r) /\ t = IF req[r].n > Read(r).max THEN "saveOffset" ELSE Head(Answers(Message(r).wish))
           /\ s = "findProfile" => /\ SameMemory(r)
                                   /\ \/ t = "reply"
                                      \/ /\ t = "unlinkOthers" /\ req'[r].of \in Found(Message(r).wish)
                                         /\ req'[r].moved \subseteq Bot
           /\ s = "unlinkOthers" => SameMemory(r) /\ t = "link" /\ req'[r].of = req[r].of /\ req'[r].moved = req[r].moved
           /\ s \in {"link", "unlinkChat"} => SameMemory(r) /\ t = "reply"
           /\ s = "reply" => t = "handle" /\ req'[r].n = req[r].n + 1 /\ req'[r].saw = req[r].saw
           /\ s = "spawn" => SameMemory(r) /\ t = "saveOffset"
<1> DEFINE b == Of(r)
           k == req[r].kind
           s == At(r)
           t == At(r)'
<1>0. ReqInv /\ Shapes /\ Underway(r)
  BY ActionOf DEF Core
<1>1. req'[r].kind = k /\ Of(r)' = b
  BY <1>0, ServeTells DEF Told, Served, Of
<1>2. /\ s \in {"claimPoll", "readToken", "readConfig", "getUpdates", "handle", "findProfile", "unlinkOthers", "link",
                "unlinkChat", "reply", "spawn", "saveOffset"}
      /\ s \in {"handle", "findProfile", "unlinkOthers", "link", "unlinkChat", "reply"} => k = "poll"
      /\ s = "spawn" => k = "pollA"
  <2>1. Final(req[r].kind, At(r)) \/ Way(req[r].kind, At(r), Head(Tail(req[r].todo)))
    BY <1>0, AtWork, PathTail DEF At
  <2> QED
    BY <2>1 DEF Way, Final
<1>3. CASE s = "claimPoll"
  <2>1. Claims(r, PollFlag(Of(r))) /\ PollFlag(Of(r)) \notin held /\ PollFlag(Of(r)) = k
    BY <1>0, <1>3, ActionOf, OnOver DEF ClaimPoll, PollFlag, Of
  <2>2. req'[r].todo = Tail(req[r].todo) /\ Len(req[r].todo) # 1
    BY <1>0, <1>3, <2>1, ClaimPlaces, StepClaims
  <2>3. Way(k, s, Head(Tail(req[r].todo)))
    BY <1>0, <2>2, AtWork, PathTail DEF At
  <2>4. t = "readToken"
    BY <1>3, <2>2, <2>3 DEF Way, At
  <2> QED
    BY <1>1, <1>3, <2>4
<1>4. CASE s \in {"readToken", "readConfig"}
  <2> DEFINE v == IF s = "readToken" THEN [token |-> bot[b].token, last |-> Unset, max |-> Unset]
                  ELSE [Read(r) EXCEPT !.last = bot[b].last]
  <2>1. Saw(r, v)
    BY <1>0, <1>4, ActionOf, OnOver DEF ReadToken, ReadConfig, Row
  <2> HIDE DEF v
  <2>2. Advanced(r, [req[r] EXCEPT !.saw = v])
    BY <1>0, <1>4, <2>1, OnSaw DEF Plain
  <2>3. req'[r].saw = v /\ Way(k, s, t)
    BY <1>0, <2>2, AtWork DEF Advanced, Becomes, Shape, Fields
  <2>4. t = IF s = "readToken" THEN "readConfig" ELSE "getUpdates"
    BY <1>4, <2>3 DEF Way
  <2> QED
    BY <1>1, <1>4, <2>3, <2>4 DEF v
<1>5. CASE s = "getUpdates"
  <2> DEFINE max == Len(inbox[b][Read(r).token].said)
             after == Larger(inbox[b][Read(r).token].confirmed, Read(r).last)
             rec == [req[r] EXCEPT !.saw = [Read(r) EXCEPT !.max = max], !.n = after + 1]
  <2>1. /\ Becomes(r, rec) /\ ~(max <= after)
        /\ \/ req'[r].todo = <<"saveOffset">> /\ seen' = seen \cup Heard(r, max)
           \/ req'[r].todo = <<IF k = "poll" THEN "handle" ELSE "spawn">> /\ seen' = seen
    BY <1>0, <1>5, ActionOf, OnGetUpdates
  <2>2. rec.saw = [Read(r) EXCEPT !.max = max] /\ rec.n = after + 1
    BY <1>0, AtWork DEF Shape, Fields
  <2> HIDE DEF rec, max, after
  <2>3. req'[r].saw = [Read(r) EXCEPT !.max = max] /\ req'[r].n = after + 1
    BY <2>1, <2>2 DEF Becomes
  <2>4. \/ t = "saveOffset" /\ seen' = seen \cup Heard(r, max)
        \/ t = (IF k = "poll" THEN "handle" ELSE "spawn") /\ seen' = seen
    BY <2>1 DEF At
  <2> QED
    BY <1>1, <1>5, <2>1, <2>3, <2>4 DEF max, after
<1>6. CASE s = "handle"
  <2> DEFINE todo == IF req[r].n > Read(r).max THEN <<"saveOffset">> ELSE Answers(Message(r).wish)
  <2>1. Turns(r, todo)
    BY <1>6, ActionOf DEF Handle
  <2>2. Path(k, todo) /\ Head(todo) \in {"saveOffset", "findProfile", "unlinkChat", "reply"}
    BY <1>2, <1>6, PathsOfUpdates
  <2> HIDE DEF todo
  <2>3. HoldsOf(k, Head(todo)) = HoldsOf(k, s)
    BY <1>2, <1>6, <2>2 DEF HoldsOf
  <2>4. Becomes(r, req[r]) /\ req'[r].todo = todo
    BY <1>0, <2>1, <2>2, <2>3, OnTurns
  <2>5. SameMemory(r) /\ t = Head(todo)
    BY <2>4 DEF Becomes, SameMemory, At
  <2>6. t = IF req[r].n > Read(r).max THEN "saveOffset" ELSE Head(Answers(Message(r).wish))
    BY <2>5 DEF todo
  <2> QED
    BY <1>1, <1>6, <2>5, <2>6
<1>7. CASE s = "findProfile"
  <2>1. \/ Turns(r, <<"reply">>)
        \/ \E u \in Found(Message(r).wish) : Goes(r, [req[r] EXCEPT !.of = u, !.moved = @ \cap Bot])
    BY <1>7, ActionOf DEF FindProfile
  <2>2. CASE Turns(r, <<"reply">>)
    <3>1. Path(k, <<"reply">>) /\ HoldsOf(k, Head(<<"reply">>)) = HoldsOf(k, s)
      BY <1>2, <1>7, PathsOfUpdates DEF HoldsOf
    <3>2. Becomes(r, req[r]) /\ req'[r].todo = <<"reply">>
      BY <1>0, <2>2, <3>1, OnTurns
    <3> QED
      BY <1>1, <1>7, <3>2 DEF Becomes, SameMemory, At
  <2>3. ASSUME NEW u \in Found(Message(r).wish), Goes(r, [req[r] EXCEPT !.of = u, !.moved = @ \cap Bot])
        PROVE  SameMemory(r) /\ t = "unlinkOthers" /\ req'[r].of = u /\ req'[r].moved \subseteq Bot
    <3> DEFINE rec == [req[r] EXCEPT !.of = u, !.moved = @ \cap Bot]
    <3>1. /\ Kept(r, rec) /\ rec.of = u /\ rec.moved \subseteq Bot /\ rec.n = req[r].n /\ rec.saw = req[r].saw
      BY <1>0, AtWork DEF Kept, Shape, Fields
    <3>2. Goes(r, rec)
      BY <2>3
    <3> HIDE DEF rec
    <3>3. Advanced(r, rec)
      BY <1>0, <1>7, <3>1, <3>2, OnGoes DEF Plain
    <3>4. Way(k, s, t) /\ SameMemory(r) /\ req'[r].of = u /\ req'[r].moved \subseteq Bot
      BY <3>1, <3>3 DEF Advanced, Becomes, SameMemory
    <3> QED
      BY <1>7, <3>4 DEF Way
  <2> QED
    BY <1>1, <1>7, <2>1, <2>2, <2>3
<1>8. CASE s \in {"unlinkOthers", "link", "unlinkChat", "saveOffset"}
  <2>1. \E what : Wrote(r, what)
    BY <1>8, ActionOf DEF UnlinkOthers, Link, UnlinkChat, SaveOffset
  <2>2. Advanced(r, req[r])
    BY <1>0, <1>8, <2>1, OnWrote DEF Plain
  <2>3. Way(k, s, t) /\ SameMemory(r) /\ req'[r].of = req[r].of /\ req'[r].moved = req[r].moved
    BY <2>2 DEF Advanced, Becomes, SameMemory
  <2>4. s # "saveOffset" /\ t = IF s = "unlinkOthers" THEN "link" ELSE "reply"
    BY <1>8, <2>3 DEF Way
  <2> QED
    BY <1>1, <1>8, <2>3, <2>4
<1>9. CASE s = "reply"
  <2>1. Becomes(r, [req[r] EXCEPT !.n = @ + 1]) /\ req'[r].todo = <<"handle">>
    BY <1>0, <1>9, ActionOf, OnReply
  <2>2. req'[r].n = req[r].n + 1 /\ req'[r].saw = req[r].saw /\ t = "handle"
    BY <1>0, <2>1, AtWork DEF Becomes, Shape, Fields, At
  <2> QED
    BY <1>1, <1>9, <2>2
<1>10. CASE s = "spawn"
  <2>1. Turns(r, <<"saveOffset">>)
    BY <1>10, ActionOf DEF Spawn
  <2>2. Path(k, <<"saveOffset">>) /\ HoldsOf(k, Head(<<"saveOffset">>)) = HoldsOf(k, s)
    BY <1>2, <1>10, PathsOfUpdates DEF HoldsOf
  <2>3. Becomes(r, req[r]) /\ req'[r].todo = <<"saveOffset">>
    BY <1>0, <2>1, <2>2, OnTurns
  <2> QED
    BY <1>1, <1>10, <2>3 DEF Becomes, SameMemory, At
<1> QED
  BY <1>2, <1>3, <1>4, <1>5, <1>6, <1>7, <1>8, <1>9, <1>10

----------------------------------------------------------------------------
(* What polls remember is of the kind they need.                           *)
Words == Mobiles \cup {"stop", "other", "start", "work", "video"}
Lines == {m \in [wish : Words, chat : Chats \cup {"none"}] : m.wish \in Mobiles => m.chat \in Chats}
BoxesOK ==
    /\ \A b \in Bot : bot[b].token \in 1..Tokens /\ bot[b].last \in Nat
    /\ \A b \in Bot, t \in 1..Tokens : inbox[b][t].said \in Seq(Lines) /\ inbox[b][t].confirmed \in Nat

Late == DigestPlaces \cup {"spawn", "saveOffset"}
ReadShape(v) == v = [f \in {"token", "last", "max"} |-> v[f]]
PollOK(r) ==
    /\ req[r].kind \in {"poll", "pollA"} =>
        /\ At(r) \in {"readConfig", "getUpdates"} \cup Late => ReadShape(Read(r)) /\ Read(r).token \in 1..Tokens
        /\ At(r) = "getUpdates" => Read(r).last \in Nat
        /\ At(r) \in Late => /\ req[r].n \in Nat \ {0} /\ Read(r).max \in Nat
                             /\ Read(r).max <= Len(inbox[Of(r)][Read(r).token].said)
        /\ At(r) \in DigestPlaces \ {"handle"} => req[r].n <= Read(r).max
        /\ At(r) \in {"findProfile", "unlinkOthers", "link"} => Message(r).wish \in Mobiles
    /\ req[r].kind \in {"save", "saveA"} /\ At(r) = "writeBot" => Read(r).token \in 1..Tokens
Polls == BoxesOK /\ \A r \in Requests : Underway(r) => PollOK(r)

(* What was said stays, as far as it goes.                                 *)
Hears ==
    \A b \in Bot, t \in 1..Tokens :
        /\ Len(inbox[b][t].said) <= Len(inbox'[b][t].said)
        /\ \A i \in 1..Len(inbox[b][t].said) : inbox'[b][t].said[i] = inbox[b][t].said[i]

LEMMA OfIsBot == \A r : Of(r) \in Bot
BY DEF Of, Bot

LEMMA BoxGrows ==
    ASSUME BoxesOK, BoxesOK', Hears, NEW b \in Bot, NEW t \in 1..Tokens, NEW m \in Nat, m <= Len(inbox[b][t].said)
    PROVE  m <= Len(inbox'[b][t].said)
<1> DEFINE old == inbox[b][t].said
           new == inbox'[b][t].said
<1>1. old \in Seq(Lines) /\ new \in Seq(Lines) /\ Len(old) <= Len(new) /\ m <= Len(old)
  BY DEF BoxesOK, Hears
<1> HIDE DEF old, new
<1>2. Len(old) \in Nat /\ Len(new) \in Nat
  BY <1>1
<1>3. m <= Len(new)
  BY <1>1, <1>2
<1> QED
  BY <1>3 DEF new

(* A message that a poll has before it.                                    *)
LEMMA MessageSaid ==
    ASSUME BoxesOK, NEW r, PollOK(r), req[r].kind \in {"poll", "pollA"}, At(r) \in Late, req[r].n <= Read(r).max
    PROVE  /\ req[r].n \in 1..Len(inbox[Of(r)][Read(r).token].said) /\ Message(r) \in Lines
           /\ Read(r).token \in 1..Tokens
<1> DEFINE said == inbox[Of(r)][Read(r).token].said
<1>1. /\ Read(r).token \in 1..Tokens /\ req[r].n \in Nat \ {0} /\ Read(r).max \in Nat /\ Read(r).max <= Len(said)
  BY DEF PollOK
<1>2. said \in Seq(Lines)
  BY <1>1, OfIsBot DEF BoxesOK
<1>3. Message(r) = said[req[r].n]
  BY DEF Message
<1> HIDE DEF said
<1>4. req[r].n \in 1..Len(said)
  BY <1>1, <1>2
<1> QED
  BY <1>1, <1>2, <1>3, <1>4 DEF said

LEMMA MessageStays ==
    ASSUME BoxesOK, Hears, NEW r, PollOK(r), req[r].kind \in {"poll", "pollA"}, At(r) \in Late, req[r].n <= Read(r).max,
           req'[r].kind = req[r].kind, SameMemory(r)
    PROVE  Message(r)' = Message(r)
<1>1. req[r].n \in 1..Len(inbox[Of(r)][Read(r).token].said) /\ Read(r).token \in 1..Tokens
  BY MessageSaid
<1>2. Of(r)' = Of(r) /\ Read(r)' = Read(r) /\ Of(r) \in Bot
  BY OfIsBot DEF Of, SameMemory, Read
<1>3. inbox'[Of(r)][Read(r).token].said[req[r].n] = inbox[Of(r)][Read(r).token].said[req[r].n]
  BY <1>1, <1>2 DEF Hears
<1> QED
  BY <1>2, <1>3 DEF Message, SameMemory

(* A poll that stands still, whatever happens.                             *)
LEMMA PollStays ==
    ASSUME BoxesOK, BoxesOK', Hears, NEW r, PollOK(r), Same(req'[r], req[r])
    PROVE  PollOK(r)'
<1>1. /\ At(r)' = At(r) /\ Read(r)' = Read(r) /\ Of(r)' = Of(r) /\ req'[r].kind = req[r].kind /\ req'[r].n = req[r].n
      /\ SameMemory(r) /\ Of(r) \in Bot
  BY OfIsBot DEF Same, At, Read, Of, SameMemory
<1>2. ASSUME req[r].kind \in {"poll", "pollA"}, At(r) \in Late PROVE Read(r).max <= Len(inbox'[Of(r)][Read(r).token].said)
  <2>1. Read(r).token \in 1..Tokens /\ Read(r).max \in Nat /\ Read(r).max <= Len(inbox[Of(r)][Read(r).token].said)
    BY <1>2 DEF PollOK
  <2> QED
    BY <1>1, <2>1, BoxGrows
<1>3. ASSUME req[r].kind \in {"poll", "pollA"}, At(r) \in {"findProfile", "unlinkOthers", "link"}
      PROVE  Message(r)'.wish \in Mobiles
  <2>1. At(r) \in Late /\ req[r].n <= Read(r).max /\ Message(r).wish \in Mobiles
    BY <1>3 DEF PollOK, Late, DigestPlaces
  <2> QED
    BY <1>1, <1>3, <2>1, MessageStays
<1> QED
  BY <1>1, <1>2, <1>3 DEF PollOK

LEMMA InitPolls == Init => Polls
<1> SUFFICES ASSUME Init PROVE Polls
  OBVIOUS
<1>1. \A r \in Requests : ~Underway(r)
  BY DEF Init, InitRequests, Requests, Underway, NoRequest
<1>2. Tokens \in Nat \ {0} /\ Past \in Nat
  BY BotsAssumption
<1>3. \A b \in Bot : bot[b].token = 1 /\ bot[b].last = Past
  BY DEF Init, InitBots
<1>4. Before \in Lines
  BY BotsAssumption DEF Before, Lines, Words
<1>5. \A i \in 1..Past : Before \in Lines
  BY <1>4
<1>6. [i \in 1..Past |-> Before] \in Seq(Lines)
  BY <1>2, <1>5
<1>7. << >> \in Seq(Lines)
  OBVIOUS
<1>8. \A b \in Bot, t \in 1..Tokens : /\ inbox[b][t].said = IF t = 1 THEN [i \in 1..Past |-> Before] ELSE << >>
                                      /\ inbox[b][t].confirmed = 0
  BY DEF Init, InitBots
<1>9. BoxesOK
  <2>1. \A b \in Bot : bot[b].token \in 1..Tokens /\ bot[b].last \in Nat
    BY <1>2, <1>3
  <2>2. ASSUME NEW b \in Bot, NEW t \in 1..Tokens PROVE inbox[b][t].said \in Seq(Lines) /\ inbox[b][t].confirmed \in Nat
    <3> DEFINE first == [i \in 1..Past |-> Before]
    <3>1. first \in Seq(Lines)
      BY <1>6
    <3>2. inbox[b][t].said = (IF t = 1 THEN first ELSE << >>) /\ inbox[b][t].confirmed = 0
      BY <1>8
    <3> HIDE DEF first
    <3>3. CASE t = 1
      BY <3>1, <3>2, <3>3
    <3>4. CASE t # 1
      BY <1>7, <3>2, <3>4
    <3> QED
      BY <3>3, <3>4
  <2> QED
    BY <2>1, <2>2 DEF BoxesOK
<1> QED
  BY <1>1, <1>9 DEF Polls

LEMMA SayHears == Shapes /\ BoxesOK /\ Say => BoxesOK' /\ Hears
<1> SUFFICES ASSUME Shapes, BoxesOK, Say PROVE BoxesOK' /\ Hears
  OBVIOUS
<1>1. PICK b \in Bot, w \in UNION {Wishes[c] : c \in Bot}, c \in Chats :
         \A d \in Bot, t \in 1..Tokens :
            /\ inbox'[d][t].confirmed = inbox[d][t].confirmed
            /\ inbox'[d][t].said = IF d = b /\ t = bot[b].token THEN Append(inbox[d][t].said, [wish |-> w, chat |-> c])
                                   ELSE inbox[d][t].said
  BY SayAdds
<1>2. w \in Words
  BY DEF Wishes, Words, Bot
<1> DEFINE line == [wish |-> w, chat |-> c]
<1>3. line \in Lines
  BY <1>2 DEF Lines
<1>4. ASSUME NEW d \in Bot, NEW t \in 1..Tokens
      PROVE  /\ inbox'[d][t].said \in Seq(Lines) /\ inbox'[d][t].confirmed \in Nat
             /\ Len(inbox[d][t].said) <= Len(inbox'[d][t].said)
             /\ \A i \in 1..Len(inbox[d][t].said) : inbox'[d][t].said[i] = inbox[d][t].said[i]
  <2> DEFINE old == inbox[d][t].said
             new == inbox'[d][t].said
  <2>1. old \in Seq(Lines) /\ (new = old \/ new = Append(old, line)) /\ inbox'[d][t].confirmed \in Nat
    BY <1>1 DEF BoxesOK
  <2> HIDE DEF line, old, new
  <2>2. new \in Seq(Lines) /\ Len(old) <= Len(new) /\ \A i \in 1..Len(old) : new[i] = old[i]
    BY <1>3, <2>1
  <2> QED
    BY <2>1, <2>2 DEF old, new
<1>5. UNCHANGED bot
  BY DEF Say
<1> QED
  BY <1>4, <1>5 DEF BoxesOK, Hears

(* A step of a request.                                                    *)
LEMMA ServeHears ==
    ASSUME Core, BoxesOK, NEW r \in Requests, PollOK(r), Serve(r)
    PROVE  BoxesOK' /\ Hears
<1>0. ReqInv /\ Shapes /\ Underway(r)
  BY ActionOf DEF Core
<1>1. PICK what : Served(r, what) /\ Rely(what)
  BY <1>0, ServeTells DEF Told
<1>2. \A b \in Bot, t \in 1..Tokens : inbox'[b][t].said = inbox[b][t].said
  BY <1>1 DEF Rely
<1>3. Hears
  <2> SUFFICES ASSUME NEW b \in Bot, NEW t \in 1..Tokens
               PROVE  /\ Len(inbox[b][t].said) <= Len(inbox'[b][t].said)
                      /\ \A i \in 1..Len(inbox[b][t].said) : inbox'[b][t].said[i] = inbox[b][t].said[i]
    BY DEF Hears
  <2>1. inbox'[b][t].said = inbox[b][t].said /\ Len(inbox[b][t].said) \in Nat
    BY <1>2 DEF BoxesOK
  <2> QED
    BY <2>1
<1>4. \A b \in Bot : bot'[b].token \in 1..Tokens /\ bot'[b].last \in Nat
  <2>1. CASE bot' = bot
    BY <2>1 DEF BoxesOK
  <2>2. CASE ReadConfig(r)
    BY <2>2, <1>0, BotRows DEF BoxesOK
  <2>3. CASE SaveOffset(r)
    <3>1. At(r) = "saveOffset" /\ req[r].kind \in {"poll", "pollA"}
      BY <1>0, <2>3, KindOf DEF SaveOffset, Step, At, PollPlaces
    <3>2. Read(r).max \in Nat
      BY <3>1 DEF PollOK, Late
    <3> QED
      BY <1>0, <2>3, <3>2, BotRows DEF BoxesOK
  <2>4. CASE WriteBot(r)
    <3>1. At(r) = "writeBot" /\ req[r].kind \in {"save", "saveA"}
      BY <1>0, <2>4, KindOf DEF WriteBot, Step, At
    <3>2. Read(r).token \in 1..Tokens
      BY <3>1 DEF PollOK
    <3>3. CASE req[r].n = 1
      <4>1. /\ bot'[Of(r)].token = bot[Of(r)].token + 1 /\ bot[Of(r)].token < Tokens /\ bot'[Of(r)].last = Unset
            /\ \A c \in Bot : c # Of(r) => bot'[c] = bot[c]
        BY <1>0, <2>4, <3>3, BotRows
      <4>2. Tokens \in Nat /\ bot[Of(r)].token \in 1..Tokens
        BY BotsAssumption, OfIsBot DEF BoxesOK
      <4>3. bot'[Of(r)].token \in 1..Tokens /\ bot'[Of(r)].last \in Nat
        BY <4>1, <4>2 DEF Unset
      <4> QED
        BY <4>1, <4>3 DEF BoxesOK
    <3>4. CASE req[r].n # 1
      BY <1>0, <2>4, <3>2, <3>4, BotRows DEF BoxesOK
    <3> QED
      BY <3>3, <3>4
  <2> QED
    BY <2>1, <2>2, <2>3, <2>4, BotWriters
<1>5. \A b \in Bot, t \in 1..Tokens : inbox'[b][t].said \in Seq(Lines) /\ inbox'[b][t].confirmed \in Nat
  <2> SUFFICES ASSUME NEW b \in Bot, NEW t \in 1..Tokens PROVE inbox'[b][t].confirmed \in Nat
    BY <1>2 DEF BoxesOK
  <2>1. CASE inbox' = inbox
    BY <2>1 DEF BoxesOK
  <2>2. CASE GetUpdates(r)
    <3>1. At(r) = "getUpdates" /\ req[r].kind \in {"poll", "pollA"}
      BY <1>0, <2>2, KindOf DEF GetUpdates, Step, At, PollPlaces
    <3>2. Read(r).last \in Nat
      BY <3>1 DEF PollOK
    <3>3. inbox[b][t].confirmed \in Nat
      BY DEF BoxesOK
    <3> QED
      BY <1>0, <2>2, <3>2, <3>3, BoxRows DEF Larger
  <2> QED
    BY <2>1, <2>2, BotWriters
<1> QED
  BY <1>3, <1>4, <1>5 DEF BoxesOK

LEMMA PollGoes ==
    ASSUME Core, BoxesOK, NEW r \in Requests, PollOK(r), Serve(r), Underway(r)', req[r].kind \in {"poll", "pollA"}
    PROVE  PollOK(r)'
<1>0. BoxesOK' /\ Hears /\ Of(r) \in Bot
  BY ServeHears, OfIsBot
<1>1. Of(r)' = Of(r) /\ req'[r].kind = req[r].kind
  BY PollMoves
<1> DEFINE v == Read(r)
           w == req'[r].saw
           k == req[r].kind
           t == At(r)'
           said == inbox[Of(r)][v.token].said
<1>2. CASE At(r) = "claimPoll"
  <2>1. t = "readToken"
    BY <1>2, PollMoves
  <2> QED
    BY <1>1, <2>1 DEF PollOK, Late, DigestPlaces
<1>3. CASE At(r) = "readToken"
  <2>1. t = "readConfig" /\ w = [token |-> bot[Of(r)].token, last |-> Unset, max |-> Unset]
    BY <1>3, PollMoves
  <2>2. ReadShape(w) /\ w.token \in 1..Tokens
    BY <1>0, <2>1 DEF ReadShape, BoxesOK
  <2> QED
    BY <1>1, <2>1, <2>2 DEF PollOK, Late, DigestPlaces, Read
<1>4. CASE At(r) = "readConfig"
  <2>1. t = "getUpdates" /\ w = [v EXCEPT !.last = bot[Of(r)].last]
    BY <1>4, PollMoves
  <2>2. ReadShape(v) /\ v.token \in 1..Tokens /\ bot[Of(r)].last \in Nat
    BY <1>0, <1>4 DEF PollOK, BoxesOK
  <2>3. ReadShape(w) /\ w.token = v.token /\ w.last = bot[Of(r)].last
    BY <2>1, <2>2 DEF ReadShape
  <2> QED
    BY <1>1, <2>1, <2>2, <2>3 DEF PollOK, Late, DigestPlaces, Read
<1>5. CASE At(r) = "getUpdates"
  <2> DEFINE after == Larger(inbox[Of(r)][v.token].confirmed, v.last)
  <2>1. /\ w = [v EXCEPT !.max = Len(said)] /\ req'[r].n = after + 1
        /\ t \in {"saveOffset", "handle", "spawn"}
    BY <1>5, PollMoves
  <2>2. ReadShape(v) /\ v.token \in 1..Tokens /\ v.last \in Nat
    BY <1>5 DEF PollOK
  <2>3. ReadShape(w) /\ w.token = v.token /\ w.max = Len(said)
    BY <2>1, <2>2 DEF ReadShape
  <2>4. said \in Seq(Lines) /\ inbox[Of(r)][v.token].confirmed \in Nat
    BY <1>0, <2>2 DEF BoxesOK
  <2>5. after \in Nat
    BY <2>2, <2>4 DEF Larger
  <2> HIDE DEF after
  <2>6. req'[r].n \in Nat \ {0} /\ w.max \in Nat
    BY <2>1, <2>3, <2>4, <2>5
  <2>7. w.max <= Len(inbox'[Of(r)][w.token].said)
    BY <1>0, <2>2, <2>3 DEF Hears
  <2> HIDE DEF said
  <2> QED
    BY <1>1, <2>1, <2>2, <2>3, <2>6, <2>7 DEF PollOK, Late, DigestPlaces, Read
<1>6. CASE At(r) \in {"handle", "findProfile", "unlinkOthers", "link", "unlinkChat", "spawn"}
  <2>1. SameMemory(r) /\ w = v /\ req'[r].n = req[r].n
    BY <1>6, PollMoves DEF SameMemory, Read
  <2>2. /\ t \in {"saveOffset", "findProfile", "unlinkOthers", "link", "unlinkChat", "reply"}
        /\ t = "unlinkOthers" => At(r) = "findProfile"
        /\ t = "link" => At(r) = "unlinkOthers"
        /\ t = "findProfile" => At(r) = "handle"
        /\ At(r) = "handle" => t = IF req[r].n > v.max THEN "saveOffset" ELSE Head(Answers(Message(r).wish))
        /\ At(r) = "spawn" => t = "saveOffset"
    <3>1. Head(Answers(Message(r).wish)) \in {"findProfile", "unlinkChat", "reply"}
      BY PathsOfUpdates
    <3> QED
      BY <1>6, <3>1, PollMoves
  <2>3. /\ ReadShape(v) /\ v.token \in 1..Tokens /\ req[r].n \in Nat \ {0} /\ v.max \in Nat /\ v.max <= Len(said)
        /\ At(r) \notin {"handle", "spawn"} => req[r].n <= v.max
        /\ At(r) \in {"findProfile", "unlinkOthers"} => Message(r).wish \in Mobiles
    BY <1>6 DEF PollOK, Late, DigestPlaces
  <2>4. v.max <= Len(inbox'[Of(r)][v.token].said)
    BY <1>0, <2>3, BoxGrows
  <2>5. t # "saveOffset" => req[r].n <= v.max
    <3>1. ~(req[r].n > v.max) => req[r].n <= v.max
      BY <2>3
    <3> QED
      BY <2>2, <2>3, <3>1
  <2>6. t \in {"findProfile", "unlinkOthers", "link"} => Message(r).wish \in Mobiles
    <3>1. Head(Answers(Message(r).wish)) = "findProfile" => Message(r).wish \in Mobiles
      BY DEF Answers
    <3> QED
      BY <2>2, <2>3, <3>1
  <2>7. t # "saveOffset" => Message(r)' = Message(r)
    BY <1>0, <1>1, <1>6, <2>1, <2>5, MessageStays DEF Late, DigestPlaces
  <2> HIDE DEF said
  <2> QED
    BY <1>1, <2>1, <2>2, <2>3, <2>4, <2>5, <2>6, <2>7 DEF PollOK, Late, DigestPlaces, Read
<1>7. CASE At(r) = "reply"
  <2>1. t = "handle" /\ req'[r].n = req[r].n + 1 /\ w = v
    BY <1>7, PollMoves DEF Read
  <2>2. ReadShape(v) /\ v.token \in 1..Tokens /\ req[r].n \in Nat \ {0} /\ v.max \in Nat /\ v.max <= Len(said)
    BY <1>7 DEF PollOK, Late, DigestPlaces
  <2>4. v.max <= Len(inbox'[Of(r)][v.token].said)
    BY <1>0, <2>2, BoxGrows
  <2>5. req'[r].n \in Nat \ {0}
    BY <2>1, <2>2
  <2> HIDE DEF said
  <2> QED
    BY <1>1, <2>1, <2>2, <2>4, <2>5 DEF PollOK, Late, DigestPlaces, Read
<1> QED
  BY <1>2, <1>3, <1>4, <1>5, <1>6, <1>7, PollMoves

(* And that of a form.                                                     *)
LEMMA FormMoves ==
    ASSUME Core, NEW r \in Requests, Serve(r), req[r].kind \in {"save", "saveA"}, Underway(r)'
    PROVE  /\ req'[r].kind = req[r].kind
           /\ At(r)' = "writeBot" => req'[r].saw.token = bot[Of(r)].token
<1>0. ReqInv /\ Shapes /\ Underway(r)
  BY ActionOf DEF Core
<1>1. req'[r].kind = req[r].kind
  BY <1>0, ServeTells DEF Told, Served
<1>2. At(r) \in {"readBot", "writeBot", "forgetSkip"}
  <2>1. Final(req[r].kind, At(r)) \/ Way(req[r].kind, At(r), Head(Tail(req[r].todo)))
    BY <1>0, AtWork, PathTail DEF At
  <2> QED
    BY <2>1 DEF Way, Final
<1> DEFINE v == [token |-> bot[Of(r)].token, on |-> bot[Of(r)].on, last |-> Unset]
<1>3. CASE At(r) = "readBot"
  <2>1. Saw(r, v) /\ v.token = bot[Of(r)].token
    BY <1>3, ActionOf DEF ReadBot, Row
  <2> HIDE DEF v
  <2>2. Advanced(r, [req[r] EXCEPT !.saw = v])
    BY <1>0, <1>3, <2>1, OnSaw DEF Plain
  <2>3. req'[r].saw = v
    BY <1>0, <2>2, AtWork DEF Advanced, Becomes, Shape, Fields
  <2> QED
    BY <1>1, <2>1, <2>3
<1>4. CASE At(r) = "writeBot"
  <2>1. \E what : Wrote(r, what)
    BY <1>4, ActionOf DEF WriteBot
  <2>2. Advanced(r, req[r])
    BY <1>0, <1>4, <2>1, OnWrote DEF Plain
  <2>3. At(r)' # "writeBot"
    BY <1>4, <2>2 DEF Advanced, Way
  <2> QED
    BY <1>1, <2>3
<1>5. CASE At(r) = "forgetSkip"
  BY <1>0, <1>5, ActionOf, OnForgetSkip
<1> QED
  BY <1>2, <1>3, <1>4, <1>5

----------------------------------------------------------------------------
(* Whatever happens: one request begins, moves, fails; all are cut off; or *)
(* none moves.                                                             *)
Asked(r) ==
    /\ Ask(r) /\ Others(r, {}) /\ Sound(req'[r]) /\ KeepsFlags(r) /\ ~Underway(r) /\ Underway(r)' /\ At(r)' \in FirstSteps
    /\ UNCHANGED <<user, mobileLogin, seen, bot, inbox>>
Moved(r) == Serve(r) /\ Underway(r) /\ \E what : Served(r, what) /\ Rely(what)
Failed(r) ==
    /\ StatementFails(r) /\ Served(r, {}) /\ Underway(r) /\ ~Underway(r)'
    /\ UNCHANGED <<user, mobileLogin, seen, bot, inbox>>
AllCut == Restart /\ held' = {} /\ \A q \in Requests : ~Underway(q)' /\ req'[q].holds = {}
Background ==
    \/ Age /\ UNCHANGED <<botVars, backupVars, up>>
    \/ (Say \/ TaskStep \/ TaskFails) /\ UNCHANGED <<backupVars, up>>
    \/ UNCHANGED vars
Aside == Background /\ UNCHANGED <<req, held>>

LEMMA Turnover ==
    ASSUME Core, [Next]_vars
    PROVE  /\ Requests' = Requests
           /\ (\E r \in Requests : Asked(r) \/ Moved(r) \/ Failed(r)) \/ AllCut \/ Aside
<1>1. ReqInv /\ Shapes
  BY DEF Core
<1>2. ASSUME NEW r \in Requests, Ask(r) PROVE Asked(r) /\ Requests' = Requests
  <2>1. Begun(r) /\ req[r].at = "idle" /\ UNCHANGED <<user, mobileLogin, seen, bot, inbox>>
    BY <1>2, AskBegins
  <2>2. PICK kind, script, by, of, to, n : Starts(kind, script) /\ Begin(r, kind, script, by, of, to, n)
    BY <2>1 DEF Begun
  <2>3. Others(r, {}) /\ Sound(req'[r]) /\ KeepsFlags(r) /\ Underway(r)' /\ req'[r].todo = script
    BY <1>1, <2>1, <2>2, StepBegins DEF Starts
  <2>4. At(r)' \in FirstSteps
    BY <2>2, <2>3 DEF At, Starts
  <2>5. Requests' = Requests
    BY <1>1, <2>3, OthersHold
  <2> QED
    BY <1>2, <2>1, <2>3, <2>4, <2>5 DEF Asked, Underway
<1>3. ASSUME NEW r \in Requests, Serve(r) PROVE Moved(r) /\ Requests' = Requests
  <2>1. Told(r) /\ Underway(r)
    BY <1>1, <1>3, ServeTells, ActionOf
  <2>2. Requests' = Requests
    BY <1>1, <2>1, OthersHold DEF Told, Served
  <2> QED
    BY <1>3, <2>1, <2>2 DEF Moved, Told
<1>4. ASSUME NEW r \in Requests, StatementFails(r) PROVE Failed(r) /\ Requests' = Requests
  <2>1. Served(r, {}) /\ ~Underway(r)' /\ Underway(r) /\ UNCHANGED <<user, mobileLogin, seen, bot, inbox>>
    BY <1>1, <1>4, OnOver DEF StatementFails, memberVars, signInVars, botVars
  <2>2. Requests' = Requests
    BY <1>1, <2>1, OthersHold DEF Served
  <2> QED
    BY <1>4, <2>1, <2>2 DEF Failed
<1>5. ASSUME Restart PROVE AllCut /\ Requests' = Requests
  <2>1. req' = CutOff /\ held' = {}
    BY <1>5 DEF Restart
  <2>2. Requests' = Requests
    BY <2>1 DEF CutOff, Requests
  <2> QED
    BY <1>1, <1>5, <2>1, <2>2, OnRestart DEF AllCut
<1>6. ASSUME Background PROVE Aside /\ Requests' = Requests
  <2>1. UNCHANGED <<req, held>>
    BY <1>6 DEF Background, Age, Say, TaskStep, TaskFails, vars, reqVars
  <2> QED
    BY <1>6, <2>1 DEF Aside, Requests
<1> QED
  BY <1>2, <1>3, <1>4, <1>5, <1>6 DEF Next, Background

LEMMA AsideBoxes == Core /\ BoxesOK /\ Aside => BoxesOK' /\ Hears /\ UNCHANGED <<bot, seen>>
<1> SUFFICES ASSUME Core, BoxesOK, Aside PROVE BoxesOK' /\ Hears /\ UNCHANGED <<bot, seen>>
  OBVIOUS
<1>1. UNCHANGED <<bot, seen>>
  BY DEF Aside, Background, Say, TaskStep, TaskFails, vars, botVars
<1>2. CASE Say
  BY <1>1, <1>2, SayHears DEF Core
<1>3. CASE UNCHANGED inbox
  <2>1. BoxesOK'
    BY <1>1, <1>3 DEF BoxesOK
  <2>2. Hears
    <3> SUFFICES ASSUME NEW b \in Bot, NEW t \in 1..Tokens PROVE Len(inbox[b][t].said) <= Len(inbox[b][t].said)
      BY <1>3 DEF Hears
    <3>1. Len(inbox[b][t].said) \in Nat
      BY DEF BoxesOK
    <3> QED
      BY <3>1
  <2> QED
    BY <1>1, <2>1, <2>2
<1>4. Say \/ UNCHANGED inbox
  BY DEF Aside, Background, TaskStep, TaskFails, vars, botVars
<1> QED
  BY <1>2, <1>3, <1>4

LEMMA SameBoxes ==
    ASSUME BoxesOK, UNCHANGED <<bot, inbox>>
    PROVE  BoxesOK' /\ Hears
<1>1. BoxesOK'
  BY DEF BoxesOK
<1>2. Hears
  <2> SUFFICES ASSUME NEW b \in Bot, NEW t \in 1..Tokens PROVE Len(inbox[b][t].said) <= Len(inbox[b][t].said)
    BY DEF Hears
  <2>1. Len(inbox[b][t].said) \in Nat
    BY DEF BoxesOK
  <2> QED
    BY <2>1
<1> QED
  BY <1>1, <1>2

LEMMA NextPolls == Core /\ Polls /\ [Next]_vars => Polls' /\ Hears
<1> SUFFICES ASSUME Core, Polls, [Next]_vars PROVE Polls' /\ Hears
  OBVIOUS
<1>0. BoxesOK /\ Requests' = Requests /\ ReqInv
  BY Turnover DEF Polls, Core
<1>1. ASSUME NEW r \in Requests, Others(r, {}) \/ (\E what : Served(r, what)), BoxesOK', Hears,
             Underway(r)' => PollOK(r)'
      PROVE  Polls' /\ Hears
  <2>1. \A q \in Requests \ {r} : Same(req'[q], req[q])
    BY <1>1 DEF Served, Others
  <2>2. ASSUME NEW q \in Requests \ {r}, Underway(q)' PROVE PollOK(q)'
    BY <1>0, <1>1, <2>1, <2>2, PollStays DEF Polls, Underway, Same
  <2> QED
    BY <1>0, <1>1, <2>2 DEF Polls
<1>2. ASSUME NEW r \in Requests, Asked(r) PROVE Polls' /\ Hears
  <2>1. BoxesOK' /\ Hears
    BY <1>0, <1>2, SameBoxes DEF Asked
  <2>2. PollOK(r)'
    BY <1>2 DEF Asked, FirstSteps, PollOK, Late, DigestPlaces
  <2> QED
    BY <1>1, <1>2, <2>1, <2>2 DEF Asked
<1>3. ASSUME NEW r \in Requests, Moved(r) PROVE Polls' /\ Hears
  <2>1. Serve(r) /\ PollOK(r) /\ \E what : Served(r, what)
    BY <1>3 DEF Moved, Polls
  <2>2. BoxesOK' /\ Hears
    BY <1>0, <2>1, ServeHears
  <2>3. ASSUME Underway(r)' PROVE PollOK(r)'
    <3>1. CASE req[r].kind \in {"poll", "pollA"}
      BY <1>0, <2>1, <2>3, <3>1, PollGoes
    <3>2. CASE req[r].kind \in {"save", "saveA"}
      <4>1. At(r)' = "writeBot" => req'[r].saw.token = bot[Of(r)].token
        BY <2>1, <2>3, <3>2, FormMoves
      <4>2. req'[r].kind = req[r].kind /\ bot[Of(r)].token \in 1..Tokens
        BY <1>0, <2>1, <2>3, <3>2, FormMoves, OfIsBot DEF BoxesOK
      <4> QED
        BY <3>2, <4>1, <4>2 DEF PollOK, Read
    <3>3. CASE req[r].kind \notin {"poll", "pollA", "save", "saveA"}
      <4>1. req'[r].kind = req[r].kind
        BY <2>1, <2>3 DEF Served
      <4> QED
        BY <3>3, <4>1 DEF PollOK
    <3> QED
      BY <3>1, <3>2, <3>3
  <2> QED
    BY <1>1, <2>1, <2>2, <2>3
<1>4. ASSUME NEW r \in Requests, Failed(r) PROVE Polls' /\ Hears
  <2>1. BoxesOK' /\ Hears
    BY <1>0, <1>4, SameBoxes DEF Failed
  <2> QED
    BY <1>1, <1>4, <2>1 DEF Failed
<1>5. CASE AllCut
  <2>1. BoxesOK' /\ Hears
    BY <1>0, <1>5, SameBoxes DEF AllCut, Restart
  <2> QED
    BY <1>0, <1>5, <2>1 DEF Polls, AllCut
<1>6. CASE Aside
  <2>1. BoxesOK' /\ Hears
    BY <1>0, <1>6, AsideBoxes DEF Core
  <2>2. \A q \in Requests : Same(req'[q], req[q])
    BY <1>6 DEF Aside, Same
  <2>3. ASSUME NEW q \in Requests, Underway(q)' PROVE PollOK(q)'
    BY <1>0, <2>1, <2>2, <2>3, PollStays DEF Polls, Underway, Same
  <2> QED
    BY <1>0, <2>1, <2>3 DEF Polls
<1> QED
  BY <1>2, <1>3, <1>4, <1>5, <1>6, Turnover

LEMMA PollsHold == Spec => []Polls
<1> QED
  BY InitPolls, NextPolls, RequestsKeepToTheirScripts, PTL DEF Spec

----------------------------------------------------------------------------
(* Up to where an offset, what Telegram has confirmed and a poll have come *)
(* everything was dealt with, unless the token is a mixed one.             *)
Update(b, t, i) == [bot |-> b, token |-> t, id |-> i]
Dealt(b, t, n) == t \in bot[b].mixed \/ \A i \in 1..n : Update(b, t, i) \in seen
HeardOK(r) ==
    LET b == Of(r)
        t == Read(r).token
    IN
    req[r].kind \in {"poll", "pollA"} =>
        /\ At(r) = "getUpdates" => Dealt(b, t, Read(r).last)
        /\ At(r) \in DigestPlaces \cup {"spawn"} => Dealt(b, t, req[r].n - 1)
        /\ At(r) = "saveOffset" => Dealt(b, t, Read(r).max)
Offsets ==
    /\ \A b \in Bot : Dealt(b, bot[b].token, bot[b].last)
    /\ \A b \in Bot, t \in 1..Tokens : Dealt(b, t, inbox[b][t].confirmed)
    /\ \A r \in Requests : Underway(r) => HeardOK(r)

Grows == seen \subseteq seen' /\ \A b \in Bot : bot[b].mixed \subseteq bot'[b].mixed
LEMMA DealtStays == ASSUME Grows, NEW b \in Bot, NEW t, NEW n, Dealt(b, t, n) PROVE Dealt(b, t, n)'
BY DEF Grows, Dealt

LEMMA HistoriesGrow == Core /\ [Next]_vars => Grows
<1> SUFFICES ASSUME Core, [Next]_vars PROVE Grows
  OBVIOUS
<1>1. \A r : Moved(r) => Grows
  BY DEF Moved, Rely, Grows
<1>2. (\E r \in Requests : Asked(r) \/ Failed(r)) => Grows
  BY DEF Asked, Failed, Grows
<1>3. AllCut => Grows
  BY DEF AllCut, Restart, Grows
<1>4. Aside => Grows
  <2>1. Aside => UNCHANGED <<bot, seen>>
    BY DEF Aside, Background, Age, Say, TaskStep, TaskFails, vars, botVars
  <2> QED
    BY <2>1 DEF Grows
<1> QED
  BY <1>1, <1>2, <1>3, <1>4, Turnover

(* What an offset becomes, for the token it was for before and for that it *)
(* is for now.                                                             *)
LEMMA OffsetMoves ==
    ASSUME Core, Polls, Offsets, Grows, NEW r \in Requests, Serve(r), NEW b \in Bot
    PROVE  /\ bot[b].token \in bot'[b].mixed \/ \A i \in 1..bot'[b].last : Update(b, bot[b].token, i) \in seen
           /\ Dealt(b, bot[b].token, bot[b].last)' /\ (bot'[b].token \in bot'[b].mixed \/ \A i \in 1..bot'[b].last : Update(b, bot'[b].token, i) \in seen')
<1>0. ReqInv /\ Shapes /\ Underway(r) /\ HeardOK(r)
  BY ActionOf DEF Core, Offsets
<1>1. /\ bot[b].token \in bot[b].mixed \/ \A i \in 1..bot[b].last : Update(b, bot[b].token, i) \in seen
      /\ bot[b].mixed \subseteq bot'[b].mixed /\ seen \subseteq seen'
  BY DEF Offsets, Dealt, Grows
<1> DEFINE Old == bot[b].token \in bot'[b].mixed \/ \A i \in 1..bot'[b].last : Update(b, bot[b].token, i) \in seen
           New == bot'[b].token \in bot'[b].mixed \/ \A i \in 1..bot'[b].last : Update(b, bot'[b].token, i) \in seen'
<1>2. CASE bot'[b].token = bot[b].token /\ bot'[b].last = bot[b].last
  <2>1. Old /\ New
    BY <1>1, <1>2
  <2> QED
    BY <2>1 DEF Dealt
<1>3. CASE SaveOffset(r) /\ b = Of(r)
  <2>1. At(r) = "saveOffset" /\ req[r].kind \in {"poll", "pollA"}
    BY <1>0, <1>3, KindOf DEF SaveOffset, Step, At, PollPlaces
  <2>2. Dealt(b, Read(r).token, Read(r).max)
    BY <1>0, <1>3, <2>1 DEF HeardOK
  <2>3. /\ bot'[b].token = bot[b].token /\ bot'[b].last = Read(r).max
        /\ bot[b].token # Read(r).token => bot[b].token \in bot'[b].mixed
    BY <1>0, <1>3, BotRows
  <2>4. Old /\ New
    BY <1>1, <2>2, <2>3 DEF Dealt
  <2> QED
    BY <2>4 DEF Dealt
<1>4. CASE WriteBot(r) /\ b = Of(r)
  <2>1. CASE req[r].n = 1
    <3>1. bot'[b].last = 0
      BY <1>0, <1>4, <2>1, BotRows DEF Unset
    <3>2. \A i \in 1..bot'[b].last : FALSE
      BY <3>1
    <3> QED
      BY <3>2 DEF Dealt
  <2>2. CASE req[r].n # 1
    <3>1. /\ bot'[b].token = Read(r).token /\ bot'[b].last = bot[b].last
          /\ bot[b].token # Read(r).token => bot'[b].token \in bot'[b].mixed
      BY <1>0, <1>4, <2>2, BotRows
    <3>2. Old /\ New
      BY <1>1, <3>1
    <3> QED
      BY <3>2 DEF Dealt
  <2> QED
    BY <2>1, <2>2
<1>5. \/ bot'[b].token = bot[b].token /\ bot'[b].last = bot[b].last
      \/ SaveOffset(r) /\ b = Of(r)
      \/ WriteBot(r) /\ b = Of(r)
  BY <1>0, BotWriters, BotRows
<1> QED
  BY <1>2, <1>3, <1>4, <1>5

(* The same for what a poll has come to.                                   *)
LEMMA HeardGoes ==
    ASSUME Core, Polls, Offsets, Grows, NEW r \in Requests, Serve(r), Underway(r)'
    PROVE  HeardOK(r)'
<1>0. ReqInv /\ Shapes /\ Underway(r) /\ HeardOK(r) /\ PollOK(r) /\ BoxesOK /\ Of(r) \in Bot
  BY ActionOf, OfIsBot DEF Core, Offsets, Polls
<1>1. req'[r].kind = req[r].kind
  BY <1>0, ServeTells DEF Told, Served
<1> DEFINE b == Of(r)
           v == Read(r)
           w == req'[r].saw
           n == req[r].n
           t == At(r)'
           Has(m) == v.token \in bot'[b].mixed \/ \A i \in 1..m : Update(b, v.token, i) \in seen'
<1>2. ASSUME req[r].kind \in {"poll", "pollA"}, w.token = v.token,
             t = "getUpdates" => Has(w.last), t \in DigestPlaces \cup {"spawn"} => Has(req'[r].n - 1),
             t = "saveOffset" => Has(w.max)
      PROVE  HeardOK(r)'
  <2>1. Of(r)' = b
    BY <1>1 DEF Of
  <2> QED
    BY <1>2, <2>1 DEF HeardOK, Dealt, Read
<1>3. \A m : Dealt(b, v.token, m) => Has(m)
  BY <1>0 DEF Dealt, Grows
<1>4. CASE req[r].kind \notin {"poll", "pollA"}
  BY <1>1, <1>4 DEF HeardOK
<1>5. ASSUME req[r].kind \in {"poll", "pollA"} PROVE HeardOK(r)'
  <2>1. CASE At(r) \in {"claimPoll", "readToken"}
    <3>1. t \in {"readToken", "readConfig"}
      BY <1>5, <2>1, PollMoves
    <3> QED
      BY <3>1 DEF HeardOK, DigestPlaces
  <2>2. CASE At(r) = "readConfig"
    <3>1. t = "getUpdates" /\ w = [v EXCEPT !.last = bot[b].last] /\ ReadShape(v)
      BY <1>0, <1>5, <2>2, PollMoves DEF PollOK
    <3>2. w.token = v.token /\ w.last = bot[b].last
      BY <3>1 DEF ReadShape
    <3>3. v.token # bot[b].token => v.token \in bot'[b].mixed
      <4>1. ReadConfig(r)
        BY <2>2, ActionOf
      <4> QED
        BY <1>0, <4>1, BotRows
    <3>4. Dealt(b, bot[b].token, bot[b].last)
      BY <1>0 DEF Offsets
    <3>5. Has(w.last)
      BY <1>3, <3>2, <3>3, <3>4
    <3> QED
      BY <1>2, <1>5, <3>1, <3>2, <3>5 DEF DigestPlaces
  <2>3. CASE At(r) = "getUpdates"
    <3> DEFINE after == Larger(inbox[b][v.token].confirmed, v.last)
               max == Len(inbox[b][v.token].said)
    <3>1. /\ w = [v EXCEPT !.max = max] /\ req'[r].n = after + 1
          /\ \/ t = "saveOffset" /\ seen' = seen \cup Heard(r, max)
             \/ t \in {"handle", "spawn"}
      BY <1>5, <2>3, PollMoves
    <3>2. ReadShape(v) /\ v.token \in 1..Tokens /\ v.last \in Nat
      BY <1>0, <1>5, <2>3 DEF PollOK
    <3>3. w.token = v.token /\ w.max = max
      BY <3>1, <3>2 DEF ReadShape
    <3>4. Dealt(b, v.token, inbox[b][v.token].confirmed) /\ Dealt(b, v.token, v.last)
      BY <1>0, <1>5, <2>3, <3>2 DEF Offsets, HeardOK
    <3>5. Has(after)
      BY <1>3, <3>4 DEF Larger
    <3>6. req'[r].n - 1 = after
      <4>1. after \in Int
        BY <1>0, <3>2 DEF BoxesOK, Larger
      <4> HIDE DEF after
      <4> QED
        BY <3>1, <4>1
    <3>7. t = "saveOffset" => Has(max)
      BY <3>1 DEF Heard, Update
    <3> HIDE DEF after, max, Has
    <3>8. t \in DigestPlaces \cup {"spawn"} => Has(req'[r].n - 1)
      BY <3>5, <3>6
    <3>9. t # "getUpdates"
      BY <3>1
    <3> QED
      BY <1>2, <1>5, <3>3, <3>7, <3>8, <3>9
  <2>4. CASE At(r) = "handle"
    <3>1. req'[r].n = n /\ w = v /\ t = IF n > v.max THEN "saveOffset" ELSE Head(Answers(Message(r).wish))
      BY <1>5, <2>4, PollMoves DEF SameMemory, Read
    <3>2. Has(n - 1) /\ n \in Nat \ {0} /\ v.max \in Nat
      BY <1>0, <1>3, <1>5, <2>4 DEF HeardOK, DigestPlaces, PollOK, Late
    <3>3. n > v.max => Has(v.max)
      BY <3>2
    <3>4. Head(Answers(Message(r).wish)) \in {"findProfile", "unlinkChat", "reply"}
      BY PathsOfUpdates
    <3>5. t # "getUpdates" /\ (t = "saveOffset" => n > v.max)
      BY <3>1, <3>4
    <3> HIDE DEF Has
    <3> QED
      BY <1>2, <1>5, <3>1, <3>2, <3>3, <3>5
  <2>5. CASE At(r) \in {"findProfile", "unlinkOthers", "link", "unlinkChat"}
    <3>1. req'[r].n = n /\ w = v /\ t \in {"reply", "unlinkOthers", "link"}
      BY <1>5, <2>5, PollMoves DEF SameMemory, Read
    <3>2. Has(n - 1)
      BY <1>0, <1>3, <1>5, <2>5 DEF HeardOK, DigestPlaces
    <3> HIDE DEF Has
    <3> QED
      BY <1>2, <1>5, <3>1, <3>2
  <2>6. CASE At(r) = "reply"
    <3>1. t = "handle" /\ req'[r].n = n + 1 /\ w = v
      BY <1>5, <2>6, PollMoves DEF Read
    <3>2. Has(n - 1) /\ n \in Nat \ {0}
      BY <1>0, <1>3, <1>5, <2>6 DEF HeardOK, DigestPlaces, PollOK, Late
    <3>3. Update(b, v.token, n) \in seen'
      <4>1. Reply(r)
        BY <2>6, ActionOf
      <4> QED
        BY <4>1 DEF Reply, Update
    <3>4. req'[r].n - 1 = n
      BY <3>1, <3>2
    <3>5. Has(n)
      BY <3>2, <3>3
    <3> HIDE DEF Has
    <3> QED
      BY <1>2, <1>5, <3>1, <3>4, <3>5
  <2>7. CASE At(r) = "spawn"
    <3>1. t = "saveOffset" /\ w = v
      BY <1>5, <2>7, PollMoves DEF SameMemory, Read
    <3>2. Has(v.max)
      <4>1. Spawn(r)
        BY <2>7, ActionOf
      <4> QED
        BY <4>1 DEF Spawn, Heard, Update
    <3> HIDE DEF Has
    <3> QED
      BY <1>2, <1>5, <3>1, <3>2 DEF DigestPlaces
  <2> QED
    BY <1>5, <2>1, <2>2, <2>3, <2>4, <2>5, <2>6, <2>7, PollMoves
<1> QED
  BY <1>4, <1>5

LEMMA InitOffsets == Init => Offsets
<1> SUFFICES ASSUME Init PROVE Offsets
  OBVIOUS
<1>1. \A r \in Requests : ~Underway(r)
  BY DEF Init, InitRequests, Requests, Underway, NoRequest
<1>2. \A b \in Bot : bot[b].token = 1 /\ bot[b].last = Past
  BY DEF Init, InitBots
<1>3. seen = [bot : Bot, token : {1}, id : 1..Past]
  BY DEF Init, InitBots
<1>4. \A b \in Bot : Dealt(b, bot[b].token, bot[b].last)
  BY <1>2, <1>3 DEF Dealt, Update
<1>5. \A b \in Bot, t \in 1..Tokens : inbox[b][t].confirmed = 0
  BY DEF Init, InitBots
<1>6. \A b \in Bot, t \in 1..Tokens : Dealt(b, t, inbox[b][t].confirmed)
  BY <1>5 DEF Dealt
<1> QED
  BY <1>1, <1>4, <1>6 DEF Offsets

(* Telegram confirms no more than what the poll was counting from.         *)
LEMMA ConfirmedGoes ==
    ASSUME Core, Polls, Offsets, Grows, NEW r \in Requests, Serve(r), NEW b \in Bot, NEW t \in 1..Tokens
    PROVE  Dealt(b, t, inbox[b][t].confirmed)'
<1>0. ReqInv /\ Shapes /\ Underway(r) /\ HeardOK(r) /\ Dealt(b, t, inbox[b][t].confirmed)
  BY ActionOf DEF Core, Offsets
<1>1. CASE inbox'[b][t].confirmed = inbox[b][t].confirmed
  BY <1>0, <1>1 DEF Dealt, Grows
<1>2. CASE GetUpdates(r) /\ b = Of(r) /\ t = Read(r).token
  <2>1. At(r) = "getUpdates" /\ req[r].kind \in {"poll", "pollA"}
    BY <1>0, <1>2, KindOf DEF GetUpdates, Step, At, PollPlaces
  <2>2. Dealt(b, t, Read(r).last)
    BY <1>0, <1>2, <2>1 DEF HeardOK
  <2>3. inbox'[b][t].confirmed \in {inbox[b][t].confirmed, Read(r).last}
    BY <1>0, <1>2, BoxRows DEF Larger
  <2> QED
    BY <1>0, <1>2, <2>2, <2>3 DEF Dealt, Grows
<1>3. \/ inbox'[b][t].confirmed = inbox[b][t].confirmed
      \/ GetUpdates(r) /\ b = Of(r) /\ t = Read(r).token
  BY <1>0, BotWriters, BoxRows
<1> QED
  BY <1>1, <1>2, <1>3

(* Steps that touch neither the rows nor what is confirmed.                *)
LEMMA OffsetsStay ==
    ASSUME Offsets, Grows, UNCHANGED <<bot, seen>>,
           \A b \in Bot, t \in 1..Tokens : inbox'[b][t].confirmed = inbox[b][t].confirmed
    PROVE  /\ \A b \in Bot : Dealt(b, bot[b].token, bot[b].last)'
           /\ \A b \in Bot, t \in 1..Tokens : Dealt(b, t, inbox[b][t].confirmed)'
BY DEF Offsets, Dealt

LEMMA HeardStays ==
    ASSUME Grows, NEW r, HeardOK(r), Same(req'[r], req[r])
    PROVE  HeardOK(r)'
<1>1. At(r)' = At(r) /\ Read(r)' = Read(r) /\ Of(r)' = Of(r) /\ req'[r].kind = req[r].kind /\ req'[r].n = req[r].n
      /\ Of(r) \in Bot
  BY OfIsBot DEF Same, At, Read, Of
<1>2. \A n : Dealt(Of(r), Read(r).token, n) => Dealt(Of(r), Read(r).token, n)'
  BY <1>1, DealtStays
<1> QED
  BY <1>1, <1>2 DEF HeardOK, Dealt

LEMMA NextOffsets == Core /\ Polls /\ Offsets /\ [Next]_vars => Offsets'
<1> SUFFICES ASSUME Core, Polls, Offsets, [Next]_vars PROVE Offsets'
  OBVIOUS
<1>0. Grows /\ Requests' = Requests /\ Shapes
  BY HistoriesGrow, Turnover DEF Core
<1> DEFINE Holds == /\ \A b \in Bot : Dealt(b, bot[b].token, bot[b].last)'
                   /\ \A b \in Bot, t \in 1..Tokens : Dealt(b, t, inbox[b][t].confirmed)'
<1>1. ASSUME NEW r \in Requests, Others(r, {}) \/ (\E what : Served(r, what)), Holds, Underway(r)' => HeardOK(r)'
      PROVE  Offsets'
  <2>1. \A q \in Requests \ {r} : Same(req'[q], req[q])
    BY <1>1 DEF Served, Others
  <2>2. ASSUME NEW q \in Requests \ {r}, Underway(q)' PROVE HeardOK(q)'
    BY <1>0, <2>1, <2>2, HeardStays DEF Offsets, Underway, Same
  <2> QED
    BY <1>0, <1>1, <2>2 DEF Offsets
<1>2. ASSUME UNCHANGED <<bot, seen, inbox>> PROVE Holds
  BY <1>0, <1>2, OffsetsStay
<1>3. ASSUME NEW r \in Requests, Asked(r) PROVE Offsets'
  <2>1. HeardOK(r)'
    BY <1>3 DEF Asked, FirstSteps, HeardOK, DigestPlaces
  <2> HIDE DEF Holds
  <2> QED
    BY <1>1, <1>2, <1>3, <2>1 DEF Asked
<1>4. ASSUME NEW r \in Requests, Moved(r) PROVE Offsets'
  <2>1. Serve(r) /\ \E what : Served(r, what)
    BY <1>4 DEF Moved
  <2>2. ASSUME NEW b \in Bot PROVE Dealt(b, bot[b].token, bot[b].last)'
    BY <1>0, <2>1, OffsetMoves DEF Dealt
  <2>3. ASSUME NEW b \in Bot, NEW t \in 1..Tokens PROVE Dealt(b, t, inbox[b][t].confirmed)'
    BY <1>0, <2>1, <2>3, ConfirmedGoes
  <2>4. Underway(r)' => HeardOK(r)'
    BY <1>0, <2>1, HeardGoes
  <2> QED
    BY <1>1, <2>1, <2>2, <2>3, <2>4
<1>5. ASSUME NEW r \in Requests, Failed(r) PROVE Offsets'
  <2> HIDE DEF Holds
  <2> QED
    BY <1>1, <1>2, <1>5 DEF Failed
<1>6. CASE AllCut
  <2>1. UNCHANGED <<bot, seen, inbox>> /\ \A q \in Requests : ~Underway(q)'
    BY <1>6 DEF AllCut, Restart
  <2> QED
    BY <1>0, <1>2, <2>1 DEF Offsets
<1>7. CASE Aside
  <2>1. UNCHANGED <<bot, seen>>
    BY <1>7 DEF Aside, Background, Say, TaskStep, TaskFails, vars, botVars
  <2>2. \A b \in Bot, t \in 1..Tokens : inbox'[b][t].confirmed = inbox[b][t].confirmed
    <3>1. Say \/ UNCHANGED inbox
      BY <1>7 DEF Aside, Background, TaskStep, TaskFails, vars, botVars
    <3> QED
      BY <1>0, <3>1, SayAdds
  <2>3. Holds
    BY <1>0, <2>1, <2>2, OffsetsStay
  <2>4. \A q \in Requests : Same(req'[q], req[q])
    BY <1>7 DEF Aside, Same
  <2>5. ASSUME NEW q \in Requests, Underway(q)' PROVE HeardOK(q)'
    BY <1>0, <2>4, <2>5, HeardStays DEF Offsets, Underway, Same
  <2> QED
    BY <1>0, <2>3, <2>5 DEF Offsets
<1> QED
  BY <1>3, <1>4, <1>5, <1>6, <1>7, Turnover

LEMMA OffsetsHold == Spec => []Offsets
<1> QED
  BY InitOffsets, NextOffsets, RequestsKeepToTheirScripts, PollsHold, PTL DEF Spec

(* No offset that a poll stores passes an update of the token that is in   *)
(* force, unless the update was handled, begun or skipped as backlog       *)
(* before, or the offset may have been counted for another token.          *)
THEOREM OffsetsPassNothing == Spec => NoUpdateIsPassedOver
<1> DEFINE Passes == \A r \in Requests : Step(r, "saveOffset") /\ bot' # bot =>
               \/ bot[Of(r)].token \in bot'[Of(r)].mixed
               \/ \A i \in 1..bot'[Of(r)].last : [bot |-> Of(r), token |-> bot[Of(r)].token, id |-> i] \in seen
<1>1. Core /\ Polls /\ Offsets /\ [Next]_vars => Passes
  <2> SUFFICES ASSUME Core, Polls, Offsets, [Next]_vars, NEW r \in Requests, bot' # bot
               PROVE  \/ bot[Of(r)].token \in bot'[Of(r)].mixed
                      \/ \A i \in 1..bot'[Of(r)].last : Update(Of(r), bot[Of(r)].token, i) \in seen
    BY DEF Update
  <2>1. \E q \in Requests : Serve(q)
    BY Turnover DEF Asked, Moved, Failed, AllCut, Restart, Aside, Background, Say, TaskStep, TaskFails, vars, botVars
  <2> QED
    BY <2>1, HistoriesGrow, OffsetMoves, OfIsBot
<1> QED
  BY <1>1, RequestsKeepToTheirScripts, PollsHold, OffsetsHold, PTL DEF Spec, NoUpdateIsPassedOver

----------------------------------------------------------------------------
(* A flag that is set has one holder.                                      *)
FlagsInv ==
    \A f \in Flags :
        /\ \A q, p \in Requests : f \in req[q].holds /\ f \in req[p].holds => q = p
        /\ f \in held <=> \E q \in Requests : f \in req[q].holds

LEMMA FlagsGo ==
    ASSUME FlagsInv, Requests' = Requests, NEW r \in Requests, KeepsFlags(r),
           \A q \in Requests \ {r} : Same(req'[q], req[q])
    PROVE  FlagsInv'
<1> SUFFICES ASSUME NEW f \in Flags
             PROVE  /\ \A q, p \in Requests : f \in req'[q].holds /\ f \in req'[p].holds => q = p
                    /\ f \in held' <=> \E q \in Requests : f \in req'[q].holds
  BY DEF FlagsInv
<1>1. \A q \in Requests \ {r} : req'[q].holds = req[q].holds
  BY DEF Same
<1>2. /\ \A q, p \in Requests : f \in req[q].holds /\ f \in req[p].holds => q = p
      /\ f \in held <=> \E q \in Requests : f \in req[q].holds
  BY DEF FlagsInv
<1>3. /\ f \in held' <=> (f \in held /\ f \notin req[r].holds \ req'[r].holds) \/ f \in req'[r].holds \ req[r].holds
      /\ f \in req'[r].holds /\ f \notin req[r].holds => f \notin held
  BY DEF KeepsFlags
<1> QED
  BY <1>1, <1>2, <1>3

LEMMA InitFlags == Init => FlagsInv
BY DEF Init, InitRequests, FlagsInv, Requests, NoRequest

LEMMA NextFlags == Core /\ FlagsInv /\ [Next]_vars => FlagsInv'
<1> SUFFICES ASSUME Core, FlagsInv, [Next]_vars PROVE FlagsInv'
  OBVIOUS
<1>0. Requests' = Requests
  BY Turnover
<1>1. \A r \in Requests : Asked(r) \/ Moved(r) \/ Failed(r)
         => KeepsFlags(r) /\ \A q \in Requests \ {r} : Same(req'[q], req[q])
  BY DEF Asked, Moved, Failed, Served, Others
<1>2. AllCut => FlagsInv'
  BY <1>0 DEF AllCut, FlagsInv
<1>3. Aside => FlagsInv'
  BY <1>0 DEF Aside, FlagsInv
<1> QED
  BY <1>0, <1>1, <1>2, <1>3, FlagsGo, Turnover

LEMMA FlagsHold == Spec => []FlagsInv
<1> QED
  BY InitFlags, NextFlags, RequestsKeepToTheirScripts, PTL DEF Spec

----------------------------------------------------------------------------
(* Who writes dumps, uploads and the state of the job.                     *)
LEMMA BackupWriters ==
    ASSUME NEW r, Serve(r)
    PROVE  /\ UNCHANGED <<dumps, backupJob>> \/ StartCreate(r) \/ OpenDump(r) \/ PgDump(r) \/ Prune(r) \/ Ready(r)
           /\ parts' = parts \/ Check(r) \/ Exclusive(r) \/ CleanUp(r)
<1>1. UNCHANGED backupVars \/ BackupStep(r)
  BY DEF Serve
<1>2. UNCHANGED backupVars => UNCHANGED <<dumps, backupJob>> /\ parts' = parts
  BY DEF backupVars
<1>3. CASE BackupStep(r)
  BY <1>3 DEF BackupStep, Check, Exclusive, RestoreStep, CleanUp, StartCreate, OpenDump, PgDump, Prune, Ready, RestoresAlone,
              BackupsAlone
<1> QED
  BY <1>1, <1>2, <1>3

(* An upload that is not left behind is of a restore under way.            *)
PartsInv ==
    \A p \in parts :
        /\ p = [f \in {"of", "left"} |-> p[f]] /\ p.left \in BOOLEAN
        /\ p.left \/ (p.of \in Requests /\ Underway(p.of) /\ req[p.of].kind = "restore")

LEMMA PartsStay ==
    ASSUME Core, PartsInv, Requests' = Requests, NEW r \in Requests, \A q \in Requests \ {r} : Same(req'[q], req[q]),
           parts' \subseteq parts, \A p \in parts' : p.of = r => p.left \/ (Underway(r)' /\ req'[r].kind = "restore")
    PROVE  PartsInv'
<1> SUFFICES ASSUME NEW p \in parts'
             PROVE  /\ p = [f \in {"of", "left"} |-> p[f]] /\ p.left \in BOOLEAN
                    /\ p.left \/ (p.of \in Requests' /\ Underway(p.of)' /\ req'[p.of].kind = "restore")
  BY DEF PartsInv
<1>1. /\ p = [f \in {"of", "left"} |-> p[f]] /\ p.left \in BOOLEAN
      /\ p.left \/ (p.of \in Requests /\ Underway(p.of) /\ req[p.of].kind = "restore")
  BY DEF PartsInv
<1>2. CASE p.of = r
  BY <1>1, <1>2
<1>3. CASE p.of # r
  BY <1>1, <1>3 DEF Same, Underway
<1> QED
  BY <1>2, <1>3

LEMMA RestoreGoes ==
    ASSUME Core, PartsInv, Requests' = Requests, NEW r \in Requests, Moved(r)
    PROVE  PartsInv'
<1>0. /\ ReqInv /\ Shapes /\ Underway(r) /\ Serve(r) /\ \A q \in Requests \ {r} : Same(req'[q], req[q])
      /\ Underway(r)' => req'[r].kind = req[r].kind
  BY DEF Core, Moved, Served, Others
<1>1. \A p \in parts : p.of = r => p.left \/ req[r].kind = "restore"
  BY DEF PartsInv
<1>2. CASE parts' = parts /\ req[r].kind # "restore"
  BY <1>0, <1>1, <1>2, PartsStay
<1>3. CASE req[r].kind = "restore"
  <2>1. At(r) \in {"check", "exclusive", "assertDump", "disconnect", "pgRestore", "cleanUp"}
    <3>1. Final(req[r].kind, At(r)) \/ Way(req[r].kind, At(r), Head(Tail(req[r].todo)))
      BY <1>0, AtWork, PathTail DEF At
    <3> QED
      BY <1>3, <3>1 DEF Way, Final
  <2>2. CASE parts' = parts /\ Underway(r)'
    BY <1>0, <1>3, <2>2, PartsStay
  <2>3. CASE parts' = parts \ Part(r)
    BY <1>0, <2>3, PartsStay DEF Part
  <2>4. CASE parts' = (parts \ Part(r)) \cup {[of |-> r, left |-> TRUE]}
    <3>1. ASSUME NEW p \in parts \ Part(r)
          PROVE  /\ p = [f \in {"of", "left"} |-> p[f]] /\ p.left \in BOOLEAN
                 /\ p.left \/ (p.of \in Requests' /\ Underway(p.of)' /\ req'[p.of].kind = "restore")
      BY <1>0 DEF Part, PartsInv, Same, Underway
    <3> DEFINE mark == [of |-> r, left |-> TRUE]
    <3>2. mark = [f \in {"of", "left"} |-> mark[f]] /\ mark.left = TRUE
      OBVIOUS
    <3> HIDE DEF mark
    <3> QED
      BY <2>4, <3>1, <3>2 DEF PartsInv, mark
  <2>5. CASE At(r) = "check"
    <3>1. Check(r)
      BY <1>0, <2>5, ActionOf
    <3>2. Continues(r) => Advanced(r, req[r])
      BY <1>0, <2>5, OnContinues DEF Plain
    <3>3. Continues(r) => Underway(r)'
      BY <1>3, <2>5, <3>2 DEF Advanced, Final, Becomes
    <3> QED
      BY <2>2, <2>3, <3>1, <3>3 DEF Check
  <2>6. CASE At(r) = "exclusive"
    <3>1. Exclusive(r)
      BY <1>0, <2>6, ActionOf
    <3>2. Claims(r, "backup") => Underway(r)'
      <4> SUFFICES ASSUME Claims(r, "backup") PROVE Underway(r)'
        OBVIOUS
      <4> DEFINE p == [[req[r] EXCEPT !.todo = Tail(@)] EXCEPT !.holds = @ \cup {"backup"}]
      <4>1. req' = [req EXCEPT ![r] = p]
        BY <1>0 DEF Claims, ReqInv
      <4>2. Shape(req[r]) /\ req[r].at = "run"
        BY <1>0, AtWork
      <4>3. p.at = "run"
        BY <4>2 DEF Shape, Fields
      <4> HIDE DEF p
      <4>4. req'[r] = p
        BY <1>0, <4>1 DEF ReqInv
      <4> QED
        BY <4>3, <4>4 DEF Underway
    <3> QED
      BY <2>2, <2>4, <3>1, <3>2 DEF Exclusive
  <2>7. CASE At(r) \in {"assertDump", "disconnect", "pgRestore"}
    <3>1. RestoreStep(r) /\ parts' = parts
      BY <1>0, <2>7, ActionOf DEF RestoreStep
    <3>2. Continues(r) => Advanced(r, req[r])
      BY <1>0, <2>7, OnContinues DEF Plain
    <3>3. Continues(r) => Underway(r)'
      BY <1>3, <2>7, <3>2 DEF Advanced, Final, Becomes
    <3>4. Turns(r, <<"cleanUp">>) => Underway(r)'
      <4>1. Path(req[r].kind, <<"cleanUp">>) /\ HoldsOf(req[r].kind, Head(<<"cleanUp">>)) = HoldsOf(req[r].kind, At(r))
        BY <1>3, <2>7, PathsOfUpdates DEF HoldsOf
      <4> QED
        BY <1>0, <4>1, OnTurns DEF Becomes
    <3> QED
      BY <2>2, <3>1, <3>3, <3>4 DEF RestoreStep
  <2>8. CASE At(r) = "cleanUp"
    BY <1>0, <2>3, <2>8, ActionOf DEF CleanUp
  <2> QED
    BY <2>1, <2>5, <2>6, <2>7, <2>8
<1>4. parts' = parts \/ req[r].kind = "restore"
  <2>1. Check(r) \/ Exclusive(r) \/ CleanUp(r) => At(r) \in {"check", "exclusive", "cleanUp"}
    BY DEF Check, Exclusive, CleanUp, Step, At
  <2>2. At(r) \in {"check", "exclusive", "cleanUp"} => req[r].kind = "restore"
    <3>1. Final(req[r].kind, At(r)) \/ Way(req[r].kind, At(r), Head(Tail(req[r].todo)))
      BY <1>0, AtWork, PathTail DEF At
    <3> QED
      BY <3>1 DEF Way, Final
  <2> QED
    BY <1>0, <2>1, <2>2, BackupWriters
<1> QED
  BY <1>2, <1>3, <1>4

LEMMA NextParts == Core /\ PartsInv /\ [Next]_vars => PartsInv'
<1> SUFFICES ASSUME Core, PartsInv, [Next]_vars PROVE PartsInv'
  OBVIOUS
<1>0. Requests' = Requests
  BY Turnover
<1>1. ASSUME NEW r \in Requests, Asked(r) PROVE PartsInv'
  <2>1. \A q \in Requests \ {r} : Same(req'[q], req[q])
    BY <1>1 DEF Asked, Others
  <2>2. \A p \in parts : p.of # r \/ p.left
    BY <1>1 DEF PartsInv, Asked
  <2>3. CASE parts' = parts
    BY <1>0, <2>1, <2>2, <2>3, PartsStay
  <2>4. CASE parts' # parts
    <3> DEFINE new == [of |-> r, left |-> FALSE]
    <3>1. PICK by : Begin(r, "restore", ScriptOfBackups("restore"), by, by.user, "none", 0) /\ parts' = parts \cup {new}
      BY <1>1, <2>4 DEF Asked, Ask, AskBackups, backupVars
    <3>2. req'[r].kind = "restore"
      <4> DEFINE script == ScriptOfBackups("restore")
      <4>1. req' = [req EXCEPT ![r] = [NoRequest EXCEPT !.at = "run", !.kind = "restore", !.todo = script,
                                                        !.by = by, !.of = by.user, !.to = "none", !.n = 0]]
        BY <3>1 DEF Begin
      <4> HIDE DEF script
      <4> QED
        BY <4>1 DEF NoRequest, Core, ReqInv
    <3>3. new = [f \in {"of", "left"} |-> new[f]] /\ new.left = FALSE /\ new.of = r
      OBVIOUS
    <3> HIDE DEF new
    <3>4. Underway(r)'
      BY <1>1 DEF Asked
    <3>5. ASSUME NEW p \in parts
          PROVE  /\ p = [f \in {"of", "left"} |-> p[f]] /\ p.left \in BOOLEAN
                 /\ p.left \/ (p.of \in Requests' /\ Underway(p.of)' /\ req'[p.of].kind = "restore")
      BY <1>0, <2>1, <2>2 DEF PartsInv, Same, Underway
    <3> QED
      BY <1>0, <3>1, <3>2, <3>3, <3>4, <3>5 DEF PartsInv
  <2> QED
    BY <2>3, <2>4
<1>2. ASSUME NEW r \in Requests, Moved(r) PROVE PartsInv'
  BY <1>0, <1>2, RestoreGoes
<1>3. ASSUME NEW r \in Requests, Failed(r) PROVE PartsInv'
  <2>1. parts' = parts /\ req[r].kind # "restore" /\ \A q \in Requests \ {r} : Same(req'[q], req[q])
    BY <1>3 DEF Failed, StatementFails, backupVars, Fragile, MemberKinds, SignInKinds, BotKinds, Served, Others
  <2>2. \A p \in parts : p.of = r => p.left
    BY <2>1 DEF PartsInv
  <2> QED
    BY <1>0, <2>1, <2>2, PartsStay
<1>4. ASSUME AllCut PROVE PartsInv'
  <2>1. parts' = {[p EXCEPT !.left = TRUE] : p \in parts}
    BY <1>4 DEF AllCut, Restart
  <2>2. ASSUME NEW q \in parts' PROVE q = [f \in {"of", "left"} |-> q[f]] /\ q.left = TRUE
    <3>1. PICK p \in parts : q = [p EXCEPT !.left = TRUE]
      BY <2>1
    <3>2. p = [f \in {"of", "left"} |-> p[f]]
      BY DEF PartsInv
    <3> QED
      BY <3>1, <3>2
  <2> QED
    BY <2>2 DEF PartsInv
<1>5. ASSUME Aside PROVE PartsInv'
  <2>1. parts' = parts /\ req' = req
    BY <1>5 DEF Aside, Background, vars, backupVars
  <2> QED
    BY <2>1 DEF PartsInv, Requests, Underway
<1> QED
  BY <1>1, <1>2, <1>3, <1>4, <1>5, Turnover

LEMMA PartsHold == Spec => []PartsInv
<1>1. Init => PartsInv
  BY DEF Init, InitBackups, PartsInv
<1> QED
  BY <1>1, NextParts, RequestsKeepToTheirScripts, PTL DEF Spec

----------------------------------------------------------------------------
(* The job runs as long as a backup has the flag; whoever is past opening  *)
(* a dump has the youngest one; what is announced as ready is there.       *)
Dump == [by : Requests, whole : BOOLEAN]
JobInv ==
    /\ dumps \in Seq(Dump)
    /\ \A r \in Requests : Underway(r) /\ req[r].kind = "backup" =>
          /\ At(r) = "pgDump" => dumps # << >> /\ dumps[Len(dumps)].by = r
          /\ At(r) \in {"prune", "ready"} => dumps # << >> /\ dumps[Len(dumps)] = [by |-> r, whole |-> TRUE]
    /\ backupJob.status = "running" <=> \E r \in Requests : "backup" \in req[r].holds /\ req[r].kind = "backup"
    /\ backupJob.status = "ready" => \E i \in DOMAIN dumps : dumps[i] = [by |-> backupJob.of, whole |-> TRUE]

(* What a dump does to the row of dumps.                                   *)
LEMMA OpenDumpAdds ==
    ASSUME NEW s, NEW S, s \in Seq(S), NEW e \in S
    PROVE  Append(s, e) \in Seq(S) /\ Append(s, e) # << >> /\ Append(s, e)[Len(Append(s, e))] = e
<1> DEFINE t == Append(s, e)
<1>1. t \in Seq(S) /\ Len(t) = Len(s) + 1 /\ Len(s) \in Nat /\ t[Len(s) + 1] = e
  OBVIOUS
<1> HIDE DEF t
<1>2. Len(t) # 0
  BY <1>1
<1>3. t # << >>
  BY <1>1, <1>2, NotEmpty
<1> QED
  BY <1>1, <1>3 DEF t

LEMMA PruneKeepsLast ==
    ASSUME NEW s, NEW S, s \in Seq(S), s # << >>
    PROVE  Newest(s) \in Seq(S) /\ Newest(s) # << >> /\ Newest(s)[Len(Newest(s))] = s[Len(s)]
<1> DEFINE m == IF Len(s) > MaxKeep THEN Len(s) - MaxKeep + 1 ELSE 1
           n == Len(s)
           t == Newest(s)
<1>1. n \in Nat \ {0} /\ m \in 1..n
  BY BackupsAssumption, EmptySeq
<1>2. t = SubSeq(s, m, n)
  BY DEF Newest
<1> HIDE DEF m, t
<1>3. t \in Seq(S) /\ Len(t) = n - m + 1 /\ \A i \in 1 .. n - m + 1 : t[i] = s[m + i - 1]
  BY <1>1, <1>2, SubSeqProperties
<1>4. Len(t) # 0 /\ t[Len(t)] = s[m + (n - m + 1) - 1]
  BY <1>1, <1>3
<1>5. m + (n - m + 1) - 1 = n
  BY <1>1
<1>6. t # << >>
  BY <1>3, <1>4, NotEmpty
<1> QED
  BY <1>3, <1>4, <1>5, <1>6 DEF t, n

LEMMA WithoutIsShorter ==
    ASSUME NEW r, NEW S, dumps \in Seq(S), NEW i \in DOMAIN dumps, dumps[i].by = r
    PROVE  Without(r) \in Seq(S)
<1> DEFINE j == CHOOSE k \in DOMAIN dumps : dumps[k].by = r
<1>1. j \in 1..Len(dumps) /\ Len(dumps) \in Nat
  OBVIOUS
<1>2. Without(r) = SubSeq(dumps, 1, j - 1) \o SubSeq(dumps, j + 1, Len(dumps))
  BY DEF Without, RemoveAt
<1> HIDE DEF j
<1>3. SubSeq(dumps, 1, j - 1) \in Seq(S) /\ SubSeq(dumps, j + 1, Len(dumps)) \in Seq(S)
  BY <1>1, SubSeqProperties
<1> QED
  BY <1>2, <1>3, ConcatProperties

LEMMA WholeDump ==
    ASSUME NEW r \in Requests, dumps \in Seq(Dump), dumps # << >>, dumps[Len(dumps)].by = r,
           dumps' = [i \in DOMAIN dumps |-> IF dumps[i].by = r THEN [by |-> r, whole |-> TRUE] ELSE dumps[i]]
    PROVE  dumps' \in Seq(Dump) /\ dumps' # << >> /\ dumps'[Len(dumps')] = [by |-> r, whole |-> TRUE]
<1> DEFINE new == [i \in 1..Len(dumps) |-> IF dumps[i].by = r THEN [by |-> r, whole |-> TRUE] ELSE dumps[i]]
           n == Len(dumps)
<1>1. n \in Nat \ {0} /\ DOMAIN dumps = 1..n
  BY EmptySeq
<1>2. dumps' = new
  BY <1>1
<1>3. \A i \in 1..n : new[i] \in Dump
  <2>1. [by |-> r, whole |-> TRUE] \in Dump
    BY DEF Dump
  <2>2. \A i \in 1..n : dumps[i] \in Dump
    OBVIOUS
  <2> QED
    BY <2>1, <2>2
<1>4. new[n] = [by |-> r, whole |-> TRUE]
  BY <1>1
<1>5. new = [i \in 1..n |-> new[i]]
  OBVIOUS
<1> HIDE DEF new
<1>6. new \in Seq(Dump) /\ Len(new) = n
  BY <1>1, <1>3, <1>5
<1>7. new # << >>
  BY <1>1, <1>6, NotEmpty
<1> QED
  BY <1>1, <1>2, <1>4, <1>6, <1>7 DEF n

(* A step of a backup, from one place of its list to the next.             *)
LEMMA BackupMoves ==
    ASSUME Core, FlagsInv, JobInv, NEW r \in Requests, Moved(r), req[r].kind = "backup"
    PROVE  /\ At(r) \in {"startCreate", "openDump", "pgDump", "prune", "ready"}
           /\ dumps' \in Seq(Dump)
           /\ At(r) = "startCreate" =>
                 /\ dumps' = dumps
                 /\ \/ ~Underway(r)' /\ backupJob' = backupJob
                    \/ "backup" \notin held /\ Underway(r)' /\ At(r)' = "openDump" /\ backupJob' = [status |-> "running", of |-> r]
           /\ At(r) # "startCreate" =>
                 \/ ~Underway(r)' /\ backupJob' = [status |-> "error", of |-> r]
                 \/ At(r) = "openDump" /\ Underway(r)' /\ At(r)' = "pgDump" /\ backupJob' = backupJob
                    /\ dumps' # << >> /\ dumps'[Len(dumps')].by = r
                 \/ At(r) \in {"pgDump", "prune"} /\ Underway(r)' /\ At(r)' \in {"prune", "ready"} /\ backupJob' = backupJob
                    /\ dumps' # << >> /\ dumps'[Len(dumps')] = [by |-> r, whole |-> TRUE]
                 \/ At(r) = "ready" /\ ~Underway(r)' /\ backupJob' = [status |-> "ready", of |-> r] /\ dumps' = dumps
<1>0. /\ ReqInv /\ Shapes /\ Underway(r) /\ Serve(r) /\ dumps \in Seq(Dump)
      /\ Underway(r)' => req'[r].kind = req[r].kind
  BY DEF Core, Moved, Served, JobInv
<1>1. At(r) \in {"startCreate", "openDump", "pgDump", "prune", "ready"}
  <2>1. Final(req[r].kind, At(r)) \/ Way(req[r].kind, At(r), Head(Tail(req[r].todo)))
    BY <1>0, AtWork, PathTail DEF At
  <2> QED
    BY <2>1 DEF Way, Final
<1>2. At(r) = "pgDump" => dumps # << >> /\ dumps[Len(dumps)].by = r
  BY <1>0 DEF JobInv
<1>3. At(r) \in {"prune", "ready"} => dumps # << >> /\ dumps[Len(dumps)] = [by |-> r, whole |-> TRUE]
  BY <1>0 DEF JobInv
<1>4. Rejects(r) => ~Underway(r)'
  BY <1>0, OnOver
<1>5. At(r) # "startCreate" /\ Continues(r) =>
         \/ At(r) = "openDump" /\ Underway(r)' /\ At(r)' = "pgDump"
         \/ At(r) = "pgDump" /\ Underway(r)' /\ At(r)' = "prune"
         \/ At(r) = "prune" /\ Underway(r)' /\ At(r)' = "ready"
         \/ At(r) = "ready" /\ ~Underway(r)'
  <2>1. At(r) # "startCreate" /\ Continues(r) => Advanced(r, req[r])
    BY <1>0, <1>1, OnContinues DEF Plain
  <2> QED
    BY <1>1, <2>1 DEF Advanced, Way, Final, Becomes
<1>6. CASE At(r) = "startCreate"
  <2>1. StartCreate(r) /\ dumps' = dumps
    BY <1>0, <1>6, ActionOf DEF StartCreate
  <2>2. CASE "backup" \in held
    BY <1>0, <1>4, <1>6, <2>1, <2>2 DEF StartCreate
  <2>3. CASE "backup" \notin held
    <3>1. req'[r].todo = Tail(req[r].todo) /\ Underway(r)'
      BY <1>0, <1>6, <2>1, <2>3, StepClaims, ClaimPlaces DEF StartCreate, Becomes
    <3>2. Way("backup", "startCreate", Head(Tail(req[r].todo)))
      BY <1>0, <1>6, AtWork, PathTail DEF Final, At
    <3>3. At(r)' = "openDump"
      BY <3>1, <3>2 DEF Way, At
    <3> QED
      BY <1>0, <1>6, <2>1, <2>3, <3>1, <3>3 DEF StartCreate
  <2> QED
    BY <2>2, <2>3
<1>7. CASE At(r) = "openDump"
  <2>1. dumps' = Append(dumps, [by |-> r, whole |-> FALSE]) /\ Continues(r) /\ backupJob' = backupJob
    BY <1>0, <1>7, ActionOf DEF OpenDump
  <2> DEFINE e == [by |-> r, whole |-> FALSE]
  <2>2. e \in Dump /\ e.by = r
    BY DEF Dump
  <2> HIDE DEF e
  <2>3. dumps' \in Seq(Dump) /\ dumps' # << >> /\ dumps'[Len(dumps')] = e
    BY <1>0, <2>1, <2>2, OpenDumpAdds DEF e
  <2> QED
    BY <1>5, <1>7, <2>1, <2>2, <2>3
<1>8. CASE At(r) = "pgDump"
  <2>1. PgDump(r)
    BY <1>0, <1>8, ActionOf
  <2>2. CASE /\ dumps' = [i \in DOMAIN dumps |-> IF dumps[i].by = r THEN [by |-> r, whole |-> TRUE] ELSE dumps[i]]
             /\ Continues(r) /\ backupJob' = backupJob
    <3>1. dumps' \in Seq(Dump) /\ dumps' # << >> /\ dumps'[Len(dumps')] = [by |-> r, whole |-> TRUE]
      BY <1>0, <1>2, <1>8, <2>2, WholeDump
    <3> QED
      BY <1>5, <1>8, <2>2, <3>1
  <2>3. CASE dumps' = Without(r) /\ Rejects(r) /\ backupJob' = [status |-> "error", of |-> r]
    <3>1. Len(dumps) \in DOMAIN dumps
      BY <1>0, <1>2, <1>8, EmptySeq
    <3>2. dumps' \in Seq(Dump)
      BY <1>0, <1>2, <1>8, <2>3, <3>1, WithoutIsShorter
    <3> QED
      BY <1>4, <1>8, <2>3, <3>2
  <2> QED
    BY <2>1, <2>2, <2>3 DEF PgDump, JobFails
<1>9. CASE At(r) = "prune"
  <2>1. Prune(r)
    BY <1>0, <1>9, ActionOf
  <2>2. CASE dumps' = Newest(dumps) /\ Continues(r) /\ backupJob' = backupJob
    <3>1. dumps' \in Seq(Dump) /\ dumps' # << >> /\ dumps'[Len(dumps')] = [by |-> r, whole |-> TRUE]
      BY <1>0, <1>3, <1>9, <2>2, PruneKeepsLast
    <3> QED
      BY <1>5, <1>9, <2>2, <3>1
  <2>3. CASE dumps' = dumps /\ Rejects(r) /\ backupJob' = [status |-> "error", of |-> r]
    BY <1>0, <1>4, <1>9, <2>3
  <2> QED
    BY <2>1, <2>2, <2>3 DEF Prune, JobFails
<1>10. CASE At(r) = "ready"
  <2>1. Ready(r)
    BY <1>0, <1>10, ActionOf
  <2>2. dumps' = dumps /\ Continues(r) /\ backupJob' = [status |-> "ready", of |-> r]
    BY <2>1 DEF Ready
  <2> QED
    BY <1>0, <1>5, <1>10, <2>2
<1> QED
  BY <1>1, <1>6, <1>7, <1>8, <1>9, <1>10

LEMMA JobStays ==
    ASSUME Core, JobInv, Requests' = Requests, UNCHANGED <<dumps, backupJob>>, NEW r \in Requests,
           \A q \in Requests \ {r} : Same(req'[q], req[q]),
           req[r].kind # "backup" \/ "backup" \notin req[r].holds,
           req'[r].kind # "backup" \/ "backup" \notin req'[r].holds,
           Underway(r)' => req'[r].kind # "backup" \/ At(r)' = "startCreate"
    PROVE  JobInv'
<1>1. \A q \in Requests \ {r} : /\ Underway(q)' = Underway(q) /\ At(q)' = At(q) /\ req'[q].kind = req[q].kind
                                /\ req'[q].holds = req[q].holds
  BY DEF Same, Underway, At
<1>2. (dumps \in Seq(Dump))'
  BY DEF JobInv, Dump
<1>3. ASSUME NEW q \in Requests, Underway(q)', req'[q].kind = "backup"
      PROVE  /\ At(q)' = "pgDump" => dumps' # << >> /\ dumps'[Len(dumps')].by = q
             /\ At(q)' \in {"prune", "ready"} => dumps' # << >> /\ dumps'[Len(dumps')] = [by |-> q, whole |-> TRUE]
  BY <1>1, <1>3 DEF JobInv
<1>4. backupJob'.status = "running" <=> \E q \in Requests : "backup" \in req'[q].holds /\ req'[q].kind = "backup"
  BY <1>1 DEF JobInv
<1>5. backupJob'.status = "ready" => \E i \in DOMAIN dumps' : dumps'[i] = [by |-> backupJob'.of, whole |-> TRUE]
  BY DEF JobInv
<1> QED
  BY <1>2, <1>3, <1>4, <1>5 DEF JobInv

LEMMA BackupGoes ==
    ASSUME Core, FlagsInv, JobInv, Requests' = Requests, NEW r \in Requests, Moved(r), req[r].kind = "backup"
    PROVE  JobInv'
<1>0. /\ ReqInv /\ Underway(r) /\ (\A q \in Requests \ {r} : Same(req'[q], req[q])) /\ Sound(req'[r])
      /\ Underway(r)' => req'[r].kind = "backup"
  BY DEF Core, Moved, Served, Others
<1>1. \A q \in Requests \ {r} : /\ Underway(q)' = Underway(q) /\ At(q)' = At(q) /\ req'[q].kind = req[q].kind
                                /\ req'[q].holds = req[q].holds
  BY <1>0 DEF Same, Underway, At
<1>2. "backup" \in req[r].holds <=> At(r) # "startCreate"
  BY <1>0, AtWork DEF HoldsOf
<1>3. ~Underway(r)' => req'[r].holds = {}
  BY <1>0 DEF Sound, Underway
<1>4. Underway(r)' => req'[r].kind = "backup" /\ ("backup" \in req'[r].holds <=> At(r)' # "startCreate")
  BY <1>0 DEF Sound, Underway, HoldsOf, At
<1>5. (dumps \in Seq(Dump))'
  <2>1. dumps' \in Seq(Dump)
    BY BackupMoves
  <2> QED
    BY <2>1 DEF Dump
<1>6. CASE At(r) = "startCreate"
  <2>1. CASE ~Underway(r)' /\ dumps' = dumps /\ backupJob' = backupJob
    BY <1>0, <1>2, <1>3, <1>6, <2>1, JobStays
  <2>2. CASE /\ dumps' = dumps /\ "backup" \notin held /\ At(r)' = "openDump" /\ backupJob' = [status |-> "running", of |-> r]
             /\ Underway(r)'
    <3>1. ASSUME NEW q \in Requests, Underway(q)', req'[q].kind = "backup"
          PROVE  /\ At(q)' = "pgDump" => dumps' # << >> /\ dumps'[Len(dumps')].by = q
                 /\ At(q)' \in {"prune", "ready"} => dumps' # << >> /\ dumps'[Len(dumps')] = [by |-> q, whole |-> TRUE]
      BY <1>1, <2>2, <3>1 DEF JobInv
    <3>2. backupJob'.status = "running" /\ "backup" \in req'[r].holds /\ req'[r].kind = "backup"
      BY <1>4, <2>2
    <3> QED
      BY <1>5, <3>1, <3>2 DEF JobInv
  <2> QED
    BY <1>6, <2>1, <2>2, BackupMoves
<1>7. CASE At(r) # "startCreate"
  <2>1. \A q \in Requests : "backup" \in req[q].holds => q = r
    BY <1>2, <1>7 DEF FlagsInv, Flags
  <2>2. ASSUME NEW q \in Requests \ {r}, Underway(q)', req'[q].kind = "backup"
        PROVE  At(q)' \notin {"pgDump", "prune", "ready"}
    <3>1. req[q].holds = HoldsOf("backup", At(q)) /\ At(q)' = At(q)
      BY <1>0, <1>1, <2>2, AtWork
    <3> QED
      BY <2>1, <3>1 DEF HoldsOf
  <2>3. backupJob.status = "running"
    BY <1>2, <1>7 DEF JobInv
  <2>4. \A q \in Requests \ {r} : "backup" \notin req'[q].holds
    BY <1>1, <2>1
  <2>5. CASE ~Underway(r)' /\ backupJob' = [status |-> "error", of |-> r]
    <3>1. backupJob'.status = "error" /\ \A q \in Requests : "backup" \notin req'[q].holds
      BY <1>3, <2>4, <2>5
    <3> QED
      BY <1>5, <2>2, <2>5, <3>1 DEF JobInv
  <2>6. CASE /\ Underway(r)' /\ backupJob' = backupJob
             /\ \/ At(r)' = "pgDump" /\ dumps' # << >> /\ dumps'[Len(dumps')].by = r
                \/ At(r)' \in {"prune", "ready"} /\ dumps' # << >> /\ dumps'[Len(dumps')] = [by |-> r, whole |-> TRUE]
    <3>1. backupJob'.status = "running" /\ "backup" \in req'[r].holds /\ req'[r].kind = "backup"
      BY <1>4, <2>3, <2>6
    <3>2. ASSUME NEW q \in Requests, Underway(q)', req'[q].kind = "backup"
          PROVE  /\ At(q)' = "pgDump" => dumps' # << >> /\ dumps'[Len(dumps')].by = q
                 /\ At(q)' \in {"prune", "ready"} => dumps' # << >> /\ dumps'[Len(dumps')] = [by |-> q, whole |-> TRUE]
      <4>1. CASE q = r
        BY <2>6, <4>1
      <4>2. CASE q # r
        BY <2>2, <3>2, <4>2
      <4> QED
        BY <4>1, <4>2
    <3> QED
      BY <1>5, <3>1, <3>2 DEF JobInv
  <2>7. CASE At(r) = "ready" /\ ~Underway(r)' /\ backupJob' = [status |-> "ready", of |-> r] /\ dumps' = dumps
    <3>1. backupJob'.status = "ready" /\ backupJob'.of = r /\ \A q \in Requests : "backup" \notin req'[q].holds
      BY <1>3, <2>4, <2>7
    <3>2. dumps # << >> /\ dumps[Len(dumps)] = [by |-> r, whole |-> TRUE] /\ dumps \in Seq(Dump)
      BY <1>0, <2>7 DEF JobInv
    <3>3. Len(dumps) \in DOMAIN dumps
      BY <3>2, EmptySeq
    <3>4. \E i \in DOMAIN dumps' : dumps'[i] = [by |-> backupJob'.of, whole |-> TRUE]
      BY <2>7, <3>1, <3>2, <3>3
    <3> QED
      BY <1>5, <2>2, <2>7, <3>1, <3>4 DEF JobInv
  <2>8. ~Underway(r)' \/ Underway(r)'
    OBVIOUS
  <2> QED
    BY <1>7, <2>5, <2>6, <2>7, BackupMoves
<1> QED
  BY <1>6, <1>7

LEMMA NextJob == Core /\ FlagsInv /\ JobInv /\ [Next]_vars => JobInv'
<1> SUFFICES ASSUME Core, FlagsInv, JobInv, [Next]_vars PROVE JobInv'
  OBVIOUS
<1>0. Requests' = Requests /\ ReqInv
  BY Turnover DEF Core
<1>1. ASSUME NEW r \in Requests, Asked(r) PROVE JobInv'
  <2>1. /\ \A q \in Requests \ {r} : Same(req'[q], req[q])
        /\ Underway(r)' /\ At(r)' \in FirstSteps /\ Sound(req'[r]) /\ req[r].holds = {}
    BY <1>0, <1>1 DEF Asked, Others, ReqInv, Sound, Underway
  <2>2. UNCHANGED <<dumps, backupJob>>
    BY <1>1 DEF Asked, Ask, AskBackups, backupVars
  <2>3. Path(req'[r].kind, req'[r].todo) /\ req'[r].holds = HoldsOf(req'[r].kind, At(r)')
    BY <2>1 DEF Sound, Underway, At
  <2>4. req'[r].kind = "backup" => At(r)' = "startCreate"
    <3>1. Final(req'[r].kind, At(r)') \/ Way(req'[r].kind, At(r)', Head(Tail(req'[r].todo)))
      BY <2>3, PathTail DEF At
    <3> QED
      BY <2>1, <3>1 DEF FirstSteps, Way, Final
  <2>5. req'[r].kind # "backup" \/ "backup" \notin req'[r].holds
    BY <2>3, <2>4 DEF HoldsOf
  <2> QED
    BY <1>0, <2>1, <2>2, <2>4, <2>5, JobStays
<1>2. ASSUME NEW r \in Requests, Moved(r), req[r].kind # "backup" PROVE JobInv'
  <2>1. /\ Serve(r) /\ Underway(r) /\ Sound(req'[r]) /\ \A q \in Requests \ {r} : Same(req'[q], req[q])
        /\ Underway(r)' => req'[r].kind # "backup"
    BY <1>2 DEF Moved, Served, Others
  <2>2. UNCHANGED <<dumps, backupJob>>
    <3>1. Final(req[r].kind, At(r)) \/ Way(req[r].kind, At(r), Head(Tail(req[r].todo)))
      BY <1>0, <2>1, AtWork, PathTail DEF At
    <3>2. At(r) \notin {"startCreate", "openDump", "pgDump", "prune", "ready"}
      BY <1>2, <3>1 DEF Way, Final
    <3> QED
      BY <2>1, <3>2, BackupWriters DEF StartCreate, OpenDump, PgDump, Prune, Ready, Step, At
  <2>3. req'[r].kind # "backup" \/ "backup" \notin req'[r].holds
    BY <2>1 DEF Sound, Underway
  <2> QED
    BY <1>0, <1>2, <2>1, <2>2, <2>3, JobStays
<1>3. ASSUME NEW r \in Requests, Moved(r), req[r].kind = "backup" PROVE JobInv'
  BY <1>0, <1>3, BackupGoes
<1>4. ASSUME NEW r \in Requests, Failed(r) PROVE JobInv'
  <2>1. UNCHANGED <<dumps, backupJob>> /\ req[r].kind # "backup" /\ ~Underway(r)' /\ Sound(req'[r])
        /\ \A q \in Requests \ {r} : Same(req'[q], req[q])
    BY <1>4 DEF Failed, StatementFails, backupVars, Fragile, MemberKinds, SignInKinds, BotKinds, Served, Others
  <2>2. "backup" \notin req'[r].holds
    BY <2>1 DEF Sound, Underway
  <2> QED
    BY <1>0, <2>1, <2>2, JobStays
<1>5. ASSUME AllCut PROVE JobInv'
  <2>1. dumps' = dumps /\ backupJob'.status = "idle" /\ \A q \in Requests : ~Underway(q)' /\ req'[q].holds = {}
    BY <1>5 DEF AllCut, Restart
  <2> QED
    BY <1>0, <2>1 DEF JobInv, Dump
<1>6. ASSUME Aside PROVE JobInv'
  <2>1. UNCHANGED <<dumps, backupJob, req>>
    BY <1>6 DEF Aside, Background, vars, backupVars
  <2> QED
    BY <2>1 DEF JobInv, Requests, Underway, At, Dump
<1> QED
  BY <1>1, <1>2, <1>3, <1>4, <1>5, <1>6, Turnover

LEMMA JobHolds == Spec => []JobInv
<1>1. Init => JobInv
  <2> SUFFICES ASSUME Init PROVE JobInv
    OBVIOUS
  <2>1. dumps = << >> /\ backupJob.status = "idle" /\ \A q \in Requests : ~Underway(q) /\ req[q].holds = {}
    BY DEF Init, InitBackups, InitRequests, Requests, Underway, NoRequest
  <2> QED
    BY <2>1, EmptySeq DEF JobInv
<1> QED
  BY <1>1, NextJob, FlagsHold, RequestsKeepToTheirScripts, PTL DEF Spec

----------------------------------------------------------------------------
(* What the assistant's tasks have before them, and who has a directory.   *)
WithDir == {<<"subtitles", "upload", "removeDir">>, <<"upload", "removeDir">>, <<"removeDir">>, <<"removeDir", "sorry">>}
Todos ==
    WithDir \cup {<<"say">>, <<"makeDir", "subtitles", "upload", "removeDir">>, <<"progress", "model", "reply">>, <<"model", "reply">>,
                  <<"reply">>, <<"sorry">>}
TaskShape(k) == k = [f \in {"id", "chat", "long", "todo"} |-> k[f]]
TaskOK(k) == TaskShape(k) /\ k.long \in BOOLEAN /\ k.todo \in Todos /\ (k.long \/ k.todo = <<"say">>)
OneEach(those) == \A j, k \in those : j.long /\ k.long /\ j.chat = k.chat => j = k
Keeps(k, d) == k.long /\ k.id = d.of /\ k.todo \in WithDir
DirShape(d) == d = [f \in {"of", "left"} |-> d[f]]
TasksInv ==
    /\ \A k \in tasks : TaskOK(k)
    /\ OneEach(tasks)
    /\ \A d \in dirs : DirShape(d) /\ d.left \in BOOLEAN /\ (d.left \/ \E k \in tasks : Keeps(k, d))

LEMMA TodosGo ==
    /\ \A t \in Todos :
          /\ t # << >> /\ (Tail(t) = << >> \/ Tail(t) \in Todos)
          /\ Head(t) = "makeDir" => Tail(t) \in WithDir
          /\ t \in WithDir => Head(t) \notin {"makeDir", "sorry"} /\ (Head(t) = "removeDir" \/ Tail(t) \in WithDir)
    /\ Tail(<<"say">>) = << >> /\ Head(<<"say">>) = "say"
    /\ WithDir \subseteq Todos /\ << >> \notin Todos
BY DEF Todos, WithDir

(* A task of a row is put back with less before it, or goes.               *)
LEMMA Replacing ==
    ASSUME TasksInv, NEW k \in tasks, NEW todo, todo = << >> \/ (k.long /\ todo \in Todos), tasks' = Replaced(k, todo)
    PROVE  /\ \A j \in tasks' : TaskOK(j)
           /\ OneEach(tasks')
           /\ \A d : d.of # k.id \/ todo \in WithDir => ((\E j \in tasks : Keeps(j, d)) => \E j \in tasks' : Keeps(j, d))
           /\ todo \in WithDir /\ k.long => \A d : d.of = k.id => \E j \in tasks' : Keeps(j, d)
<1> DEFINE new == [k EXCEPT !.todo = todo]
<1>1. TaskOK(k) /\ << >> \notin WithDir
  BY TodosGo DEF TasksInv
<1>2. /\ TaskShape(new) /\ new.todo = todo /\ new.long = k.long /\ new.chat = k.chat /\ new.id = k.id
  BY <1>1 DEF TaskOK, TaskShape
<1>3. tasks' = (tasks \ {k}) \cup (IF todo = << >> THEN {} ELSE {new})
  BY DEF Replaced
<1> HIDE DEF new
<1>4. todo # << >> => TaskOK(new)
  BY <1>1, <1>2 DEF TaskOK
<1>5. \A j \in tasks' : TaskOK(j)
  BY <1>3, <1>4 DEF TasksInv
<1>6. OneEach(tasks')
  BY <1>2, <1>3 DEF TasksInv, OneEach
<1>7. ASSUME NEW d, d.of # k.id \/ todo \in WithDir, NEW j \in tasks, Keeps(j, d) PROVE \E i \in tasks' : Keeps(i, d)
  <2>1. CASE j = k
    BY <1>1, <1>2, <1>3, <1>7, <2>1 DEF Keeps
  <2>2. CASE j # k
    BY <1>3, <1>7, <2>2
  <2> QED
    BY <2>1, <2>2
<1>8. ASSUME todo \in WithDir, k.long, NEW d, d.of = k.id PROVE \E j \in tasks' : Keeps(j, d)
  BY <1>1, <1>2, <1>3, <1>8 DEF Keeps
<1> QED
  BY <1>5, <1>6, <1>7, <1>8

LEMMA TaskGoes == TasksInv /\ TaskStep => TasksInv'
<1> SUFFICES ASSUME TasksInv, TaskStep PROVE TasksInv'
  OBVIOUS
<1>1. PICK k \in tasks :
         /\ tasks' = Replaced(k, Tail(k.todo))
         /\ dirs' = CASE Doing(k, "makeDir") -> dirs \cup {[of |-> k.id, left |-> FALSE]}
                      [] Doing(k, "removeDir") -> {d \in dirs : d.of # k.id}
                      [] OTHER -> dirs
  BY DEF TaskStep
<1> DEFINE t == k.todo
           rest == Tail(t)
<1>2. TaskOK(k) /\ t \in Todos /\ (k.long \/ t = <<"say">>)
  BY DEF TasksInv, TaskOK
<1>3. /\ t # << >> /\ (rest = << >> \/ (k.long /\ rest \in Todos))
      /\ Head(t) = "makeDir" => rest \in WithDir /\ k.long
      /\ t \in WithDir => Head(t) # "makeDir" /\ (Head(t) = "removeDir" \/ rest \in WithDir)
  BY <1>2, TodosGo
<1>4. /\ \A j \in tasks' : TaskOK(j)
      /\ OneEach(tasks')
      /\ \A d : d.of # k.id \/ rest \in WithDir => ((\E j \in tasks : Keeps(j, d)) => \E j \in tasks' : Keeps(j, d))
      /\ rest \in WithDir /\ k.long => \A d : d.of = k.id => \E j \in tasks' : Keeps(j, d)
  BY <1>1, <1>3, Replacing
<1>5. \A d \in dirs : DirShape(d) /\ d.left \in BOOLEAN /\ (d.left \/ \E j \in tasks : Keeps(j, d))
  BY DEF TasksInv
<1>6. ASSUME Head(t) # "removeDir", Head(t) # "makeDir", NEW d \in dirs, ~d.left PROVE \E j \in tasks' : Keeps(j, d)
  <2>1. PICK j \in tasks : Keeps(j, d)
    BY <1>5, <1>6
  <2>2. CASE d.of # k.id \/ rest \in WithDir
    BY <1>4, <2>1, <2>2
  <2>3. CASE j = k
    BY <1>3, <1>6, <2>1, <2>2, <2>3 DEF Keeps
  <2>4. CASE j # k
    <3>1. j \in tasks'
      BY <1>1, <2>4 DEF Replaced
    <3> QED
      BY <2>1, <3>1
  <2> QED
    BY <2>3, <2>4
<1>7. CASE Head(t) = "makeDir"
  <2> DEFINE new == [of |-> k.id, left |-> FALSE]
  <2>1. dirs' = dirs \cup {new}
    BY <1>1, <1>3, <1>7 DEF Doing
  <2>2. DirShape(new) /\ new.left = FALSE /\ new.of = k.id
    BY DEF DirShape
  <2> HIDE DEF new
  <2>3. \E j \in tasks' : Keeps(j, new)
    BY <1>3, <1>4, <1>7, <2>2
  <2>4. ASSUME NEW d \in dirs, ~d.left PROVE \E j \in tasks' : Keeps(j, d)
    BY <1>3, <1>4, <1>5, <1>7, <2>4
  <2> QED
    BY <1>4, <1>5, <2>1, <2>2, <2>3, <2>4 DEF TasksInv
<1>8. CASE Head(t) = "removeDir"
  <2>1. dirs' = {d \in dirs : d.of # k.id}
    BY <1>1, <1>3, <1>8 DEF Doing
  <2> QED
    BY <1>4, <1>5, <2>1 DEF TasksInv
<1>9. CASE Head(t) # "makeDir" /\ Head(t) # "removeDir"
  <2>1. dirs' = dirs
    BY <1>1, <1>9 DEF Doing
  <2> QED
    BY <1>4, <1>5, <1>6, <1>9, <2>1 DEF TasksInv
<1> QED
  BY <1>7, <1>8, <1>9

LEMMA TaskGivesUp == TasksInv /\ TaskFails => TasksInv'
<1> SUFFICES ASSUME TasksInv, TaskFails PROVE TasksInv'
  OBVIOUS
<1>1. PICK k \in tasks : ~Doing(k, "removeDir") /\ tasks' = Replaced(k, AfterError(k))
  BY DEF TaskFails
<1>2. dirs' = dirs
  BY DEF TaskFails
<1>3. TaskOK(k) /\ <<"removeDir", "sorry">> \in WithDir /\ <<"sorry">> \in Todos /\ WithDir \subseteq Todos
  BY DEF TasksInv, WithDir, Todos
<1>4. AfterError(k) = << >> \/ (k.long /\ AfterError(k) \in Todos)
  BY <1>3 DEF AfterError
<1>5. /\ \A j \in tasks' : TaskOK(j)
      /\ OneEach(tasks')
      /\ \A d : d.of # k.id \/ AfterError(k) \in WithDir => ((\E j \in tasks : Keeps(j, d)) => \E j \in tasks' : Keeps(j, d))
  BY <1>1, <1>4, Replacing
<1>6. ASSUME NEW d \in dirs, ~d.left PROVE \E j \in tasks' : Keeps(j, d)
  <2>1. PICK j \in tasks : Keeps(j, d)
    BY <1>6 DEF TasksInv
  <2>2. CASE j # k
    <3>1. j \in tasks'
      BY <1>1, <2>2 DEF Replaced
    <3> QED
      BY <2>1, <3>1
  <2>3. CASE j = k
    <3>1. k.long /\ k.id = d.of /\ k.todo \in WithDir
      BY <2>1, <2>3 DEF Keeps
    <3>2. ~Doing(k, "sorry")
      BY <3>1, TodosGo DEF Doing
    <3>3. AfterError(k) = <<"removeDir", "sorry">>
      BY <3>1, <3>2 DEF AfterError
    <3> QED
      BY <1>3, <1>5, <2>1, <3>3
  <2> QED
    BY <2>2, <2>3
<1> QED
  BY <1>2, <1>5, <1>6 DEF TasksInv

(* New ones find no other of the chat at work, nor among the earlier ones  *)
(* of the batch.                                                           *)
LEMMA SpawnGoes ==
    ASSUME TasksInv, NEW r, Spawn(r), req[r].n \in Nat, Read(r).max \in Nat
    PROVE  TasksInv'
<1> DEFINE Batched == {Task(r, n) : n \in req[r].n .. Read(r).max}
<1>1. tasks' = tasks \cup Batched /\ dirs' = dirs
  BY DEF Spawn
<1>2. ASSUME NEW n
      PROVE  LET k == Task(r, n) IN
             /\ TaskOK(k) /\ k.chat = Batch(r)[n].chat /\ (k.long <=> ~Waits(r, n))
  <2> DEFINE k == Task(r, n)
  <2>1. k = [id |-> <<r, n>>, chat |-> Batch(r)[n].chat, long |-> ~Waits(r, n),
             todo |-> IF Waits(r, n) THEN <<"say">> ELSE Chores(Batch(r)[n].wish)]
    BY DEF Task
  <2> HIDE DEF k
  <2>2. /\ k.chat = Batch(r)[n].chat /\ k.long = ~Waits(r, n)
        /\ k.todo = (IF Waits(r, n) THEN <<"say">> ELSE Chores(Batch(r)[n].wish)) /\ TaskShape(k)
    BY <2>1 DEF TaskShape
  <2>3. Waits(r, n) \in BOOLEAN
    BY DEF Waits
  <2>4. \A w : Chores(w) \in Todos
    BY DEF Chores, Todos, WithDir
  <2>5. <<"say">> \in Todos
    BY DEF Todos
  <2>6. TaskOK(k)
    BY <2>2, <2>3, <2>4, <2>5 DEF TaskOK
  <2> QED
    BY <2>2, <2>3, <2>6 DEF k
<1>3. \A k \in tasks' : TaskOK(k)
  BY <1>1, <1>2 DEF TasksInv
<1>4. ASSUME NEW n \in req[r].n .. Read(r).max, NEW k \in tasks, k.long, Task(r, n).long PROVE k.chat # Task(r, n).chat
  BY <1>2, <1>4 DEF Waits
<1>5. ASSUME NEW m \in req[r].n .. Read(r).max, NEW n \in req[r].n .. Read(r).max, m < n, Task(r, m).long, Task(r, n).long
      PROVE  Task(r, m).chat # Task(r, n).chat
  <2>1. ~Waits(r, m) /\ ~Waits(r, n) /\ m \in req[r].n .. n - 1
    BY <1>2, <1>5
  <2>2. Asks(Batch(r)[m])
    BY <2>1 DEF Waits
  <2>3. Batch(r)[m].chat # Batch(r)[n].chat
    BY <2>1, <2>2 DEF Waits
  <2> QED
    BY <1>2, <2>3
<1>6. OneEach(tasks')
  <2> SUFFICES ASSUME NEW j \in tasks', NEW k \in tasks', j.long, k.long, j.chat = k.chat PROVE j = k
    BY DEF OneEach
  <2>1. CASE j \in tasks /\ k \in tasks
    BY <2>1 DEF TasksInv, OneEach
  <2>2. CASE j \in tasks /\ k \in Batched
    BY <1>4, <2>2
  <2>3. CASE k \in tasks /\ j \in Batched
    BY <1>4, <2>3
  <2>4. CASE j \in Batched /\ k \in Batched
    <3>1. PICK m \in req[r].n .. Read(r).max : j = Task(r, m)
      BY <2>4
    <3>2. PICK n \in req[r].n .. Read(r).max : k = Task(r, n)
      BY <2>4
    <3>3. m = n \/ m < n \/ n < m
      OBVIOUS
    <3> QED
      BY <1>5, <3>1, <3>2, <3>3
  <2> QED
    BY <1>1, <2>1, <2>2, <2>3, <2>4
<1>7. \A d \in dirs' : DirShape(d) /\ d.left \in BOOLEAN /\ (d.left \/ \E k \in tasks' : Keeps(k, d))
  BY <1>1 DEF TasksInv
<1> QED
  BY <1>3, <1>6, <1>7 DEF TasksInv

LEMMA NextTasks == Core /\ Polls /\ TasksInv /\ [Next]_vars => TasksInv'
<1> SUFFICES ASSUME Core, Polls, TasksInv, [Next]_vars PROVE TasksInv'
  OBVIOUS
<1>1. ASSUME NEW r \in Requests, Moved(r) PROVE TasksInv'
  <2>1. Serve(r) /\ Underway(r) /\ ReqInv
    BY <1>1 DEF Moved, Core
  <2>2. CASE UNCHANGED <<tasks, dirs>>
    BY <2>2 DEF TasksInv
  <2>3. CASE Spawn(r)
    <3>1. At(r) = "spawn" /\ req[r].kind = "pollA" /\ PollOK(r)
      BY <2>1, <2>3, KindOf DEF Spawn, Step, At, PollPlaces, Polls
    <3> QED
      BY <2>3, <3>1, SpawnGoes DEF PollOK, Late
  <2> QED
    BY <2>1, <2>2, <2>3, BotWriters
<1>2. ASSUME NEW r \in Requests, Asked(r) \/ Failed(r) PROVE TasksInv'
  <2>1. UNCHANGED <<tasks, dirs>>
    BY <1>2 DEF Asked, Ask, AskMembers, AskSignIn, AskBots, AskBackups, BotsAlone, Failed, StatementFails, botVars
  <2> QED
    BY <2>1 DEF TasksInv
<1>3. ASSUME AllCut PROVE TasksInv'
  <2>1. tasks' = {} /\ dirs' = {[d EXCEPT !.left = TRUE] : d \in dirs}
    BY <1>3 DEF AllCut, Restart
  <2>2. ASSUME NEW e \in dirs' PROVE DirShape(e) /\ e.left = TRUE
    <3>1. PICK d \in dirs : e = [d EXCEPT !.left = TRUE]
      BY <2>1
    <3> QED
      BY <3>1 DEF TasksInv, DirShape
  <2> QED
    BY <2>1, <2>2 DEF TasksInv, OneEach
<1>4. ASSUME Aside PROVE TasksInv'
  <2>1. TaskStep \/ TaskFails \/ UNCHANGED <<tasks, dirs>>
    BY <1>4 DEF Aside, Background, Say, vars, botVars
  <2>2. CASE UNCHANGED <<tasks, dirs>>
    BY <2>2 DEF TasksInv
  <2> QED
    BY <2>1, <2>2, TaskGoes, TaskGivesUp
<1> QED
  BY <1>1, <1>2, <1>3, <1>4, Turnover

LEMMA TasksHold == Spec => []TasksInv
<1>1. Init => TasksInv
  BY DEF Init, InitBots, TasksInv, OneEach
<1> QED
  BY <1>1, NextTasks, PollsHold, RequestsKeepToTheirScripts, PTL DEF Spec

(* Every flag of the services that is set was set by one request that is   *)
(* under way, and only by it; a chat has one long task of the assistant;   *)
(* what was put on the disk and not left there by a restart or a busy time *)
(* has somebody who will remove it; the backup job runs as long as its     *)
(* request has the flag, and the dump it calls ready is there and whole.   *)
THEOREM EveryFlagHasItsOwner == Spec => []FlagsHaveOwners
<1>1. Core /\ FlagsInv /\ PartsInv /\ JobInv /\ TasksInv => FlagsHaveOwners
  <2> SUFFICES ASSUME Core, FlagsInv, PartsInv, JobInv, TasksInv PROVE FlagsHaveOwners
    OBVIOUS
  <2>1. ASSUME NEW f \in {"poll", "pollA", "backup"}
        PROVE  Cardinality(Holders(f)) <= 1 /\ (f \in held <=> Holders(f) # {})
    <3>1. /\ \A q, p \in Requests : f \in req[q].holds /\ f \in req[p].holds => q = p
          /\ f \in held <=> \E q \in Requests : f \in req[q].holds
      BY DEF FlagsInv, Flags
    <3>2. CASE Holders(f) = {}
      BY <3>1, <3>2, FS_EmptySet DEF Holders
    <3>3. ASSUME NEW q \in Holders(f) PROVE Cardinality(Holders(f)) <= 1
      <4>1. Holders(f) = {q}
        BY <3>1 DEF Holders
      <4> QED
        BY <4>1, FS_Singleton
    <3> QED
      BY <3>1, <3>2, <3>3 DEF Holders
  <2>2. \A j, k \in tasks : j.long /\ k.long /\ j.chat = k.chat => j = k
    BY DEF TasksInv, OneEach
  <2>3. \A d \in dirs : d.left \/ \E k \in tasks : k.id = d.of
    BY DEF TasksInv, Keeps
  <2>4. \A p \in parts : p.left \/ Underway(p.of)
    BY DEF PartsInv
  <2>5. backupJob.status = "running" <=> \E r \in Holders("backup") : req[r].kind = "backup"
    BY DEF JobInv, Holders
  <2>6. backupJob.status = "ready" => \E i \in DOMAIN dumps : dumps[i] = [by |-> backupJob.of, whole |-> TRUE]
    BY DEF JobInv
  <2> QED
    BY <2>1, <2>2, <2>3, <2>4, <2>5, <2>6 DEF FlagsHaveOwners
<1> QED
  BY <1>1, RequestsKeepToTheirScripts, FlagsHold, PartsHold, JobHolds, TasksHold, PTL

----------------------------------------------------------------------------
(* Links of chats.  All steps but the linking itself take links away or    *)
(* leave them, with the number that was shown, or mark them.               *)
Loosens(p, q) == p.chat = "none" \/ (p.chat = q.chat /\ (p.proof = "overlap" \/ (p.proof = q.proof /\ p.mobile = q.mobile)))

LEMMA LinksLoosen ==
    ASSUME Core, RightsInv, NEW r \in Requests, Serve(r), At(r) # "link"
    PROVE  \A u \in Users : Loosens(user'[u], user[u])
<1> SUFFICES ASSUME NEW u \in Users PROVE Loosens(user'[u], user[u])
  OBVIOUS
<1>0. ReqInv /\ Shapes /\ Underway(r) /\ Rights(r)
  BY ActionOf DEF Core, RightsInv
<1>1. RowShape(user[u]) /\ user = [v \in Users |-> user[v]]
  BY <1>0 DEF Shapes
<1>2. CASE user'[u] = user[u]
  BY <1>2 DEF Loosens
<1>3. CASE WriteRole(r)
  <2>1. user'[u] = user[u] \/ user'[u] = RoleGiven(user[u], Read(r), req[r].to)
    BY <1>1, <1>3 DEF WriteRole
  <2>2. \A row : RowShape(row) => Loosens(RoleGiven(row, Read(r), req[r].to), row)
    BY DEF RoleGiven, Loosens, RowShape, RowFields
  <2> QED
    BY <1>1, <1>2, <2>1, <2>2
<1>4. CASE WriteActive(r)
  <2>1. user'[u] = user[u] \/ user'[u] = [user[u] EXCEPT !.active = req[r].to = "on"]
    BY <1>1, <1>4 DEF WriteActive
  <2> QED
    BY <1>1, <2>1 DEF Loosens, RowShape, RowFields
<1>5. CASE WriteCode(r)
  <2>1. user' = user \/ \E on \in BOOLEAN : user' = [user EXCEPT ![req[r].of].code = req[r].to, ![req[r].of].codeOn = on]
    BY <1>5 DEF WriteCode
  <2>2. user'[u] = user[u] \/ \E on \in BOOLEAN : user'[u] = [user[u] EXCEPT !.code = req[r].to, !.codeOn = on]
    BY <1>1, <2>1
  <2>3. \A on : Loosens([user[u] EXCEPT !.code = req[r].to, !.codeOn = on], user[u])
    BY <1>1 DEF Loosens, RowShape, RowFields
  <2> QED
    BY <1>2, <2>2, <2>3
<1>6. CASE CreateUser(r)
  <2> DEFINE row == [NoUser EXCEPT !.is = TRUE, !.hand = Actor(r),
                                   !.boss = IF req[r].kind = "createMine" THEN Actor(r) ELSE Nobody]
  <2>1. user'[u] = user[u] \/ user'[u] = row
    BY <1>1, <1>6 DEF CreateUser
  <2>2. row.chat = "none"
    BY DEF NoUser
  <2> HIDE DEF row
  <2> QED
    BY <2>1, <2>2 DEF Loosens
<1>7. CASE WriteHand(r)
  <2>1. user'[u] = user[u] \/ user'[u] = [user[u] EXCEPT !.hand = Actor(r)]
    BY <1>1, <1>7 DEF WriteHand
  <2> QED
    BY <1>1, <2>1 DEF Loosens, RowShape, RowFields
<1>8. CASE WriteProfile(r)
  <2> DEFINE p == Profile(user[u], Read(r), req[r].to)
  <2>1. user'[u] = user[u] \/ (user'[u] = Marked(p, r) /\ u = req[r].of)
    BY <1>1, <1>8 DEF WriteProfile
  <2>2. RowShape(p) /\ p.mobile = req[r].to
        /\ p.chat = (IF req[r].to # Read(r).mobile THEN "none" ELSE user[u].chat)
        /\ p.proof = (IF req[r].to # Read(r).mobile THEN "none" ELSE user[u].proof)
    BY <1>1, ProfileRow
  <2> HIDE DEF p
  <2>3. /\ Marked(p, r).mobile = p.mobile /\ Marked(p, r).chat = p.chat
        /\ Marked(p, r).proof = IF p.chat # "none" /\ Warned(r) THEN "overlap" ELSE p.proof
    BY <2>2, MarkedRow DEF Warned
  <2>4. Warned(r) \/ Read(r).mobile = user[req[r].of].mobile
    <3>1. At(r) = "writeProfile"
      BY <1>8 DEF WriteProfile, Step, At
    <3> QED
      BY <1>0, <3>1, StepsOf DEF Rights, IsNumber
  <2>5. CASE u = req[r].of
    <3>1. Loosens(Marked(p, r), user[u])
      BY <2>2, <2>3, <2>4, <2>5 DEF Loosens
    <3> QED
      BY <1>2, <2>1, <3>1
  <2> QED
    BY <1>2, <2>1, <2>5
<1>9. CASE UnlinkOthers(r) \/ UnlinkChat(r) \/ Unlink(r)
  <2>1. user'[u] = user[u] \/ user'[u] = Unlinked(user[u])
    BY <1>1, <1>9 DEF UnlinkOthers, UnlinkChat, Unlink, LeavesChat
  <2> QED
    BY <1>1, <1>2, <2>1, UnlinkedRow DEF Loosens
<1>10. ~Link(r)
  BY DEF Link, Step, At
<1> QED
  BY <1>2, <1>3, <1>4, <1>5, <1>6, <1>7, <1>8, <1>9, <1>10, UserWriters

LinkOK(r) ==
    /\ At(r) \in {"unlinkOthers", "link"} =>
          req[r].kind = "poll" /\ req[r].of \in Users /\ (Warned(r) \/ user[req[r].of].mobile = Message(r).wish)
    /\ At(r) = "link" => \A v \in Users \ {req[r].of} : user[v].chat # Message(r).chat
RowLinked(row) == row.chat # "none" => row.proof \in {row.mobile, "overlap"}
Apart == \A u, v \in Users : user[u].chat # "none" /\ user[v].chat = user[u].chat => u = v
LinksInv ==
    /\ \A u \in Users : RowLinked(user[u])
    /\ Apart
    /\ \A r \in Requests : Underway(r) => LinkOK(r)

LEMMA RowsLoosen ==
    ASSUME LinksInv, \A u \in Users : Loosens(user'[u], user[u])
    PROVE  (\A u \in Users : RowLinked(user'[u])) /\ Apart'
BY DEF LinksInv, Apart, RowLinked, Loosens

(* Those who wait stay as they are.                                        *)
LEMMA LinkStays ==
    ASSUME Polls, Hears, NEW r \in Requests, Underway(r), LinkOK(r), Same(req'[r], req[r]), NEW what,
           req'[r].moved = req[r].moved \cup what, \A u \in Users \ what : user'[u].mobile = user[u].mobile,
           At(r) = "link" => \A u \in Users : Loosens(user'[u], user[u])
    PROVE  LinkOK(r)'
<1>1. /\ At(r)' = At(r) /\ req'[r].of = req[r].of /\ req'[r].kind = req[r].kind /\ SameMemory(r)
      /\ PollOK(r) /\ BoxesOK
  BY DEF Same, At, SameMemory, Polls
<1>2. CASE At(r) \notin {"unlinkOthers", "link"}
  BY <1>1, <1>2 DEF LinkOK
<1>3. CASE At(r) \in {"unlinkOthers", "link"}
  <2>1. req[r].kind = "poll" /\ At(r) \in Late /\ req[r].n <= Read(r).max /\ Message(r).wish \in Mobiles
    BY <1>1, <1>3 DEF LinkOK, PollOK, Late, DigestPlaces
  <2>2. Message(r)' = Message(r)
    BY <1>1, <2>1, MessageStays
  <2>3. Message(r).chat \in Chats
    BY <1>1, <2>1, MessageSaid DEF Lines
  <2>4. Message(r).chat # "none"
    BY <2>3, MembersAssumption
  <2>5. Warned(r)' \/ (user'[req[r].of].mobile = Message(r).wish)
    BY <1>1, <1>3 DEF LinkOK, Warned
  <2>6. ASSUME At(r) = "link" PROVE \A v \in Users \ {req[r].of} : user'[v].chat # Message(r).chat
    BY <2>4, <2>6 DEF LinkOK, Loosens
  <2>7. req[r].of \in Users
    BY <1>3 DEF LinkOK
  <2> QED
    BY <1>1, <2>1, <2>2, <2>5, <2>6, <2>7 DEF LinkOK
<1> QED
  BY <1>2, <1>3

(* Who goes on to link has found the account and sent all others away.     *)
LEMMA LinkGoes ==
    ASSUME Core, Polls, Hears, LinksInv, NEW r \in Requests, Serve(r), Underway(r)'
    PROVE  LinkOK(r)'
<1>0. ReqInv /\ Shapes /\ Underway(r) /\ LinkOK(r) /\ PollOK(r) /\ BoxesOK
  BY ActionOf DEF Core, LinksInv, Polls
<1>1. req'[r].kind = req[r].kind
  BY <1>0, ServeTells DEF Told, Served
<1>2. CASE At(r)' \notin {"unlinkOthers", "link"}
  BY <1>2 DEF LinkOK
<1>3. CASE At(r)' \in {"unlinkOthers", "link"}
  <2>1. req[r].kind = "poll"
    <3>1. Sound(req'[r]) /\ req'[r].at = "run"
      BY <1>0, ServeTells DEF Told, Served, Underway
    <3>2. Path(req'[r].kind, req'[r].todo)
      BY <3>1 DEF Sound
    <3>3. Final(req'[r].kind, At(r)') \/ Way(req'[r].kind, At(r)', Head(Tail(req'[r].todo)))
      BY <3>2, PathTail DEF At
    <3> QED
      BY <1>1, <1>3, <3>3 DEF Way, Final
  <2>2. \/ At(r) = "findProfile" /\ At(r)' = "unlinkOthers" /\ SameMemory(r) /\ req'[r].of \in Found(Message(r).wish)
        \/ At(r) = "unlinkOthers" /\ At(r)' = "link" /\ SameMemory(r) /\ req'[r].of = req[r].of /\ req'[r].moved = req[r].moved
    <3>1. Head(Answers(Message(r).wish)) \in {"findProfile", "unlinkChat", "reply"}
      BY PathsOfUpdates
    <3> QED
      BY <1>3, <2>1, <3>1, PollMoves
  <2>3. At(r) \in Late /\ req[r].n <= Read(r).max /\ Message(r).wish \in Mobiles
    BY <1>0, <2>1, <2>2 DEF PollOK, Late, DigestPlaces
  <2>4. Message(r)' = Message(r) /\ Message(r).chat \in Chats
    BY <1>0, <1>1, <2>1, <2>2, <2>3, MessageStays, MessageSaid DEF Lines
  <2>5. CASE At(r) = "findProfile"
    <3>1. user' = user
      BY <2>5, ActionOf DEF FindProfile, memberVars
    <3>2. req'[r].of \in Users /\ user[req'[r].of].mobile = Message(r).wish
      BY <2>2, <2>5 DEF Found, Registered
    <3> QED
      BY <1>1, <2>1, <2>2, <2>4, <2>5, <3>1, <3>2 DEF LinkOK
  <2>6. CASE At(r) = "unlinkOthers"
    <3>1. user' = LeavesChat(Message(r).chat, req[r].of)
      BY <2>6, ActionOf DEF UnlinkOthers
    <3>2. \A u \in Users : user'[u] = IF user[u].chat = Message(r).chat /\ u # req[r].of THEN Unlinked(user[u]) ELSE user[u]
      BY <3>1 DEF LeavesChat
    <3>3. \A u \in Users : Unlinked(user[u]).chat = "none" /\ Unlinked(user[u]).mobile = user[u].mobile
      BY <1>0, UnlinkedRow DEF Shapes
    <3>4. Message(r).chat # "none"
      BY <2>4, MembersAssumption
    <3>5. \A u \in Users : user'[u].mobile = user[u].mobile /\ (u # req[r].of => user'[u].chat # Message(r).chat)
      BY <3>2, <3>3, <3>4
    <3> QED
      BY <1>0, <1>1, <2>1, <2>2, <2>4, <2>6, <3>5 DEF LinkOK, Warned
  <2> QED
    BY <2>2, <2>5, <2>6
<1> QED
  BY <1>2, <1>3

LEMMA LinkLinks ==
    ASSUME Core, Polls, LinksInv, NEW r \in Requests, Serve(r), At(r) = "link"
    PROVE  (\A u \in Users : RowLinked(user'[u])) /\ Apart'
<1>0. ReqInv /\ Shapes /\ Underway(r) /\ LinkOK(r) /\ PollOK(r) /\ BoxesOK /\ Link(r)
  BY ActionOf DEF Core, LinksInv, Polls
<1> DEFINE t == req[r].of
           m == Message(r)
           p == [user[t] EXCEPT !.chat = m.chat, !.proof = m.wish]
<1>1. t \in Users /\ (Warned(r) \/ user[t].mobile = m.wish) /\ \A v \in Users \ {t} : user[v].chat # m.chat
  BY <1>0 DEF LinkOK
<1>2. m.chat # "none"
  <2>1. req[r].kind = "poll" /\ At(r) \in Late /\ req[r].n <= Read(r).max /\ m.wish \in Mobiles
    BY <1>0 DEF LinkOK, PollOK, Late, DigestPlaces
  <2>2. m.chat \in Chats
    BY <1>0, <2>1, MessageSaid DEF Lines
  <2> QED
    BY <2>2, MembersAssumption
<1>3. user' = [user EXCEPT ![t] = Marked(p, r)]
  BY <1>0 DEF Link
<1>4. RowShape(p) /\ p.chat = m.chat /\ p.proof = m.wish /\ p.mobile = user[t].mobile
  <2>1. RowShape(user[t])
    BY <1>0, <1>1 DEF Shapes
  <2> QED
    BY <2>1 DEF RowShape, RowFields
<1> HIDE DEF p
<1>5. /\ Marked(p, r).mobile = user[t].mobile /\ Marked(p, r).chat = m.chat
      /\ Marked(p, r).proof = IF Warned(r) THEN "overlap" ELSE m.wish
  BY <1>2, <1>4, MarkedRow DEF Warned
<1>6. \A u \in Users : user'[u] = IF u = t THEN Marked(p, r) ELSE user[u]
  BY <1>0, <1>1, <1>3 DEF Shapes
<1> HIDE DEF m, t
<1>7. \A u \in Users : RowLinked(user'[u])
  BY <1>1, <1>5, <1>6 DEF LinksInv, RowLinked
<1>8. Apart'
  BY <1>1, <1>5, <1>6 DEF LinksInv, Apart
<1> QED
  BY <1>7, <1>8

LEMMA NextLinks == Core /\ Polls /\ RightsInv /\ FlagsInv /\ LinksInv /\ [Next]_vars => LinksInv'
<1> SUFFICES ASSUME Core, Polls, RightsInv, FlagsInv, LinksInv, [Next]_vars PROVE LinksInv'
  OBVIOUS
<1>0. ReqInv /\ Requests' = Requests /\ Hears
  BY Turnover, NextPolls DEF Core
<1>1. ASSUME NEW r \in Requests, Moved(r) PROVE LinksInv'
  <2>1. PICK what : Served(r, what) /\ Rely(what)
    BY <1>1 DEF Moved
  <2>2. Serve(r) /\ Underway(r)
    BY <1>1 DEF Moved
  <2>3. At(r) # "link" => \A u \in Users : Loosens(user'[u], user[u])
    BY <2>2, LinksLoosen
  <2>4. (\A u \in Users : RowLinked(user'[u])) /\ Apart'
    BY <2>2, <2>3, RowsLoosen, LinkLinks
  <2>5. ASSUME NEW q \in Requests \ {r}, Underway(q)' PROVE LinkOK(q)'
    <3>1. Same(req'[q], req[q]) /\ (Underway(q) => req'[q].moved = req[q].moved \cup what)
      BY <2>1 DEF Served, Others
    <3>2. Underway(q) /\ LinkOK(q)
      BY <2>5, <3>1 DEF Same, Underway, LinksInv
    <3>3. \A u \in Users \ what : user'[u].mobile = user[u].mobile
      BY <2>1 DEF Rely, AsBefore
    <3>4. ~(At(q) = "link" /\ At(r) = "link")
      <4>1. At(q) = "link" /\ At(r) = "link" => "poll" \in req[q].holds /\ "poll" \in req[r].holds
        <5>1. req[q].holds = HoldsOf(req[q].kind, At(q)) /\ req[r].holds = HoldsOf(req[r].kind, At(r))
          BY <1>0, <2>2, <3>2, AtWork
        <5>2. LinkOK(r)
          BY <2>2 DEF LinksInv
        <5> QED
          BY <3>2, <5>1, <5>2 DEF LinkOK, HoldsOf
      <4> QED
        BY <4>1 DEF FlagsInv, Flags
    <3>5. At(q) = "link" => \A u \in Users : Loosens(user'[u], user[u])
      BY <2>3, <3>4
    <3> QED
      BY <1>0, <3>1, <3>2, <3>3, <3>5, LinkStays
  <2>6. Underway(r)' => LinkOK(r)'
    BY <1>0, <2>2, LinkGoes
  <2> QED
    BY <1>0, <2>4, <2>5, <2>6 DEF LinksInv
<1>2. ASSUME UNCHANGED user, NEW r, Underway(r)' => LinkOK(r)',
             \A q \in Requests \ {r} : Same(req'[q], req[q]) /\ (Underway(q) => req'[q].moved = req[q].moved)
      PROVE  LinksInv'
  <2>1. \A u \in Users : Loosens(user'[u], user[u])
    BY <1>2 DEF Loosens
  <2>2. ASSUME NEW q \in Requests \ {r}, Underway(q)' PROVE LinkOK(q)'
    <3>1. Same(req'[q], req[q]) /\ Underway(q) /\ LinkOK(q) /\ req'[q].moved = req[q].moved \cup {}
      BY <1>2, <2>2 DEF Same, Underway, LinksInv
    <3>2. \A u \in Users \ {} : user'[u].mobile = user[u].mobile
      BY <1>2
    <3> QED
      BY <1>0, <2>1, <3>1, <3>2, LinkStays
  <2> QED
    BY <1>0, <1>2, <2>1, <2>2, RowsLoosen DEF LinksInv
<1>3. ASSUME NEW r \in Requests, Asked(r) PROVE LinksInv'
  <2>1. LinkOK(r)'
    BY <1>3 DEF Asked, FirstSteps, LinkOK
  <2> QED
    BY <1>2, <1>3, <2>1 DEF Asked, Others
<1>4. ASSUME NEW r \in Requests, Failed(r) PROVE LinksInv'
  BY <1>2, <1>4 DEF Failed, Served, Others
<1>5. ASSUME AllCut PROVE LinksInv'
  <2> DEFINE row == [NoUser EXCEPT !.is = TRUE, !.role = "ADMIN"]
  <2>1. user' = user \/ user' = [user EXCEPT ![Root] = row]
    BY <1>5 DEF AllCut, Restart
  <2>2. row.chat = "none"
    BY DEF NoUser
  <2> HIDE DEF row
  <2>3. \A u \in Users : Loosens(user'[u], user[u])
    BY <2>1, <2>2 DEF Loosens, Core, Shapes
  <2> QED
    BY <1>0, <1>5, <2>3, RowsLoosen DEF LinksInv, AllCut
<1>6. ASSUME Aside PROVE LinksInv'
  <2>1. UNCHANGED <<user, req>>
    BY <1>6 DEF Aside, Background, Age, Say, TaskStep, TaskFails, vars, memberVars
  <2>2. \A q \in Requests : Same(req'[q], req[q]) /\ req'[q].moved = req[q].moved
    BY <2>1 DEF Same
  <2>3. ASSUME NEW q \in Requests, Underway(q)' PROVE LinkOK(q)'
    <3>1. Underway(q) /\ LinkOK(q)
      BY <2>1, <2>3 DEF Underway, LinksInv
    <3>2. \A u \in Users : Loosens(user'[u], user[u]) /\ user'[u].mobile = user[u].mobile
      BY <2>1 DEF Loosens
    <3>3. req'[q].moved = req[q].moved \cup {}
      BY <2>2
    <3> QED
      BY <1>0, <2>2, <3>1, <3>2, <3>3, LinkStays
  <2>4. \A u \in Users : Loosens(user'[u], user[u])
    BY <2>1 DEF Loosens
  <2> QED
    BY <1>0, <2>3, <2>4, RowsLoosen DEF LinksInv
<1> QED
  BY <1>1, <1>3, <1>4, <1>5, <1>6, Turnover

LEMMA InitLinks == Init => LinksInv
<1> SUFFICES ASSUME Init PROVE LinksInv
  OBVIOUS
<1>1. \A r \in Requests : ~Underway(r)
  BY DEF Init, InitRequests, Requests, Underway, NoRequest
<1>2. \A u \in Users : user[u] = IF u \in DOMAIN FirstUsers THEN FirstUsers[u] ELSE NoUser
  BY DEF Init, InitMembers
<1>3. NoUser.chat = "none"
  BY DEF NoUser
<1>4. \A u \in Users : RowLinked(user[u])
  BY <1>2, <1>3, MembersAssumption DEF RowLinked
<1>5. Apart
  BY <1>2, <1>3, MembersAssumption DEF Apart
<1> QED
  BY <1>1, <1>4, <1>5 DEF LinksInv

LEMMA LinksHold == Spec => []LinksInv
<1> QED
  BY InitLinks, NextLinks, PollsHold, RightsHold, FlagsHold, RequestsKeepToTheirScripts, PTL DEF Spec

(* A chat belongs to at most one account, and the account it belongs to    *)
(* has the number the chat has shown, unless the link is marked: a number  *)
(* that changed while it was being linked, or two forms saved at a time.   *)
THEOREM AChatIsOfOneAccount == Spec => []LinksAreSound
<1>1. LinksInv => LinksAreSound
  BY DEF LinksInv, LinksAreSound, RowLinked, Apart
<1> QED
  BY <1>1, LinksHold, PTL
=============================================================================
