----------------------------- MODULE LlmProofs ------------------------------
(* Proofs about Llm for any users, calls, models, quotas and failures.     *)
EXTENDS Llm, SumTheorems, TLAPS

(* The rows of the history, of which there are only finitely many: what a  *)
(* call costs is no negative number, and none is of an epoch to come.      *)
UsageRow == [call: Calls, user: Users \cup {Nobody}, ok: BOOLEAN, tokens: Nat, epoch: Nat,
             kept: BOOLEAN]
LogInv ==
    /\ log \subseteq UsageRow /\ IsFiniteSet(log)
    /\ \A row \in log : row.epoch <= epoch /\ call[row.call].at # "idle"

(* A call's record stays one when a field is set.                          *)
LEMMA SetField ==
    ASSUME NEW job \in Job
    PROVE  /\ \A x \in {"idle", "limit", "since", "used", "creds", "ask", "row",
                        "error", "failRow", "done", "failed"} : [job EXCEPT !.at = x] \in Job
           /\ \A x \in BOOLEAN : [job EXCEPT !.search = x] \in Job
           /\ \A x \in BOOLEAN : [job EXCEPT !.plain = x] \in Job
           /\ \A x \in BOOLEAN : [job EXCEPT !.lost = x] \in Job
           /\ \A x \in Nat : [job EXCEPT !.model = x] \in Job
           /\ \A x \in 1..ToolSets : [job EXCEPT !.set = x] \in Job
           /\ \A x \in 1..3 : [job EXCEPT !.attempt = x] \in Job
           /\ \A x \in Nat : [job EXCEPT !.asked = x] \in Job
           /\ \A x \in Limits : [job EXCEPT !.limit = x] \in Job
           /\ \A x \in Nat : [job EXCEPT !.since = x] \in Job
           /\ \A x \in {"none", "answer", "garbage", "rate", "error"} :
                  [job EXCEPT !.cause = x] \in Job
           /\ \A x \in Tokens \cup {0} : [job EXCEPT !.tokens = x] \in Job
<1>1. \A x \in {"idle", "limit", "since", "used", "creds", "ask", "row",
                "error", "failRow", "done", "failed"} : [job EXCEPT !.at = x] \in Job
  BY DEF Job
<1>2. /\ \A x \in BOOLEAN : [job EXCEPT !.search = x] \in Job
      /\ \A x \in BOOLEAN : [job EXCEPT !.plain = x] \in Job
      /\ \A x \in BOOLEAN : [job EXCEPT !.lost = x] \in Job
  BY DEF Job
<1>3. /\ \A x \in Nat : [job EXCEPT !.model = x] \in Job
      /\ \A x \in 1..ToolSets : [job EXCEPT !.set = x] \in Job
      /\ \A x \in 1..3 : [job EXCEPT !.attempt = x] \in Job
      /\ \A x \in Nat : [job EXCEPT !.asked = x] \in Job
  BY DEF Job
<1>4. /\ \A x \in Limits : [job EXCEPT !.limit = x] \in Job
      /\ \A x \in Nat : [job EXCEPT !.since = x] \in Job
  BY DEF Job
<1>5. /\ \A x \in {"none", "answer", "garbage", "rate", "error"} : [job EXCEPT !.cause = x] \in Job
      /\ \A x \in Tokens \cup {0} : [job EXCEPT !.tokens = x] \in Job
  BY DEF Job
<1> QED
  BY <1>1, <1>2, <1>3, <1>4, <1>5

LEMMA Small == /\ 1 \in 1..ToolSets /\ 1 \in 1..3 /\ 1 \in Nat /\ 0 \in Nat
               /\ TRUE \in BOOLEAN /\ FALSE \in BOOLEAN
  BY LlmAssumption

(* The call itself, whatever becomes of its request.                       *)
Same(job, new) ==
    /\ new.user = job.user /\ new.kind = job.kind /\ new.purpose = job.purpose
    /\ new.cause = job.cause /\ new.tokens = job.tokens /\ new.lost = job.lost

LEMMA LeaveTyped ==
    ASSUME NEW job \in Job, NEW place \in {"row", "error", "failed"}
    PROVE  Leave(job, place) \in Job /\ Leave(job, place).at = place /\ Same(job, Leave(job, place))
<1>1. Leave(job, place) \in Job
  <2>1. place \in {"idle", "limit", "since", "used", "creds", "ask", "row",
                  "error", "failRow", "done", "failed"}
    OBVIOUS
  <2> QED
    BY <2>1, Small, SetField, Zenon DEF Leave
<1>2. Leave(job, place).at = place
  BY DEF Leave, Job
<1>3. Leave(job, place).user = job.user
  BY DEF Leave, Job
<1>4. Leave(job, place).kind = job.kind
  BY DEF Leave, Job
<1>5. Leave(job, place).purpose = job.purpose
  BY DEF Leave, Job
<1>6. Leave(job, place).cause = job.cause
  BY DEF Leave, Job
<1>7. Leave(job, place).tokens = job.tokens
  BY DEF Leave, Job
<1>8. Leave(job, place).lost = job.lost
  BY DEF Leave, Job
<1> QED
  BY <1>1, <1>2, <1>3, <1>4, <1>5, <1>6, <1>7, <1>8 DEF Same

(* What the handling of a failed request keeps of the call.                *)
Kept(job, new) ==
    /\ new \in Job
    /\ new.at = "ask" \/ new.at = (IF job.kind = "transcript" THEN "failed" ELSE "error")
    /\ Same(job, new)

(* How far a call has come in its loops, and so how often it may have      *)
(* asked: n is what was asked before.                                      *)
Round(job) == IF job.plain THEN 3 * Models ELSE 0
Chatted(job) == 3 * (job.model - 1) + (job.attempt - 1)
Rank(job, n) ==
    /\ job.kind = "once" => job.search /\ n = 0
    /\ job.kind \in {"systemone", "speech"} => job.attempt <= 2 /\ n <= job.attempt - 1
    /\ job.kind = "transcript" => job.model \in 1..3 /\ n <= Chatted(job)
    /\ job.kind \in {"text", "test", "json", "search"} => job.model \in 1..Models
    /\ job.kind \in {"text", "test"} => n <= Chatted(job)
    /\ job.kind = "json" => n <= Round(job) + Chatted(job)
    /\ job.kind = "search" =>
          n <= IF job.search
               THEN (2 * ToolSets) * (job.model - 1) + 2 * (job.set - 1) + (IF job.plain THEN 1 ELSE 0)
               ELSE (2 * ToolSets) * Models + Round(job) + Chatted(job)
    /\ job.search => job.kind \in {"once", "search"}

LEMMA NextModelIs ==
    ASSUME NEW job \in Job
    PROVE  LET new == NextModel(job) IN
           /\ new \in Job /\ Same(job, new) /\ new.at = job.at /\ new.search = job.search
           /\ new.plain = job.plain /\ new.asked = job.asked
           /\ new.model = job.model + 1 /\ new.set = 1 /\ new.attempt = 1
<1>1. NextModel(job) \in Job
  <2>1. job.model + 1 \in Nat
    BY DEF Job
  <2> QED
    BY <2>1, Small, SetField, Zenon DEF NextModel
<1>2. Same(job, NextModel(job))
  BY DEF NextModel, Job, Same
<1>3. NextModel(job).at = job.at /\ NextModel(job).search = job.search
  BY DEF NextModel, Job
<1>4. NextModel(job).plain = job.plain /\ NextModel(job).asked = job.asked
  BY DEF NextModel, Job
<1>5. NextModel(job).model = job.model + 1 /\ NextModel(job).set = 1 /\ NextModel(job).attempt = 1
  BY DEF NextModel, Job
<1> QED
  BY <1>1, <1>2, <1>3, <1>4, <1>5

LEMMA AgainIs ==
    ASSUME NEW job \in Job, job.attempt < 3
    PROVE  LET new == Again(job) IN
           /\ new \in Job /\ Same(job, new) /\ new.at = job.at /\ new.search = job.search
           /\ new.plain = job.plain /\ new.asked = job.asked
           /\ new.model = job.model /\ new.set = job.set /\ new.attempt = job.attempt + 1
  BY DEF Again, Job, Same

LEMMA GiveIs ==
    ASSUME NEW job \in Job
    PROVE  Kept(job, Give(job)) /\ Give(job).at # "ask"
  BY LeaveTyped DEF Give, Kept

LEMMA ChatAfterRank ==
    ASSUME NEW job \in Job, job.at = "ask", NEW o \in Outcomes, ~job.search,
           job.kind \in {"text", "test", "json", "search"}, Rank(job, job.asked - 1)
    PROVE  LET new == ChatAfter(job, o) IN
           Kept(job, new) /\ (new.at = "ask" => Rank(new, new.asked))
<1> DEFINE W == (2 * ToolSets) * Models
<1>0. /\ job.model \in 1..Models /\ job.attempt \in 1..3 /\ job.asked \in Nat /\ job.plain \in BOOLEAN
      /\ Models \in Nat /\ W \in Int /\ Round(job) \in Int /\ Chatted(job) \in Int
  BY LlmAssumption DEF Rank, Job, Round, Chatted
<1> HIDE DEF W
<1>1. CASE job.attempt < 3 /\ ChatAfter(job, o) = Again(job)
  <2>1. PICK new : new = Again(job)
    OBVIOUS
  <2>2. Kept(job, new) /\ new.kind = job.kind /\ Round(new) = Round(job)
    BY <1>1, <2>1, AgainIs DEF Kept, Same, Round
  <2>3. Chatted(new) = Chatted(job) + 1
    BY <1>0, <1>1, <2>1, AgainIs DEF Chatted
  <2>4. Rank(new, new.asked)
    BY <1>0, <1>1, <2>1, <2>2, <2>3, AgainIs DEF Rank, W
  <2> QED
    BY <1>1, <2>1, <2>2, <2>4
<1>2. CASE job.model < Models /\ job.attempt = 3 /\ ChatAfter(job, o) = NextModel(job)
  <2>1. PICK new : new = NextModel(job)
    OBVIOUS
  <2>2. Kept(job, new) /\ new.kind = job.kind /\ Round(new) = Round(job)
    BY <1>2, <2>1, NextModelIs DEF Kept, Same, Round
  <2>3. Chatted(new) = Chatted(job) + 1
    BY <1>0, <1>2, <2>1, NextModelIs DEF Chatted
  <2>4. Rank(new, new.asked)
    BY <1>0, <1>2, <2>1, <2>2, <2>3, NextModelIs DEF Rank, W
  <2> QED
    BY <1>2, <2>1, <2>2, <2>4
<1>3. CASE ~job.plain /\ job.kind \in {"json", "search"}
           /\ ChatAfter(job, o) = [job EXCEPT !.plain = TRUE, !.model = 1, !.attempt = 1]
  <2>1. PICK new : new = [job EXCEPT !.plain = TRUE, !.model = 1, !.attempt = 1]
    OBVIOUS
  <2>2. new \in Job
    BY <2>1, Small, SetField, Zenon
  <2>3. Same(job, new)
    BY <2>1 DEF Job, Same
  <2>4. new.at = job.at /\ new.search = job.search /\ new.asked = job.asked
    BY <2>1 DEF Job
  <2>5. new.plain = TRUE /\ new.model = 1 /\ new.attempt = 1
    BY <2>1 DEF Job
  <2>6. Chatted(new) = 0 /\ Round(new) = 3 * Models /\ Round(job) = 0 /\ new.kind = job.kind
    BY <1>3, <2>3, <2>5 DEF Chatted, Round, Same
  <2>7. Chatted(job) <= 3 * Models - 1
    BY <1>0 DEF Chatted
  <2>8. Rank(new, new.asked)
    BY <1>0, <1>3, <2>4, <2>5, <2>6, <2>7, LlmAssumption DEF Rank, W
  <2> QED
    BY <1>3, <2>1, <2>2, <2>3, <2>4, <2>8 DEF Kept
<1>4. CASE ChatAfter(job, o) = Give(job)
  BY <1>4, GiveIs
<1>5. \/ job.attempt < 3 /\ ChatAfter(job, o) = Again(job)
      \/ job.model < Models /\ job.attempt = 3 /\ ChatAfter(job, o) = NextModel(job)
      \/ ~job.plain /\ job.kind \in {"json", "search"}
           /\ ChatAfter(job, o) = [job EXCEPT !.plain = TRUE, !.model = 1, !.attempt = 1]
      \/ ChatAfter(job, o) = Give(job)
  BY <1>0 DEF ChatAfter
<1> QED
  BY <1>1, <1>2, <1>3, <1>4, <1>5

LEMMA SearchAfterRank ==
    ASSUME NEW job \in Job, job.at = "ask", NEW o \in Outcomes, job.search,
           Rank(job, job.asked - 1)
    PROVE  LET new == SearchAfter(job, o) IN
           Kept(job, new) /\ (new.at = "ask" => Rank(new, new.asked))
<1> DEFINE W == 2 * ToolSets
<1>0. /\ job.set \in 1..ToolSets /\ job.model \in Nat /\ job.attempt \in 1..3 /\ job.asked \in Nat
      /\ job.plain \in BOOLEAN /\ Models \in Nat \ {0} /\ ToolSets \in Nat \ {0}
      /\ W \in Nat /\ W * (job.model - 1) \in Int /\ W * Models \in Int
  BY LlmAssumption DEF Job
<1>1. CASE SearchAfter(job, o) = Give(job)
  BY <1>1, GiveIs
<1>2. ASSUME job.kind # "once" PROVE job.kind = "search" /\ job.model \in 1..Models
  BY <1>2 DEF Rank
<1>3. CASE job.kind # "once" /\ ~job.plain /\ SearchAfter(job, o) = [job EXCEPT !.plain = TRUE]
  <2>1. PICK new : new = [job EXCEPT !.plain = TRUE]
    OBVIOUS
  <2>2. Kept(job, new) /\ new.kind = job.kind
    BY <2>1 DEF Kept, Job, Same
  <2>3. /\ new.search = job.search /\ new.plain = TRUE /\ new.model = job.model
        /\ new.set = job.set /\ new.attempt = job.attempt /\ new.asked = job.asked
    BY <2>1 DEF Job
  <2> HIDE DEF W
  <2>4. Rank(new, new.asked)
    BY <1>0, <1>2, <1>3, <2>2, <2>3 DEF Rank
  <2> QED
    BY <1>3, <2>1, <2>2, <2>4
<1>4. CASE job.kind # "once" /\ job.set < ToolSets
           /\ SearchAfter(job, o) = [job EXCEPT !.set = @ + 1, !.plain = FALSE]
  <2>1. PICK new : new = [job EXCEPT !.set = @ + 1, !.plain = FALSE]
    OBVIOUS
  <2>2. Kept(job, new) /\ new.kind = job.kind
    <3>1. job.set + 1 \in 1..ToolSets
      BY <1>0, <1>4
    <3>2. new \in Job
      BY <2>1, <3>1, Small, SetField, Zenon
    <3>3. new.at = job.at
      BY <2>1 DEF Job
    <3>4. Same(job, new)
      BY <2>1 DEF Job, Same
    <3> QED
      BY <3>2, <3>3, <3>4 DEF Kept, Same
  <2>3. /\ new.search = job.search /\ new.plain = FALSE /\ new.model = job.model
        /\ new.set = job.set + 1 /\ new.attempt = job.attempt /\ new.asked = job.asked
    BY <2>1 DEF Job
  <2>4. Rank(new, new.asked)
    BY <1>0, <1>2, <1>4, <2>2, <2>3 DEF Rank
  <2> QED
    BY <1>4, <2>1, <2>2, <2>4
<1>5. CASE job.kind # "once" /\ job.set = ToolSets /\ job.model < Models
           /\ SearchAfter(job, o) = [NextModel(job) EXCEPT !.plain = FALSE]
  <2>1. PICK next : next = NextModel(job)
    OBVIOUS
  <2>2. PICK new : new = [next EXCEPT !.plain = FALSE]
    OBVIOUS
  <2>3. next \in Job /\ Same(job, next)
    BY <2>1, NextModelIs
  <2>4. Kept(job, new) /\ new.kind = job.kind
    BY <2>1, <2>2, <2>3, NextModelIs DEF Kept, Job, Same
  <2>5. /\ new.search = next.search /\ new.plain = FALSE /\ new.model = next.model
        /\ new.set = next.set /\ new.asked = next.asked
    BY <2>2, <2>3 DEF Job
  <2>6. /\ new.search = job.search /\ new.plain = FALSE /\ new.model = job.model + 1
        /\ new.set = 1 /\ new.asked = job.asked
    BY <2>1, <2>5, NextModelIs
  <2>7. W * ((job.model + 1) - 1) = W * (job.model - 1) + W
    <3> HIDE DEF W
    <3> QED
      BY <1>0
  <2>8. Rank(new, new.asked)
    <3>1. job.asked - 1 <= W * (job.model - 1) + 2 * (job.set - 1) + 1
      BY <1>0, <1>2, <1>5 DEF Rank
    <3>2. new.asked <= W * (new.model - 1) + 2 * (new.set - 1) + (IF new.plain THEN 1 ELSE 0)
      BY <1>0, <1>5, <2>6, <2>7, <3>1
    <3> QED
      BY <1>0, <1>2, <1>5, <2>4, <2>6, <3>2 DEF Rank
  <2> QED
    BY <1>5, <2>1, <2>2, <2>4, <2>8
<1>6. CASE job.kind # "once" /\ job.set = ToolSets /\ job.model >= Models
           /\ SearchAfter(job, o) =
                 [job EXCEPT !.search = FALSE, !.plain = FALSE, !.model = 1, !.set = 1, !.attempt = 1]
  <2>1. PICK new : new = [job EXCEPT !.search = FALSE, !.plain = FALSE, !.model = 1, !.set = 1, !.attempt = 1]
    OBVIOUS
  <2>2. new \in Job
    BY <2>1, Small, SetField, Zenon
  <2>3. Same(job, new)
    BY <2>1 DEF Job, Same
  <2>4. new.at = job.at /\ new.search = FALSE /\ new.plain = FALSE
    BY <2>1 DEF Job
  <2>5. new.asked = job.asked /\ new.model = 1 /\ new.attempt = 1
    BY <2>1 DEF Job
  <2>6. new.kind = job.kind
    BY <2>3 DEF Same
  <2>7. Rank(new, new.asked)
    <3>1. job.asked - 1 <= W * (job.model - 1) + 2 * (job.set - 1) + 1
      BY <1>0, <1>2, <1>6 DEF Rank
    <3>2. W * Models = W * (Models - 1) + W
      <4> HIDE DEF W
      <4> QED
        BY <1>0
    <3>3. job.model = Models
      BY <1>0, <1>2, <1>6
    <3>4. new.asked <= W * Models
      BY <1>0, <1>6, <2>5, <3>1, <3>2, <3>3
    <3>5. Round(new) = 0 /\ Chatted(new) = 0
      BY <2>4, <2>5 DEF Round, Chatted
    <3> QED
      BY <1>0, <1>2, <1>6, <2>4, <2>5, <2>6, <3>4, <3>5 DEF Rank
  <2> QED
    BY <1>6, <2>1, <2>2, <2>3, <2>4, <2>7 DEF Kept
<1> QED
  BY <1>0, <1>1, <1>3, <1>4, <1>5, <1>6 DEF SearchAfter

LEMMA AfterRank ==
    ASSUME NEW job \in Job, job.at = "ask", NEW o \in Outcomes, Rank(job, job.asked - 1)
    PROVE  LET new == After(job, o) IN
           Kept(job, new) /\ (new.at = "ask" => Rank(new, new.asked))
<1>0. job.attempt \in 1..3 /\ job.model \in Nat /\ job.asked \in Nat /\ job.kind \in Kinds
  BY DEF Job
<1>1. CASE After(job, o) = Give(job)
  BY <1>1, GiveIs
<1>2. CASE job.kind \in {"systemone", "speech"} /\ job.attempt = 1 /\ After(job, o) = Again(job)
  <2>1. PICK new : new = Again(job)
    OBVIOUS
  <2>2. Kept(job, new) /\ new.kind = job.kind
    BY <1>2, <2>1, AgainIs DEF Kept, Same
  <2>3. Rank(new, new.asked)
    BY <1>0, <1>2, <2>1, <2>2, AgainIs DEF Rank
  <2> QED
    BY <1>2, <2>1, <2>2, <2>3
<1>3. CASE job.kind = "transcript" /\ job.attempt < 3 /\ After(job, o) = Again(job)
  <2>1. PICK new : new = Again(job)
    OBVIOUS
  <2>2. Kept(job, new) /\ new.kind = job.kind
    BY <1>3, <2>1, AgainIs DEF Kept, Same
  <2>3. /\ job.asked - 1 <= 3 * (job.model - 1) + (job.attempt - 1) /\ job.model \in 1..3
        /\ ~job.search
    BY <1>3 DEF Rank, Chatted
  <2>4. /\ new.model = job.model /\ new.attempt = job.attempt + 1
        /\ new.asked = job.asked /\ new.search = job.search
    BY <1>3, <2>1, AgainIs
  <2>5. Rank(new, new.asked)
    BY <1>0, <1>3, <2>2, <2>3, <2>4 DEF Rank, Chatted
  <2> QED
    BY <1>3, <2>1, <2>2, <2>5
<1>4. CASE job.kind = "transcript" /\ job.model # 3 /\ After(job, o) = NextModel(job)
  <2>1. PICK new : new = NextModel(job)
    OBVIOUS
  <2>2. Kept(job, new) /\ new.kind = job.kind
    BY <1>4, <2>1, NextModelIs DEF Kept, Same
  <2>3. /\ job.asked - 1 <= 3 * (job.model - 1) + (job.attempt - 1) /\ job.model \in 1..3
        /\ ~job.search
    BY <1>4 DEF Rank, Chatted
  <2>4. /\ new.model = job.model + 1 /\ new.attempt = 1
        /\ new.asked = job.asked /\ new.search = job.search
    BY <2>1, NextModelIs
  <2>5. new.model \in 1..3 /\ new.asked <= Chatted(new)
    BY <1>0, <1>4, <2>3, <2>4 DEF Chatted
  <2>6. Rank(new, new.asked)
    BY <1>4, <2>2, <2>3, <2>4, <2>5 DEF Rank
  <2> QED
    BY <1>4, <2>1, <2>2, <2>6
<1>5. CASE job.kind \in {"once", "search"} /\ job.search /\ After(job, o) = SearchAfter(job, o)
  BY <1>5, SearchAfterRank
<1>6. CASE job.kind \in {"text", "test", "json", "search"} /\ ~job.search
           /\ After(job, o) = ChatAfter(job, o)
  BY <1>6, ChatAfterRank
<1>7. \/ After(job, o) = Give(job)
      \/ job.kind \in {"systemone", "speech"} /\ job.attempt = 1 /\ After(job, o) = Again(job)
      \/ job.kind = "transcript" /\ job.attempt < 3 /\ After(job, o) = Again(job)
      \/ job.kind = "transcript" /\ job.model # 3 /\ After(job, o) = NextModel(job)
      \/ job.kind \in {"once", "search"} /\ job.search /\ After(job, o) = SearchAfter(job, o)
      \/ job.kind \in {"text", "test", "json", "search"} /\ ~job.search /\ After(job, o) = ChatAfter(job, o)
  <2>1. job.search \in BOOLEAN
    BY DEF Job
  <2>2. job.kind = "once" => job.search
    BY DEF Rank
  <2>3. job.search => job.kind \in {"once", "search"}
    BY DEF Rank
  <2> QED
    BY <1>0, <2>1, <2>2, <2>3 DEF After, TwiceAfter, TranscriptAfter, Kinds
<1> QED
  BY <1>1, <1>2, <1>3, <1>4, <1>5, <1>6, <1>7

----------------------------------------------------------------------------
(* What a step makes of the record of the call that takes it.              *)
Loops(job, new) ==
    /\ new.search = job.search /\ new.plain = job.plain /\ new.model = job.model
    /\ new.set = job.set /\ new.attempt = job.attempt /\ new.asked = job.asked
Becomes(c, new) ==
    /\ new \in Job /\ call' = [call EXCEPT ![c] = new]
    /\ Same(call[c], new)

PlacesOfCall == {"idle", "limit", "since", "used", "creds", "ask", "row",
                 "error", "failRow", "done", "failed"}

LEMMA GotoIs ==
    ASSUME TypeOK, NEW c \in Calls, NEW place \in PlacesOfCall, Goto(c, place)
    PROVE  \E new : /\ Becomes(c, new) /\ Loops(call[c], new) /\ new.at = place
                    /\ new.limit = call[c].limit /\ new.since = call[c].since
<1>1. PICK job \in Job : job = call[c]
  BY DEF TypeOK
<1>2. PICK new : new = [job EXCEPT !.at = place]
  OBVIOUS
<1>3. new \in Job /\ Same(job, new) /\ Loops(job, new) /\ new.at = place
      /\ new.limit = job.limit /\ new.since = job.since
  BY <1>2 DEF Job, Same, Loops, PlacesOfCall
<1>4. call' = [call EXCEPT ![c] = new]
  BY <1>1, <1>2 DEF Goto, TypeOK
<1> QED
  BY <1>1, <1>3, <1>4 DEF Becomes

LEMMA ReadLimitIs ==
    ASSUME TypeOK, NEW c \in Calls, call[c].user \in Users, ReadLimit(c)
    PROVE  \E new : /\ Becomes(c, new) /\ Loops(call[c], new)
                    /\ new.limit = LimitFor(call[c].user) /\ new.since = call[c].since
                    /\ new.at = IF LimitFor(call[c].user) = 0 THEN "creds" ELSE "since"
<1>1. PICK job \in Job : job = call[c]
  BY DEF TypeOK
<1>2. PICK limit : limit = LimitFor(job.user)
  OBVIOUS
<1>3. PICK place : place = IF limit = 0 THEN "creds" ELSE "since"
  OBVIOUS
<1>4. PICK new : new = [job EXCEPT !.limit = limit, !.at = place]
  OBVIOUS
<1>5. limit \in Limits
  <2>1. default \in Limits /\ quota \in [Users -> Limits \cup {Unset}]
    BY DEF TypeOK
  <2> QED
    BY <1>1, <1>2, <2>1 DEF LimitFor
<1>6. new \in Job
  BY <1>3, <1>4, <1>5 DEF Job
<1>7. Same(job, new)
  BY <1>4 DEF Job, Same
<1>8. Loops(job, new)
  BY <1>4 DEF Job, Loops
<1>9. new.at = place /\ new.limit = limit /\ new.since = job.since
  BY <1>4 DEF Job
<1>10. call' = [call EXCEPT ![c] = new]
  BY <1>1, <1>2, <1>3, <1>4 DEF ReadLimit, TypeOK
<1> QED
  BY <1>1, <1>2, <1>3, <1>6, <1>7, <1>8, <1>9, <1>10 DEF Becomes

LEMMA ReadResetAtIs ==
    ASSUME TypeOK, NEW c \in Calls, ReadResetAt(c)
    PROVE  \E new : /\ Becomes(c, new) /\ Loops(call[c], new)
                    /\ new.limit = call[c].limit /\ new.since = epoch /\ new.at = "used"
<1>1. PICK job \in Job : job = call[c]
  BY DEF TypeOK
<1>2. PICK e \in Nat : e = epoch
  BY DEF TypeOK
<1>4. PICK new : new = [job EXCEPT !.since = e, !.at = "used"]
  OBVIOUS
<1>6. new \in Job
  BY <1>2, <1>4 DEF Job
<1>7. Same(job, new)
  BY <1>4 DEF Job, Same
<1>8. Loops(job, new)
  BY <1>4 DEF Job, Loops
<1>9. new.at = "used" /\ new.limit = job.limit /\ new.since = e
  BY <1>4 DEF Job
<1>10. call' = [call EXCEPT ![c] = new]
  BY <1>1, <1>2, <1>4 DEF ReadResetAt, TypeOK
<1> QED
  BY <1>1, <1>2, <1>6, <1>7, <1>8, <1>9, <1>10 DEF Becomes

(* A call that begins is fresh.                                            *)
Fresh(job) ==
    /\ job.asked = 0 /\ job.attempt = 1 /\ job.model = 1 /\ job.set = 1 /\ job.plain = FALSE
    /\ job.cause = "none" /\ (job.search <=> job.kind \in {"search", "once"})

LEMMA StartIs ==
    ASSUME TypeOK, NEW c \in Calls, Start(c)
    PROVE  \E new \in Job :
              /\ call' = [call EXCEPT ![c] = new]
              /\ Fresh(new) /\ new.lost = FALSE
              /\ new.at \in {"creds", "limit", "failed"}
              /\ new.at = "limit" => new.user \in Users
              /\ new.at = "creds" => new.user = Nobody \/ new.purpose \notin QUOTA_PURPOSES
<1>1. PICK kind \in KindsOf[c], u \in Users \cup {Nobody} : \E purpose \in PurposesOf(kind) :
         call' = [call EXCEPT ![c] =
            [NoCall EXCEPT !.at = IF Unchecked(kind) THEN "creds" ELSE AfterAccess(u, purpose),
                           !.kind = kind, !.user = u, !.purpose = purpose,
                           !.search = kind \in {"search", "once"}]]
  BY DEF Start
<1>2. PICK purpose \in PurposesOf(kind) :
         call' = [call EXCEPT ![c] =
            [NoCall EXCEPT !.at = IF Unchecked(kind) THEN "creds" ELSE AfterAccess(u, purpose),
                           !.kind = kind, !.user = u, !.purpose = purpose,
                           !.search = kind \in {"search", "once"}]]
  BY <1>1
<1>3. PICK place : place = IF Unchecked(kind) THEN "creds" ELSE AfterAccess(u, purpose)
  OBVIOUS
<1>4. PICK search \in BOOLEAN : search = (kind \in {"search", "once"})
  <2>1. (kind \in {"search", "once"}) \in BOOLEAN
    OBVIOUS
  <2> QED
    BY <2>1, Zenon
<1>5. /\ kind \in Kinds /\ purpose \in Purposes /\ place \in {"creds", "limit", "failed"}
      /\ place = "limit" => u \in Users
      /\ place = "creds" => u = Nobody \/ purpose \notin QUOTA_PURPOSES
  <2>1. kind \in Kinds
    BY LlmAssumption
  <2>2. purpose \in Purposes
    BY <2>1 DEF PurposesOf, Purposes, Kinds
  <2>3. Unchecked(kind) => purpose \notin QUOTA_PURPOSES
    BY DEF Unchecked, PurposesOf, QUOTA_PURPOSES
  <2> QED
    BY <1>3, <2>1, <2>2, <2>3 DEF AfterAccess
<1>6. PICK new : new = [NoCall EXCEPT !.at = place, !.kind = kind, !.user = u,
                                     !.purpose = purpose, !.search = search]
  OBVIOUS
<1>7. new = [at |-> place, kind |-> kind, user |-> u, purpose |-> purpose,
             limit |-> 0, since |-> 0, search |-> search, plain |-> FALSE,
             model |-> 1, set |-> 1, attempt |-> 1, asked |-> 0, cause |-> "none",
             tokens |-> 0, lost |-> FALSE]
  BY <1>6 DEF NoCall
<1>8. new \in Job
  BY <1>5, <1>7, LlmAssumption DEF Job
<1>9. call' = [call EXCEPT ![c] = new]
  BY <1>2, <1>3, <1>4, <1>6
<1>10. Fresh(new) /\ new.lost = FALSE /\ new.at = place /\ new.user = u /\ new.purpose = purpose
  BY <1>4, <1>7 DEF Fresh
<1> QED
  BY <1>5, <1>8, <1>9, <1>10

(* A request: an answer is to be booked, anything else goes on or ends.    *)
LEMMA AskIs ==
    ASSUME TypeOK, NEW c \in Calls, Ask(c), Rank(call[c], call[c].asked)
    PROVE  \E new \in Job :
              /\ call' = [call EXCEPT ![c] = new]
              /\ new.user = call[c].user /\ new.kind = call[c].kind
              /\ new.purpose = call[c].purpose /\ new.lost = call[c].lost
              /\ \/ new.at = "ask" /\ Rank(new, new.asked)
                 \/ new.at = "row" /\ new.cause \in {"answer", "garbage"}
                 \/ new.at = IF new.kind = "transcript" THEN "failed" ELSE "error"
<1>1. PICK job \in Job : job = call[c] /\ job.at = "ask"
  BY DEF TypeOK, Ask
<1>2. PICK o \in Outcomes :
         LET now == [job EXCEPT !.asked = @ + 1, !.cause = CauseOf(o)] IN
         IF Accepted(now, o)
         THEN \E n \in Tokens :
                 call' = [call EXCEPT ![c] = [Leave(now, "row") EXCEPT !.tokens = n]]
         ELSE call' = [call EXCEPT ![c] = After(now, o)]
  BY <1>1 DEF Ask
<1>3. PICK cause \in {"answer", "garbage", "rate", "error"} : cause = CauseOf(o)
  BY DEF CauseOf
<1>4. PICK now : now = [job EXCEPT !.asked = @ + 1, !.cause = cause]
  OBVIOUS
<1>5. /\ now \in Job /\ now.cause = cause /\ now.asked = job.asked + 1 /\ now.at = "ask"
      /\ now.user = job.user /\ now.kind = job.kind /\ now.purpose = job.purpose
      /\ now.lost = job.lost
  <2>1. now \in Job
    <3>1. job.asked + 1 \in Nat /\ cause \in {"none", "answer", "garbage", "rate", "error"}
      BY DEF Job
    <3> QED
      BY <1>4, <3>1, SetField, Zenon
  <2>2. now.cause = cause /\ now.asked = job.asked + 1 /\ now.at = "ask"
    BY <1>1, <1>4 DEF Job
  <2>3. now.user = job.user /\ now.kind = job.kind /\ now.purpose = job.purpose
        /\ now.lost = job.lost
    BY <1>4 DEF Job
  <2> QED
    BY <2>1, <2>2, <2>3
<1>6. Rank(now, now.asked - 1)
  <2>1. now.search = job.search /\ now.plain = job.plain /\ now.model = job.model
        /\ now.set = job.set /\ now.attempt = job.attempt
    BY <1>4 DEF Job
  <2>2. now.asked - 1 = job.asked
    BY <1>5 DEF Job
  <2>3. Rank(now, job.asked)
    BY <1>1, <1>5, <2>1 DEF Rank, Round, Chatted
  <2> QED
    BY <2>2, <2>3
<1>7. CASE Accepted(now, o)
  <2>1. PICK n \in Tokens : call' = [call EXCEPT ![c] = [Leave(now, "row") EXCEPT !.tokens = n]]
    BY <1>2, <1>3, <1>4, <1>7
  <2>2. PICK mid \in Job : mid = Leave(now, "row")
    BY <1>5, LeaveTyped
  <2>3. mid.at = "row" /\ Same(now, mid)
    BY <1>5, <2>2, LeaveTyped
  <2>4. PICK new : new = [mid EXCEPT !.tokens = n]
    OBVIOUS
  <2>5. /\ new \in Job /\ new.at = "row" /\ new.cause = mid.cause /\ new.lost = mid.lost
        /\ new.user = mid.user /\ new.kind = mid.kind /\ new.purpose = mid.purpose
    BY <2>3, <2>4 DEF Job
  <2>6. cause \in {"answer", "garbage"}
    BY <1>3, <1>7 DEF Accepted, CauseOf
  <2>7. call' = [call EXCEPT ![c] = new]
    BY <2>1, <2>2, <2>4
  <2>8. /\ new.cause = cause /\ new.lost = job.lost
        /\ new.user = job.user /\ new.kind = job.kind /\ new.purpose = job.purpose
    BY <1>5, <2>3, <2>5 DEF Same
  <2> QED
    BY <1>1, <2>5, <2>6, <2>7, <2>8
<1>8. CASE ~Accepted(now, o)
  <2>1. PICK new : new = After(now, o)
    OBVIOUS
  <2>2. Kept(now, new) /\ (new.at = "ask" => Rank(new, new.asked))
    BY <1>5, <1>6, <2>1, AfterRank
  <2>3. call' = [call EXCEPT ![c] = new]
    BY <1>2, <1>3, <1>4, <1>8, <2>1
  <2> QED
    BY <1>1, <1>5, <2>2, <2>3 DEF Kept, Same
<1> QED
  BY <1>7, <1>8

LEMMA StoreRowIs ==
    ASSUME TypeOK, NEW c \in Calls, StoreRow(c)
    PROVE  \E new : /\ new \in Job /\ call' = [call EXCEPT ![c] = new]
                    /\ new.user = call[c].user /\ new.kind = call[c].kind
                    /\ new.purpose = call[c].purpose /\ new.cause = call[c].cause
                    /\ new.tokens = call[c].tokens
                    /\ new.at \in {"done", "error"} /\ (new.at = "error" => new.cause = "garbage")
                    /\ call[c].lost \/ log' = log => new.lost
<1>1. PICK job \in Job : job = call[c]
  BY DEF TypeOK
<1>2. PICK place \in {"done", "error"} :
         place = IF job.cause = "garbage" /\ job.kind \in {"json", "search"} THEN "error" ELSE "done"
  OBVIOUS
<1>3. PICK lost \in BOOLEAN : lost = (job.lost \/ log' = log)
  <2>1. (job.lost \/ log' = log) \in BOOLEAN
    OBVIOUS
  <2> QED
    BY <2>1, Zenon
<1>4. PICK new : new = [job EXCEPT !.at = place, !.lost = lost]
  OBVIOUS
<1>5. new \in Job
  <2>1. place \in {"idle", "limit", "since", "used", "creds", "ask", "row",
                  "error", "failRow", "done", "failed"}
    OBVIOUS
  <2> QED
    BY <2>1, <1>4, SetField, Zenon
<1>6. /\ new.user = job.user /\ new.kind = job.kind /\ new.purpose = job.purpose
      /\ new.cause = job.cause /\ new.tokens = job.tokens
  BY <1>4 DEF Job
<1>7. new.at = place /\ new.lost = lost
  BY <1>4 DEF Job
<1>8. call' = [call EXCEPT ![c] = new]
  BY <1>1, <1>2, <1>3, <1>4 DEF StoreRow, TypeOK
<1> QED
  BY <1>1, <1>2, <1>3, <1>5, <1>6, <1>7, <1>8

LEMMA StatementFailsIs ==
    ASSUME TypeOK, NEW c \in Calls, StatementFails(c)
    PROVE  \E new : /\ new \in Job /\ call' = [call EXCEPT ![c] = new]
                    /\ new.user = call[c].user /\ new.kind = call[c].kind
                    /\ new.purpose = call[c].purpose /\ new.cause = call[c].cause
                    /\ new.tokens = call[c].tokens /\ new.lost = TRUE
                    /\ new.at \in {"failed", "error"}
                    /\ call[c].at \in {"limit", "since", "used", "creds", "row", "error", "failRow"}
<1>1. PICK job \in Job : job = call[c]
  BY DEF TypeOK
<1>2. PICK place \in {"failed", "error"} :
          call' = [call EXCEPT ![c].lost = TRUE, ![c].at = place]
  BY DEF StatementFails, WithoutCredentials
<1>3. PICK new : new = [job EXCEPT !.lost = TRUE, !.at = place]
  OBVIOUS
<1>4. new \in Job
  <2>1. place \in {"idle", "limit", "since", "used", "creds", "ask", "row",
                  "error", "failRow", "done", "failed"}
    OBVIOUS
  <2> QED
    BY <2>1, <1>3, Small, SetField, Zenon
<1>5. /\ new.user = job.user /\ new.kind = job.kind /\ new.purpose = job.purpose
      /\ new.cause = job.cause /\ new.tokens = job.tokens
  BY <1>3 DEF Job
<1>6. new.at = place /\ new.lost = TRUE
  BY <1>3 DEF Job
<1>7. call' = [call EXCEPT ![c] = new]
  BY <1>1, <1>2, <1>3 DEF TypeOK
<1>8. job.at \in {"limit", "since", "used", "creds", "row", "error", "failRow"}
  BY <1>1 DEF StatementFails
<1> QED
  BY <1>1, <1>2, <1>4, <1>5, <1>6, <1>7, <1>8

(* All that a call's step may be, in the fields of its record before and   *)
(* after.                                                                  *)
StepTo(c, job, new) ==
    /\ new \in Job /\ call' = [call EXCEPT ![c] = new] /\ UNCHANGED settings
    /\ job.at # "idle" => /\ new.user = job.user /\ new.kind = job.kind
                          /\ new.purpose = job.purpose /\ (job.lost => new.lost)
    /\ job.at \notin {"idle", "ask"} => new.cause = job.cause /\ new.tokens = job.tokens
    /\ job.at \notin {"row", "error", "failRow"} => UNCHANGED tables
    /\ \/ /\ job.at = "idle" /\ Fresh(new) /\ new.lost = FALSE
          /\ new.at \in {"creds", "limit", "failed"}
          /\ new.at = "limit" => new.user \in Users
          /\ new.at = "creds" => new.user = Nobody \/ new.purpose \notin QUOTA_PURPOSES
       \/ /\ job.at = "limit" /\ Loops(job, new) /\ new.limit = LimitFor(job.user)
          /\ new.at = IF LimitFor(job.user) = 0 THEN "creds" ELSE "since"
       \/ /\ job.at = "since" /\ Loops(job, new) /\ new.limit = job.limit
          /\ new.since = epoch /\ new.at = "used"
       \/ /\ job.at = "used" /\ Loops(job, new)
          /\ new.at = IF UsedTokens(job.user, job.since) >= job.limit THEN "failed" ELSE "creds"
       \/ /\ job.at = "creds" /\ Loops(job, new)
          /\ new.at \in {"ask", WithoutCredentials(job.kind)}
       \/ /\ job.at = "ask"
          /\ \/ new.at = "ask" /\ Rank(new, new.asked)
             \/ new.at = "row" /\ new.cause \in {"answer", "garbage"}
             \/ new.at = IF new.kind = "transcript" THEN "failed" ELSE "error"
       \/ /\ job.at = "row" /\ new.at \in {"done", "error"}
          /\ new.at = "error" => new.cause = "garbage"
          /\ \/ log' = log \cup {Row(c, TRUE, job.tokens)}
             \/ log' = log /\ new.lost
          /\ errors' = errors
       \/ /\ job.at = "error" /\ new.at \in {"failed", "failRow"} /\ log' = log
          /\ errors' = errors \cup {[call |-> c, kept |-> TRUE]}
       \/ /\ job.at = "failRow" /\ new.at = "failed" /\ errors' = errors
          /\ log' = log \cup {Row(c, FALSE, 0)}
       \/ /\ job.at \in {"limit", "since", "used", "creds", "row", "error", "failRow"}
          /\ new.at \in {"failed", "error"} /\ new.lost /\ UNCHANGED tables

CallInv(c) ==
    /\ call[c].at = "limit" => call[c].user \in Users
    /\ call[c].at = "ask" => Rank(call[c], call[c].asked)

LEMMA StepIs ==
    ASSUME TypeOK, NEW c \in Calls, CallInv(c), Start(c) \/ Continue(c) \/ StatementFails(c)
    PROVE  \E new : StepTo(c, call[c], new)
<1>1. CASE Start(c)
  BY <1>1, StartIs DEF StepTo, Start
<1>2. CASE ReadLimit(c)
  BY <1>2, ReadLimitIs DEF StepTo, ReadLimit, CallInv, Becomes, Same
<1>3. CASE ReadResetAt(c)
  BY <1>3, ReadResetAtIs DEF StepTo, ReadResetAt, Becomes, Same
<1>4. CASE ReadUsed(c)
  <2>1. PICK place \in PlacesOfCall :
            /\ place = IF UsedTokens(call[c].user, call[c].since) >= call[c].limit
                       THEN "failed" ELSE "creds"
            /\ Goto(c, place)
    BY <1>4 DEF ReadUsed, PlacesOfCall
  <2> QED
    BY <1>4, <2>1, GotoIs DEF StepTo, ReadUsed, Becomes, Same
<1>5. CASE ReadCredentials(c)
  <2>1. PICK place \in PlacesOfCall :
            place \in {"ask", WithoutCredentials(call[c].kind)} /\ Goto(c, place)
    BY <1>5 DEF ReadCredentials, PlacesOfCall, WithoutCredentials
  <2> QED
    BY <1>5, <2>1, GotoIs DEF StepTo, ReadCredentials, Becomes, Same
<1>6. CASE Ask(c)
  BY <1>6, AskIs DEF StepTo, Ask, CallInv
<1>7. CASE StoreRow(c)
  BY <1>7, StoreRowIs DEF StepTo, StoreRow
<1>8. CASE LogError(c)
  <2>1. PICK place \in PlacesOfCall : place \in {"failed", "failRow"} /\ Goto(c, place)
    BY <1>8 DEF LogError, PlacesOfCall
  <2> QED
    BY <1>8, <2>1, GotoIs DEF StepTo, LogError, Becomes, Same
<1>9. CASE LogFailure(c)
  <2>1. "failed" \in PlacesOfCall /\ Goto(c, "failed")
    BY <1>9 DEF LogFailure, PlacesOfCall
  <2> QED
    BY <1>9, <2>1, GotoIs DEF StepTo, LogFailure, Becomes, Same
<1>10. CASE StatementFails(c)
  BY <1>10, StatementFailsIs DEF StepTo, StatementFails
<1> QED
  BY <1>1, <1>2, <1>3, <1>4, <1>5, <1>6, <1>7, <1>8, <1>9, <1>10 DEF Continue

----------------------------------------------------------------------------
(* What else may happen: the admin.                                        *)
AdminTo ==
    /\ UNCHANGED call
    /\ access' \in [Users -> {"none", "llm", "all"}]
    /\ quota' \in [Users -> Limits \cup {Unset}]
    /\ default' \in Limits /\ epoch' \in Nat /\ creds' \in BOOLEAN
    /\ \/ log' = log /\ epoch' = epoch
       \/ log' = log /\ epoch' = epoch + 1
       \/ log' = {[row EXCEPT !.kept = FALSE] : row \in log} /\ epoch' = epoch
    /\ errors' = errors \/ errors' = {[row EXCEPT !.kept = FALSE] : row \in errors}

LEMMA AdminIs == ASSUME TypeOK, Admin PROVE AdminTo
<1>1. ASSUME NEW u \in Users, SaveUserQuota(u) PROVE AdminTo
  BY <1>1 DEF Admin, AdminTo, TypeOK, SaveUserQuota, tables
<1>2. ASSUME NEW u \in Users, SetAiAccess(u) PROVE AdminTo
  BY <1>2 DEF Admin, AdminTo, TypeOK, SetAiAccess, tables
<1>3. CASE SaveConfig
  BY <1>3 DEF Admin, AdminTo, TypeOK, SaveConfig, tables
<1>4. CASE Reset
  BY <1>4 DEF Admin, AdminTo, TypeOK, Reset, tables
<1>5. CASE SaveSettings
  BY <1>5 DEF Admin, AdminTo, TypeOK, SaveSettings, tables
<1>6. CASE ClearHistory
  BY <1>6 DEF Admin, AdminTo, TypeOK, ClearHistory, settings
<1>7. CASE ClearErrors
  BY <1>7 DEF Admin, AdminTo, TypeOK, ClearErrors, settings
<1> QED
  BY <1>1, <1>2, <1>3, <1>4, <1>5, <1>6, <1>7 DEF Admin

Calling(c, new) == StepTo(c, call[c], new)
NextTo ==
    /\ (\E c \in Calls, new \in Job : Calling(c, new)) \/ AdminTo
    /\ left' \in 0..Disturbances
    /\ Observe

LEMMA NextIs == ASSUME TypeOK, \A c \in Calls : CallInv(c), Next PROVE NextTo
<1>1. left' \in 0..Disturbances
  <2>1. left \in 0..Disturbances /\ Disturbances \in Nat
    BY LlmAssumption DEF TypeOK
  <2>2. left' = left \/ Disturb
    BY DEF Next, Continue, Start, ReadLimit, ReadResetAt, ReadUsed, ReadCredentials, Ask, StoreRow,
           LogError, LogFailure, StatementFails, Admin
  <2> QED
    BY <2>1, <2>2 DEF Disturb
<1>2. ASSUME NEW c \in Calls, Start(c) \/ Continue(c) \/ StatementFails(c)
      PROVE  \E new \in Job : Calling(c, new)
  <2>1. PICK new : StepTo(c, call[c], new)
    BY <1>2, StepIs
  <2> QED
    BY <2>1 DEF StepTo, Calling
<1> QED
  BY <1>1, <1>2, AdminIs DEF Next, NextTo

(* A row of the history, and how a step changes them all.                  *)
LEMMA RowIs ==
    ASSUME TypeOK, NEW c \in Calls, NEW ok \in BOOLEAN, NEW n \in Nat
    PROVE  /\ Row(c, ok, n) \in UsageRow /\ Row(c, ok, n).epoch = epoch /\ Row(c, ok, n).call = c
           /\ Row(c, ok, n).user = call[c].user /\ Row(c, ok, n).ok = ok
           /\ Row(c, ok, n).tokens = n
<1>1. PICK u \in Users \cup {Nobody} : u = call[c].user
  BY DEF TypeOK, Job
<1>2. epoch \in Nat
  BY DEF TypeOK
<1> QED
  BY <1>1, <1>2 DEF Row, UsageRow

LEMMA TokensNat == ASSUME TypeOK, NEW c \in Calls PROVE call[c].tokens \in Nat
  BY LlmAssumption DEF TypeOK, Job

LogSteps(c) ==
    \/ log' = log
    \/ \E ok \in BOOLEAN, n \in Nat : log' = log \cup {Row(c, ok, n)}

LEMMA CallingLog ==
    ASSUME TypeOK, NEW c \in Calls, NEW new \in Job, Calling(c, new)
    PROVE  /\ LogSteps(c) /\ (call[c].at = "idle" => log' = log) /\ epoch' = epoch
           /\ call' = [call EXCEPT ![c] = new] /\ new.at # "idle"
           /\ call[c].at # "idle" => new.user = call[c].user
<1>1. call[c].tokens \in Nat
  BY TokensNat
<1>2. LogSteps(c)
  BY <1>1 DEF Calling, StepTo, LogSteps, tables
<1>3. new.at # "idle"
  BY DEF Calling, StepTo, WithoutCredentials
<1> QED
  BY <1>2, <1>3 DEF Calling, StepTo, tables, settings

LEMMA ClearedRows ==
    ASSUME LogInv
    PROVE  LET rows == {[row EXCEPT !.kept = FALSE] : row \in log} IN
           /\ rows \subseteq UsageRow /\ IsFiniteSet(rows)
           /\ \A new \in rows : \E row \in log :
                  /\ new = [row EXCEPT !.kept = FALSE]
                  /\ new.kept = FALSE /\ new.call = row.call /\ new.user = row.user
                  /\ new.ok = row.ok /\ new.tokens = row.tokens /\ new.epoch = row.epoch
<1> DEFINE rows == {[row EXCEPT !.kept = FALSE] : row \in log}
<1>1. \A row \in log : /\ [row EXCEPT !.kept = FALSE] \in UsageRow
                        /\ [row EXCEPT !.kept = FALSE].kept = FALSE
                        /\ [row EXCEPT !.kept = FALSE].call = row.call
                        /\ [row EXCEPT !.kept = FALSE].user = row.user
                        /\ [row EXCEPT !.kept = FALSE].ok = row.ok
                        /\ [row EXCEPT !.kept = FALSE].tokens = row.tokens
                        /\ [row EXCEPT !.kept = FALSE].epoch = row.epoch
  BY DEF LogInv, UsageRow
<1>2. IsFiniteSet(rows)
  <2> DEFINE f == [row \in log |-> [row EXCEPT !.kept = FALSE]]
  <2>1. f \in Surjection(log, rows)
    BY DEF Surjection
  <2>2. IsFiniteSet(log)
    BY DEF LogInv
  <2> HIDE DEF f, rows
  <2> QED
    BY <2>1, <2>2, FS_Surjection
<1> QED
  BY <1>1, <1>2

LEMMA StepTypes ==
    ASSUME TypeOK, LogInv, \A c \in Calls : CallInv(c), Next
    PROVE  TypeOK' /\ LogInv'
<1>0. NextTo
  BY NextIs
<1>1. room' \in [Calls -> BOOLEAN]
  <2>1. \A c \in Calls : (Underway(c)' /\ (room[c] \/ RoomNow(c)')) \in BOOLEAN
    OBVIOUS
  <2> QED
    BY <1>0, <2>1, Zenon DEF NextTo, Observe
<1>2. ASSUME NEW c \in Calls, NEW new \in Job, Calling(c, new) PROVE TypeOK' /\ LogInv'
  <2>1. /\ LogSteps(c) /\ (call[c].at = "idle" => log' = log) /\ epoch' = epoch
        /\ call' = [call EXCEPT ![c] = new] /\ new.at # "idle"
        /\ call[c].at # "idle" => new.user = call[c].user
    BY <1>2, CallingLog
  <2>2. /\ call' \in [Calls -> Job] /\ call'[c] = new /\ call \in [Calls -> Job]
        /\ \A d \in Calls \ {c} : call'[d] = call[d]
    BY <2>1 DEF TypeOK
  <2>3. \A row \in log : /\ row.call \in Calls /\ row.user = call'[row.call].user
                          /\ call'[row.call].at # "idle"
    BY <2>1, <2>2 DEF TypeOK, LogInv
  <2>4. CASE log' = log
    <3>1. LogInv'
      BY <2>1, <2>3, <2>4 DEF LogInv
    <3>2. UNCHANGED settings
      BY <1>2 DEF Calling, StepTo
    <3> QED
      BY <1>0, <1>1, <2>1, <2>2, <2>3, <2>4, <3>1, <3>2 DEF TypeOK, settings, NextTo
  <2>5. ASSUME NEW ok \in BOOLEAN, NEW n \in Nat, log' = log \cup {Row(c, ok, n)}, call[c].at # "idle"
        PROVE  TypeOK' /\ LogInv'
    <3>1. PICK row : row = Row(c, ok, n)
      OBVIOUS
    <3>2. row \in UsageRow /\ row.epoch = epoch /\ row.call = c /\ row.user = call[c].user
      BY <3>1, RowIs
    <3>3. IsFiniteSet(log')
      BY <2>5, <3>1, FS_AddElement DEF LogInv
    <3>4. LogInv'
      <4>1. log' \subseteq UsageRow
        BY <2>5, <3>1, <3>2 DEF LogInv
      <4>2. \A x \in log' : x.epoch <= epoch' /\ call'[x.call].at # "idle"
        BY <2>1, <2>2, <2>3, <2>5, <3>1, <3>2 DEF LogInv, TypeOK
      <4> QED
        BY <3>3, <4>1, <4>2 DEF LogInv
    <3>5. \A x \in log' : x.call \in Calls /\ x.user = call'[x.call].user
      BY <2>1, <2>2, <2>3, <2>5, <3>1, <3>2
    <3>6. UNCHANGED settings
      BY <1>2 DEF Calling, StepTo
    <3> QED
      BY <1>0, <1>1, <2>2, <3>4, <3>5, <3>6 DEF TypeOK, settings, NextTo
  <2> QED
    BY <2>1, <2>4, <2>5 DEF LogSteps
<1>3. CASE AdminTo
  <2>1. \/ log' = log /\ epoch' = epoch
        \/ log' = log /\ epoch' = epoch + 1
        \/ log' = {[row EXCEPT !.kept = FALSE] : row \in log} /\ epoch' = epoch
    BY <1>3 DEF AdminTo
  <2>2. UNCHANGED call
    BY <1>3 DEF AdminTo
  <2>3. LogInv' /\ \A row \in log' : row.call \in Calls /\ row.user = call'[row.call].user
    <3>1. CASE log' = log
      <4>1. epoch' \in {epoch, epoch + 1} /\ epoch \in Nat
        BY <2>1 DEF TypeOK
      <4>2. \A row \in log : row.epoch \in Nat
        BY DEF LogInv, UsageRow
      <4>3. \A row \in log' : row.epoch <= epoch' /\ call'[row.call].at # "idle"
        BY <2>2, <3>1, <4>1, <4>2 DEF LogInv
      <4> QED
        BY <2>2, <3>1, <4>3 DEF LogInv, TypeOK
    <3>2. CASE log' = {[row EXCEPT !.kept = FALSE] : row \in log} /\ epoch' = epoch
      <4>1. log' \subseteq UsageRow /\ IsFiniteSet(log')
        BY <3>2, ClearedRows
      <4>2. \A new \in log' : \E row \in log :
                  /\ new.call = row.call /\ new.user = row.user /\ new.epoch = row.epoch
        BY <3>2, ClearedRows
      <4>3. \A new \in log' : /\ new.epoch <= epoch' /\ call'[new.call].at # "idle"
                              /\ new.call \in Calls /\ new.user = call'[new.call].user
        BY <2>2, <3>2, <4>2 DEF LogInv, TypeOK
      <4> QED
        BY <4>1, <4>3 DEF LogInv
    <3> QED
      BY <2>1, <3>1, <3>2
  <2> QED
    BY <1>0, <1>1, <1>3, <2>2, <2>3 DEF TypeOK, AdminTo, NextTo
<1> QED
  BY <1>0, <1>2, <1>3 DEF NextTo

(* What is spent of a quota never falls but by a reset or when the history *)
(* is cleared, and then all of it is there again.                          *)
LEMMA SumOfRows ==
    ASSUME NEW L \in SUBSET UsageRow, IsFiniteSet(L), NEW R \in SUBSET L
    PROVE  /\ SumFunction([row \in R |-> row.tokens]) \in Int
           /\ SumFunction([row \in R |-> row.tokens]) <= SumFunction([row \in L |-> row.tokens])
           /\ R = {} => SumFunction([row \in R |-> row.tokens]) = 0
<1> DEFINE f == [row \in R |-> row.tokens]
           g == [row \in L |-> row.tokens]
<1>1. /\ IsFiniteSet(R) /\ (\A x \in R : f[x] \in Int) /\ (\A x \in R : f[x] = g[x])
      /\ \A x \in L : g[x] \in Nat
  <2>1. IsFiniteSet(R)
    BY FS_Subset
  <2>2. \A x \in L : x.tokens \in Nat
    BY DEF UsageRow
  <2> QED
    BY <2>1, <2>2
<1>2. SumFunction(f) = SumFunctionOnSet(f, R) /\ SumFunction(g) = SumFunctionOnSet(g, L)
  BY DEF SumFunction
<1> HIDE DEF f, g
<1>3. SumFunctionOnSet(f, R) \in Int /\ SumFunctionOnSet(f, R) = SumFunctionOnSet(g, R)
  BY <1>1, SumTyped, SumSame
<1>4. SumFunctionOnSet(g, R) <= SumFunctionOnSet(g, L)
  BY <1>1, SumMonotone
<1>5. R = {} => SumFunctionOnSet(f, R) = 0
  BY SumNothing
<1> QED
  BY <1>2, <1>3, <1>4, <1>5 DEF f, g

LEMMA UsedGrows ==
    ASSUME LogInv, LogInv', NEW u, log \subseteq log', epoch' = epoch
    PROVE  /\ UsedTokens(u, epoch) \in Int /\ UsedTokens(u, epoch)' \in Int
           /\ UsedTokens(u, epoch) <= UsedTokens(u, epoch)'
<1>1. PICK e : e = epoch
  OBVIOUS
<1> DEFINE R == {row \in log : row.kept /\ row.ok /\ row.user = u /\ row.epoch >= e}
           L == {row \in log' : row.kept /\ row.ok /\ row.user = u /\ row.epoch >= e}
<1>2. L \in SUBSET UsageRow /\ IsFiniteSet(L) /\ R \in SUBSET L
  BY FS_Subset DEF LogInv
<1>3. /\ UsedTokens(u, epoch) = SumFunction([row \in R |-> row.tokens])
      /\ UsedTokens(u, epoch)' = SumFunction([row \in L |-> row.tokens])
  BY <1>1 DEF UsedTokens, Counted
<1>4. L \in SUBSET L
  OBVIOUS
<1> HIDE DEF R, L
<1> QED
  BY <1>2, <1>3, <1>4, SumOfRows

LEMMA UsedNothing ==
    ASSUME TypeOK', LogInv', NEW u,
           (\A row \in log' : row.kept = FALSE) \/ (\A row \in log' : row.epoch < epoch')
    PROVE  UsedTokens(u, epoch)' = 0
<1>1. PICK e : e = epoch'
  OBVIOUS
<1> DEFINE L == {row \in log' : row.kept /\ row.ok /\ row.user = u /\ row.epoch >= e}
<1>2. epoch' \in Int /\ \A row \in log' : row.epoch \in Int
  BY DEF TypeOK, LogInv, UsageRow
<1>3. L \in SUBSET UsageRow /\ IsFiniteSet(L) /\ L = {}
  BY <1>1, <1>2, FS_Subset DEF LogInv
<1>4. UsedTokens(u, epoch)' = SumFunction([row \in L |-> row.tokens])
  BY <1>1 DEF UsedTokens, Counted
<1> HIDE DEF L
<1> QED
  BY <1>3, <1>4, SumOfRows

LEMMA RoomThen ==
    ASSUME NEW c \in Calls, NEW u, call'[c].user = u
    PROVE  RoomNow(c)' <=> \/ u = Nobody \/ LimitFor(u)' = 0
                           \/ UsedTokens(u, epoch)' < LimitFor(u)'
  BY DEF RoomNow, HasRoom, LimitFor, UsedTokens, Counted

(* Whoever passed the check of the quota had tokens left at some time of   *)
(* the call: limit, reset and sum are read one after the other, and until  *)
(* the sum is read the user has room, or none by the limit that was read.  *)
RoomInv(c) ==
    /\ call[c].at \in {"since", "used"} =>
          /\ call[c].limit # 0 /\ call[c].user \in Users
          /\ room[c] \/ UsedTokens(call[c].user, epoch) >= call[c].limit
    /\ call[c].at = "used" => room[c] \/ call[c].since = epoch
    /\ call[c].at \in {"creds", "ask", "row"} /\ call[c].purpose \in QUOTA_PURPOSES => room[c]

LEMMA LimitNat == ASSUME TypeOK, NEW u \in Users PROVE LimitFor(u) \in Nat
  BY LlmAssumption DEF LimitFor, TypeOK, Unset

(* The step of one call, for the call itself.                              *)
LEMMA RoomOfCaller ==
    ASSUME TypeOK, LogInv, TypeOK', LogInv', NEW c \in Calls, NEW new \in Job, Calling(c, new),
           RoomInv(c), CallInv(c), Observe
    PROVE  RoomInv(c)'
<1>1. PICK job \in Job : job = call[c]
  BY DEF TypeOK
<1>2. PICK u \in Users \cup {Nobody} : u = new.user
  BY DEF Job
<1>3. call'[c] = new /\ StepTo(c, job, new)
  BY <1>1 DEF TypeOK, Calling, StepTo
<1>4. room'[c] <=> new.at \notin {"idle", "done", "failed"} /\ (room[c] \/ RoomNow(c)')
  BY <1>3, Zenon DEF Observe, Underway
<1>5. RoomNow(c)' <=> u = Nobody \/ LimitFor(u)' = 0 \/ UsedTokens(u, epoch)' < LimitFor(u)'
  BY <1>2, <1>3, RoomThen
<1>6. /\ LimitFor(u)' = LimitFor(u) /\ epoch' = epoch
      /\ log' = log => UsedTokens(u, epoch)' = UsedTokens(u, epoch)
  BY <1>3 DEF StepTo, settings, LimitFor, UsedTokens, Counted
<1>7. log' = log => UsedTokens(u, epoch) \in Int
  BY <1>6, UsedGrows
<1>8. RoomInv(c)' <=>
                     /\ new.at \in {"since", "used"} =>
                           /\ new.limit # 0 /\ u \in Users
                           /\ room'[c] \/ UsedTokens(u, epoch)' >= new.limit
                     /\ new.at = "used" => room'[c] \/ new.since = epoch'
                     /\ new.at \in {"creds", "ask", "row"} /\ new.purpose \in QUOTA_PURPOSES => room'[c]
  BY <1>2, <1>3 DEF RoomInv, UsedTokens, Counted
<1>9. u = job.user =>
         /\ job.at \in {"since", "used"} =>
               /\ job.limit # 0 /\ u \in Users
               /\ room[c] \/ UsedTokens(u, epoch) >= job.limit
         /\ job.at = "used" => room[c] \/ job.since = epoch
         /\ job.at \in {"creds", "ask", "row"} /\ job.purpose \in QUOTA_PURPOSES => room[c]
  BY <1>1 DEF RoomInv, UsedTokens, Counted
<1>10. /\ job.at # "idle" => u = job.user /\ new.purpose = job.purpose
       /\ job.at \notin {"row", "error", "failRow"} => log' = log
  BY <1>2, <1>3 DEF StepTo, tables
<1>11. u \in Users => LimitFor(u) \in Nat
  BY LimitNat
<1>12. job.limit \in Nat /\ job.since \in Nat /\ epoch \in Nat
  BY LlmAssumption DEF Job, TypeOK
<1>13. CASE new.at \in {"done", "failed", "error", "failRow"}
  BY <1>8, <1>13
<1>14. CASE job.at = "idle" /\ new.at \in {"creds", "limit"}
  <2>1. new.at = "creds" => u = Nobody \/ new.purpose \notin QUOTA_PURPOSES
    BY <1>2, <1>3, <1>14 DEF StepTo
  <2> QED
    BY <1>4, <1>5, <1>8, <1>14, <2>1
<1>15. CASE job.at = "limit" /\ new.at \in {"creds", "since"}
  <2>1. /\ new.limit = LimitFor(u)
        /\ new.at = IF LimitFor(u) = 0 THEN "creds" ELSE "since"
    BY <1>3, <1>10, <1>15 DEF StepTo
  <2>2. u \in Users
    BY <1>1, <1>10, <1>15 DEF CallInv
  <2> QED
    BY <1>4, <1>5, <1>6, <1>7, <1>8, <1>10, <1>11, <1>15, <2>1, <2>2
<1>16. CASE job.at = "since" /\ new.at = "used"
  <2>1. new.limit = job.limit /\ new.since = epoch
    BY <1>3, <1>16 DEF StepTo
  <2> QED
    BY <1>4, <1>6, <1>8, <1>9, <1>10, <1>16, <2>1
<1>17. CASE job.at = "used" /\ new.at = "creds"
  <2>1. UsedTokens(u, job.since) < job.limit \/ ~(UsedTokens(u, job.since) >= job.limit)
    BY <1>3, <1>10, <1>17 DEF StepTo
  <2>2. room[c]
    BY <1>7, <1>9, <1>10, <1>12, <1>17, <2>1
  <2> QED
    BY <1>4, <1>8, <1>17, <2>2
<1>18. CASE job.at \in {"creds", "ask"} /\ new.at \in {"ask", "row"}
  BY <1>4, <1>8, <1>9, <1>10, <1>18
<1>19. \/ new.at \in {"done", "failed", "error", "failRow"}
       \/ job.at = "idle" /\ new.at \in {"creds", "limit"}
       \/ job.at = "limit" /\ new.at \in {"creds", "since"}
       \/ job.at = "since" /\ new.at = "used"
       \/ job.at = "used" /\ new.at = "creds"
       \/ job.at \in {"creds", "ask"} /\ new.at \in {"ask", "row"}
  BY <1>3 DEF StepTo, WithoutCredentials
<1> QED
  BY <1>13, <1>14, <1>15, <1>16, <1>17, <1>18, <1>19

(* A step of another call, or of the admin.                                *)
LEMMA RoomOfOthers ==
    ASSUME TypeOK, LogInv, TypeOK', LogInv', NEW c \in Calls, call'[c] = call[c], Observe, RoomInv(c),
           \/ log \subseteq log' /\ epoch' = epoch
           \/ log' = log /\ epoch' = epoch + 1
           \/ log' = {[row EXCEPT !.kept = FALSE] : row \in log}
    PROVE  RoomInv(c)'
<1>1. PICK job \in Job : job = call[c]
  BY DEF TypeOK
<1>2. PICK u \in Users \cup {Nobody} : u = job.user
  BY DEF Job
<1>4. room'[c] <=> job.at \notin {"idle", "done", "failed"} /\ (room[c] \/ RoomNow(c)')
  BY <1>1, Zenon DEF Observe, Underway
<1>5. RoomNow(c)' <=> u = Nobody \/ LimitFor(u)' = 0 \/ UsedTokens(u, epoch)' < LimitFor(u)'
  BY <1>1, <1>2, RoomThen
<1>8. RoomInv(c)' <=>
                     /\ job.at \in {"since", "used"} =>
                           /\ job.limit # 0 /\ u \in Users
                           /\ room'[c] \/ UsedTokens(u, epoch)' >= job.limit
                     /\ job.at = "used" => room'[c] \/ job.since = epoch'
                     /\ job.at \in {"creds", "ask", "row"} /\ job.purpose \in QUOTA_PURPOSES => room'[c]
  BY <1>1, <1>2 DEF RoomInv, UsedTokens, Counted
<1>9. /\ job.at \in {"since", "used"} =>
            /\ job.limit # 0 /\ u \in Users
            /\ room[c] \/ UsedTokens(u, epoch) >= job.limit
      /\ job.at = "used" => room[c] \/ job.since = epoch
      /\ job.at \in {"creds", "ask", "row"} /\ job.purpose \in QUOTA_PURPOSES => room[c]
  BY <1>1, <1>2 DEF RoomInv, UsedTokens, Counted
<1>10. CASE log \subseteq log' /\ epoch' = epoch
  <2>1. /\ UsedTokens(u, epoch) \in Int /\ UsedTokens(u, epoch)' \in Int
        /\ UsedTokens(u, epoch) <= UsedTokens(u, epoch)'
    BY <1>10, UsedGrows
  <2>2. job.limit \in Nat
    BY LlmAssumption DEF Job
  <2> QED
    BY <1>4, <1>8, <1>9, <1>10, <2>1, <2>2
<1>11. ASSUME u \in Users, UsedTokens(u, epoch)' = 0 PROVE RoomNow(c)'
  <2>1. LimitFor(u)' \in Nat
    BY <1>11, LlmAssumption DEF LimitFor, TypeOK, Unset
  <2> QED
    BY <1>5, <1>11, <2>1
<1>12. CASE \/ log' = log /\ epoch' = epoch + 1
            \/ log' = {[row EXCEPT !.kept = FALSE] : row \in log}
  <2>1. (\A row \in log' : row.kept = FALSE) \/ (\A row \in log' : row.epoch < epoch')
    <3>1. epoch \in Nat /\ \A row \in log : row.epoch \in Nat /\ row.epoch <= epoch
      BY DEF TypeOK, LogInv, UsageRow
    <3>2. \A row \in {[row EXCEPT !.kept = FALSE] : row \in log} : row.kept = FALSE
      BY ClearedRows
    <3> QED
      BY <1>12, <3>1, <3>2
  <2>2. UsedTokens(u, epoch)' = 0
    BY <2>1, UsedNothing
  <2> QED
    BY <1>4, <1>8, <1>9, <1>11, <2>2
<1> QED
  BY <1>10, <1>12

----------------------------------------------------------------------------
(* Until a call asks, its loops have not begun.                            *)
EarlyInv(c) == call[c].at \in {"limit", "since", "used", "creds"} => Fresh(call[c])

LEMMA FreshRank == ASSUME NEW job \in Job, Fresh(job) PROVE Rank(job, 0)
<1>1. job.kind \in Kinds /\ Models \in Nat \ {0} /\ ToolSets \in Nat \ {0}
  BY LlmAssumption DEF Job
<1>2. /\ (2 * ToolSets) * (job.model - 1) = 0
      /\ 0 <= (2 * ToolSets) * Models /\ (2 * ToolSets) * Models \in Int
  <2>1. job.model - 1 = 0 /\ 2 * ToolSets \in Nat
    BY <1>1 DEF Fresh
  <2> DEFINE W == 2 * ToolSets
  <2>2. W \in Nat
    BY <2>1
  <2> HIDE DEF W
  <2>3. W * (job.model - 1) = 0 /\ 0 <= W * Models /\ W * Models \in Int
    BY <1>1, <2>1, <2>2
  <2> QED
    BY <2>3 DEF W
<1>3. Round(job) = 0 /\ Chatted(job) = 0
  BY DEF Fresh, Round, Chatted
<1>4. CASE job.kind = "search"
  BY <1>1, <1>2, <1>3, <1>4 DEF Rank, Fresh
<1>5. CASE job.kind # "search"
  BY <1>1, <1>3, <1>5 DEF Rank, Fresh
<1> QED
  BY <1>4, <1>5

LEMMA CallerInv ==
    ASSUME TypeOK, NEW c \in Calls, NEW new \in Job, Calling(c, new), CallInv(c), EarlyInv(c)
    PROVE  CallInv(c)' /\ EarlyInv(c)'
<1>1. PICK job \in Job : job = call[c]
  BY DEF TypeOK
<1>2. call'[c] = new /\ StepTo(c, job, new)
  BY <1>1 DEF TypeOK, Calling, StepTo
<1>3. ASSUME new.at = "limit" PROVE new.user \in Users /\ job.at = "idle"
  BY <1>2, <1>3 DEF StepTo, WithoutCredentials
<1>4. ASSUME new.at = "ask" PROVE Rank(new, new.asked)
  <2>1. CASE job.at = "ask"
    BY <1>2, <1>4, <2>1 DEF StepTo
  <2>2. CASE job.at = "creds"
    <3>1. Fresh(job) /\ Loops(job, new) /\ new.cause = job.cause /\ new.kind = job.kind
      BY <1>1, <1>2, <1>4, <2>2 DEF StepTo, EarlyInv
    <3>2. Fresh(new) /\ new.asked = 0
      BY <3>1 DEF Fresh, Loops
    <3> QED
      BY <3>2, FreshRank
  <2>3. job.at \in {"ask", "creds"}
    BY <1>2, <1>4 DEF StepTo
  <2> QED
    BY <2>1, <2>2, <2>3
<1>5. ASSUME new.at \in {"limit", "since", "used", "creds"} PROVE Fresh(new)
  <2>1. CASE job.at = "idle"
    BY <1>2, <2>1 DEF StepTo
  <2>2. CASE job.at # "idle"
    <3>1. Loops(job, new) /\ job.at \in {"limit", "since", "used"}
      BY <1>2, <1>5, <2>2 DEF StepTo, WithoutCredentials
    <3>2. Fresh(job) /\ new.cause = job.cause /\ new.kind = job.kind
      BY <1>1, <1>2, <3>1 DEF StepTo, EarlyInv
    <3> QED
      BY <3>1, <3>2 DEF Fresh, Loops
  <2> QED
    BY <2>1, <2>2
<1>6. CallInv(c)'
  BY <1>2, <1>3, <1>4 DEF CallInv
<1>7. EarlyInv(c)'
  BY <1>2, <1>5 DEF EarlyInv
<1> QED
  BY <1>6, <1>7

(* The books of a call: at most one bill, which is written after the       *)
(* answer; what fails is noted, and billed only when it was no JSON.       *)
ErrorRow == [call: Calls, kept: BOOLEAN]
Bills(c) == {row \in log : row.call = c /\ row.ok}
Noted(c) == \E row \in errors : row.call = c
BooksOf(job, bills, noted) ==
    /\ \A a, b \in bills : a = b
    /\ \A a \in bills : a.tokens = job.tokens
    /\ job.at \in {"idle", "limit", "since", "used", "creds", "ask", "row"} => bills = {}
    /\ job.at = "done" /\ ~job.lost => bills # {}
    /\ job.at \in {"error", "failRow", "failed"} /\ bills # {} => job.cause = "garbage"
    /\ job.at = "failRow" => noted
    /\ job.at = "failed" /\ ~job.lost /\ job.cause # "none" /\ job.kind # "transcript" => noted
BooksInv(c) == BooksOf(call[c], Bills(c), Noted(c))

LEMMA BooksOfCaller ==
    ASSUME TypeOK, LogInv, NEW c \in Calls, NEW new \in Job, Calling(c, new),
           EarlyInv(c), BooksInv(c)
    PROVE  BooksInv(c)'
<1>1. PICK job \in Job : job = call[c]
  BY DEF TypeOK
<1>2. call'[c] = new /\ StepTo(c, job, new)
  BY <1>1 DEF TypeOK, Calling, StepTo
<1>3. PICK bills : bills = Bills(c)
  OBVIOUS
<1>4. PICK bills2 : bills2 = Bills(c)'
  OBVIOUS
<1>5. PICK noted \in BOOLEAN : noted = Noted(c)
  BY DEF Noted
<1>6. PICK noted2 \in BOOLEAN : noted2 = Noted(c)'
  BY DEF Noted
<1>7. BooksOf(job, bills, noted)
  BY <1>1, <1>3, <1>5 DEF BooksInv
<1>8. log' = log => bills2 = bills
  BY <1>3, <1>4 DEF Bills
<1>9. errors' = errors => noted2 = noted
  BY <1>5, <1>6 DEF Noted
<1>10. job.tokens \in Nat
  BY LlmAssumption DEF Job
<1>11. SUFFICES BooksOf(new, bills2, noted2)
  BY <1>2, <1>4, <1>6 DEF BooksInv
<1>12. CASE job.at \in {"idle", "limit", "since", "used", "creds", "ask"}
  <2>1. bills2 = {}
    BY <1>2, <1>7, <1>8, <1>12 DEF StepTo, tables, BooksOf
  <2>2. new.at # "done" /\ new.at # "failRow"
    BY <1>2, <1>12 DEF StepTo, WithoutCredentials
  <2>3. ASSUME new.at = "failed", ~new.lost, new.kind # "transcript" PROVE new.cause = "none"
    <3>1. job.at # "ask"
      BY <1>2, <2>3 DEF StepTo
    <3>2. CASE job.at = "idle"
      BY <1>2, <3>2 DEF StepTo, Fresh
    <3>3. CASE job.at # "idle"
      BY <1>1, <1>2, <1>12, <3>1, <3>3 DEF StepTo, EarlyInv, Fresh
    <3> QED
      BY <3>2, <3>3
  <2> QED
    BY <2>1, <2>2, <2>3 DEF BooksOf
<1>13. CASE job.at = "row"
  <2>0. bills = {} /\ new.at # "failRow"
    BY <1>2, <1>7, <1>13 DEF BooksOf, StepTo
  <2>1. new.tokens = job.tokens
    BY <1>2, <1>13 DEF StepTo
  <2>2. CASE log' = log \cup {Row(c, TRUE, job.tokens)} /\ new.at \in {"done", "error"}
             /\ (new.at = "error" => new.cause = "garbage")
    <3>1. PICK row : row = Row(c, TRUE, job.tokens)
      OBVIOUS
    <3>2. row.call = c /\ row.ok = TRUE /\ row.tokens = job.tokens
      BY <1>10, <3>1, RowIs
    <3>3. bills2 = {row}
      BY <1>3, <1>4, <2>0, <2>2, <3>1, <3>2 DEF Bills
    <3> QED
      BY <2>1, <2>2, <3>2, <3>3 DEF BooksOf
  <2>3. CASE log' = log /\ new.lost
    BY <1>8, <2>0, <2>3 DEF BooksOf
  <2>4. \/ log' = log \cup {Row(c, TRUE, job.tokens)} /\ new.at \in {"done", "error"}
             /\ (new.at = "error" => new.cause = "garbage")
        \/ log' = log /\ new.lost
    BY <1>2, <1>13 DEF StepTo, tables
  <2> QED
    BY <2>2, <2>3, <2>4
<1>14. CASE job.at = "error"
  <2>1. new.at \in {"failed", "failRow", "error"} /\ log' = log /\ new.tokens = job.tokens /\ new.cause = job.cause
    BY <1>2, <1>14 DEF StepTo, tables
  <2>2. noted2 \/ (new.lost /\ new.at # "failRow")
    <3>1. CASE errors' = errors \cup {[call |-> c, kept |-> TRUE]}
      <4>1. PICK row : row = [call |-> c, kept |-> TRUE]
        OBVIOUS
      <4>2. row \in errors' /\ row.call = c
        BY <3>1, <4>1
      <4> QED
        BY <1>6, <4>2, Zenon DEF Noted
    <3> QED
      BY <1>2, <1>14, <3>1 DEF StepTo
  <2> QED
    BY <1>7, <1>8, <1>14, <2>1, <2>2 DEF BooksOf
<1>15. CASE job.at = "failRow"
  <2>1. new.at \in {"failed", "error"} /\ errors' = errors /\ new.tokens = job.tokens /\ new.cause = job.cause
    BY <1>2, <1>15 DEF StepTo, tables
  <2>2. bills2 = bills
    <3>1. CASE log' = log \cup {Row(c, FALSE, 0)}
      <4>1. PICK row : row = Row(c, FALSE, 0)
        OBVIOUS
      <4>2. row.ok = FALSE
        BY <4>1 DEF Row
      <4> QED
        BY <1>3, <1>4, <3>1, <4>1, <4>2 DEF Bills
    <3> QED
      BY <1>2, <1>8, <1>15, <3>1 DEF StepTo, tables
  <2> QED
    BY <1>7, <1>9, <1>15, <2>1, <2>2 DEF BooksOf
<1>16. job.at \in {"idle", "limit", "since", "used", "creds", "ask", "row", "error", "failRow"}
  BY <1>2 DEF StepTo
<1> QED
  BY <1>12, <1>13, <1>14, <1>15, <1>16

LEMMA BooksOfOthers ==
    ASSUME TypeOK, LogInv, errors \subseteq ErrorRow, NEW c \in Calls, call'[c] = call[c], BooksInv(c),
           \/ log' = log
           \/ \E d \in Calls \ {c}, ok \in BOOLEAN, n \in Nat : log' = log \cup {Row(d, ok, n)}
           \/ log' = {[row EXCEPT !.kept = FALSE] : row \in log},
           \/ errors \subseteq errors'
           \/ errors' = {[row EXCEPT !.kept = FALSE] : row \in errors}
    PROVE  BooksInv(c)'
<1>1. PICK job : job = call[c]
  OBVIOUS
<1>3. PICK bills : bills = Bills(c)
  OBVIOUS
<1>4. PICK bills2 : bills2 = Bills(c)'
  OBVIOUS
<1>5. PICK noted \in BOOLEAN : noted = Noted(c)
  BY DEF Noted
<1>6. PICK noted2 \in BOOLEAN : noted2 = Noted(c)'
  BY DEF Noted
<1>7. BooksOf(job, bills, noted)
  BY <1>1, <1>3, <1>5 DEF BooksInv
<1>8. noted => noted2
  <2>1. CASE errors \subseteq errors'
    BY <1>5, <1>6, <2>1, Zenon DEF Noted
  <2>2. CASE errors' = {[row EXCEPT !.kept = FALSE] : row \in errors}
    <3>1. \A row \in errors : [row EXCEPT !.kept = FALSE].call = row.call
      BY DEF ErrorRow
    <3>2. \A row \in errors : \E new \in errors' : new.call = row.call
      BY <2>2, <3>1
    <3> QED
      BY <1>5, <1>6, <3>2, Zenon DEF Noted
  <2> QED
    BY <2>1, <2>2
<1>9. \/ bills2 = bills
      \/ \E hide \in [bills -> bills2] :
             /\ \A b \in bills2 : \E a \in bills : b = hide[a]
             /\ \A a \in bills : hide[a].tokens = a.tokens
  <2>1. CASE log' = log
    BY <1>3, <1>4, <2>1 DEF Bills
  <2>2. ASSUME NEW d \in Calls \ {c}, NEW ok \in BOOLEAN, NEW n \in Nat, log' = log \cup {Row(d, ok, n)}
        PROVE  bills2 = bills
    <3>1. PICK row : row = Row(d, ok, n)
      OBVIOUS
    <3>2. row.call # c
      BY <3>1, RowIs
    <3> QED
      BY <1>3, <1>4, <2>2, <3>1, <3>2 DEF Bills
  <2>3. CASE log' = {[row EXCEPT !.kept = FALSE] : row \in log}
    <3> DEFINE hide == [a \in bills |-> [a EXCEPT !.kept = FALSE]]
    <3>1. \A row \in log : /\ [row EXCEPT !.kept = FALSE].call = row.call
                            /\ [row EXCEPT !.kept = FALSE].ok = row.ok
                            /\ [row EXCEPT !.kept = FALSE].tokens = row.tokens
      BY DEF LogInv, UsageRow
    <3>2. \A a \in bills : [a EXCEPT !.kept = FALSE] \in bills2
      BY <1>3, <1>4, <2>3, <3>1 DEF Bills
    <3>3. \A b \in bills2 : \E a \in bills : b = [a EXCEPT !.kept = FALSE]
      BY <1>3, <1>4, <2>3, <3>1 DEF Bills
    <3>4. \A a \in bills : [a EXCEPT !.kept = FALSE].tokens = a.tokens
      BY <1>3, <3>1 DEF Bills
    <3>5. hide \in [bills -> bills2]
      BY <3>2
    <3>6. /\ \A b \in bills2 : \E a \in bills : b = hide[a]
          /\ \A a \in bills : hide[a].tokens = a.tokens
      BY <3>3, <3>4
    <3> HIDE DEF hide
    <3> QED
      BY <3>5, <3>6
  <2> QED
    BY <2>1, <2>2, <2>3
<1>10. BooksOf(job, bills2, noted2)
  <2>1. CASE bills2 = bills
    BY <1>7, <1>8, <2>1 DEF BooksOf
  <2>2. ASSUME NEW hide \in [bills -> bills2],
               \A b \in bills2 : \E a \in bills : b = hide[a],
               \A a \in bills : hide[a].tokens = a.tokens
        PROVE  BooksOf(job, bills2, noted2)
    <3>1. bills2 = {} <=> bills = {}
      BY <2>2
    <3>2. \A a, b \in bills2 : a = b
      BY <1>7, <2>2 DEF BooksOf
    <3>3. \A b \in bills2 : b.tokens = job.tokens
      BY <1>7, <2>2 DEF BooksOf
    <3> QED
      BY <1>7, <1>8, <3>1, <3>2, <3>3 DEF BooksOf
  <2> QED
    BY <1>9, <2>1, <2>2
<1> QED
  BY <1>1, <1>4, <1>6, <1>10 DEF BooksInv

----------------------------------------------------------------------------
(* The invariant, and the theorems.                                        *)
LlmInv ==
    /\ TypeOK /\ LogInv /\ errors \subseteq ErrorRow
    /\ \A c \in Calls : CallInv(c) /\ EarlyInv(c) /\ RoomInv(c) /\ BooksInv(c)

LEMMA LlmInitial == Init => LlmInv
<1> SUFFICES ASSUME Init PROVE LlmInv
  OBVIOUS
<1>1. NoCall \in Job
  BY LlmAssumption DEF NoCall, Job, Kinds, Purposes
<1>2. TypeOK
  BY <1>1, LlmAssumption DEF Init, TypeOK
<1>3. LogInv /\ errors \subseteq ErrorRow
  BY FS_EmptySet DEF Init, LogInv
<1>4. ASSUME NEW c \in Calls PROVE CallInv(c) /\ EarlyInv(c) /\ RoomInv(c) /\ BooksInv(c)
  <2>1. call[c].at = "idle" /\ Bills(c) = {}
    BY DEF Init, NoCall, Bills
  <2> QED
    BY <2>1 DEF CallInv, EarlyInv, RoomInv, BooksInv, BooksOf
<1> QED
  BY <1>2, <1>3, <1>4 DEF LlmInv

LEMMA LlmNext == ASSUME LlmInv, Next PROVE LlmInv'
<1>0. NextTo /\ TypeOK /\ LogInv /\ TypeOK' /\ LogInv' /\ Observe
  BY NextIs, StepTypes DEF LlmInv, NextTo
<1>1. ASSUME NEW c \in Calls, NEW new \in Job, Calling(c, new)
      PROVE  /\ errors' \subseteq ErrorRow
             /\ \A d \in Calls : CallInv(d)' /\ EarlyInv(d)' /\ RoomInv(d)' /\ BooksInv(d)'
  <2>1. /\ LogSteps(c) /\ (call[c].at = "idle" => log' = log) /\ epoch' = epoch
        /\ call' = [call EXCEPT ![c] = new]
    BY <1>0, <1>1, CallingLog
  <2>2. errors' = errors \/ errors' = errors \cup {[call |-> c, kept |-> TRUE]}
    BY <1>1 DEF Calling, StepTo, tables
  <2>3. errors' \subseteq ErrorRow
    <3>1. [call |-> c, kept |-> TRUE] \in ErrorRow
      BY DEF ErrorRow
    <3> QED
      BY <2>2, <3>1 DEF LlmInv
  <2>4. CallInv(c)' /\ EarlyInv(c)'
    BY <1>0, <1>1, CallerInv DEF LlmInv
  <2>5. RoomInv(c)' /\ BooksInv(c)'
    BY <1>0, <1>1, RoomOfCaller, BooksOfCaller DEF LlmInv
  <2>6. ASSUME NEW d \in Calls \ {c}
        PROVE  CallInv(d)' /\ EarlyInv(d)' /\ RoomInv(d)' /\ BooksInv(d)'
    <3>1. call'[d] = call[d]
      BY <1>0, <2>1, <2>6 DEF TypeOK
    <3>2. CallInv(d)' /\ EarlyInv(d)'
      BY <3>1 DEF CallInv, EarlyInv, LlmInv
    <3>3. log \subseteq log'
      BY <2>1 DEF LogSteps
    <3>4. RoomInv(d)'
      BY <1>0, <2>1, <3>1, <3>3, RoomOfOthers DEF LlmInv
    <3>5. \/ log' = log
          \/ \E e \in Calls \ {d}, ok \in BOOLEAN, n \in Nat : log' = log \cup {Row(e, ok, n)}
      BY <2>1, <2>6 DEF LogSteps
    <3>6. BooksInv(d)'
      BY <1>0, <2>2, <3>1, <3>5, BooksOfOthers DEF LlmInv
    <3> QED
      BY <3>2, <3>4, <3>6
  <2> QED
    BY <2>3, <2>4, <2>5, <2>6
<1>2. CASE AdminTo
  <2>1. errors' = errors \/ errors' = {[row EXCEPT !.kept = FALSE] : row \in errors}
    BY <1>2 DEF AdminTo
  <2>2. errors' \subseteq ErrorRow
    <3>1. \A row \in errors : [row EXCEPT !.kept = FALSE] \in ErrorRow
      BY DEF LlmInv, ErrorRow
    <3> QED
      BY <2>1, <3>1 DEF LlmInv
  <2>3. ASSUME NEW d \in Calls
        PROVE  CallInv(d)' /\ EarlyInv(d)' /\ RoomInv(d)' /\ BooksInv(d)'
    <3>1. call'[d] = call[d]
      BY <1>2 DEF AdminTo
    <3>2. CallInv(d)' /\ EarlyInv(d)'
      BY <3>1 DEF CallInv, EarlyInv, LlmInv
    <3>3. \/ log' = log /\ epoch' = epoch
          \/ log' = log /\ epoch' = epoch + 1
          \/ log' = {[row EXCEPT !.kept = FALSE] : row \in log} /\ epoch' = epoch
      BY <1>2 DEF AdminTo
    <3>4. RoomInv(d)'
      BY <1>0, <3>1, <3>3, RoomOfOthers DEF LlmInv
    <3>6. BooksInv(d)'
      BY <1>0, <2>1, <3>1, <3>3, BooksOfOthers DEF LlmInv
    <3> QED
      BY <3>2, <3>4, <3>6
  <2> QED
    BY <1>0, <2>2, <2>3 DEF LlmInv
<1> QED
  BY <1>0, <1>1, <1>2 DEF LlmInv, NextTo

LEMMA LlmStutters == ASSUME LlmInv, UNCHANGED vars PROVE LlmInv'
<1>1. TypeOK' /\ LogInv' /\ errors' \subseteq ErrorRow
  BY DEF LlmInv, TypeOK, LogInv, vars, tables, settings
<1>2. ASSUME NEW c \in Calls PROVE CallInv(c)' /\ EarlyInv(c)' /\ RoomInv(c)' /\ BooksInv(c)'
  <2>1. CallInv(c)' /\ EarlyInv(c)'
    BY DEF LlmInv, CallInv, EarlyInv, vars
  <2>2. RoomInv(c)'
    BY DEF LlmInv, RoomInv, UsedTokens, Counted, vars, tables, settings
  <2>3. BooksInv(c)'
    BY DEF LlmInv, BooksInv, BooksOf, Bills, Noted, vars, tables
  <2> QED
    BY <2>1, <2>2, <2>3
<1> QED
  BY <1>1, <1>2 DEF LlmInv

LEMMA LlmInvariant == Spec => []LlmInv
<1>1. Init => LlmInv
  BY LlmInitial
<1>2. LlmInv /\ [Next]_vars => LlmInv'
  BY LlmNext, LlmStutters
<1> QED
  BY <1>1, <1>2, PTL DEF Spec

(* Every call is at one of its places with a record of the right kind, and *)
(* the rows of the history carry the user of the call that wrote them.     *)
THEOREM LlmTypeOK == Spec => []TypeOK
<1>1. LlmInv => TypeOK
  BY DEF LlmInv
<1> QED
  BY <1>1, LlmInvariant, PTL

(* Quotas: whoever is let through to a model had tokens left at some       *)
(* moment of the call, for any number of users, calls, rows and changes by *)
(* an admin between the reading of limit, reset and sum.                   *)
THEOREM LlmQuotaIsRespected == Spec => []QuotaIsRespected
<1>1. LlmInv => QuotaIsRespected
  BY DEF LlmInv, RoomInv, QuotaIsRespected
<1> QED
  BY <1>1, LlmInvariant, PTL

LEMMA RankIsBounded ==
    ASSUME NEW job \in Job, Rank(job, job.asked)
    PROVE  job.asked < MostRequests(job.kind)
<1>1. /\ job.kind \in Kinds /\ job.model \in Nat /\ job.set \in 1..ToolSets /\ job.attempt \in 1..3
      /\ job.asked \in Nat /\ job.plain \in BOOLEAN /\ Models \in Nat \ {0} /\ ToolSets \in Nat \ {0}
  BY LlmAssumption DEF Job
<1>2. /\ job.model \in 1..Models => Chatted(job) \in 0..(3 * Models - 1)
      /\ job.model \in 1..3 => Chatted(job) \in 0..8
      /\ Round(job) \in 0..(3 * Models)
  BY <1>1 DEF Chatted, Round
<1>3. CASE job.kind = "search"
  <2> DEFINE W == 2 * ToolSets
  <2>1. MostRequests(job.kind) = W * Models + 6 * Models
    BY <1>3 DEF MostRequests
  <2>2. /\ job.model \in 1..Models
        /\ job.search => job.asked <= W * (job.model - 1) + 2 * (job.set - 1) + 1
        /\ ~job.search => job.asked <= W * Models + Round(job) + Chatted(job)
    BY <1>1, <1>3 DEF Rank
  <2>3. W \in Nat /\ 2 * (job.set - 1) + 1 < W
    BY <1>1
  <2> HIDE DEF W
  <2>4. W * (job.model - 1) + W <= W * Models /\ W * Models \in Nat /\ W * (job.model - 1) \in Nat
    <3>1. PICK k \in Nat : Models = (job.model - 1) + 1 + k
      <4>1. Models - job.model \in Nat /\ Models = (job.model - 1) + 1 + (Models - job.model)
        BY <1>1, <2>2
      <4> QED
        BY <4>1
    <3>2. PICK m \in Nat : m = job.model - 1
      BY <1>1, <2>2
    <3>3. W * (m + 1 + k) = W * m + W + W * k /\ W * k \in Nat /\ W * m \in Nat
      BY <2>3
    <3> QED
      BY <2>3, <3>1, <3>2, <3>3
  <2>5. job.search \in BOOLEAN
    BY DEF Job
  <2> QED
    BY <1>1, <1>2, <2>1, <2>2, <2>3, <2>4, <2>5
<1>4. CASE job.kind # "search"
  BY <1>1, <1>2, <1>4 DEF Rank, MostRequests, Kinds
<1> QED
  BY <1>3, <1>4

(* The books and the loops: an answer is billed by exactly one row, failed *)
(* calls leave an error and no second bill unless a statement failed, and  *)
(* no call asks more often than its models, tools and retries allow.       *)
THEOREM LlmCallsAreSound == Spec => []CallsAreSound
<1>1. ASSUME LlmInv PROVE CallsAreAccounted
  <2>1. ASSUME NEW c \in Calls
        PROVE  /\ Cardinality(Bills(c)) <= 1 /\ \A row \in Bills(c) : row.tokens = call[c].tokens
               /\ call[c].at = "done" /\ ~call[c].lost => Bills(c) # {}
               /\ call[c].at = "failed" /\ ~call[c].lost /\ call[c].cause # "none" /\ call[c].kind # "transcript"
                      => Noted(c) /\ (Bills(c) = {} \/ call[c].cause = "garbage")
    <3>1. BooksOf(call[c], Bills(c), Noted(c))
      BY <1>1 DEF LlmInv, BooksInv
    <3>2. Cardinality(Bills(c)) <= 1
      <4>1. CASE Bills(c) = {}
        BY <4>1, FS_EmptySet
      <4>2. CASE Bills(c) # {}
        <5>1. PICK b : Bills(c) = {b}
          BY <3>1, <4>2 DEF BooksOf
        <5> QED
          BY <5>1, FS_Singleton
      <4> QED
        BY <4>1, <4>2
    <3> QED
      BY <3>1, <3>2 DEF BooksOf
  <2> QED
    BY <2>1 DEF CallsAreAccounted, Bills, Noted
<1>2. ASSUME LlmInv PROVE RequestsAreBounded
  <2>1. ASSUME NEW c \in Calls, call[c].at = "ask" PROVE call[c].asked < MostRequests(call[c].kind)
    <3>1. PICK job \in Job : job = call[c]
      BY <1>2 DEF LlmInv, TypeOK
    <3>2. Rank(job, job.asked)
      BY <1>2, <2>1, <3>1 DEF LlmInv, CallInv
    <3> QED
      BY <3>1, <3>2, RankIsBounded
  <2> QED
    BY <2>1 DEF RequestsAreBounded
<1>3. LlmInv => CallsAreSound
  BY <1>1, <1>2 DEF CallsAreSound
<1> QED
  BY <1>3, LlmInvariant, PTL
=============================================================================
