--------------------------------- MODULE Llm ---------------------------------
(***************************************************************************)
(* Calls of language models: who may make them, what they cost, which      *)
(* models are asked in which order, and what is written down about them.   *)
(*                                                                         *)
(* A call is one of LlmService's operations: chatText, chatJson with and   *)
(* without a live search, systemOne, speakTts, transcribeAudio or          *)
(* testConnection.  AiUsageService checks quotas before it and records     *)
(* tokens after it, with awaits between its statements.                    *)
(***************************************************************************)
EXTENDS Integers, FiniteSets, Functions

CONSTANTS
    Users,         \* accounts; the system itself makes calls, too
    Calls,         \* each is made once
    KindsOf,       \* the operations that each may be
    Models,        \* length of the list of models, the first one included
    ToolSets,      \* sets of search tools that are tried with a model
    Tokens,        \* what an answer may cost
    Limits,        \* quotas an admin may set; 0 is no limit
    Disturbances,  \* how many failing statements and changes by an admin
    Failures       \* "statement", "model"

Kinds == {"text", "json", "search", "once", "systemone", "speech", "transcript", "test"}

ASSUME LlmAssumption ==
    /\ Models \in Nat \ {0} /\ ToolSets \in Nat \ {0}
    /\ Tokens \subseteq Nat /\ Limits \subseteq Nat /\ 0 \in Limits
    /\ KindsOf \in [Calls -> SUBSET Kinds]
    /\ "system" \notin Users
    /\ Disturbances \in Nat

VARIABLES
    access,   \* what aiAccess answers for a user
    quota,    \* the limit in AiUserQuota, or Unset
    default,  \* defaultQuotaTokens
    epoch,    \* resets so far: resetAt
    creds,    \* whether resolveCredentials finds a token
    log,      \* AiUsageLog, the cleared rows included
    errors,   \* LlmErrorLog, the cleared rows included
    call,
    room,     \* history: the user had tokens left at some time during the call
    left

tables == <<log, errors>>
settings == <<access, quota, default, epoch, creds>>
vars == <<settings, tables, call, room, left>>

Nobody == "system"
Unset == -1
Purposes == {"portfolio", "chat", "other"}
QUOTA_PURPOSES == {"portfolio", "chat"}
PORTFOLIO_AI_PURPOSES == {"portfolio"}
Outcomes == {"answer", "garbage", "rate", "gateway", "denied", "timeout", "error"}

(* Only the search that asks once passes errorLogOnly.                     *)
ErrorLogOnly(kind) == kind = "once"
Unchecked(kind) == kind \in {"speech", "transcript", "test"}

PurposesOf(kind) ==
    CASE kind = "text" -> {"chat", "other"}
      [] kind = "json" -> Purposes
      [] kind = "systemone" -> {"portfolio"}
      [] OTHER -> {"other"}

NoCall == [at |-> "idle", kind |-> "text", user |-> Nobody, purpose |-> "other",
           limit |-> 0, since |-> 0, search |-> FALSE, plain |-> FALSE,
           model |-> 1, set |-> 1, attempt |-> 1, asked |-> 0, cause |-> "none",
           tokens |-> 0, lost |-> FALSE]

Init ==
    /\ access \in [Users -> {"none", "llm", "all"}]
    /\ quota = [u \in Users |-> Unset]
    /\ default \in Limits
    /\ epoch = 0
    /\ creds = TRUE
    /\ log = {} /\ errors = {}
    /\ call = [c \in Calls |-> NoCall]
    /\ room = [c \in Calls |-> FALSE]
    /\ left = Disturbances

----------------------------------------------------------------------------
(* limitFor, sumUsage.                                                     *)
LimitFor(u) == IF quota[u] = Unset THEN default ELSE quota[u]
Counted(u, since) == {row \in log : row.kept /\ row.ok /\ row.user = u /\ row.epoch >= since}
UsedTokens(u, since) == SumFunction([row \in Counted(u, since) |-> row.tokens])
HasRoom(u) == u = Nobody \/ LimitFor(u) = 0 \/ UsedTokens(u, epoch) < LimitFor(u)

Underway(c) == call[c].at \notin {"idle", "done", "failed"}
Goto(c, place) == call' = [call EXCEPT ![c].at = place]
Disturb == left > 0 /\ left' = left - 1

(* assertAllowed: what access says of a call.  Purposes without a quota    *)
(* are not counted, and the system's own calls are never checked.          *)
AfterAccess(u, purpose) ==
    IF u = Nobody THEN "creds"
    ELSE IF purpose \in QUOTA_PURPOSES /\ access[u] = "none" THEN "failed"
    ELSE IF purpose \in PORTFOLIO_AI_PURPOSES /\ access[u] # "all" THEN "failed"
    ELSE IF purpose \in QUOTA_PURPOSES THEN "limit" ELSE "creds"

(* A call begins, and reads the user's access first of all.                *)
Start(c) ==
    /\ call[c].at = "idle"
    /\ \E kind \in KindsOf[c], u \in Users \cup {Nobody} : \E purpose \in PurposesOf(kind) :
        /\ kind = "test" => u # Nobody
        /\ call' = [call EXCEPT ![c] =
            [NoCall EXCEPT !.at = IF Unchecked(kind) THEN "creds" ELSE AfterAccess(u, purpose),
                           !.kind = kind, !.user = u, !.purpose = purpose,
                           !.search = kind \in {"search", "once"}]]
    /\ UNCHANGED <<settings, tables, left>>

ReadLimit(c) ==
    LET limit == LimitFor(call[c].user) IN
    /\ call[c].at = "limit"
    /\ call' = [call EXCEPT ![c].limit = limit, ![c].at = IF limit = 0 THEN "creds" ELSE "since"]
    /\ UNCHANGED <<settings, tables, left>>

ReadResetAt(c) ==
    /\ call[c].at = "since"
    /\ call' = [call EXCEPT ![c].since = epoch, ![c].at = "used"]
    /\ UNCHANGED <<settings, tables, left>>

(* Mutant: the last token of the quota may be overdrawn.                   *)
ReadUsedOffByOne(c) ==
    /\ call[c].at = "used"
    /\ Goto(c, IF UsedTokens(call[c].user, call[c].since) > call[c].limit THEN "failed" ELSE "creds")
    /\ UNCHANGED <<settings, tables, left>>

ReadUsed(c) ==
    /\ call[c].at = "used"
    /\ Goto(c, IF UsedTokens(call[c].user, call[c].since) >= call[c].limit THEN "failed" ELSE "creds")
    /\ UNCHANGED <<settings, tables, left>>

(* resolveCredentials and systemOneCreds.  chatText, the speech and the    *)
(* transcript await them outside of the block that notes errors.           *)
WithoutCredentials(kind) == IF kind \in {"text", "speech", "transcript"} THEN "failed" ELSE "error"

ReadCredentials(c) ==
    /\ call[c].at = "creds"
    /\ Goto(c, IF creds THEN "ask" ELSE WithoutCredentials(call[c].kind))
    /\ UNCHANGED <<settings, tables, left>>

----------------------------------------------------------------------------
(* Requests to the gateway.  A job is a call's record; each operator says  *)
(* how it goes on after a request that brought nothing.                    *)
NextModel(job) == [job EXCEPT !.model = @ + 1, !.set = 1, !.attempt = 1]
Again(job) == [job EXCEPT !.attempt = @ + 1]
(* The loops' variables end with them.                                     *)
Leave(job, place) ==
    [job EXCEPT !.at = place, !.search = FALSE, !.plain = FALSE,
                !.model = 1, !.set = 1, !.attempt = 1, !.asked = 0]
Give(job) == Leave(job, IF job.kind = "transcript" THEN "failed" ELSE "error")

(* Mutant: a request that timed out at the gateway is not counted.         *)
ChatAfterEndless(job, o) ==
    IF o = "rate" /\ job.attempt < 3 THEN Again(job)
    ELSE IF o = "gateway" THEN [job EXCEPT !.attempt = 1]
    ELSE IF o = "rate" /\ job.model < Models THEN NextModel(job)
    ELSE IF job.kind \in {"text", "test"} \/ job.plain \/ o = "gateway" THEN Give(job)
    ELSE [job EXCEPT !.plain = TRUE, !.model = 1, !.attempt = 1]

(* callWithModelFallback, and callChatJsonCompletions around it: when the  *)
(* first round fails otherwise than by a gateway timeout, a second one     *)
(* goes without json_object.  A rate limit has by then been made an error  *)
(* of another class, and is not told from the rest.                        *)
ChatAfter(job, o) ==
    IF (o = "rate" /\ job.attempt < 3) \/ (o = "gateway" /\ job.attempt = 1) THEN Again(job)
    ELSE IF o = "rate" /\ job.model < Models THEN NextModel(job)
    ELSE IF job.kind \in {"text", "test"} \/ job.plain \/ o = "gateway" THEN Give(job)
    ELSE [job EXCEPT !.plain = TRUE, !.model = 1, !.attempt = 1]

(* callResponsesForJson: each model with each set of tools, with           *)
(* json_object and, unless the rate is limited, without; then chatJson     *)
(* goes on without a search.  With once, the first failure is the last.    *)
SearchAfter(job, o) ==
    IF job.kind = "once" THEN Give(job)
    ELSE IF o # "rate" /\ ~job.plain THEN [job EXCEPT !.plain = TRUE]
    ELSE IF job.set < ToolSets THEN [job EXCEPT !.set = @ + 1, !.plain = FALSE]
    ELSE IF job.model < Models THEN [NextModel(job) EXCEPT !.plain = FALSE]
    ELSE [job EXCEPT !.search = FALSE, !.plain = FALSE, !.model = 1, !.set = 1, !.attempt = 1]

(* systemOne and requestSpeech ask once more when the rate is limited.     *)
TwiceAfter(job, o) == IF o = "rate" /\ job.attempt = 1 THEN Again(job) ELSE Give(job)

(* transcribeBytes: three variants of the request, each thrice unless the  *)
(* failure is permanent.                                                   *)
TranscriptAfter(job, o) ==
    IF o \in {"rate", "gateway"} /\ job.attempt < 3 THEN Again(job)
    ELSE IF o \in {"timeout", "denied"} \/ job.model = 3 THEN Give(job)
    ELSE NextModel(job)

(* A chat's answer that is no JSON is billed before it is read; elsewhere  *)
(* such an answer is a failure of the request.                             *)
Accepted(job, o) ==
    o = "answer" \/ (o = "garbage" /\ ~job.search /\ job.kind \in {"text", "json", "search", "test"})

After(job, o) ==
    CASE job.kind \in {"systemone", "speech"} -> TwiceAfter(job, o)
      [] job.kind = "transcript" -> TranscriptAfter(job, o)
      [] job.search -> SearchAfter(job, o)
      [] OTHER -> ChatAfter(job, o)

(* What is remembered of the last answer.                                  *)
CauseOf(o) == IF o \in {"answer", "garbage", "rate"} THEN o ELSE "error"

Ask(c) ==
    /\ call[c].at = "ask"
    /\ \E o \in Outcomes :
        LET job == [call[c] EXCEPT !.asked = @ + 1, !.cause = CauseOf(o)] IN
        /\ o # "answer" => "model" \in Failures
        /\ IF Accepted(job, o)
           THEN \E n \in Tokens :
                   call' = [call EXCEPT ![c] = [Leave(job, "row") EXCEPT !.tokens = n]]
           ELSE call' = [call EXCEPT ![c] = After(job, o)]
    /\ UNCHANGED <<settings, tables, left>>

----------------------------------------------------------------------------
Row(c, ok, tokens) ==
    [call |-> c, user |-> call[c].user, ok |-> ok, tokens |-> tokens, epoch |-> epoch, kept |-> TRUE]

(* record: rates is read first; the row is tried twice, and if it cannot   *)
(* be stored the answer is delivered all the same.                         *)
StoreRow(c) ==
    /\ call[c].at = "row"
    /\ \/ log' = log \cup {Row(c, TRUE, call[c].tokens)} /\ UNCHANGED left
       \/ "statement" \in Failures /\ Disturb /\ UNCHANGED log
    /\ call' = [call EXCEPT
           ![c].at = IF call[c].cause = "garbage" /\ call[c].kind \in {"json", "search"}
                     THEN "error" ELSE "done",
           ![c].lost = @ \/ log' = log]
    /\ UNCHANGED <<settings, errors>>

(* Mutant: what a failed call leaves in the history counts as an answer.   *)
LogFailureAsOk(c) ==
    /\ call[c].at = "failRow"
    /\ log' = log \cup {Row(c, TRUE, 0)}
    /\ Goto(c, "failed")
    /\ UNCHANGED <<settings, errors, left>>

(* recordFailure: a row among the errors, then one without tokens in the   *)
(* history.  What fails meanwhile is swallowed.                            *)
LogError(c) ==
    /\ call[c].at = "error"
    /\ errors' = errors \cup {[call |-> c, kept |-> TRUE]}
    /\ Goto(c, IF ErrorLogOnly(call[c].kind) THEN "failed" ELSE "failRow")
    /\ UNCHANGED <<settings, log, left>>

LogFailure(c) ==
    /\ call[c].at = "failRow"
    /\ log' = log \cup {Row(c, FALSE, 0)}
    /\ Goto(c, "failed")
    /\ UNCHANGED <<settings, errors, left>>

(* A statement fails.  Before the request nothing is noted; a failure of   *)
(* rates after an answer makes the call fail.                              *)
StatementFails(c) ==
    /\ "statement" \in Failures /\ Disturb
    /\ \/ /\ call[c].at = "creds"
          /\ call' = [call EXCEPT ![c].lost = TRUE, ![c].at = WithoutCredentials(call[c].kind)]
       \/ /\ call[c].at \in {"limit", "since", "used", "error", "failRow"}
          /\ call' = [call EXCEPT ![c].lost = TRUE, ![c].at = "failed"]
       \/ /\ call[c].at = "row"
          /\ call' = [call EXCEPT ![c].lost = TRUE,
                 ![c].at = IF call[c].kind \in {"speech", "transcript"} THEN "failed" ELSE "error"]
    /\ UNCHANGED <<settings, tables>>

----------------------------------------------------------------------------
(* The admin: quotas, defaults, access, settings, reset, and the two       *)
(* histories, which may be cleared.                                        *)
SaveUserQuota(u) ==
    /\ \E limit \in Limits : quota' = [quota EXCEPT ![u] = limit]
    /\ UNCHANGED <<access, default, epoch, creds, tables>>

SaveConfig ==
    /\ default' \in Limits \ {default}
    /\ UNCHANGED <<access, quota, epoch, creds, tables>>

Reset ==
    /\ epoch' = epoch + 1
    /\ UNCHANGED <<access, quota, default, creds, tables>>

SetAiAccess(u) ==
    /\ \E a \in {"none", "llm", "all"} \ {access[u]} : access' = [access EXCEPT ![u] = a]
    /\ UNCHANGED <<quota, default, epoch, creds, tables>>

SaveSettings ==
    /\ creds' = ~creds
    /\ UNCHANGED <<access, quota, default, epoch, tables>>

ClearHistory ==
    /\ log' = {[row EXCEPT !.kept = FALSE] : row \in log}
    /\ UNCHANGED <<settings, errors>>

ClearErrors ==
    /\ errors' = {[row EXCEPT !.kept = FALSE] : row \in errors}
    /\ UNCHANGED <<settings, log>>

Admin ==
    /\ Disturb
    /\ \/ \E u \in Users : SaveUserQuota(u) \/ SetAiAccess(u)
       \/ SaveConfig \/ Reset \/ SaveSettings \/ ClearHistory \/ ClearErrors
    /\ UNCHANGED call

Continue(c) ==
    \/ ReadLimit(c) \/ ReadResetAt(c) \/ ReadUsed(c) \/ ReadCredentials(c)
    \/ Ask(c) \/ StoreRow(c) \/ LogError(c) \/ LogFailure(c)

(* The history variable is looked after here for all actions.              *)
RoomNow(c) == HasRoom(call[c].user)
Observe == room' = [c \in Calls |-> Underway(c)' /\ (room[c] \/ RoomNow(c)')]

Next ==
    /\ \/ \E c \in Calls : Start(c) \/ Continue(c) \/ StatementFails(c)
       \/ Admin
    /\ Observe

Spec == Init /\ [][Next]_vars

----------------------------------------------------------------------------
Job == [at: {"idle", "limit", "since", "used", "creds", "ask", "row",
             "error", "failRow", "done", "failed"},
        kind: Kinds, user: Users \cup {Nobody}, purpose: Purposes,
        limit: Limits, since: Nat, search: BOOLEAN, plain: BOOLEAN,
        model: Nat, set: 1..ToolSets, attempt: 1..3, asked: Nat, cause: {"none", "answer", "garbage", "rate", "error"},
        tokens: Tokens \cup {0}, lost: BOOLEAN]

TypeOK ==
    /\ access \in [Users -> {"none", "llm", "all"}]
    /\ quota \in [Users -> Limits \cup {Unset}]
    /\ default \in Limits /\ epoch \in Nat /\ creds \in BOOLEAN
    /\ call \in [Calls -> Job]
    /\ room \in [Calls -> BOOLEAN]
    /\ \A row \in log : row.call \in Calls /\ row.user = call[row.call].user
    /\ left \in 0..Disturbances

(* The quota: whoever is let through to a model had tokens left at some    *)
(* moment of the call, although limit, time of reset and sum are read one  *)
(* after the other while others record, admins change limits, and rows go. *)
QuotaIsRespected ==
    \A c \in Calls :
        call[c].at \in {"creds", "ask", "row"} /\ call[c].purpose \in QUOTA_PURPOSES => room[c]

(* The books: an answer is billed by one row, failed calls leave an error  *)
(* and no second bill, unless a statement failed; one that was answered    *)
(* and failed nevertheless was no JSON.                                    *)
CallsAreAccounted ==
    \A c \in Calls :
        LET bills == {row \in log : row.call = c /\ row.ok}
            noted == \E row \in errors : row.call = c IN
        /\ Cardinality(bills) <= 1 /\ \A row \in bills : row.tokens = call[c].tokens
        /\ call[c].at = "done" /\ ~call[c].lost => bills # {}
        /\ call[c].at = "failed" /\ ~call[c].lost /\ call[c].cause # "none" /\ call[c].kind # "transcript"
               => noted /\ (bills = {} \/ call[c].cause = "garbage")

(* Every call has an end, after a bounded number of requests; the search   *)
(* that may ask once asks once.                                            *)
MostRequests(kind) ==
    CASE kind \in {"text", "test"} -> 3 * Models
      [] kind = "json" -> 6 * Models
      [] kind = "search" -> 2 * ToolSets * Models + 6 * Models
      [] kind = "once" -> 1
      [] kind = "transcript" -> 9
      [] OTHER -> 2
RequestsAreBounded ==
    \A c \in Calls : call[c].at = "ask" => call[c].asked < MostRequests(call[c].kind)

(* What is asked of a gateway, and what it costs, is bounded and booked.   *)
CallsAreSound == CallsAreAccounted /\ RequestsAreBounded
=============================================================================
