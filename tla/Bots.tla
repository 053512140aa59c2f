-------------------------------- MODULE Bots ---------------------------------
(***************************************************************************)
(* The two bots of Telegram as they listen.  TelegramService (the digest's *)
(* bot) handles one update after the other and then stores the offset;     *)
(* TelegramAssistantService lets every update run by itself and stores the *)
(* offset at once.  Telegram keeps what no offset has confirmed.           *)
(***************************************************************************)
EXTENDS SignIn, FiniteSetsExt

CONSTANTS
    Past,         \* messages that both bots have dealt with before
    Tokens        \* bound on the tokens a bot gets one after the other

ASSUME BotsAssumption ==
    /\ Past \in Nat /\ Tokens \in Nat \ {0}
    /\ Mobiles \cap {"stop", "other"} = {}

VARIABLES
    bot,          \* TelegramBotConfig and TelegramAssistantConfig; "mixed" is history: the
                  \* tokens for which the offset of another may have been taken
    inbox,        \* Telegram: what was written, and how much of it is confirmed
    seen,         \* history: updates that were handled, begun or skipped as backlog
    tasks,        \* of the assistant, each with the update it handles
    dirs          \* directories of video jobs

botVars == <<bot, inbox, seen, tasks, dirs>>

Bot == {"digest", "assistant"}
Unset == 0

Before == [wish |-> "other", chat |-> "none"]
InitBots ==
    /\ bot = [b \in Bot |-> [token |-> 1, on |-> TRUE, last |-> Past, mixed |-> {}]]
    /\ inbox = [b \in Bot |-> [t \in 1..Tokens |->
           [said |-> IF t = 1 THEN [i \in 1..Past |-> Before] ELSE << >>, confirmed |-> 0]]]
    /\ seen = [bot : Bot, token : {1}, id : 1..Past]
    /\ tasks = {}
    /\ dirs = {}

PollSteps == <<"claimPoll", "readToken", "readConfig", "getUpdates">>
ScriptOfBots(kind) ==
    CASE kind \in {"poll", "pollA"} -> PollSteps
      [] kind \in {"save", "saveA"} -> <<"readBot", "writeBot", "forgetSkip">>
      [] kind = "unlink"  -> <<"readUser", "unlink">>
      [] kind = "unlinkA" -> <<"readLinked", "tell", "readUser", "unlink">>
BotKinds == {"poll", "pollA", "save", "saveA", "unlink", "unlinkA"}

Of(r) == IF req[r].kind \in {"poll", "save"} THEN "digest" ELSE "assistant"
PollFlag(b) == [digest |-> "poll", assistant |-> "pollA"][b]
SkipFlag(b) == [digest |-> "skipped", assistant |-> "skippedA"][b]
Row(r) == bot[Of(r)]
BotsAlone == UNCHANGED <<signInVars, botVars>>

(* Polls come by themselves; "n" is what an admin's form says: 1 a new     *)
(* token, 2 off, 3 on.                                                     *)
AskBots(r) ==
    /\ \E kind \in BotKinds \cap Open(r) : \E t \in IF kind \in {"poll", "pollA"} THEN {NoToken} ELSE tokens :
       \E u \in CASE kind = "unlink" -> {t.user} [] kind = "unlinkA" -> Users [] OTHER -> {Nobody} :
       \E n \in IF kind \in {"save", "saveA"} THEN 1..3 ELSE {0} :
          /\ kind \in {"save", "saveA", "unlinkA"} => t.role = "ADMIN"
          /\ Begin(r, kind, ScriptOfBots(kind), t, u, "none", n)
    /\ UNCHANGED memberVars /\ BotsAlone

(* People write a number of their own, /stop, or anything else to the      *)
(* digest's bot; to the assistant a greeting, something to answer, to      *)
(* translate or to summarise, or a video to give subtitles.                *)
Wishes == [digest |-> Mobiles \cup {"stop", "other"}, assistant |-> {"start", "work", "video"}]
SaidTo(b) == FoldSet(LAMBDA t, n : n + Len(inbox[b][t].said), 0, 1..Tokens) - Past
Say ==
    \E b \in Bot : \E w \in Wishes[b], c \in Chats :
        /\ PollFlag(b) \in DOMAIN scene /\ SaidTo(b) < scene.say
        /\ inbox' = [inbox EXCEPT ![b][bot[b].token].said = Append(@, [wish |-> w, chat |-> c])]
        /\ UNCHANGED <<reqVars, memberVars, signInVars, bot, seen, tasks, dirs>>

----------------------------------------------------------------------------
(* pollUpdates of both bots.                                               *)
ClaimPoll(r) ==
    /\ Step(r, "claimPoll")
    /\ IF PollFlag(Of(r)) \in held THEN Ends(r) ELSE Claims(r, PollFlag(Of(r)))
    /\ UNCHANGED memberVars /\ BotsAlone

(* readToken, and then the rest of the row, by two statements.             *)
ReadToken(r) ==
    /\ Step(r, "readToken")
    /\ Saw(r, [token |-> Row(r).token, last |-> Unset, max |-> Unset])
    /\ UNCHANGED memberVars /\ BotsAlone

ReadConfig(r) ==
    /\ Step(r, "readConfig")
    /\ IF Row(r).on THEN Saw(r, [Read(r) EXCEPT !.last = Row(r).last]) ELSE Ends(r)
    /\ bot' = [bot EXCEPT ![Of(r)].mixed = @ \cup ({Read(r).token} \ {Row(r).token})]
    /\ UNCHANGED <<memberVars, signInVars, inbox, seen, tasks, dirs>>

(* The first answer after the start, or after a new token, only sets the   *)
(* offset.                                                                 *)
Larger(m, n) == IF m > n THEN m ELSE n
Backlog(r) == Read(r).last = Unset /\ SkipFlag(Of(r)) \notin held
Heard(r, n) == {[bot |-> Of(r), token |-> Read(r).token, id |-> i] : i \in 1..n}

GetUpdates(r) ==
    LET b == Of(r)
        t == Read(r).token
        after == Larger(inbox[b][t].confirmed, Read(r).last)
        max == Len(inbox[b][t].said)
        answered == [req[r] EXCEPT !.saw.max = max, !.n = after + 1]
    IN
    /\ Step(r, "getUpdates")
    /\ inbox' = [inbox EXCEPT ![b][t].confirmed = after]
    /\ IF max <= after
       THEN Ends(r) /\ UNCHANGED seen
       ELSE IF Backlog(r)
       THEN /\ req' = [req EXCEPT ![r] = [answered EXCEPT !.todo = <<"saveOffset">>]]
            /\ held' = held \cup {SkipFlag(b)}
            /\ seen' = seen \cup Heard(r, max)
       ELSE /\ Moves(r, [answered EXCEPT !.todo = <<IF b = "digest" THEN "handle" ELSE "spawn">>], {})
            /\ UNCHANGED seen
    /\ UNCHANGED <<memberVars, signInVars, bot, tasks, dirs>>

(* Mutant: the offset goes to whatever has come in by now.                 *)
SaveOffsetOfNow(r) ==
    /\ Step(r, "saveOffset")
    /\ bot' = [bot EXCEPT ![Of(r)].last = Len(inbox[Of(r)][Read(r).token].said),
                          ![Of(r)].mixed = @ \cup ({Row(r).token} \ {Read(r).token})]
    /\ Wrote(r, {})
    /\ UNCHANGED <<memberVars, signInVars, inbox, seen, tasks, dirs>>

SaveOffset(r) ==
    /\ Step(r, "saveOffset")
    /\ bot' = [bot EXCEPT ![Of(r)].last = Read(r).max,
                          ![Of(r)].mixed = @ \cup ({Row(r).token} \ {Read(r).token})]
    /\ Wrote(r, {})
    /\ UNCHANGED <<memberVars, signInVars, inbox, seen, tasks, dirs>>

----------------------------------------------------------------------------
(* handleUpdate of the digest's bot, one update after the other; an error  *)
(* gives the whole batch up, and it comes again.                           *)
Message(r) == inbox[Of(r)][Read(r).token].said[req[r].n]
Answers(wish) ==
    CASE wish \in Mobiles -> <<"findProfile", "unlinkOthers", "link", "reply">>
      [] wish = "stop"    -> <<"unlinkChat", "reply">>
      [] OTHER            -> <<"reply">>

Handle(r) ==
    /\ Step(r, "handle")
    /\ Turns(r, IF req[r].n > Read(r).max THEN <<"saveOffset">> ELSE Answers(Message(r).wish))
    /\ UNCHANGED memberVars /\ BotsAlone

(* findProfileByMobile: ordered by when they were linked, latest first; in *)
(* that order the database puts those that never were before all others.   *)
Registered(m) == {u \in Users : user[u].is /\ user[u].mobile = m}
Found(m) == IF \E u \in Registered(m) : user[u].chat = "none"
            THEN {u \in Registered(m) : user[u].chat = "none"} ELSE Registered(m)
FindProfile(r) ==
    LET m == Message(r).wish IN
    /\ Step(r, "findProfile")
    /\ IF Registered(m) = {} THEN Turns(r, <<"reply">>)
       ELSE \E u \in Found(m) : Goes(r, [req[r] EXCEPT !.of = u, !.moved = @ \cap Bot])
    /\ UNCHANGED memberVars /\ BotsAlone

LeavesChat(c, except) == [u \in Users |-> IF user[u].chat = c /\ u # except THEN Unlinked(user[u]) ELSE user[u]]
UnlinkOthers(r) ==
    /\ Step(r, "unlinkOthers")
    /\ user' = LeavesChat(Message(r).chat, req[r].of)
    /\ Wrote(r, {})
    /\ UNCHANGED tokens /\ BotsAlone

Link(r) ==
    LET u == req[r].of IN
    /\ Step(r, "link")
    /\ user' = [user EXCEPT ![u] = Marked([@ EXCEPT !.chat = Message(r).chat, !.proof = Message(r).wish], r)]
    /\ Wrote(r, {u})
    /\ UNCHANGED tokens /\ BotsAlone

UnlinkChat(r) ==
    /\ Step(r, "unlinkChat")
    /\ user' = LeavesChat(Message(r).chat, Nobody)
    /\ Wrote(r, {})
    /\ UNCHANGED tokens /\ BotsAlone

Reply(r) ==
    /\ Step(r, "reply")
    /\ req' = [req EXCEPT ![r].todo = <<"handle">>, ![r].n = @ + 1]
    /\ seen' = seen \cup {[bot |-> Of(r), token |-> Read(r).token, id |-> req[r].n]}
    /\ UNCHANGED <<held, memberVars, signInVars, bot, inbox, tasks, dirs>>

----------------------------------------------------------------------------
(* handleUpdate of the assistant runs up to its first await at once: who   *)
(* has a request under way is told to wait.                                *)
Chores(wish) ==
    CASE wish = "video" -> <<"makeDir", "subtitles", "upload", "removeDir">>
      [] OTHER           -> <<"progress", "model", "reply">>

Asks(m) == m.wish # "start"
Batch(r) == inbox["assistant"][Read(r).token].said
Waits(r, n) ==
    \/ ~Asks(Batch(r)[n])
    \/ \E k \in tasks : k.long /\ k.chat = Batch(r)[n].chat
    \/ \E i \in req[r].n..n-1 : Asks(Batch(r)[i]) /\ Batch(r)[i].chat = Batch(r)[n].chat

Task(r, n) ==
    [id |-> <<r, n>>, chat |-> Batch(r)[n].chat, long |-> ~Waits(r, n),
     todo |-> IF Waits(r, n) THEN <<"say">> ELSE Chores(Batch(r)[n].wish)]

Spawn(r) ==
    /\ Step(r, "spawn")
    /\ tasks' = tasks \cup {Task(r, n) : n \in req[r].n..Read(r).max}
    /\ seen' = seen \cup Heard(r, Read(r).max)
    /\ Turns(r, <<"saveOffset">>)
    /\ UNCHANGED <<memberVars, signInVars, bot, inbox, dirs>>

Doing(k, step) == k.todo # << >> /\ Head(k.todo) = step
Replaced(k, todo) == (tasks \ {k}) \cup (IF todo = << >> THEN {} ELSE {[k EXCEPT !.todo = todo]})

TaskStep ==
    \E k \in tasks :
        /\ tasks' = Replaced(k, Tail(k.todo))
        /\ dirs' = CASE Doing(k, "makeDir") -> dirs \cup {[of |-> k.id, left |-> FALSE]}
                     [] Doing(k, "removeDir") -> {d \in dirs : d.of # k.id}
                     [] OTHER -> dirs
        /\ UNCHANGED <<reqVars, memberVars, signInVars, bot, inbox, seen>>

(* An error of a long task: the directory goes, the admin is told, the     *)
(* chat gets an apology; if even that fails the task is over all the same. *)
AfterError(k) ==
    IF ~k.long \/ Doing(k, "sorry") THEN << >>
    ELSE IF \E d \in dirs : d.of = k.id THEN <<"removeDir", "sorry">> ELSE <<"sorry">>

TaskFails ==
    /\ "task" \in Failures /\ Disturb
    /\ \E k \in tasks : ~Doing(k, "removeDir") /\ tasks' = Replaced(k, AfterError(k))
    /\ UNCHANGED <<scene, req, held, memberVars, signInVars, bot, inbox, seen, dirs>>

----------------------------------------------------------------------------
(* saveConfig writes the whole row back, but for the offset, which only a  *)
(* new token puts back.                                                    *)
ReadBot(r) ==
    /\ Step(r, "readBot")
    /\ Saw(r, [token |-> Row(r).token, on |-> Row(r).on, last |-> Unset])
    /\ UNCHANGED memberVars /\ BotsAlone

WriteBot(r) ==
    LET b == Of(r)
        n == req[r].n
    IN
    /\ Step(r, "writeBot")
    /\ n = 1 => bot[b].token < Tokens
    /\ bot' = [bot EXCEPT ![b] =
           [token |-> IF n = 1 THEN @.token + 1 ELSE Read(r).token,
            on |-> IF n \in {2, 3} THEN n = 3 ELSE Read(r).on,
            last |-> IF n = 1 THEN Unset ELSE @.last,
            mixed |-> IF n = 1 THEN @.mixed ELSE @.mixed \cup ({Read(r).token} \ {@.token})]]
    /\ Wrote(r, {b})
    /\ UNCHANGED <<memberVars, signInVars, inbox, seen, tasks, dirs>>

ForgetSkip(r) ==
    /\ Step(r, "forgetSkip")
    /\ req' = [req EXCEPT ![r] = Settled([@ EXCEPT !.at = "done"])]
    /\ held' = held \ {SkipFlag(Of(r))}
    /\ UNCHANGED memberVars /\ BotsAlone

(* unlink takes the link from every account with the number that was read; *)
(* unlinkByAdmin tells the chat first, whether or not that works.          *)
Unlink(r) ==
    /\ Step(r, "unlink")
    /\ user' = [u \in Users |->
           IF IF Read(r).mobile = "none" THEN u = req[r].of ELSE user[u].mobile = Read(r).mobile
           THEN Unlinked(user[u]) ELSE user[u]]
    /\ Wrote(r, {})
    /\ UNCHANGED tokens /\ BotsAlone

ReadLinked(r) == Reads(r, "readLinked", Target(r).is /\ Target(r).chat # "none") /\ BotsAlone
Tell(r) ==
    /\ Step(r, "tell")
    /\ Continues(r)
    /\ UNCHANGED memberVars /\ BotsAlone

BotStep(r) ==
    \/ ClaimPoll(r) \/ ReadToken(r) \/ ReadConfig(r) \/ GetUpdates(r) \/ SaveOffset(r) \/ Handle(r) \/ FindProfile(r)
    \/ UnlinkOthers(r) \/ Link(r) \/ UnlinkChat(r) \/ Reply(r) \/ Spawn(r)
    \/ ReadBot(r) \/ WriteBot(r) \/ ForgetSkip(r) \/ Unlink(r) \/ ReadLinked(r) \/ Tell(r)
=============================================================================
