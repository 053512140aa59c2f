------------------------------ MODULE Accounts -------------------------------
(***************************************************************************)
(* Everything about accounts side by side: members, sign-in, the bots that *)
(* link chats, backups; a failing statement; a restart, which forgets all  *)
(* fields and makes an admin when there is none (AdminBootstrapService).   *)
(***************************************************************************)
EXTENDS Backups

CONSTANT Root     \* the user of the name "admin"

ASSUME AccountsAssumption == Root \in Users

VARIABLE up

vars == <<reqVars, memberVars, signInVars, botVars, backupVars, up>>

Init == InitRequests /\ InitMembers /\ InitSignIn /\ InitBots /\ InitBackups /\ up = TRUE

Ask(r) ==
    \/ (AskMembers(r) /\ UNCHANGED <<signInVars, botVars, backupVars>>)
    \/ (AskSignIn(r) /\ UNCHANGED <<botVars, backupVars>>)
    \/ (AskBots(r) /\ UNCHANGED backupVars)
    \/ AskBackups(r)

Serve(r) ==
    \/ MemberStep(r) /\ UNCHANGED <<scene, left, signInVars, botVars, backupVars>>
    \/ SignInStep(r) /\ UNCHANGED <<scene, left, botVars, backupVars>>
    \/ BotStep(r) /\ UNCHANGED <<scene, left, backupVars>>
    \/ BackupStep(r)

(* A statement fails, and with it the request; flags are given back.       *)
Fragile == MemberKinds \cup SignInKinds \cup BotKinds
StatementFails(r) ==
    /\ "statement" \in Failures /\ Disturb
    /\ Underway(r) /\ req[r].kind \in Fragile
    /\ Rejects(r)
    /\ UNCHANGED <<scene, memberVars, signInVars, botVars, backupVars, up>>

(* With no admin left and the name taken the process does not start.       *)
Restart ==
    /\ "restart" \in Failures /\ Disturb
    /\ (\E r \in Requests : Underway(r)) \/ tasks # {} \/ Admins = {}
    /\ req' = CutOff
    /\ held' = {} /\ tasks' = {}
    /\ dirs' = {[d EXCEPT !.left = TRUE] : d \in dirs}
    /\ parts' = {[p EXCEPT !.left = TRUE] : p \in parts}
    /\ backupJob' = [status |-> "idle", of |-> Nobody]
    /\ IF \E u \in Users : user[u].is /\ user[u].role = "ADMIN" THEN UNCHANGED <<user, up>>
       ELSE IF user[Root].is THEN up' = FALSE /\ UNCHANGED user
       ELSE /\ user' = [user EXCEPT ![Root] = [NoUser EXCEPT !.is = TRUE, !.role = "ADMIN"]]
            /\ UNCHANGED up
    /\ UNCHANGED <<scene, tokens, signInVars, bot, inbox, seen, dumps>>

Next ==
    /\ up
    /\ \/ \E r \in Requests : Ask(r) /\ UNCHANGED up
       \/ \E r \in Requests : Serve(r) /\ UNCHANGED up
       \/ \E r \in Requests : StatementFails(r)
       \/ Age /\ UNCHANGED <<botVars, backupVars, up>>
       \/ (Say \/ TaskStep \/ TaskFails) /\ UNCHANGED <<backupVars, up>>
       \/ Restart

Spec == Init /\ [][Next]_vars

----------------------------------------------------------------------------
TypeOK ==
    /\ \A r \in Requests : req[r].at \in {"idle", "run", "done", "failed", "cut"} /\ (Underway(r) <=> req[r].todo # << >>)
    /\ left \in 0..Disturbances /\ mobileLogin \in BOOLEAN /\ up \in BOOLEAN
    /\ user \in [Users -> UserRow]
    /\ \A u \in Users : ~user[u].is => user[u] = NoUser
    /\ tokens \subseteq Token
    /\ \A u, v \in Users : u # v /\ user[u].code # "none" => user[u].code # user[v].code
    /\ \A c, d \in credentials : c.device = d.device => c = d
    /\ bot \in [Bot -> [token : 1..Tokens, on : BOOLEAN, last : Nat, mixed : SUBSET (1..Tokens)]]
    /\ backupJob.status \in {"idle", "running", "ready", "error"}

(* The last active admin keeps the role, whoever asks: only changes of two *)
(* requests at the same time can leave none.                               *)
AnAdminRemains ==
    [][Admins # {} /\ Admins' = {} => \E r \in Requests : Underway(r) /\ ~Underway(r)' /\ req[r].moved # {}]_vars

(* Password and access of an account are set by its owner, by an admin if  *)
(* it is no admin's, by a reseller if the account is his client's; unless  *)
(* the account changed its role while the request was under way.           *)
MayEdit(r, u) ==
    \/ Actor(r) = u
    \/ req[r].by.role = "ADMIN" /\ user[u].role # "ADMIN"
    \/ user[u].boss = Actor(r) /\ user[u].role = "USER"
EditsKeepRank ==
    [][\A r \in Requests : Step(r, "writeHand") /\ user' # user =>
          MayEdit(r, req[r].of) \/ req[r].of \in req[r].moved]_vars

(* A token given out is for an account that is open, and names its role,   *)
(* unless the account was changed during the sign-in; what stands in the   *)
(* log of mobile sign-in came while that was on; and a challenge lets one  *)
(* request pass.                                                           *)
OnlyTheAdmissible ==
    [][/\ \A r \in Requests : Step(r, "sign") /\ ~Underway(r)' /\ ~(tokens' \subseteq tokens) =>
             LET u == req[r].of IN
             \/ u \in req[r].moved
             \/ user[u].active /\ [user |-> u, role |-> user[u].role] \in tokens'
       /\ \A r \in Requests : r \in visits' \ visits => mobileLogin \/ "switch" \in req[r].moved
       /\ \A s, t \in served' : s.challenge = t.challenge => s = t]_vars

(* Rights over accounts are those of the moment, or the account changed    *)
(* under the request.                                                      *)
RightsAreKept == EditsKeepRank /\ OnlyTheAdmissible

(* A chat belongs to one account, and the account still has the number the *)
(* chat has shown, unless the number changed during the linking or two     *)
(* forms were saved at the same time.                                      *)
LinksAreSound ==
    \A u \in Users : user[u].chat # "none" =>
        /\ user[u].proof \in {user[u].mobile, "overlap"}
        /\ \A v \in Users : user[v].chat = user[u].chat => u = v

(* The offset of a bot passes no message that was not handled (digest) or  *)
(* begun (assistant), the backlog of the first poll excepted, unless the   *)
(* offset is mixed: a poll or a form that overlapped a change of the token *)
(* has stored it for another token than the one it was counted for.        *)
NoUpdateIsPassedOver ==
    [][\A r \in Requests : Step(r, "saveOffset") /\ bot' # bot =>
          \/ bot[Of(r)].token \in bot'[Of(r)].mixed
          \/ \A i \in 1..bot'[Of(r)].last : [bot |-> Of(r), token |-> bot[Of(r)].token, id |-> i] \in seen]_vars

(* Every flag has exactly one owner, who gives it back: polls, backups and *)
(* restores, the long tasks of a chat; and what they put on the disk goes  *)
(* with them, but for a restart and an upload that came at a busy time.    *)
Holders(f) == {r \in Requests : f \in req[r].holds}
FlagsHaveOwners ==
    /\ \A f \in {"poll", "pollA", "backup"} : Cardinality(Holders(f)) <= 1 /\ (f \in held <=> Holders(f) # {})
    /\ \A j, k \in tasks : j.long /\ k.long /\ j.chat = k.chat => j = k
    /\ \A d \in dirs : d.left \/ \E k \in tasks : k.id = d.of
    /\ \A p \in parts : p.left \/ Underway(p.of)
    /\ backupJob.status = "running" <=> \E r \in Holders("backup") : req[r].kind = "backup"
    /\ backupJob.status = "ready" => \E i \in DOMAIN dumps : dumps[i] = [by |-> backupJob.of, whole |-> TRUE]
=============================================================================
