------------------------------- MODULE Members -------------------------------
(***************************************************************************)
(* UsersService: accounts, roles, referral codes, access, and the profile  *)
(* with its mobile number.  A request shows a token that was signed up to  *)
(* two hours ago: the guards of the controllers believe the role in it,    *)
(* only the services look into the database.                               *)
(***************************************************************************)
EXTENDS Requests

CONSTANTS
    Codes,       \* of referral
    Mobiles,
    Chats,
    FirstUsers   \* the accounts there are at first

VARIABLES
    user,
    tokens       \* those that have been given out and have not expired

memberVars == <<user, tokens>>

Roles == {"ADMIN", "RESELLER", "USER"}
Token == [user : Users, role : Roles]

(* "hand" is who last set password or access, "proof" the number a chat    *)
(* showed when it was linked: histories.                                   *)
NoUser == [is |-> FALSE, role |-> "USER", active |-> TRUE, boss |-> Nobody, code |-> "none", codeOn |-> FALSE,
           hand |-> Nobody, mobile |-> "none", chat |-> "none", proof |-> "none"]

UserRow ==
    [is : BOOLEAN, role : Roles, active : BOOLEAN, boss : Users \cup {Nobody}, code : Codes \cup {"none"},
     codeOn : BOOLEAN, hand : Users \cup {Nobody}, mobile : Mobiles \cup {"none"}, chat : Chats \cup {"none"},
     proof : Mobiles \cup {"none", "overlap"}]

ASSUME MembersAssumption ==
    /\ IsFiniteSet(Users)
    /\ "none" \notin Codes \cup Mobiles \cup Chats /\ "overlap" \notin Mobiles
    /\ DOMAIN FirstUsers \subseteq Users
    /\ \A u \in DOMAIN FirstUsers :
          /\ FirstUsers[u] \in UserRow /\ FirstUsers[u].is
          /\ FirstUsers[u].chat # "none" => FirstUsers[u].proof = FirstUsers[u].mobile
          /\ \A v \in DOMAIN FirstUsers \ {u} :
                /\ FirstUsers[u].code # "none" => FirstUsers[u].code # FirstUsers[v].code
                /\ FirstUsers[u].chat # "none" => FirstUsers[u].chat # FirstUsers[v].chat

InitMembers ==
    /\ user = [u \in Users |-> IF u \in DOMAIN FirstUsers THEN FirstUsers[u] ELSE NoUser]
    /\ tokens = {[user |-> u, role |-> user[u].role] : u \in DOMAIN FirstUsers}

ScriptOfMembers(kind) ==
    CASE kind = "setRole"     -> <<"readUser", "countAdmins", "freshCode", "writeRole">>
      [] kind = "setActive"   -> <<"readLesser", "writeActive">>
      [] kind = "setReferral" -> <<"readReseller", "codeTaken", "writeCode">>
      [] kind = "create"      -> <<"createUser">>
      [] kind = "createMine"  -> <<"requireReseller", "createUser">>
      [] kind = "edit"        -> <<"readLesser", "writeHand">>
      [] kind = "editMine"    -> <<"requireReseller", "readMine", "writeHand">>
      [] kind = "editOwn"     -> <<"readUser", "compare", "writeHand">>
      [] kind = "profile"     -> <<"readUser", "writeProfile">>
MemberKinds == {"setRole", "setActive", "setReferral", "create", "createMine", "edit", "editMine", "editOwn", "profile"}

(* AdminGuard and assertReseller ask the token.                            *)
MayAsk(kind, t) ==
    CASE kind \in {"setRole", "setActive", "setReferral", "create", "edit"} -> t.role = "ADMIN"
      [] kind \in {"createMine", "editMine"} -> t.role = "RESELLER"
      [] OTHER -> TRUE

OwnKinds == {"editOwn", "profile"}
Wanted(kind) ==
    CASE kind = "setRole" -> Roles
      [] kind = "setActive" -> {"on", "off"}
      [] kind = "setReferral" -> Codes
      [] kind = "profile" -> Mobiles \cup {"none"}
      [] OTHER -> {"none"}

AskMembers(r) ==
    \E kind \in MemberKinds \cap Open(r) : \E t \in tokens : \E u \in IF kind \in OwnKinds THEN {t.user} ELSE Users :
        /\ MayAsk(kind, t)
        /\ kind = "setRole" => u # t.user
        /\ \E to \in Wanted(kind) : Begin(r, kind, ScriptOfMembers(kind), t, u, to, 0)
        /\ UNCHANGED memberVars

----------------------------------------------------------------------------
Target(r) == user[req[r].of]
Actor(r) == req[r].by.user
Read(r) == req[r].saw

Reads(r, name, welcome) ==
    /\ Step(r, name)
    /\ IF welcome THEN Saw(r, Target(r)) ELSE Rejects(r)
    /\ UNCHANGED memberVars

ReadUser(r) == Reads(r, "readUser", Target(r).is)
ReadReseller(r) == Reads(r, "readReseller", Target(r).is /\ Target(r).role = "RESELLER")

(* Mutant: an admin edits another one.                                     *)
ReadAnyone(r) == Reads(r, "readLesser", Target(r).is)

(* The admin's operations on one user are not for other admins.            *)
ReadLesser(r) == Reads(r, "readLesser", Target(r).is /\ Target(r).role # "ADMIN")

RequireReseller(r) ==
    LET boss == user[Actor(r)] IN
    /\ Step(r, "requireReseller")
    /\ IF boss.is /\ boss.role = "RESELLER" /\ boss.active THEN Continues(r) ELSE Rejects(r)
    /\ UNCHANGED memberVars

ReadMine(r) == Reads(r, "readMine", Target(r).is /\ Target(r).boss = Actor(r) /\ Target(r).role = "USER")

----------------------------------------------------------------------------
(* setRoleByAdmin: the last active admin keeps the role.                   *)
Admins == {u \in Users : user[u].is /\ user[u].role = "ADMIN" /\ user[u].active}
Demotes(r) == Read(r).role = "ADMIN" /\ req[r].to # "ADMIN"

(* Mutant: the last admin counts as one too many.                          *)
CountAdminsOffByOne(r) ==
    /\ Step(r, "countAdmins")
    /\ IF Demotes(r) /\ Cardinality(Admins) < 1 THEN Rejects(r) ELSE Continues(r)
    /\ UNCHANGED memberVars

CountAdmins(r) ==
    /\ Step(r, "countAdmins")
    /\ IF Demotes(r) /\ Cardinality(Admins) <= 1 THEN Rejects(r) ELSE Continues(r)
    /\ UNCHANGED memberVars

Taken(code) == {u \in Users : user[u].is /\ user[u].code = code}

(* freshReferralCode draws up to eight times and may find nothing.         *)
FreshCode(r) ==
    /\ Step(r, "freshCode")
    /\ IF req[r].to = "RESELLER" /\ Read(r).code = "none"
       THEN \/ \E code \in Codes : Taken(code) = {} /\ Saw(r, [Read(r) EXCEPT !.code = code])
            \/ Rejects(r)
       ELSE Continues(r)
    /\ UNCHANGED memberVars

(* What is written comes from the row read before; the code column is      *)
(* unique.                                                                 *)
RoleGiven(row, seen, role) ==
    IF role = "RESELLER" THEN [row EXCEPT !.role = role, !.code = seen.code, !.codeOn = TRUE]
    ELSE [row EXCEPT !.role = role, !.codeOn = IF seen.role = "RESELLER" THEN FALSE ELSE @]

WriteRole(r) ==
    LET u == req[r].of
        role == req[r].to
    IN
    /\ Step(r, "writeRole")
    /\ IF role = "RESELLER" /\ Taken(Read(r).code) \ {u} # {}
       THEN Rejects(r) /\ UNCHANGED user
       ELSE Wrote(r, {u}) /\ user' = [user EXCEPT ![u] = RoleGiven(@, Read(r), role)]
    /\ UNCHANGED tokens

WriteActive(r) ==
    /\ Step(r, "writeActive")
    /\ Wrote(r, {req[r].of})
    /\ user' = [user EXCEPT ![req[r].of].active = req[r].to = "on"]
    /\ UNCHANGED tokens

CodeTaken(r) ==
    /\ Step(r, "codeTaken")
    /\ IF Taken(req[r].to) \ {req[r].of} # {} THEN Rejects(r) ELSE Continues(r)
    /\ UNCHANGED memberVars

WriteCode(r) ==
    LET u == req[r].of IN
    /\ Step(r, "writeCode")
    /\ IF Taken(req[r].to) \ {u} # {}
       THEN Rejects(r) /\ UNCHANGED user
       ELSE Wrote(r, {}) /\ \E on \in BOOLEAN : user' = [user EXCEPT ![u].code = req[r].to, ![u].codeOn = on]
    /\ UNCHANGED tokens

(* createUser and createForReseller; the name is unique.                   *)
CreateUser(r) ==
    LET u == req[r].of IN
    /\ Step(r, "createUser")
    /\ IF user[u].is
       THEN Rejects(r) /\ UNCHANGED user
       ELSE /\ Wrote(r, {u})
            /\ user' = [user EXCEPT ![u] = [NoUser EXCEPT !.is = TRUE, !.hand = Actor(r),
                                                          !.boss = IF req[r].kind = "createMine" THEN Actor(r) ELSE Nobody]]
    /\ UNCHANGED tokens

(* Password, access to the model and to the options market, name.          *)
WriteHand(r) ==
    /\ Step(r, "writeHand")
    /\ Wrote(r, {})
    /\ user' = [user EXCEPT ![req[r].of].hand = Actor(r)]
    /\ UNCHANGED tokens

(* bcrypt.compare with the hash of the row that was read.                  *)
Compare(r) ==
    /\ Step(r, "compare")
    /\ Continues(r) \/ Rejects(r)
    /\ UNCHANGED memberVars

----------------------------------------------------------------------------
Unlinked(row) == [row EXCEPT !.chat = "none", !.proof = "none"]

(* updateProfile: a new number ends the link of the chat that showed the   *)
(* old one; whether it is new is judged by the row read before.            *)
(* Mutant: a new number keeps the chat.                                    *)
ProfileKeepsChat(row, seen, mobile) == [row EXCEPT !.mobile = mobile]

Profile(row, seen, mobile) ==
    [(IF mobile # seen.mobile THEN Unlinked(row) ELSE row) EXCEPT !.mobile = mobile]

(* A link that this row gets, or keeps, from what others did meanwhile is  *)
(* marked.                                                                 *)
Marked(row, r) == IF row.chat # "none" /\ req[r].of \in req[r].moved THEN [row EXCEPT !.proof = "overlap"] ELSE row

WriteProfile(r) ==
    LET u == req[r].of IN
    /\ Step(r, "writeProfile")
    /\ Wrote(r, {u})
    /\ user' = [user EXCEPT ![u] = Marked(Profile(@, Read(r), req[r].to), r)]
    /\ UNCHANGED tokens

MemberStep(r) ==
    \/ ReadUser(r) \/ ReadReseller(r) \/ ReadLesser(r) \/ RequireReseller(r) \/ ReadMine(r)
    \/ CountAdmins(r) \/ FreshCode(r) \/ WriteRole(r) \/ WriteActive(r) \/ CodeTaken(r) \/ WriteCode(r)
    \/ CreateUser(r) \/ WriteHand(r) \/ Compare(r) \/ WriteProfile(r)
=============================================================================
