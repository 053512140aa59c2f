------------------------------- MODULE SignIn --------------------------------
(***************************************************************************)
(* AuthService, WebAuthnService and MobileLoginService: who is let in.     *)
(* What the WebAuthn library checks of an answer (origin, signature) is    *)
(* either passed or not; it asks for the challenge first.                  *)
(***************************************************************************)
EXTENDS Members

CONSTANTS
    Devices,
    MaxCredentials   \* MAX_CREDENTIALS

VARIABLES
    challenges,   \* WebAuthnChallenge
    credentials,  \* WebAuthnCredential
    served,       \* history: requests that a challenge has let pass
    mobileLogin,  \* MobileLoginConfig.enabled
    visits        \* MobileLogin

signInVars == <<challenges, credentials, served, mobileLogin, visits>>

InitSignIn ==
    /\ challenges = {}
    /\ credentials = {}
    /\ served = {}
    /\ mobileLogin = FALSE
    /\ visits = {}

Consume == <<"purge", "findChallenge", "deleteChallenge">>
ScriptOfSignIn(kind) ==
    CASE kind = "login"        -> <<"readAccount", "compare", "sign">>
      [] kind = "refresh"      -> <<"readAccount", "sign">>
      [] kind = "offer"        -> <<"readDevices", "purge", "createChallenge">>
      [] kind = "register"     -> <<"readAccount">> \o Consume \o <<"findCredential", "createCredential">>
      [] kind = "ask"          -> <<"purge", "createChallenge">>
      [] kind = "authenticate" -> <<"readCredential">> \o Consume \o <<"updateCounter", "sign">>
      [] kind = "forget"       -> <<"findOwn", "deleteCredential">>
      [] kind = "visit"        -> <<"readEnabled", "createVisit">>
      [] kind = "fill"         -> <<"readEnabled", "requireRow", "updateVisit">>
      [] kind = "switch"       -> <<"setEnabled">>
      [] kind = "clear"        -> <<"clearLogs">>
SignInKinds == {"login", "refresh", "offer", "register", "ask", "authenticate", "forget",
                "visit", "fill", "switch", "clear"}

(* A stranger may log in as any user; the rest of an answer of WebAuthn is *)
(* made for a challenge, here named by the request that got it.            *)
Anybody == {"login", "ask", "authenticate", "visit", "fill"}
Named(kind, t) ==
    CASE kind \in {"login", "authenticate"} -> Users
      [] kind \in {"ask", "visit", "fill"} -> {Nobody}
      [] OTHER -> {t.user}
Meaning(kind) ==
    CASE kind \in {"register", "authenticate"} -> {c.name : c \in challenges}
      [] kind = "fill" -> visits
      [] OTHER -> {"none"}
AskSignIn(r) ==
    /\ \E kind \in SignInKinds \cap Open(r) : \E t \in IF kind \in Anybody THEN {NoToken} ELSE tokens :
       \E u \in Named(kind, t), to \in Meaning(kind), n \in IF kind = "switch" THEN 0..1 ELSE {0} :
          /\ kind \in {"switch", "clear"} => t.role = "ADMIN"
          /\ Begin(r, kind, ScriptOfSignIn(kind), t, u, to, n)
    /\ UNCHANGED <<memberVars, signInVars>>

SignInAlone == UNCHANGED <<challenges, credentials, served, mobileLogin, visits>>

----------------------------------------------------------------------------
(* login, refresh, verifyRegistration.                                     *)
ReadAccount(r) ==
    /\ Reads(r, "readAccount", Target(r).is)
    /\ SignInAlone

(* tokenFor: the role in the token was read some steps ago; a token that     *)
(* expires would only ask less, and is kept.                               *)
Sign(r) ==
    /\ Step(r, "sign")
    /\ IF Read(r).active
       THEN Ends(r) /\ tokens' = tokens \cup {[user |-> req[r].of, role |-> Read(r).role]}
       ELSE Rejects(r) /\ UNCHANGED tokens
    /\ UNCHANGED user
    /\ SignInAlone

----------------------------------------------------------------------------
Own(u) == {c \in credentials : c.user = u}

(* registrationOptions: the only place that looks at the number of devices *)
(* there are.                                                              *)
ReadDevices(r) ==
    /\ Step(r, "readDevices")
    /\ IF Target(r).active /\ Cardinality(Own(req[r].of)) < MaxCredentials THEN Continues(r) ELSE Rejects(r)
    /\ UNCHANGED memberVars /\ SignInAlone

(* purgeExpired goes before everything that makes or takes a challenge.    *)
Purge(r) ==
    /\ Step(r, "purge")
    /\ challenges' = {c \in challenges : ~c.old}
    /\ Continues(r)
    /\ UNCHANGED <<memberVars, credentials, served, mobileLogin, visits>>

CreateChallenge(r) ==
    /\ Step(r, "createChallenge")
    /\ challenges' = challenges \cup {[name |-> r, kind |-> req[r].kind, old |-> FALSE,
                                       user |-> IF req[r].kind = "offer" THEN req[r].of ELSE Nobody]}
    /\ Continues(r)
    /\ UNCHANGED <<memberVars, credentials, served, mobileLogin, visits>>

(* Five minutes have gone.                                                 *)
Age ==
    /\ \E c \in challenges : ~c.old /\ challenges' = (challenges \ {c}) \cup {[c EXCEPT !.old = TRUE]}
    /\ UNCHANGED <<reqVars, memberVars, credentials, served, mobileLogin, visits>>

(* consumeChallenge finds the row, then deletes it by its id: of two that  *)
(* found it, the second fails.                                             *)
Meant(r) ==
    {c \in challenges : /\ c.name = req[r].to
                        /\ IF req[r].kind = "register" THEN c.kind = "offer" /\ c.user = req[r].of
                                                       ELSE c.kind = "ask"}
FindChallenge(r) ==
    /\ Step(r, "findChallenge")
    /\ IF Meant(r) = {} THEN Rejects(r) ELSE Continues(r)
    /\ UNCHANGED memberVars /\ SignInAlone

(* Mutant: the challenge is deleted if it is still there.                  *)
DeleteChallengeIfThere(r) ==
    /\ Step(r, "deleteChallenge")
    /\ challenges' = challenges \ Meant(r)
    /\ (Continues(r) /\ served' = served \cup {[challenge |-> req[r].to, by |-> r]}) \/ (Rejects(r) /\ UNCHANGED served)
    /\ UNCHANGED <<memberVars, credentials, mobileLogin, visits>>

DeleteChallenge(r) ==
    /\ Step(r, "deleteChallenge")
    /\ challenges' = challenges \ Meant(r)
    /\ \/ Meant(r) # {} /\ Continues(r) /\ served' = served \cup {[challenge |-> req[r].to, by |-> r]}
       \/ Rejects(r) /\ UNCHANGED served
    /\ UNCHANGED <<memberVars, credentials, mobileLogin, visits>>

FindCredential(r) ==
    /\ Step(r, "findCredential")
    /\ \E d \in Devices :
          IF \E c \in credentials : c.device = d
          THEN Rejects(r) ELSE Goes(r, [req[r] EXCEPT !.device = d])
    /\ UNCHANGED memberVars /\ SignInAlone

(* credentialId is unique.                                                 *)
CreateCredential(r) ==
    /\ Step(r, "createCredential")
    /\ IF \E c \in credentials : c.device = req[r].device
       THEN Rejects(r) /\ UNCHANGED credentials
       ELSE /\ Continues(r)
            /\ credentials' = credentials \cup {[user |-> req[r].of, device |-> req[r].device]}
    /\ UNCHANGED <<memberVars, challenges, served, mobileLogin, visits>>

(* verifyAuthentication: the credential and its user are read at once; who *)
(* closes the account later is not noticed.                                *)
ReadCredential(r) ==
    /\ Step(r, "readCredential")
    /\ \/ \E c \in Own(req[r].of) :
             Target(r).active /\ Goes(r, [req[r] EXCEPT !.saw = Target(r), !.device = c.device])
       \/ (Own(req[r].of) = {} \/ ~Target(r).active) /\ Rejects(r)
    /\ UNCHANGED memberVars /\ SignInAlone

HeldDevice(r) == {c \in credentials : c.user = req[r].of /\ c.device = req[r].device}
UpdateCounter(r) ==
    /\ Step(r, "updateCounter")
    /\ IF HeldDevice(r) # {} THEN Continues(r) ELSE Rejects(r)
    /\ UNCHANGED memberVars /\ SignInAlone

FindOwn(r) ==
    /\ Step(r, "findOwn")
    /\ IF Own(req[r].of) = {} THEN Rejects(r)
       ELSE \E c \in Own(req[r].of) : Goes(r, [req[r] EXCEPT !.device = c.device])
    /\ UNCHANGED memberVars /\ SignInAlone

DeleteCredential(r) ==
    /\ Step(r, "deleteCredential")
    /\ IF HeldDevice(r) # {} THEN Continues(r) ELSE Rejects(r)
    /\ credentials' = credentials \ HeldDevice(r)
    /\ UNCHANGED <<memberVars, challenges, served, mobileLogin, visits>>

----------------------------------------------------------------------------
(* MobileLoginService: the switch is read before every step of a visitor.  *)
ReadEnabled(r) ==
    /\ Step(r, "readEnabled")
    /\ IF mobileLogin THEN Continues(r) ELSE Rejects(r)
    /\ UNCHANGED memberVars /\ SignInAlone

CreateVisit(r) ==
    /\ Step(r, "createVisit")
    /\ visits' = visits \cup {r}
    /\ Continues(r)
    /\ UNCHANGED <<memberVars, challenges, credentials, served, mobileLogin>>

(* saveLocation and saveMobile; the row may be cleared in between.         *)
VisitThere(r, name) ==
    /\ Step(r, name)
    /\ IF req[r].to \in visits THEN Continues(r) ELSE Rejects(r)
    /\ UNCHANGED memberVars /\ SignInAlone

SetEnabled(r) ==
    /\ Step(r, "setEnabled")
    /\ mobileLogin' = (req[r].n = 1)
    /\ Wrote(r, {"switch"})
    /\ UNCHANGED <<memberVars, challenges, credentials, served, visits>>

ClearLogs(r) ==
    /\ Step(r, "clearLogs")
    /\ visits' = {}
    /\ Continues(r)
    /\ UNCHANGED <<memberVars, challenges, credentials, served, mobileLogin>>

SignInStep(r) ==
    \/ ReadAccount(r) \/ Sign(r)
    \/ ReadDevices(r) \/ Purge(r) \/ CreateChallenge(r) \/ FindChallenge(r) \/ DeleteChallenge(r)
    \/ FindCredential(r) \/ CreateCredential(r) \/ ReadCredential(r) \/ UpdateCounter(r)
    \/ FindOwn(r) \/ DeleteCredential(r)
    \/ ReadEnabled(r) \/ CreateVisit(r) \/ VisitThere(r, "requireRow") \/ VisitThere(r, "updateVisit")
    \/ SetEnabled(r) \/ ClearLogs(r)
=============================================================================
