----------------------------- MODULE MCAccounts ------------------------------
(* A small instance of Accounts: two admins, a reseller with a client, and *)
(* groups of requests that touch the same rows.                            *)
EXTENDS Accounts, TLC

CONSTANTS ann, bob, rob, cleo, m1, m2, c1, k1, k2

Account(role, boss, code, mobile, chat) ==
    [NoUser EXCEPT !.is = TRUE, !.role = role, !.boss = boss, !.code = code, !.codeOn = code # "none",
                   !.mobile = mobile, !.chat = chat, !.proof = IF chat = "none" THEN "none" ELSE mobile]
MCFirstUsers ==
    ann :> Account("ADMIN", Nobody, "none", "none", "none") @@
    rob :> Account("RESELLER", Nobody, k1, m1, "none") @@
    cleo :> Account("USER", rob, "none", m2, c1)
    @@ bob :> Account("ADMIN", Nobody, "none", m1, "none")

MCScenes ==
    { "setRole" :> 2,
      "setRole" :> 1 @@ "setActive" :> 1,
      "setRole" :> 1 @@ "setReferral" :> 1,
      "setReferral" :> 2,
      "setRole" :> 1 @@ "editMine" :> 1,
      "setRole" :> 1 @@ "edit" :> 1,
      "create" :> 1 @@ "createMine" :> 1 @@ "setActive" :> 1,
      "editOwn" :> 1 @@ "edit" :> 1 @@ "login" :> 1,
      "setActive" :> 1 @@ "login" :> 1 @@ "refresh" :> 1,
      "setRole" :> 1 @@ "login" :> 1,
      "offer" :> 1 @@ "register" :> 2,
      "offer" :> 1 @@ "register" :> 1 @@ "forget" :> 1 @@ "ask" :> 1 @@ "authenticate" :> 1,
      "switch" :> 2 @@ "visit" :> 1 @@ "fill" :> 1,
      "switch" :> 1 @@ "visit" :> 1 @@ "fill" :> 1 @@ "clear" :> 1,
      "profile" :> 2 @@ "say" :> 1,
      "profile" :> 1 @@ "poll" :> 2 @@ "say" :> 1,
      "poll" :> 1 @@ "say" :> 2,
      "poll" :> 1 @@ "unlink" :> 1 @@ "unlinkA" :> 1 @@ "say" :> 1,
      "poll" :> 2 @@ "save" :> 1 @@ "say" :> 1,
      "poll" :> 1 @@ "save" :> 2 @@ "say" :> 1,
      "pollA" :> 2 @@ "saveA" :> 1 @@ "say" :> 1,
      "pollA" :> 2 @@ "say" :> 2,
      "backup" :> 3,
      "backup" :> 2 @@ "restore" :> 2 }
=============================================================================
