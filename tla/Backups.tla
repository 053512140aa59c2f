------------------------------- MODULE Backups -------------------------------
(***************************************************************************)
(* BackupService: dumps of the database, made in the background, and the   *)
(* restoring of an uploaded one, one operation at a time.  What the tables *)
(* hold after a restore is not modelled.                                   *)
(***************************************************************************)
EXTENDS Bots, SequencesExt

CONSTANT MaxKeep    \* MAX_KEEP

ASSUME BackupsAssumption == MaxKeep \in Nat \ {0}

VARIABLES
    dumps,     \* files of the backup directory that count as dumps, by age
    parts,     \* uploaded files there
    backupJob  \* job

backupVars == <<dumps, parts, backupJob>>

InitBackups ==
    /\ dumps = << >>
    /\ parts = {}
    /\ backupJob = [status |-> "idle", of |-> Nobody]

ScriptOfBackups(kind) ==
    CASE kind = "backup"  -> <<"startCreate", "openDump", "pgDump", "prune", "ready">>
      [] kind = "restore" -> <<"check", "exclusive", "assertDump", "disconnect", "pgRestore", "cleanUp">>
BackupKinds == {"backup", "restore"}

AskBackups(r) ==
    /\ \E kind \in BackupKinds \cap Open(r), t \in tokens :
        /\ t.role = "ADMIN"
        /\ Begin(r, kind, ScriptOfBackups(kind), t, t.user, "none", 0)
        /\ parts' = IF kind = "restore" THEN parts \cup {[of |-> r, left |-> FALSE]} ELSE parts
    /\ UNCHANGED <<memberVars, signInVars, botVars, dumps, backupJob>>

BackupsAlone == UNCHANGED <<memberVars, signInVars, botVars, parts>>
Part(r) == {p \in parts : p.of = r}

(* The test and the claim are one step; the answer goes out before the     *)
(* dump is written.                                                        *)
(* Mutant: the flag is set, but not looked at.                             *)
StartCreateAnyway(r) ==
    /\ Step(r, "startCreate")
    /\ Claims(r, "backup") /\ backupJob' = [status |-> "running", of |-> r]
    /\ UNCHANGED dumps /\ BackupsAlone

StartCreate(r) ==
    /\ Step(r, "startCreate")
    /\ IF "backup" \in held
       THEN Rejects(r) /\ UNCHANGED backupJob
       ELSE Claims(r, "backup") /\ backupJob' = [status |-> "running", of |-> r]
    /\ UNCHANGED dumps /\ BackupsAlone

OpenDump(r) ==
    /\ Step(r, "openDump")
    /\ dumps' = Append(dumps, [by |-> r, whole |-> FALSE])
    /\ Continues(r)
    /\ UNCHANGED backupJob /\ BackupsAlone

(* pg_dump fails: the file goes and the job says why.                      *)
Without(r) == RemoveAt(dumps, CHOOSE i \in DOMAIN dumps : dumps[i].by = r)
JobFails(r) == Rejects(r) /\ backupJob' = [status |-> "error", of |-> r]
PgDump(r) ==
    /\ Step(r, "pgDump")
    /\ \/ /\ dumps' = [i \in DOMAIN dumps |-> IF dumps[i].by = r THEN [by |-> r, whole |-> TRUE] ELSE dumps[i]]
          /\ Continues(r) /\ UNCHANGED <<backupJob, left>>
       \/ Disturb /\ dumps' = Without(r) /\ JobFails(r)
    /\ BackupsAlone

(* Only the newest stay.                                                   *)
Newest(s) == SubSeq(s, IF Len(s) > MaxKeep THEN Len(s) - MaxKeep + 1 ELSE 1, Len(s))
Prune(r) ==
    /\ Step(r, "prune")
    /\ \/ dumps' = Newest(dumps) /\ Continues(r) /\ UNCHANGED <<backupJob, left>>
       \/ Disturb /\ UNCHANGED dumps /\ JobFails(r)
    /\ BackupsAlone

Ready(r) ==
    /\ Step(r, "ready")
    /\ backupJob' = [status |-> "ready", of |-> r]
    /\ Continues(r)
    /\ UNCHANGED dumps /\ BackupsAlone

----------------------------------------------------------------------------
(* restore: a wrong word or a file of a wrong size removes the upload; one *)
(* that comes while the service is busy leaves it where it is.             *)
RestoresAlone == UNCHANGED <<memberVars, signInVars, botVars, dumps, backupJob>>
Check(r) ==
    /\ Step(r, "check")
    /\ \/ Continues(r) /\ UNCHANGED parts
       \/ Rejects(r) /\ parts' = parts \ Part(r)
    /\ RestoresAlone

Exclusive(r) ==
    /\ Step(r, "exclusive")
    /\ IF "backup" \in held
       THEN Rejects(r) /\ parts' = (parts \ Part(r)) \cup {[of |-> r, left |-> TRUE]}
       ELSE Claims(r, "backup") /\ UNCHANGED parts
    /\ RestoresAlone

(* assertDump, $disconnect, psql and pg_restore; whatever fails, the       *)
(* upload goes and the connection comes back before the flag is given up.  *)
RestoreStep(r) ==
    /\ \E name \in {"assertDump", "disconnect", "pgRestore"} : Step(r, name)
    /\ Continues(r) \/ Turns(r, <<"cleanUp">>)
    /\ UNCHANGED parts /\ RestoresAlone

CleanUp(r) ==
    /\ Step(r, "cleanUp")
    /\ parts' = parts \ Part(r)
    /\ Continues(r)
    /\ RestoresAlone

BackupStep(r) ==
    /\ UNCHANGED scene
    /\ \/ PgDump(r) \/ Prune(r)
       \/ /\ \/ StartCreate(r) \/ OpenDump(r) \/ Ready(r)
             \/ Check(r) \/ Exclusive(r) \/ RestoreStep(r) \/ CleanUp(r)
          /\ UNCHANGED left
=============================================================================
