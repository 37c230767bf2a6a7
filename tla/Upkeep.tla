------------------------------- MODULE Upkeep -------------------------------
(***************************************************************************)
(* Keeping an installation: `polyroot backup` writes the home directory    *)
(* and the guard's row file by file into a directory named after the day,  *)
(* `restore` verifies the checksums of its manifest and writes the files   *)
(* back one by one, `update` replaces code, schema and unit in turn.  Each *)
(* may be cut short between two writes and another command may run during  *)
(* it.  The content of a file is the version of what it was written from.  *)
(***************************************************************************)
EXTENDS Integers, Sequences, FiniteSets

CONSTANTS
    MaxChanges,     \* bound on the owner's changes to the home directory
    MaxBackups, MaxRestores,
    MaxUpdates      \* bound on the versions published

ASSUME UpkeepAssumption == MaxChanges \in Nat

VARIABLES
    home,       \* .env, keystore.json, the guard's row and the wallets
    directory,  \* the backup directory of the day: its files and its manifest
    backup,     \* a backup in progress
    restore,    \* a restore in progress, or the last one
    moved,      \* changes to the home directory and to the backup directory so far
    install     \* an update in progress, and the versions it moves

upkeepVars == <<home, directory, backup, restore, moved, install>>

Missing == -1
Unexported == -2        \* {exported: false}, written for an unreadable table
Versions == {Unexported, Missing} \cup 0..MaxChanges
Files == {"env", "redacted", "keystore", "wallets", "latch"}
FirstHome == [env |-> 0, keystore |-> Missing, latch |-> 0, wallets |-> 0]
NoManifest == [lists |-> << >>, of |-> FirstHome, torn |-> FALSE]
Idle == "idle"

(***************************************************************************)
(* createBackup                                                            *)
(***************************************************************************)

\* The order of the files; the manifest comes last and lists what was written.
BackupOrder == <<"env", "keystore", "wallets", "latch">>

\* An encrypted backup without a passphrase is refused before any write.
BackupStarts(encrypt, passphrase) ==
    /\ backup.at = 0 /\ backup.runs < MaxBackups
    /\ encrypt => passphrase
    /\ backup' = [at |-> 1, runs |-> backup.runs + 1, encrypt |-> encrypt, wrote |-> << >>,
                  of |-> home, seen |-> moved.home]
    /\ UNCHANGED <<home, directory, restore, moved, install>>

\* Each file is read when its turn comes, and overwrites the one of an earlier backup.
BackupWrites(dbUp) ==
    /\ backup.at \in DOMAIN BackupOrder
    /\ LET source == BackupOrder[backup.at]
           name == IF source = "env" /\ ~backup.encrypt THEN "redacted" ELSE source
           content == IF source \in {"wallets", "latch"} /\ ~dbUp THEN Unexported ELSE home[source]
       IN  IF content = Missing
           THEN UNCHANGED <<directory, moved>> /\ backup' = [backup EXCEPT !.at = @ + 1]
           ELSE /\ directory' = [directory EXCEPT !.files[name] = content]
                /\ backup' = [backup EXCEPT !.at = @ + 1,
                                 !.wrote = [f \in DOMAIN @ \cup {name} |-> IF f = name THEN content ELSE @[f]]]
                /\ moved' = [moved EXCEPT !.directory = @ + 1]
    /\ UNCHANGED <<home, restore, install>>

BackupEnds ==
    /\ backup.at = Len(BackupOrder) + 1
    /\ directory' = [directory EXCEPT !.manifest =
           [lists |-> backup.wrote, of |-> backup.of, torn |-> moved.home # backup.seen]]
    /\ backup' = [backup EXCEPT !.at = 0, !.wrote = << >>, !.of = FirstHome]
    /\ moved' = [moved EXCEPT !.directory = @ + 1]
    /\ UNCHANGED <<home, restore, install>>

BackupCutShort ==
    /\ backup.at # 0 /\ backup' = [backup EXCEPT !.at = 0, !.wrote = << >>, !.of = FirstHome]
    /\ UNCHANGED <<home, directory, restore, moved, install>>

(***************************************************************************)
(* restoreBackup                                                           *)
(***************************************************************************)

Verified(d) == \A f \in DOMAIN d.manifest.lists : d.files[f] = d.manifest.lists[f]

\* Slip: the listed files are looked for, their checksums are not compared.
PresenceIsEnough(d) == "env" \in DOMAIN d.manifest.lists
\* Everything is verified, and .env decrypted, before the first write.
Restorable(d) == Verified(d) /\ "env" \in DOMAIN d.manifest.lists

\* A dry run, a wrong passphrase and a refusal all end here, with nothing written.
RestoreStarts ==
    /\ restore.at \in {Idle, "done"} /\ restore.runs < MaxRestores /\ Restorable(directory)
    /\ restore' = [at |-> "env", runs |-> restore.runs + 1, manifest |-> directory.manifest, did |-> {},
                   home |-> moved.home, directory |-> moved.directory]
    /\ UNCHANGED <<home, directory, backup, moved, install>>

\* A write to the home directory, which a backup running at the time may miss.
Writes(name, content, after) ==
    /\ home' = [home EXCEPT ![name] = content] /\ moved' = [moved EXCEPT !.home = @ + 1]
    /\ restore' = [restore EXCEPT !.at = after, !.home = @ + 1, !.did = @ \cup {name}]
LeavesOut(after) == restore' = [restore EXCEPT !.at = after] /\ UNCHANGED <<home, moved>>

\* The files are read again, after they were verified.
RestoreEnv == restore.at = "env" /\ Writes("env", directory.files["env"], "keystore")
RestoreKeystore ==
    /\ restore.at = "keystore"
    /\ IF "keystore" \in DOMAIN restore.manifest.lists
       THEN Writes("keystore", directory.files["keystore"], "latch") ELSE LeavesOut("latch")
RestoreLatch(dbUp) ==
    /\ restore.at = "latch"
    /\ IF dbUp /\ directory.files["latch"] >= 0
       THEN Writes("latch", directory.files["latch"], "wallets") ELSE LeavesOut("wallets")
\* ON CONFLICT DO NOTHING, and nothing else inserts wallets: no row changes.
RestoreWallets == restore.at = "wallets" /\ LeavesOut("done")

RestoreStep ==
    /\ \/ RestoreEnv \/ RestoreKeystore \/ RestoreWallets
       \/ \E dbUp \in BOOLEAN : RestoreLatch(dbUp)
    /\ UNCHANGED <<directory, backup, install>>

RestoreCutShort ==
    /\ restore.at \notin {Idle, "done"} /\ restore' = [restore EXCEPT !.at = Idle]
    /\ UNCHANGED <<home, directory, backup, moved, install>>

(***************************************************************************)
(* The owner and the agent meanwhile                                       *)
(***************************************************************************)

Changes(files) ==
    /\ moved.owner < MaxChanges
    /\ moved' = [moved EXCEPT !.owner = @ + 1, !.home = @ + 1]
    /\ home' = [f \in DOMAIN home |-> IF f \in files THEN moved.owner + 1 ELSE home[f]]
    /\ UNCHANGED <<directory, backup, restore, install>>

\* Setup replaces the key in both files; the guard's row changes when the agent
\* halts, trades at a loss or is resumed.
Meanwhile == Changes({"env", "keystore"}) \/ Changes({"latch"})

(***************************************************************************)
(* runUpdate                                                               *)
(***************************************************************************)

Publish ==
    /\ install.published < MaxUpdates /\ install' = [install EXCEPT !.published = @ + 1]
    /\ UNCHANGED <<home, directory, backup, restore, moved>>

\* git pull; then npm ci and the build, either of which may end the update.
UpdateStep ==
    /\ \/ /\ install.at = Idle /\ install.source < install.published
          /\ install' = [install EXCEPT !.at = "build", !.source = install.published, !.said = "nothing"]
       \/ /\ install.at = "build" /\ install' = [install EXCEPT !.at = "launcher", !.built = install.source]
       \/ /\ install.at = "build" /\ install' = [install EXCEPT !.at = Idle, !.said = "failed"]
       \/ /\ install.at = "launcher"
          /\ \E v \in {install.source, install.launcher} :
                 install' = [install EXCEPT !.at = "migrate", !.launcher = v]
       \/ /\ install.at = "migrate"
          /\ \/ install' = [install EXCEPT !.at = "unit", !.schema = install.built, !.migrated = TRUE]
             \/ install' = [install EXCEPT !.at = "unit", !.migrated = FALSE]
       \/ /\ install.at = "unit"
          /\ \E restarted \in BOOLEAN :     \* refreshSupervisorUnit: skipped, or try-restart
                 install' = [install EXCEPT !.at = Idle, !.running = IF restarted THEN install.built ELSE @,
                                !.said = IF install.migrated THEN "migrated" ELSE "migrate by hand"]
    /\ UNCHANGED <<home, directory, backup, restore, moved>>

-----------------------------------------------------------------------------

UpkeepInit ==
    /\ home = FirstHome
    /\ directory = [files |-> [f \in Files |-> Missing], manifest |-> NoManifest]
    /\ backup = [at |-> 0, runs |-> 0, encrypt |-> FALSE, wrote |-> << >>, of |-> FirstHome, seen |-> 0]
    /\ restore = [at |-> Idle, runs |-> 0, manifest |-> NoManifest, did |-> {}, home |-> 0, directory |-> 0]
    /\ moved = [home |-> 0, directory |-> 0, owner |-> 0]
    /\ install = [at |-> Idle, published |-> 0, source |-> 0, built |-> 0, launcher |-> 0, schema |-> 0,
                  running |-> 0, migrated |-> FALSE, said |-> "nothing"]

Keeping ==
    \/ \E encrypt, passphrase \in BOOLEAN : BackupStarts(encrypt, passphrase)
    \/ \E dbUp \in BOOLEAN : BackupWrites(dbUp)
    \/ BackupEnds \/ BackupCutShort \/ RestoreStarts \/ RestoreStep \/ RestoreCutShort
    \/ Meanwhile
Updating == Publish \/ UpdateStep
UpkeepNext == Keeping \/ Updating

-----------------------------------------------------------------------------

UpkeepTypeOK ==
    /\ \A f \in Files : directory.files[f] \in Versions
    /\ \A f \in DOMAIN home : home[f] \in Versions \ {Unexported}
    /\ install.running <= install.source

\* A restore that ran to its end without another command or a change of the
\* owner beside it leaves .env, keystore.json and, when it says so, the guard's
\* row as they were together at one moment, the one its backup was taken at:
\* never the key of one backup and the address of another, although a later
\* backup of the same day overwrites the files of the earlier one in place and
\* may be cut short between any two of them.
RestoreIsWhole ==
    restore.at = "done" /\ restore.home = moved.home /\ restore.directory = moved.directory
        /\ ~restore.manifest.torn
    => \A f \in restore.did : home[f] = restore.manifest.of[f]
=============================================================================
