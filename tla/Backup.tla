------------------------------- MODULE Backup -------------------------------
(***************************************************************************)
(* The database backups of src/scripts/database-backup.ts, run by hand     *)
(* from the command line, by src/src/routes/backup.ts and every hour by    *)
(* scheduled-backup.ts: processes that know nothing of each other, beside  *)
(* the server, which goes on writing to the database.                      *)
(*                                                                         *)
(* Time is the number of timestamps taken; a database or a backup is known *)
(* by the time of the last write it holds.                                 *)
(***************************************************************************)
EXTENDS Naturals, FiniteSets

CONSTANTS
  Tools,      \* processes of the script that may run at a time
  KeepOf,     \* how many backups of each kind a cleanup leaves
  YearOf,     \* the year of each time
  MaxTime     \* bound: timestamps taken

BackupKind == {"manual", "auto"}
Time == 0 .. MaxTime

ASSUME BackupAssumption == /\ MaxTime \in Nat
                           /\ KeepOf \in [BackupKind -> Nat]
                           /\ YearOf \in [Time -> Nat]

VARIABLES
  now,       \* timestamps taken
  db,        \* the database
  backups,   \* the files in backups/
  tool,      \* how far each process of the script has come
  replaced,  \* history: what restores replaced
  excused    \* history: what was written during a restore, or deleted afterwards

backupVars == <<now, db, backups, tool, replaced, excused>>

BackupFile == [kind : BackupKind, at : Time, holds : Time]

\* A process lists the backups and deletes those it has chosen, one by one, or
\* is about to restore the one it is given.
Tool == [at : {"idle", "list", "clean", "restore"},
         listed : SUBSET BackupFile, doomed : SUBSET BackupFile]

IdleTool == [at |-> "idle", listed |-> {}, doomed |-> {}]

BackupTypeOK ==
  /\ now \in Time
  /\ db \in Time
  /\ backups \subseteq BackupFile
  /\ tool \in [Tools -> Tool]
  /\ replaced \subseteq Time
  /\ excused \subseteq Time

BackupInit ==
  /\ now = 0
  /\ db = 0
  /\ backups = {}
  /\ tool = [p \in Tools |-> IdleTool]
  /\ replaced = {}
  /\ excused = {}

Tick == now < MaxTime /\ now' = now + 1

\* The server writes.
WriteDatabase ==
  /\ Tick
  /\ db' = now'
  /\ excused' = IF \E p \in Tools : tool[p].at = "restore"
                THEN excused \cup {now'} ELSE excused
  /\ UNCHANGED <<backups, tool, replaced>>

\* createBackup; the command cleans up afterwards.
CreateBackup(p, kind) ==
  /\ tool[p].at = "idle"
  /\ Tick
  /\ backups' = backups \cup {[kind |-> kind, at |-> now', holds |-> db]}
  /\ tool' = [tool EXCEPT ![p].at = "list"]
  /\ UNCHANGED <<db, replaced, excused>>

\* The order in which listBackups sorts the newest first: its pattern takes the
\* year of a file name for the whole timestamp, and files of one year stay in
\* the order of their names.
ListedBefore(b, c) ==
  \/ YearOf[b.at] > YearOf[c.at]
  \/ YearOf[b.at] = YearOf[c.at] /\ b.at < c.at

\* What cleanupOldBackups deletes.
Doomed(files) ==
  {b \in files :
     Cardinality({c \in files : c.kind = b.kind /\ ListedBefore(c, b)})
       >= KeepOf[b.kind]}

\* cleanupOldBackups lists the files; it is a command of its own, too.
ListBackups(p) ==
  /\ tool[p].at \in {"idle", "list"}
  /\ tool' = [tool EXCEPT ![p] =
       [at |-> "clean", listed |-> backups, doomed |-> Doomed(backups)]]
  /\ UNCHANGED <<now, db, backups, replaced, excused>>

CleanBackup(p, b) ==
  /\ b \in tool[p].doomed \cap backups
  /\ backups' = backups \ {b}
  /\ excused' = excused \cup {b.holds}
  /\ tool' = [tool EXCEPT ![p].doomed = @ \ {b}]
  /\ UNCHANGED <<now, db, replaced>>

\* unlinkSync throws at a file that another process has deleted, and ends the
\* cleanup; so does the end of the list.
EndClean(p) ==
  /\ tool[p].at = "clean"
  /\ tool[p].doomed \ backups # {} \/ tool[p].doomed = {}
  /\ tool' = [tool EXCEPT ![p] = IdleTool]
  /\ UNCHANGED <<now, db, backups, replaced, excused>>

\* DELETE /:filename
DeleteBackup(b) ==
  /\ b \in backups
  /\ backups' = backups \ {b}
  /\ excused' = excused \cup {b.holds}
  /\ UNCHANGED <<now, db, tool, replaced>>

\* Mutant: the database is not saved before it is overwritten.
RestoreUnsaved(p, b) ==
  /\ tool[p].at = "idle"
  /\ b \in backups
  /\ Tick
  /\ tool' = [tool EXCEPT ![p].at = "restore", ![p].listed = {b}]
  /\ UNCHANGED <<db, backups, replaced, excused>>

\* restoreBackup saves the database as it is,
SaveBeforeRestore(p, b) ==
  /\ tool[p].at = "idle"
  /\ b \in backups
  /\ Tick
  /\ backups' = backups \cup {[kind |-> "auto", at |-> now', holds |-> db]}
  /\ tool' = [tool EXCEPT ![p].at = "restore", ![p].listed = {b}]
  /\ UNCHANGED <<db, replaced, excused>>

\* and overwrites it, if the backup is still there.  What was written in
\* between is in no backup.
OverwriteDatabase(p, b) ==
  /\ tool[p].at = "restore"
  /\ b \in tool[p].listed \cap backups
  /\ db' = b.holds
  /\ replaced' = replaced \cup {db}
  /\ tool' = [tool EXCEPT ![p] = IdleTool]
  /\ UNCHANGED <<now, backups, excused>>

\* The process is killed, or the backup to be restored is gone.
KillTool(p) ==
  /\ tool[p].at # "idle"
  /\ tool' = [tool EXCEPT ![p] = IdleTool]
  /\ UNCHANGED <<now, db, backups, replaced, excused>>

BackupNext ==
  \/ WriteDatabase
  \/ \E p \in Tools :
       \/ \E kind \in BackupKind : CreateBackup(p, kind)
       \/ ListBackups(p) \/ EndClean(p) \/ KillTool(p)
       \/ \E b \in backups : \/ CleanBackup(p, b)
                             \/ SaveBeforeRestore(p, b)
                             \/ OverwriteDatabase(p, b)
  \/ \E b \in backups : DeleteBackup(b)

BackupSpec == BackupInit /\ [][BackupNext]_backupVars

--------------------------------------------------------------------------
(* Properties *)

\* What a restore replaces is kept in a backup, however restores, cleanups and
\* kills overlap, until that backup is deleted; only what the server writes
\* while a restore is under way may be lost.
RestoreIsUndoable ==
  replaced \subseteq {b.holds : b \in backups} \cup excused

\* A cleanup only takes a backup if it listed enough newer ones of its kind, as
\* the configuration says ("Keep last 50 backups"); the code keeps the first
\* ones of a year instead, and deletes the newest.  (cleanupOldBackups)
KeepsLast ==
  \A p \in Tools : \A b \in tool[p].doomed :
    Cardinality({c \in tool[p].listed : c.kind = b.kind /\ c.at > b.at})
      >= KeepOf[b.kind]

--------------------------------------------------------------------------
(* The invariant behind RestoreIsUndoable *)

Kept(contents) == contents \in {b.holds : b \in backups} \cup excused

\* What a restore under way is about to replace is saved, or excused.
AboutToReplaceKept ==
  (\E p \in Tools : tool[p].at = "restore") => Kept(db)

BackupInv ==
  /\ BackupTypeOK
  /\ RestoreIsUndoable
  /\ AboutToReplaceKept
============================================================================
