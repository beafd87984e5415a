----------------------------- MODULE DatabaseFiles -----------------------------
(***************************************************************************)
(* The metadata database as files (database/engine.py, database/backup.py):*)
(* the service commits to a write-ahead log, a crash leaves that log where *)
(* it is, and DatabaseBackupService copies, verifies and replaces files.   *)
(*                                                                         *)
(* A file is the set of commits it holds, numbered in their order.  What   *)
(* SQLite does with its log is external: opening the database reads the    *)
(* log over the main file, a checkpoint moves it there, the last connection*)
(* to close removes it.  A crash is the death of the process: what the     *)
(* machine takes with it when it loses power, with synchronous=NORMAL the  *)
(* last commits of the log, is not modelled.                               *)
(***************************************************************************)
EXTENDS Naturals

CONSTANTS MaxCommits, \* bound: commits
          MaxFaults   \* bound: crashes and damaged copies

VARIABLES main,       \* the database file
          wal,        \* the -wal file beside it
          connection, \* of the service: "closed", "open", or "orphaned"
          commits,    \* commits made
          saved,      \* the backup file
          temporary,  \* the temporary file of the backup or restore under way
          doing,      \* where the backup service is
          restored,   \* a restore replaced the file since
          faults

dbVars == <<main, wal, connection, commits, saved, temporary, doing, restored, faults>>

NoFile == [kind |-> "none", holds |-> {}]
Damaged == [kind |-> "damaged", holds |-> {}]
Database(holds) == [kind |-> "database", holds |-> holds]

(* What the next reader of the database gets.                              *)
View == main.holds \cup wal

Init ==
    /\ main = Database({})
    /\ wal = {}
    /\ connection = "closed"
    /\ commits = 0
    /\ saved \in {NoFile, Damaged}
    /\ temporary = NoFile
    /\ doing = "nothing"
    /\ restored = FALSE
    /\ faults = 0

Open ==
    /\ connection = "closed"
    /\ connection' = "open"
    /\ UNCHANGED <<main, wal, commits, saved, temporary, doing, restored, faults>>

(* transaction(): one service operation commits to the log.                *)
Commit ==
    /\ connection # "closed"
    /\ commits < MaxCommits
    /\ commits' = commits + 1
    /\ wal' = wal \cup {commits'}
    /\ UNCHANGED <<main, connection, saved, temporary, doing, restored, faults>>

(* A connection opened before the file was replaced checkpoints into the   *)
(* file it has open, which nobody else will open again.                    *)
Bug_Checkpointed == main

Checkpointed == IF connection = "orphaned" THEN main ELSE Database(View)

Checkpoint ==
    /\ connection # "closed"
    /\ wal # {}
    /\ main' = Checkpointed
    /\ wal' = {}
    /\ UNCHANGED <<connection, commits, saved, temporary, doing, restored, faults>>

(* engine.dispose(): the last connection checkpoints and removes the log.  *)
CloseEngine ==
    /\ connection # "closed"
    /\ connection' = "closed"
    /\ main' = Checkpointed
    /\ wal' = {}
    /\ UNCHANGED <<commits, saved, temporary, doing, restored, faults>>

(* The process ends: what it has committed is in the log.                  *)
Crash ==
    /\ connection # "closed"
    /\ faults < MaxFaults
    /\ faults' = faults + 1
    /\ connection' = "closed"
    /\ UNCHANGED <<main, wal, commits, saved, temporary, doing, restored>>

Copy(file) ==
    \/ temporary' = Database(file) /\ UNCHANGED faults
    \/ faults < MaxFaults /\ faults' = faults + 1 /\ temporary' = Damaged

(* verify_sqlite_database.                                                 *)
Bug_Sound(file) == TRUE

Sound(file) == file.kind = "database"

(* backup(): the online backup API gives one committed state ...           *)
CopyDatabase ==
    /\ doing = "nothing"
    /\ Copy(View)
    /\ doing' = "backing up"
    /\ UNCHANGED <<main, wal, connection, commits, saved, restored>>

(* ... that replaces the backup when it has been verified.                 *)
FinishBackup ==
    /\ doing = "backing up"
    /\ saved' = IF Sound(temporary) THEN temporary ELSE saved
    /\ temporary' = NoFile
    /\ doing' = "nothing"
    /\ UNCHANGED <<main, wal, connection, commits, restored, faults>>

(* restore(): a backup that does not verify is refused at once ...         *)
CopyBackup ==
    /\ doing = "nothing"
    /\ Sound(saved)
    /\ Copy(saved.holds)
    /\ doing' = "restoring"
    /\ UNCHANGED <<main, wal, connection, commits, saved, restored>>

(* ... and its verified copy replaces the database file.  The log is not   *)
(* touched, and nothing asks whether the service has the database open.    *)
FinishRestore ==
    /\ doing = "restoring"
    /\ temporary' = NoFile
    /\ doing' = "nothing"
    /\ IF Sound(temporary)
       THEN /\ main' = temporary
            /\ restored' = TRUE
            /\ connection' = IF connection = "closed" THEN "closed" ELSE "orphaned"
       ELSE UNCHANGED <<main, connection, restored>>
    /\ UNCHANGED <<wal, commits, saved, faults>>

Next ==
    \/ Open \/ Commit \/ Checkpoint \/ CloseEngine \/ Crash
    \/ CopyDatabase \/ FinishBackup \/ CopyBackup \/ FinishRestore

Spec == Init /\ [][Next]_dbVars

TypeOK ==
    /\ {main, saved, temporary} \subseteq
           [kind : {"none", "damaged", "database"}, holds : SUBSET (1..MaxCommits)]
    /\ wal \subseteq 1..MaxCommits
    /\ connection \in {"closed", "open", "orphaned"}
    /\ commits \in 0..MaxCommits
    /\ doing \in {"nothing", "backing up", "restoring"}
    /\ restored \in BOOLEAN /\ faults \in 0..MaxFaults

(* A damaged copy never takes the place of the database or of a backup,    *)
(* and until a restore has replaced it the database holds every commit     *)
(* that was acknowledged, whenever the process died and whatever was       *)
(* backed up.                                                              *)
CommittedKept ==
    /\ Sound(main)
    /\ saved.kind = "database" /\ ~restored => \E n \in 0..commits : saved.holds = 1..n
    /\ ~restored => View = 1..commits

(* A restore of a database whose service was stopped cleanly takes effect: *)
(* the next reader gets the backup and nothing else.                       *)
CleanRestoreHolds ==
    [][main' # main /\ doing = "restoring" /\ connection = "closed" /\ wal = {}
          => View' = saved.holds]_dbVars

(* docs/architecture/DATABASE_FOUNDATION.md promises the same of any       *)
(* restore that runs while the sessions of the application are stopped,    *)
(* and a crash stops them too.                                             *)
RestoreHolds ==
    [][main' # main /\ doing = "restoring" /\ connection = "closed"
          => View' = saved.holds]_dbVars
===============================================================================
