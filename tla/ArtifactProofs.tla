----------------------------- MODULE ArtifactProofs -----------------------------
(***************************************************************************)
(* Theorems about what the service keeps on disk and in its worker, for    *)
(* any number of callers, commits, threads, warm-up runs, crashes and      *)
(* damaged copies: who leaves staging files behind, and that readers of a  *)
(* target see what AtomicTarget promises them; what backups and restores   *)
(* do to what was committed; what the thread that holds the worker's lock  *)
(* may rely on.                                                            *)
(***************************************************************************)
EXTENDS MCArtifacts, TLAPS

\* Each part starts as its component does and takes its steps or none.
LEMMA PartsInit == Init => Files!Init /\ Base!Init /\ Worker!Init
BY DEF Init

LEMMA PartsStep ==
    [Next]_vars => /\ [Files!Next]_fileVars
                   /\ [Base!Next]_baseVars
                   /\ [Worker!Next]_workerVars
BY DEF Next, FileStep, BaseStep, WorkerStep, Take, vars, fileVars, baseVars, workerVars

-----------------------------------------------------------------------------
(* The staging files.                                                      *)

\* A staging file is there from Stage to Replace or Raise, and is whole once
\* it has been checked; the ones of a process that died stay.
StagingHeld ==
    \A c \in Callers :
        /\ staging[c] # "none" => at[c] \in {"staged", "filled", "checked", "dead"}
        /\ at[c] = "checked" => staging[c] = "whole"

PublicationInv == Files!TypeOK /\ StagingHeld

LEMMA PublicationInit == Files!Init => PublicationInv
BY ArtifactsAssumption
DEF Files!Init, PublicationInv, Files!TypeOK, Files!Targets, StagingHeld, Files!Absent,
   Files!Content, Files!Operations

LEMMA PublicationStep == PublicationInv /\ [Files!Next]_fileVars => PublicationInv'
<1> SUFFICES ASSUME PublicationInv, [Files!Next]_fileVars PROVE PublicationInv'
  OBVIOUS
<1> USE DEF PublicationInv, Files!TypeOK, StagingHeld, Files!Go, Files!Put, Files!Busy,
  Files!Outcome
<1> USE ArtifactsAssumption
<1>1. ASSUME NEW c \in Callers, Files!Look(c) PROVE PublicationInv'
  BY <1>1 DEF Files!Look
<1>2. ASSUME NEW c \in Callers, Files!Stage(c) PROVE PublicationInv'
  BY <1>2 DEF Files!Stage
<1>3. ASSUME NEW c \in Callers, Files!Fill(c) PROVE PublicationInv'
  BY <1>3 DEF Files!Fill
<1>4. ASSUME NEW c \in Callers, Files!Check(c) PROVE PublicationInv'
  BY <1>4 DEF Files!Check
<1>5. ASSUME NEW c \in Callers, Files!Raise(c) PROVE PublicationInv'
  BY <1>5 DEF Files!Raise
<1>6. ASSUME NEW c \in Callers, Files!Replace(c) PROVE PublicationInv'
  <2>1. staging[c] = "whole" BY <1>6 DEF Files!Replace
  <2>2. PICK new : new = Files!Content(c, staging[c]) OBVIOUS
  <2>3. new \in Files!Targets /\ Files!OnDisk(new) \subseteq Files!Targets
    BY <2>1, <2>2 DEF Files!Content, Files!OnDisk, Files!Targets
  <2>4. target' \in Files!Targets /\ disk' \subseteq Files!Targets
    BY <1>6, <2>2, <2>3 DEF Files!Replace
  <2>5. QED BY <1>6, <2>4 DEF Files!Replace
<1>7. ASSUME NEW c \in Callers, Files!Finish(c) PROVE PublicationInv'
  BY <1>7 DEF Files!Finish
<1>8. ASSUME Files!Crash PROVE PublicationInv'
  BY <1>8 DEF Files!Crash
<1>9. ASSUME Files!PowerFailure PROVE PublicationInv'
  <2>1. target' \in Files!Targets /\ disk' \subseteq Files!Targets
    BY <1>9 DEF Files!PowerFailure
  <2>2. PICK left \in SUBSET {c \in Callers : at[c] \notin {"idle", "looked", "refused"}} :
           staging' = [c \in Callers |-> IF c \in left THEN "part" ELSE "none"]
    BY <1>9 DEF Files!PowerFailure
  <2>3. at' = [c \in Callers |-> IF at[c] = "idle" THEN "idle" ELSE "dead"]
    BY <1>9 DEF Files!PowerFailure
  <2>4. /\ staging' \in [Callers -> {"none", "part", "damaged", "whole"}]
        /\ \A c \in Callers : staging'[c] # "none" => at'[c] = "dead"
    BY <2>2, <2>3
  <2>5. /\ at' \in [Callers -> {"idle", "dead"} \cup Files!Busy \cup Files!Outcome]
        /\ \A c \in Callers : at'[c] # "checked"
    BY <2>3
  <2>6. QED BY <1>9, <2>1, <2>4, <2>5 DEF Files!PowerFailure
<1>10. CASE UNCHANGED fileVars
  BY <1>10 DEF fileVars, Files!Absent
<1>11. QED
  BY <1>1, <1>2, <1>3, <1>4, <1>5, <1>6, <1>7, <1>8, <1>9, <1>10 DEF Files!Next, Files!Step

\* Staging files are left behind only by a process that died: a refusal, an
\* error, a cancellation and a failed comparison have all removed theirs.
THEOREM StagingIsOwned == Spec => []StagingOwned
<1>1. PublicationInv => StagingOwned
  BY DEF PublicationInv, StagingHeld, StagingOwned, Files!StagingOwned, Files!Busy
<1>2. QED
  BY <1>1, PartsInit, PartsStep, PublicationInit, PublicationStep, PTL DEF Spec

-----------------------------------------------------------------------------
(* The published target.                                                   *)

LEMMA ReadersInit == Files!Init => Files!Readers!Init
BY DEF Files!Init, Files!Readers!Init, Files!Readers!Whole, Files!Content

LEMMA ReadersStep ==
    PublicationInv /\ [Files!Next]_fileVars
    => [Files!Readers!Publish \/ Files!Readers!Revert]_<<target, disk, operation \in
      Files!OfDirectory, operation \in Files!Synced>>
<1> SUFFICES ASSUME PublicationInv, [Files!Next]_fileVars
             PROVE  \/ Files!Readers!Publish \/ Files!Readers!Revert
                    \/ UNCHANGED <<target, disk, operation>>
  OBVIOUS
<1>1. ASSUME NEW c \in Callers, Files!Replace(c), ~Files!Refused
      PROVE  Files!Readers!Publish
  <2>1. target' = Files!Content(c, "whole") /\ UNCHANGED operation
    BY <1>1 DEF Files!Replace, PublicationInv, StagingHeld
  <2>2. Files!OnDisk(Files!Content(c, "whole"))
          = {Files!Readers!Whole(c)}
            \cup (IF operation \in Files!Synced THEN {} ELSE {Files!Readers!Torn(c)})
    BY DEF Files!OnDisk, Files!Content, Files!Readers!Whole, Files!Readers!Torn
  <2>3. disk' = disk \cup Files!OnDisk(Files!Content(c, "whole"))
    BY <1>1, <2>1 DEF Files!Replace
  <2>4. operation \in Files!OfDirectory => target = Files!Absent BY <1>1 DEF Files!Refused
  <2>5. target' = Files!Readers!Whole(c) BY <2>1 DEF Files!Content, Files!Readers!Whole
  <2>6. QED BY <2>1, <2>2, <2>3, <2>4, <2>5 DEF Files!Readers!Publish
<1>2. ASSUME Files!PowerFailure PROVE Files!Readers!Revert
  BY <1>2 DEF Files!PowerFailure, Files!Readers!Revert
<1>3. CASE \E c \in Callers : Files!Step(c) /\ ~(Files!Replace(c) /\ ~Files!Refused)
  BY <1>3 DEF Files!Step, Files!Look, Files!Stage, Files!Fill, Files!Check, Files!Raise,
     Files!Replace, Files!Finish
<1>4. CASE Files!Crash \/ UNCHANGED fileVars BY <1>4 DEF Files!Crash, fileVars
<1>5. QED BY <1>1, <1>2, <1>3, <1>4 DEF Files!Next, Files!Step

\* Readers see the target absent or whole and changed in one step, whichever
\* callers and processes die; a frame directory or a rendering is never
\* replaced.  After a power failure there is one of the contents the target has
\* had, or none, and what save() and install() publish is not torn: every
\* operation implements AtomicTarget.
THEOREM TargetsAreAtomic == Spec => Published
BY PartsInit, PartsStep, PublicationInit, PublicationStep, ReadersInit, ReadersStep, PTL
DEF Spec, Published, Files!Published, Files!Readers!Spec

-----------------------------------------------------------------------------
(* The files.                                                              *)

\* What a file holds if it was copied from the database before any restore:
\* the commits up to some moment.
Snapshot(file) ==
    file.kind = "database" => \E n \in 0..commits : file.holds = 1..n

\* The database file is sound, and a connection is orphaned by a restore only.
FilesSound ==
    /\ commits \in Nat
    /\ Base!Sound(main)
    /\ connection = "orphaned" => restored

\* Before any restore, the log completes the file to all commits made ...
LogComplete == ~restored => Base!View = 1..commits

\* ... and the backup, old and new, is the state of some moment.
BackupsAreSnapshots ==
    ~restored => /\ Snapshot(saved)
                 /\ doing = "backing up" => Snapshot(temporary)

LineageInv == FilesSound /\ LogComplete /\ BackupsAreSnapshots

LEMMA LineageInit == Base!Init => LineageInv
BY DEF Base!Init, LineageInv, FilesSound, LogComplete, BackupsAreSnapshots, Base!Sound,
   Base!Database, Base!View, Snapshot, Base!NoFile, Base!Damaged

\* Commits are counted, and a restore is not forgotten.
LEMMA DatabaseFrame ==
    ASSUME [Base!Next]_baseVars
    PROVE  /\ ~restored' => ~restored
           /\ commits' \in {commits, commits + 1}
<1> USE DEF Base!Next, baseVars, Base!Open, Base!Commit, Base!Checkpoint,
            Base!CloseEngine, Base!Crash, Base!CopyDatabase, Base!FinishBackup,
            Base!CopyBackup, Base!FinishRestore
<1>1. ~restored' => ~restored OBVIOUS
<1>2. commits' \in {commits, commits + 1} OBVIOUS
<1>3. QED BY <1>1, <1>2

LEMMA SoundStep == FilesSound /\ [Base!Next]_baseVars => FilesSound'
<1> SUFFICES ASSUME FilesSound, [Base!Next]_baseVars PROVE FilesSound'
  OBVIOUS
<1> USE DEF FilesSound, Base!Sound
<1>1. CASE Base!Open \/ Base!Commit \/ Base!Crash BY <1>1 DEF Base!Open, Base!Commit,
  Base!Crash
<1>2. CASE Base!Checkpoint \/ Base!CloseEngine
  BY <1>2 DEF Base!Checkpoint, Base!CloseEngine, Base!Checkpointed, Base!Database
<1>3. CASE Base!CopyDatabase \/ Base!FinishBackup \/ Base!CopyBackup
  BY <1>3 DEF Base!CopyDatabase, Base!FinishBackup, Base!CopyBackup
<1>4. CASE Base!FinishRestore BY <1>4 DEF Base!FinishRestore
<1>5. CASE UNCHANGED baseVars BY <1>5 DEF baseVars
<1>6. QED BY <1>1, <1>2, <1>3, <1>4, <1>5 DEF Base!Next

LEMMA LogStep == FilesSound /\ LogComplete /\ [Base!Next]_baseVars => LogComplete'
<1> SUFFICES ASSUME FilesSound, LogComplete, [Base!Next]_baseVars, ~restored'
             PROVE  Base!View' = 1..commits'
  BY DEF LogComplete
<1>1. ~restored BY DatabaseFrame
<1>2. Base!View = 1..commits /\ connection # "orphaned"
  BY <1>1 DEF LogComplete, FilesSound
<1>3. CASE Base!Commit
  <2>1. Base!View' = Base!View \cup {commits + 1} /\ commits' = commits + 1
    BY <1>3 DEF Base!Commit, Base!View
  <2>2. commits \in Nat BY DEF FilesSound
  <2>3. 1..(commits + 1) = 1..commits \cup {commits + 1} BY <2>2
  <2>4. QED BY <1>2, <2>1, <2>3
<1>4. CASE Base!Checkpoint \/ Base!CloseEngine
  <2>1. main' = Base!Database(Base!View) /\ wal' = {} /\ UNCHANGED commits
    BY <1>2, <1>4 DEF Base!Checkpoint, Base!CloseEngine, Base!Checkpointed
  <2>2. Base!View' = Base!View BY <2>1 DEF Base!View, Base!Database
  <2>3. QED BY <1>2, <2>1, <2>2
<1>5. CASE UNCHANGED <<main, wal, commits>>
  BY <1>2, <1>5 DEF Base!View
<1>6. QED
  BY <1>1, <1>3, <1>4, <1>5
  DEF Base!Next, baseVars, Base!Open, Base!Crash, Base!CopyDatabase, Base!FinishBackup,
    Base!CopyBackup, Base!FinishRestore

\* Commits are added at the end, so a snapshot stays one.
LEMMA SnapshotStays ==
    ASSUME FilesSound, [Base!Next]_baseVars, NEW file, Snapshot(file)
    PROVE  file.kind = "database" => \E n \in 0..commits' : file.holds = 1..n
<1> SUFFICES ASSUME file.kind = "database"
             PROVE  \E n \in 0..commits' : file.holds = 1..n
  OBVIOUS
<1>1. PICK n \in 0..commits : file.holds = 1..n BY DEF Snapshot
<1>2. commits' \in {commits, commits + 1} BY DatabaseFrame
<1>3. n \in 0..commits' BY <1>2 DEF FilesSound
<1>4. QED BY <1>1, <1>3

LEMMA SnapshotStep ==
    /\ FilesSound /\ LogComplete /\ BackupsAreSnapshots /\ [Base!Next]_baseVars
    => BackupsAreSnapshots'
<1> SUFFICES ASSUME FilesSound, LogComplete, BackupsAreSnapshots, [Base!Next]_baseVars,
                    ~restored'
             PROVE  Snapshot(saved)' /\ (doing' = "backing up" => Snapshot(temporary)')
  BY DEF BackupsAreSnapshots
<1> DEFINE Later(file) ==
             file.kind = "database" => \E n \in 0..commits' : file.holds = 1..n
<1>1. ~restored BY DatabaseFrame
<1>2. Later(saved) /\ (doing = "backing up" => Later(temporary))
  BY <1>1, SnapshotStays DEF BackupsAreSnapshots
<1>3. Later(saved') /\ (doing' = "backing up" => Later(temporary'))
  <2>1. CASE UNCHANGED <<saved, temporary, doing>> BY <1>2, <2>1
  <2>2. CASE Base!CopyDatabase
    <3>1. temporary' \in {Base!Database(Base!View), Base!Damaged} /\ UNCHANGED <<saved,
      commits>>
      BY <2>2 DEF Base!CopyDatabase, Base!Copy
    <3>2. commits \in 0..commits BY DEF FilesSound
    <3>3. Base!View = 1..commits BY <1>1 DEF LogComplete
    <3>4. Later(temporary') BY <3>1, <3>2, <3>3 DEF Base!Database, Base!Damaged
    <3>5. QED BY <1>2, <3>1, <3>4
  <2>3. CASE Base!FinishBackup BY <1>2, <2>3 DEF Base!FinishBackup
  <2>4. CASE Base!CopyBackup BY <1>2, <2>4 DEF Base!CopyBackup
  <2>5. CASE Base!FinishRestore BY <1>2, <2>5 DEF Base!FinishRestore
  <2>6. QED
    BY <2>1, <2>2, <2>3, <2>4, <2>5
    DEF Base!Next, baseVars, Base!Open, Base!Commit, Base!Checkpoint, Base!CloseEngine,
      Base!Crash
<1>4. QED BY <1>3 DEF Snapshot

\* No damaged file takes the place of the database or of a backup, and until a
\* restore has replaced it the database holds every commit acknowledged,
\* whenever the process died and whatever was backed up meanwhile.
THEOREM CommitsAreKept == Spec => []CommittedKept
<1>1. LineageInv => CommittedKept
  BY DEF LineageInv, FilesSound, LogComplete, BackupsAreSnapshots, CommittedKept,
         Base!CommittedKept, Snapshot
<1>2. LineageInv /\ [Base!Next]_baseVars => LineageInv'
  BY SoundStep, LogStep, SnapshotStep DEF LineageInv
<1>3. QED BY <1>1, <1>2, PartsInit, PartsStep, LineageInit, PTL DEF Spec

-----------------------------------------------------------------------------
(* The restore.                                                            *)

\* What is restored is what the backup holds: nothing replaces the backup
\* while its copy is verified.
RestoreInv ==
    doing = "restoring" /\ Base!Sound(temporary) => temporary.holds = saved.holds

LEMMA RestoreInit == Base!Init => RestoreInv
BY DEF Base!Init, RestoreInv

LEMMA RestoreStep == RestoreInv /\ [Base!Next]_baseVars => RestoreInv'
BY DEF RestoreInv, Base!Next, baseVars, Base!Open, Base!Commit, Base!Checkpoint,
   Base!CloseEngine, Base!Crash, Base!CopyDatabase, Base!FinishBackup, Base!CopyBackup,
   Base!FinishRestore, Base!Copy, Base!Sound, Base!Database, Base!Damaged

LEMMA RestoredView ==
    ASSUME RestoreInv, [Base!Next]_baseVars, main' # main, doing = "restoring",
           connection = "closed", wal = {}
    PROVE  Base!View' = saved.holds
<1>1. Base!FinishRestore /\ Base!Sound(temporary)
  BY DEF Base!Next, baseVars, Base!Open, Base!Commit, Base!Checkpoint, Base!CloseEngine,
     Base!Crash, Base!CopyDatabase, Base!FinishBackup, Base!CopyBackup, Base!FinishRestore
<1>2. main' = temporary /\ wal' = {} BY <1>1 DEF Base!FinishRestore
<1>3. temporary.holds = saved.holds BY <1>1 DEF Base!FinishRestore, RestoreInv
<1>4. QED BY <1>2, <1>3 DEF Base!View

\* A restore of a database whose service was stopped cleanly takes effect: the
\* next reader gets what the backup holds and nothing else.
THEOREM CleanRestoresHold == Spec => CleanRestoreHolds
<1>1. RestoreInv /\ [Base!Next]_baseVars
        => [main' # main /\ doing = "restoring" /\ connection = "closed" /\ wal = {}
              => Base!View' = saved.holds]_(Base!dbVars)
  BY RestoredView DEF Base!dbVars, baseVars
<1>2. QED
  BY <1>1, PartsInit, PartsStep, RestoreInit, RestoreStep, PTL
  DEF Spec, CleanRestoreHolds, Base!CleanRestoreHolds

-----------------------------------------------------------------------------
(* The lock.                                                               *)

\* One thread at a time is inside start() or infer().
OneHolder ==
    \A t, u \in Threads : within[t] \in Worker!Locked /\ within[u] \in Worker!Locked => t
      = u

\* What the holder of the lock knows: start() works on a new worker, whose
\* session it has accepted once it warms it up; infer() runs on a ready one.
HolderKnows ==
    \A t \in Threads :
        /\ within[t] \in {"verifying", "warming"} => state = "created"
        /\ within[t] = "warming" => session = "cuda"
        /\ within[t] = "running" => state = "ready"

\* A ready worker has a session, which has been through its warm-up.
ReadyIsWarm == state = "ready" => session = "cuda" /\ warmed = WarmupRuns

Placed == within \in [Threads -> Worker!Locked \cup {"outside"}]

LockInv == Placed /\ OneHolder /\ HolderKnows /\ ReadyIsWarm

LEMMA LockInit == Worker!Init => LockInv
BY DEF Worker!Init, LockInv, Placed, OneHolder, HolderKnows, ReadyIsWarm, Worker!Locked

\* Taking the lock when nobody has it, or going on with it, keeps it exclusive.
LEMMA EnterKeepsLock ==
    ASSUME Placed, OneHolder, NEW t \in Threads, NEW place \in Worker!Locked \cup
      {"outside"}, Worker!Free \/ within[t] \in Worker!Locked, Worker!Enter(t, place)
    PROVE  Placed' /\ OneHolder'
BY DEF Placed, OneHolder, Worker!Enter, Worker!Free

LEMMA LockStep == LockInv /\ [Worker!Next]_workerVars => LockInv'
<1> SUFFICES ASSUME LockInv, [Worker!Next]_workerVars PROVE LockInv'
  OBVIOUS
<1> USE DEF LockInv, HolderKnows, ReadyIsWarm
<1>1. ASSUME NEW t \in Threads, Worker!Start(t) PROVE LockInv'
  <2>1. Placed' /\ OneHolder' BY <1>1, EnterKeepsLock DEF Worker!Start, Worker!Locked
  <2>2. QED BY <1>1, <2>1 DEF Worker!Start, Worker!Enter, Placed
<1>2. ASSUME NEW t \in Threads, Worker!CreateSession(t) PROVE LockInv'
  <2>1. PICK place \in {"warming", "outside"} :
          /\ Worker!Enter(t, place)
          /\ place = "warming" => session' = "cuda" /\ UNCHANGED <<state, warmed>>
          /\ place = "outside" => state' = "failed"
    BY <1>2 DEF Worker!CreateSession, Worker!Accepted, Worker!Failed
  <2>2. within[t] \in Worker!Locked BY <1>2 DEF Worker!CreateSession, Worker!Locked
  <2>3. Placed' /\ OneHolder' BY <2>1, <2>2, EnterKeepsLock DEF Worker!Locked
  <2>4. \A u \in Threads \ {t} : within'[u] = "outside"
    BY <2>1, <2>2 DEF Worker!Enter, Placed, OneHolder
  <2>5. within'[t] = place /\ state = "created"
    BY <1>2, <2>1 DEF Worker!Enter, Placed, Worker!CreateSession
  <2>6. QED BY <2>1, <2>3, <2>4, <2>5
<1>3. ASSUME NEW t \in Threads, Worker!Warm(t) PROVE LockInv'
  <2>1. within[t] = "warming" /\ state = "created" /\ session = "cuda"
    BY <1>3 DEF Worker!Warm
  <2>2. \A u \in Threads \ {t} : within[u] = "outside"
    BY <2>1 DEF Placed, OneHolder, Worker!Locked
  <2>3. CASE Worker!Failed(t)
    <3>1. Placed' /\ OneHolder'
      BY <2>1, <2>3, EnterKeepsLock DEF Worker!Failed, Worker!Locked
    <3>2. \A u \in Threads : within'[u] = "outside"
      BY <2>2, <2>3 DEF Worker!Failed, Worker!Enter, Placed
    <3>3. QED BY <2>3, <3>1, <3>2 DEF Worker!Failed
  <2>4. CASE /\ UNCHANGED <<session, state, within>>
    BY <2>1, <2>4 DEF Placed, OneHolder
  <2>5. CASE /\ UNCHANGED session /\ warmed' = WarmupRuns
             /\ state' = "ready" /\ Worker!Enter(t, "outside")
    <3>1. Placed' /\ OneHolder' BY <2>1, <2>5, EnterKeepsLock DEF Worker!Locked
    <3>2. \A u \in Threads : within'[u] = "outside"
      BY <2>2, <2>5 DEF Worker!Enter, Placed
    <3>3. QED BY <2>1, <2>5, <3>1, <3>2
  <2>6. QED BY <1>3, <2>3, <2>4, <2>5 DEF Worker!Warm
<1>4. ASSUME NEW t \in Threads, NEW size \in 1..MaximumBatchSize, Worker!Infer(t, size)
      PROVE  LockInv'
  <2>1. Placed' /\ OneHolder' BY <1>4, EnterKeepsLock DEF Worker!Infer, Worker!Locked
  <2>2. QED BY <1>4, <2>1 DEF Worker!Infer, Worker!Enter, Placed, Worker!Ready
<1>5. ASSUME NEW t \in Threads, Worker!Answer(t) PROVE LockInv'
  <2>1. Placed' /\ OneHolder' BY <1>5, EnterKeepsLock DEF Worker!Answer, Worker!Locked
  <2>2. QED BY <1>5, <2>1 DEF Worker!Answer, Worker!Enter, Placed
<1>6. ASSUME NEW t \in Threads, Worker!Close(t) PROVE LockInv'
  <2>1. UNCHANGED within /\ state' = "closed" BY <1>6 DEF Worker!Close
  <2>2. \A u \in Threads : within[u] \notin Worker!Locked
    BY <1>6 DEF Worker!Close, Worker!CloseAllowed, Worker!Free
  <2>3. QED BY <2>1, <2>2 DEF Placed, OneHolder, Worker!Locked
<1>7. CASE UNCHANGED workerVars
  BY <1>7 DEF workerVars, Placed, OneHolder
<1>8. QED BY <1>1, <1>2, <1>3, <1>4, <1>5, <1>6, <1>7 DEF Worker!Next

\* A batch runs on a session that is there, on the GPU and warm, and no other
\* thread is inside start() or infer(), so none can take it away.
THEOREM BatchesRunWarm == Spec => []RunsOnWarmSession
<1>1. LockInv => RunsOnWarmSession
  BY DEF LockInv, OneHolder, HolderKnows, ReadyIsWarm, RunsOnWarmSession,
         Worker!RunsOnWarmSession, Worker!Locked
<1>2. QED BY <1>1, PartsInit, PartsStep, LockInit, LockStep, PTL DEF Spec

-----------------------------------------------------------------------------
(* The warm-up.                                                            *)

\* The warm-up is counted from nothing, and over when the count is reached.
WarmupCounted ==
    /\ state = "created" /\ (\A t \in Threads : within[t] # "warming") => warmed = 0
    /\ \A t \in Threads : within[t] = "warming" => warmed < WarmupRuns

CountInv == Worker!TypeOK /\ WarmupCounted

LEMMA CountInit == Worker!Init => CountInv
BY ArtifactsAssumption DEF Worker!Init, CountInv, Worker!TypeOK, WarmupCounted,
   Worker!Locked

LEMMA CountStep ==
    LockInv /\ CountInv /\ [Worker!Next]_workerVars => CountInv'
<1> SUFFICES ASSUME LockInv, CountInv, [Worker!Next]_workerVars PROVE CountInv'
  OBVIOUS
<1> USE ArtifactsAssumption
<1> USE DEF CountInv, Worker!TypeOK, WarmupCounted, Worker!Locked, Worker!Enter
<1>1. ASSUME NEW t \in Threads, Worker!Start(t) PROVE CountInv'
  BY <1>1 DEF Worker!Start, Worker!Free
<1>2. ASSUME NEW t \in Threads, Worker!CreateSession(t) PROVE CountInv'
  <2>1. within[t] = "verifying" /\ state = "created"
    BY <1>2 DEF Worker!CreateSession, LockInv, HolderKnows
  <2>2. \A u \in Threads : within[u] # "warming"
    BY <2>1 DEF LockInv, OneHolder
  <2>3. warmed = 0 BY <2>1, <2>2
  <2>4. QED BY <1>2, <2>2, <2>3 DEF Worker!CreateSession, Worker!Failed
<1>3. ASSUME NEW t \in Threads, Worker!Warm(t) PROVE CountInv'
  <2>1. within[t] = "warming" /\ warmed < WarmupRuns BY <1>3 DEF Worker!Warm
  <2>2. \A u \in Threads \ {t} : within[u] = "outside"
    BY <2>1 DEF LockInv, Placed, OneHolder
  <2>3. QED BY <1>3, <2>1, <2>2 DEF Worker!Warm, Worker!Failed
<1>4. ASSUME NEW t \in Threads, NEW size \in 1..MaximumBatchSize, Worker!Infer(t, size)
      PROVE  CountInv'
  BY <1>4 DEF Worker!Infer, Worker!Ready
<1>5. ASSUME NEW t \in Threads, Worker!Answer(t) PROVE CountInv'
  <2>1. \A u \in Threads : within[u] = "warming" => within'[u] = "warming"
    BY <1>5 DEF Worker!Answer
  <2>2. QED BY <1>5, <2>1 DEF Worker!Answer
<1>6. ASSUME NEW t \in Threads, Worker!Close(t) PROVE CountInv'
  BY <1>6 DEF Worker!Close
<1>7. CASE UNCHANGED workerVars
  BY <1>7 DEF workerVars
<1>8. QED BY <1>1, <1>2, <1>3, <1>4, <1>5, <1>6, <1>7 DEF Worker!Next

-----------------------------------------------------------------------------
(* Types.                                                                  *)

LEMMA OneMore ==
    ASSUME NEW n \in Nat, NEW k \in 0..n, k < n
    PROVE  k + 1 \in 0..n /\ k + 1 \in 1..n
OBVIOUS

LEMMA BaseTypesStep == Base!TypeOK /\ [Base!Next]_baseVars => Base!TypeOK'
<1> SUFFICES ASSUME Base!TypeOK, [Base!Next]_baseVars PROVE Base!TypeOK'
  OBVIOUS
<1> DEFINE File == [kind : {"none", "damaged", "database"}, holds : SUBSET (1..MaxCommits)]
<1>1. /\ main \in File /\ saved \in File /\ temporary \in File
      /\ wal \subseteq 1..MaxCommits
      /\ commits \in 0..MaxCommits /\ faults \in 0..MaxFaults
      /\ connection \in {"closed", "open", "orphaned"}
      /\ doing \in {"nothing", "backing up", "restoring"}
      /\ restored \in BOOLEAN
      /\ MaxCommits \in Nat /\ MaxFaults \in Nat
  BY ArtifactsAssumption DEF Base!TypeOK
<1>2. \A holds \in SUBSET (1..MaxCommits) : Base!Database(holds) \in File
  BY DEF Base!Database
<1>3. Base!Damaged \in File /\ Base!NoFile \in File BY DEF Base!Damaged, Base!NoFile
<1>4. Base!View \in SUBSET (1..MaxCommits) /\ saved.holds \in SUBSET (1..MaxCommits)
  BY <1>1 DEF Base!View
<1>5. Base!Checkpointed \in File BY <1>1, <1>2, <1>4 DEF Base!Checkpointed
<1>6. Base!TypeOK'
        <=> /\ main' \in File /\ saved' \in File /\ temporary' \in File
            /\ wal' \subseteq 1..MaxCommits
            /\ connection' \in {"closed", "open", "orphaned"}
            /\ commits' \in 0..MaxCommits
            /\ doing' \in {"nothing", "backing up", "restoring"}
            /\ restored' \in BOOLEAN /\ faults' \in 0..MaxFaults
  BY DEF Base!TypeOK
<1> HIDE DEF File
<1>7. CASE Base!Open BY <1>1, <1>6, <1>7 DEF Base!Open
<1>8. CASE Base!Commit
  <2>1. commits < MaxCommits /\ commits' = commits + 1 BY <1>8 DEF Base!Commit
  <2>2. commits' \in 1..MaxCommits /\ commits' \in 0..MaxCommits
    BY <1>1, <2>1, OneMore
  <2>3. wal' \subseteq 1..MaxCommits BY <1>1, <1>8, <2>2 DEF Base!Commit
  <2>4. QED BY <1>1, <1>6, <1>8, <2>2, <2>3 DEF Base!Commit
<1>9. CASE Base!Checkpoint BY <1>1, <1>5, <1>6, <1>9 DEF Base!Checkpoint
<1>10. CASE Base!CloseEngine BY <1>1, <1>5, <1>6, <1>10 DEF Base!CloseEngine
<1>11. CASE Base!Crash
  <2>1. faults' \in 0..MaxFaults BY <1>1, <1>11, OneMore DEF Base!Crash
  <2>2. QED BY <1>1, <1>6, <1>11, <2>1 DEF Base!Crash
<1>12. CASE Base!CopyDatabase
  <2>1. temporary' \in File
    BY <1>2, <1>3, <1>4, <1>12 DEF Base!CopyDatabase, Base!Copy
  <2>2. faults' \in 0..MaxFaults
    BY <1>1, <1>12, OneMore DEF Base!CopyDatabase, Base!Copy
  <2>3. QED BY <1>1, <1>6, <1>12, <2>1, <2>2 DEF Base!CopyDatabase
<1>13. CASE Base!FinishBackup BY <1>1, <1>3, <1>6, <1>13 DEF Base!FinishBackup
<1>14. CASE Base!CopyBackup
  <2>1. temporary' \in File
    BY <1>2, <1>3, <1>4, <1>14 DEF Base!CopyBackup, Base!Copy
  <2>2. faults' \in 0..MaxFaults
    BY <1>1, <1>14, OneMore DEF Base!CopyBackup, Base!Copy
  <2>3. QED BY <1>1, <1>6, <1>14, <2>1, <2>2 DEF Base!CopyBackup
<1>15. CASE Base!FinishRestore BY <1>1, <1>3, <1>6, <1>15 DEF Base!FinishRestore
<1>16. CASE UNCHANGED baseVars BY <1>1, <1>6, <1>16 DEF baseVars
<1>17. QED
  BY <1>7, <1>8, <1>9, <1>10, <1>11, <1>12, <1>13, <1>14, <1>15, <1>16 DEF Base!Next

\* Every variable keeps its type: crashes and faults stay within their bounds,
\* files hold commits that were made, the warm-up never runs past its count
\* and a batch is never larger than the worker was configured for.
THEOREM TypeCorrect == Spec => [](Files!TypeOK /\ Base!TypeOK /\ Worker!TypeOK)
<1>1. PublicationInv => Files!TypeOK BY DEF PublicationInv
<1>2. Base!Init => Base!TypeOK
  <2>1. MaxCommits \in Nat /\ MaxFaults \in Nat BY ArtifactsAssumption
  <2>2. 0 \in 0..MaxCommits /\ 0 \in 0..MaxFaults BY <2>1
  <2>3. {Base!Database({}), Base!NoFile, Base!Damaged} \subseteq
            [kind : {"none", "damaged", "database"}, holds : SUBSET (1..MaxCommits)]
    BY DEF Base!Database, Base!NoFile, Base!Damaged
  <2>4. QED BY <2>2, <2>3 DEF Base!Init, Base!TypeOK
<1>3. CountInv => Worker!TypeOK BY DEF CountInv
<1>4. QED
  BY <1>1, <1>2, <1>3, PartsInit, PartsStep, PublicationInit, PublicationStep,
     BaseTypesStep, LockInit, LockStep, CountInit, CountStep, PTL DEF Spec

-----------------------------------------------------------------------------
(* The algorithms: what ImagingProofs says of every value of the constants *)
(* says it of the instances that the behaviours take their inputs to.      *)

Proved == INSTANCE ImagingProofs WITH
    SliceSize <- 4, Threshold <- <<1, 2>>,
    MapWidth <- 4, MapHeight <- 2, Shift <- <<<<0, 0>>, <<2, 0>>>>, DuplicateThreshold <- <<1, 2>>,
    MaximumFootprint <- 6, MaximumTotalFootprint <- 12, ConfidenceScale <- 2,
    SourceWidth <- 3, SourceHeight <- 2, PreviewSize <- 4,
    MinimumMatches <- 12, MinimumCorners <- 40, MinimumRetained <- 10, MinimumDense <- 20,
    TileSize <- 2, Stride <- 5, MaximumFit <- 18, MaximumHeldOut <- 6,
    MinimumFit <- 8, MinimumHeldOut <- 5,
    Attempts <- 8, MinimumAccepted <- 5, Tolerance <- 50, MaximumDeviation <- 500,
    PreviewWidth <- 5, PreviewHeight <- 5

\* An input is one of those that the samples have for its part and its seed.
InputTaken == input = <<>> \/ (part \in Parts /\ input \in Inputs(part, seed))

LEMMA InputsTaken == Spec => []InputTaken
<1>1. Init => InputTaken BY DEF Init, InputTaken
<1>2. InputTaken /\ [Next]_vars => InputTaken'
  <2> SUFFICES ASSUME InputTaken, [Next]_vars PROVE InputTaken'
    OBVIOUS
  <2>1. CASE UNCHANGED sampleVars BY <2>1 DEF sampleVars, InputTaken
  <2>2. CASE Take
    <3>1. part' = part /\ seed' = seed /\ input' \in Inputs(part, seed) /\ part \in Parts
      BY <2>2 DEF Take
    <3>2. Inputs(part', seed') = Inputs(part, seed) BY <3>1
    <3>3. QED BY <3>1, <3>2 DEF InputTaken
  <2>3. QED BY <2>1, <2>2 DEF Next, FileStep, BaseStep, WorkerStep, vars, sampleVars
<1>3. QED BY <1>1, <1>2, PTL DEF Spec

\* Bundles: the definitions of the instance are those of the theorem.
LEMMA SameRuns ==
    ASSUME NEW bundle, NEW size, NEW windows
    PROVE  Bundles!Runs(bundle, size, windows) = Proved!Runs(bundle, size, windows)
<1>1. Bundles!BatchSizes(windows, size) = Proved!BatchSizes(windows, size)
  BY DEF Bundles!BatchSizes, Proved!BatchSizes
<1>2. \A set : Bundles!Cardinality(set) = Proved!Cardinality(set)
  BY DEF Bundles!Cardinality, Proved!Cardinality
<1>3. Bundles!Imported(bundle) = Proved!Imported(bundle)
  BY DEF Bundles!Imported, Proved!Imported, Bundles!Complete, Proved!Complete,
     Bundles!Evidenced, Proved!Evidenced, Bundles!Consistent, Proved!Consistent,
     Bundles!DescribesGraph, Proved!DescribesGraph, Bundles!Required, Proved!Required,
     Bundles!Vectors, Proved!Vectors
<1>4. QED
  BY <1>1, <1>2, <1>3
  DEF Bundles!Runs, Proved!Runs, Bundles!WorkerConfigured, Proved!WorkerConfigured,
     Bundles!SlicingConfigured, Proved!SlicingConfigured, Bundles!AcceptsBatch,
     Proved!AcceptsBatch, Bundles!Dynamic, Proved!Dynamic

LEMMA BundleInput ==
    ASSUME InputTaken, Taken("bundles")
    PROVE  input.size \in Nat \ {0} /\ input.bundle.batch \in Nat
<1>1. input \in Inputs("bundles", seed) BY DEF InputTaken, Taken
<1>2. seed \in 2..3 /\ input \in [bundle : Bundle(seed), size : {seed}] BY <1>1 DEF Inputs
<1>3. \A type, n : \A b \in OfType(type, n) : b.batch \in {Bundles!Dynamic, 2, 3}
  BY Zenon DEF OfType
<1>4. \A b \in Bundle(seed) : b.batch \in Nat BY <1>3 DEF Bundle, Bundles!Dynamic
<1>5. QED BY <1>2, <1>4

\* model_validation.py, onnx_worker.py and sahi.py agree on every bundle.
THEOREM BundlesRun == Spec => []BundleRuns
<1>1. InputTaken => BundleRuns
  <2> SUFFICES ASSUME InputTaken, Taken("bundles"), NEW windows \in 1..6
               PROVE  Bundles!Runs(input.bundle, input.size, windows)
    BY DEF BundleRuns
  <2>1. Proved!Runs(input.bundle, input.size, windows)
    BY BundleInput, Proved!ImportedBundlesRun
  <2>2. QED BY <2>1, SameRuns
<1>2. QED BY <1>1, InputsTaken, PTL

\* Openings.
LEMMA SameOpening ==
    ASSUME NEW preview, NEW covered, NEW center, NEW reference
    PROVE  Center!OnlyOpeningFilled(preview, covered, center, reference)
              = Proved!OnlyOpeningFilled(preview, covered, center, reference)
<1>1. Center!Pixels = Proved!Pixels BY DEF Center!Pixels, Proved!Pixels
<1>2. \A p, w : Center!Component(p, w) = Proved!Component(p, w)
  BY <1>1 DEF Center!Component, Proved!Component, Center!Touch, Proved!Touch
<1>3. \A set : Center!Min(set) = Proved!Min(set) /\ Center!Max(set) = Proved!Max(set)
  BY DEF Center!Min, Proved!Min, Center!Max, Proved!Max
<1>4. \A o, c : Center!SafeRadius(o, c) = Proved!SafeRadius(o, c)
  BY <1>3 DEF Center!SafeRadius, Proved!SafeRadius
<1>5. Center!Border = Proved!Border BY <1>1 DEF Center!Border, Proved!Border
<1>6. \A a, c : Center!Opening(a, c) = Proved!Opening(a, c)
  BY <1>1, <1>2, <1>4, <1>5 DEF Center!Opening, Proved!Opening
<1>7. \A p : Center!Acquired(p) = Proved!Acquired(p)
  BY <1>1 DEF Center!Acquired, Proved!Acquired
<1>8. Center!NotCompleted = Proved!NotCompleted
  BY <1>1 DEF Center!NotCompleted, Proved!NotCompleted
<1>9. \A p, c, r : Center!Completed(p, c, r) = Proved!Completed(p, c, r)
  BY <1>1, <1>6, <1>7, <1>8 DEF Center!Completed, Proved!Completed
<1>10. QED
  BY <1>1, <1>5, <1>6, <1>7, <1>8, <1>9
  DEF Center!OnlyOpeningFilled, Proved!OnlyOpeningFilled

LEMMA OpeningInput ==
    ASSUME InputTaken, Taken("opening")
    PROVE  /\ DOMAIN input.preview = Proved!Pixels
           /\ \A p \in Proved!Pixels : input.preview[p] # "reference"
<1>1. input \in Inputs("opening", seed) BY DEF InputTaken, Taken
<1>2. PICK outline : input \in Openings(outline) BY <1>1 DEF Inputs
<1>3. PICK c : input.preview \in {Preview(c \ d) : d \in {{}, {<<1, 2>>}}} BY <1>2 DEF Openings
<1>4. QED BY <1>3 DEF Preview, Center!Pixels, Proved!Pixels

\* preview_center.py overwrites black pixels of the opening, and nothing else.
LEMMA OpeningFilled ==
    ASSUME InputTaken, Taken("opening")
    PROVE  Center!OnlyOpeningFilled(input.preview, input.covered, input.center,
                                    input.reference)
<1>1. Proved!OnlyOpeningFilled(input.preview, input.covered, input.center, input.reference)
  BY OpeningInput, Proved!OnlyOpeningIsFilled
<1>2. QED BY <1>1, SameOpening

-----------------------------------------------------------------------------
(* Slices.  The definitions of the instance are those of the theorems.     *)

LEMMA SameWindows ==
    /\ \A set : Frames!Min(set) = Proved!Min(set) /\ Frames!Max(set) = Proved!Max(set)
    /\ \A a, b : Frames!Least(a, b) = Proved!Least(a, b)
    /\ \A list : Frames!ToSet(list) = Proved!ToSet(list)
    /\ \A width, height : Frames!Windows(width, height) = Proved!Windows(width, height)
<1>1. \A set : Frames!Min(set) = Proved!Min(set) /\ Frames!Max(set) = Proved!Max(set)
  BY DEF Frames!Min, Proved!Min, Frames!Max, Proved!Max
<1>2. \A a, b : Frames!Least(a, b) = Proved!Least(a, b)
  BY <1>1 DEF Frames!Least, Proved!Least
<1>3. \A list : Frames!ToSet(list) = Proved!ToSet(list) BY DEF Frames!ToSet, Proved!ToSet
<1>4. \A list : Frames!Last(list) = Proved!Last(list) BY DEF Frames!Last, Proved!Last
<1>5. \A length : Frames!AxisPositions(length) = Proved!AxisPositions(length)
  BY <1>4 DEF Frames!AxisPositions, Proved!AxisPositions
<1>6. \A n, x, y, w, h : Frames!Window(n, x, y, w, h) = Proved!Window(n, x, y, w, h)
  BY <1>2 DEF Frames!Window, Proved!Window
<1>7. \A w, h : Frames!Windows(w, h) = Proved!Windows(w, h)
  BY <1>5, <1>6 DEF Frames!Windows, Proved!Windows
<1>8. QED BY <1>1, <1>2, <1>3, <1>7

LEMMA SameCover ==
    ASSUME NEW width, NEW height, NEW size
    PROVE  Frames!Covered(width, height, size) = Proved!Covered(width, height, size)
<1>1. \A w, s : Frames!Batches(w, s) = Proved!Batches(w, s)
  BY SameWindows DEF Frames!Batches, Proved!Batches
<1>2. \A w, s : Frames!BatchedInOrder(w, s) = Proved!BatchedInOrder(w, s)
  BY <1>1 DEF Frames!BatchedInOrder, Proved!BatchedInOrder
<1>3. Frames!FrameCovered(width, height) = Proved!FrameCovered(width, height)
  BY SameWindows DEF Frames!FrameCovered, Proved!FrameCovered
<1>4. QED BY <1>2, <1>3, SameWindows DEF Frames!Covered, Proved!Covered

LEMMA SameSorting ==
    /\ \A items, key : Frames!Sorted(items, key) = Proved!Sorted(items, key)
    /\ \A items, places : Frames!Selected(items, places) = Proved!Selected(items, places)
<1>1. \A set : Frames!Cardinality(set) = Proved!Cardinality(set)
  BY DEF Frames!Cardinality, Proved!Cardinality
<1>2. \A places, key : Frames!Order(places, key) = Proved!Order(places, key)
  BY DEF Frames!Order, Proved!Order, Frames!Rank, Proved!Rank, Frames!Earlier, Proved!Earlier,
         Frames!Before, Proved!Before, Frames!Cardinality, Proved!Cardinality
<1>3. QED BY <1>1, <1>2 DEF Frames!Sorted, Proved!Sorted, Frames!Selected, Proved!Selected

LEMMA SameMapping ==
    /\ \A a, b : Frames!SameDefect(a, b) = Proved!SameDefect(a, b)
    /\ \A w, d : Frames!Mapped(w, d) = Proved!Mapped(w, d)
    /\ \A w, d, s : Frames!MapAndMerge(w, d, s) = Proved!MapAndMerge(w, d, s)
<1>1. \A d : Frames!Area(d) = Proved!Area(d) BY DEF Frames!Area, Proved!Area
<1>2. \A a, b : Frames!Intersection(a, b) = Proved!Intersection(a, b)
  BY SameWindows DEF Frames!Intersection, Proved!Intersection
<1>3. \A n, d : Frames!Reaches(n, d) = Proved!Reaches(n, d)
  BY DEF Frames!Reaches, Proved!Reaches
<1>4. \A a, b : Frames!SameDefect(a, b) = Proved!SameDefect(a, b)
  BY <1>1, <1>2, <1>3, SameWindows
  DEF Frames!SameDefect, Proved!SameDefect, Frames!Overlapping, Proved!Overlapping
<1>5. \A a, b : Frames!Union(a, b) = Proved!Union(a, b)
  BY SameWindows DEF Frames!Union, Proved!Union
<1>6. \A c, p : Frames!Merge!Pass(c, p) = Proved!Merge!Pass(c, p)
  BY DEF Frames!Merge!Pass, Proved!Merge!Pass, Frames!Merge!FoldLeft, Proved!Merge!FoldLeft,
         Frames!Merge!MapThenFoldSet, Proved!Merge!MapThenFoldSet, Frames!Merge!Max,
         Proved!Merge!Max, Frames!SameDefect, Proved!SameDefect, Frames!Overlapping,
         Proved!Overlapping, Frames!Intersection, Proved!Intersection, Frames!Area, Proved!Area,
         Frames!Reaches, Proved!Reaches, Frames!Union, Proved!Union, Frames!Least, Proved!Least,
         Frames!Min, Proved!Min, Frames!Max, Proved!Max
<1>7. \A items : Frames!Merge!Merged(items) = Proved!Merge!Merged(items)
  BY DEF Frames!Merge!Merged, Proved!Merge!Merged, Frames!Merge!Group, Proved!Merge!Group,
         Frames!Merge!Pass, Proved!Merge!Pass, Frames!Merge!FoldLeft, Proved!Merge!FoldLeft,
         Frames!Merge!MapThenFoldSet, Proved!Merge!MapThenFoldSet, Frames!Merge!Max,
         Proved!Merge!Max, Frames!SameDefect, Proved!SameDefect, Frames!Overlapping,
         Proved!Overlapping, Frames!Intersection, Proved!Intersection, Frames!Area, Proved!Area,
         Frames!Reaches, Proved!Reaches, Frames!Union, Proved!Union, Frames!Least, Proved!Least,
         Frames!Min, Proved!Min, Frames!Max, Proved!Max
<1>8. /\ \A items, s : Frames!StrongestFirst(items, s) = Proved!StrongestFirst(items, s)
      /\ \A items, s : Frames!ByPlace(items, s) = Proved!ByPlace(items, s)
  BY SameSorting
  DEF Frames!StrongestFirst, Proved!StrongestFirst, Frames!ByPlace, Proved!ByPlace
<1>9. \A d, w : Frames!Clipped(d, w) = Proved!Clipped(d, w)
  BY SameWindows DEF Frames!Clipped, Proved!Clipped
<1>10. \A w, d : Frames!Mapped(w, d) = Proved!Mapped(w, d)
  BY <1>9, SameSorting DEF Frames!Mapped, Proved!Mapped, Frames!Visible, Proved!Visible
<1>11. \A w, d, s : Frames!MapAndMerge(w, d, s) = Proved!MapAndMerge(w, d, s)
  BY <1>7, <1>8, <1>10 DEF Frames!MapAndMerge, Proved!MapAndMerge
<1>12. QED BY <1>4, <1>10, <1>11

LEMMA SameDetections ==
    ASSUME NEW width, NEW height, NEW detections, NEW scale
    PROVE  Frames!DetectionsAccounted(width, height, detections, scale)
              = Proved!DetectionsAccounted(width, height, detections, scale)
<1>1. \A a, b : Frames!Inside(a, b) = Proved!Inside(a, b) BY DEF Frames!Inside, Proved!Inside
<1>2. QED
  BY <1>1, SameMapping, SameWindows
  DEF Frames!DetectionsAccounted, Proved!DetectionsAccounted

LEMMA SameOrders ==
    ASSUME NEW width, NEW height, NEW detections, NEW scale
    PROVE  Frames!OrderIgnored(width, height, detections, scale)
              = Proved!OrderIgnored(width, height, detections, scale)
<1>1. Frames!Reverse(detections) = Proved!Reverse(detections)
  BY DEF Frames!Reverse, Proved!Reverse
<1>2. QED BY <1>1, SameMapping, SameWindows DEF Frames!OrderIgnored, Proved!OrderIgnored

LEMMA SliceInput ==
    ASSUME InputTaken, Taken("slices")
    PROVE  /\ input.width \in Nat \ {0} /\ input.height \in Nat \ {0}
           /\ input.size \in Nat \ {0}
<1>1. input \in Inputs("slices", seed) BY DEF InputTaken, Taken
<1>2. input \in Sizes BY <1>1 DEF Inputs
<1>3. QED BY <1>2 DEF Sizes

\* The frame of the detections is cut into two slices.
LEMMA TwoWindows == 1 .. 2 \subseteq DOMAIN Proved!Windows(6, 3)
<1>1. PICK regular : regular = [i \in 1 .. 2 |-> (i - 1) * 2] OBVIOUS
<1>2. Len(regular) = 2 /\ regular[2] = 2 BY <1>1
<1>3. Proved!AxisPositions(6) = regular
  BY <1>1, <1>2 DEF Proved!AxisPositions, Proved!Last
<1>4. Proved!AxisPositions(3) = <<0>> BY DEF Proved!AxisPositions
<1>5. DOMAIN Proved!Windows(6, 3) = 1 .. (2 * 1)
  BY <1>2, <1>3, <1>4 DEF Proved!Windows
<1>6. QED BY <1>5

LEMMA BoxesAreNumbers ==
    ASSUME NEW k \in Nat
    PROVE  Box(k) \in [x1 : Int, x2 : Int, y1 : Int, y2 : Int]
<1>1. (k % 4) + 1 \in 1 .. 4 OBVIOUS
<1>2. ((k \div 4) % 3) + 1 \in 1 .. 3
  <2>1. k \div 4 \in Nat OBVIOUS
  <2>2. QED BY <2>1
<1>3. PICK x \in Int \X Int : x = <<<<0, 2>>, <<1, 3>>, <<2, 4>>, <<0, 4>>>>[(k % 4) + 1] BY <1>1
<1>4. PICK y \in Int \X Int : y = <<<<0, 2>>, <<1, 4>>, <<3, 4>>>>[((k \div 4) % 3) + 1] BY <1>2
<1>5. Box(k) = [x1 |-> x[1], x2 |-> x[2], y1 |-> y[1], y2 |-> y[2]] BY <1>3, <1>4 DEF Box
<1>6. QED BY <1>5

LEMMA FoundAreDetections ==
    ASSUME NEW k \in 1 .. 60
    PROVE  Found[k] \in Proved!Detections /\ Found[k].slice + 1 \in 1 .. 2
<1>1. k % 2 \in 0 .. 1 /\ k \div 2 \in Nat /\ k \div 4 \in Nat /\ k \in Nat OBVIOUS
<1>2. (k \div 2) % 2 \in 0 .. 1 BY <1>1
<1>3. ASSUME NEW s \in 0 .. 1, NEW c \in Int, NEW n \in Int, NEW m \in Nat
      PROVE  /\ Detection(s, c, n, m) \in Proved!Detections
             /\ Detection(s, c, n, m).slice + 1 \in 1 .. 2
  BY BoxesAreNumbers DEF Detection, Proved!Detections
<1>4. CASE k <= 48
  <2>1. Found[k] = Detection(k % 2, 1, ((k \div 2) % 2) + 1, k \div 4) BY <1>4 DEF Found
  <2>2. PICK s \in 0 .. 1, n \in Int, m \in Nat :
           s = k % 2 /\ n = ((k \div 2) % 2) + 1 /\ m = k \div 4
    BY <1>1, <1>2
  <2>3. Found[k] = Detection(s, 1, n, m) /\ 1 \in Int BY <2>1, <2>2
  <2>4. QED BY <1>3, <2>3, Zenon
<1>5. CASE ~(k <= 48)
  <2>1. Found[k] = Detection(1, 2, 1, k) BY <1>5 DEF Found
  <2>2. 1 \in 0 .. 1 /\ 2 \in Int /\ 1 \in Int /\ k \in Nat OBVIOUS
  <2>3. QED BY <1>3, <2>1, <2>2, Zenon
<1>6. QED BY <1>4, <1>5

LEMMA DetectionInput ==
    ASSUME InputTaken, Taken("detections")
    PROVE  /\ input \in Seq(Proved!Detections)
           /\ \A i \in 1 .. Len(input) : input[i].slice + 1 \in DOMAIN Proved!Windows(6, 3)
<1>1. input \in Inputs("detections", seed) BY DEF InputTaken, Taken
<1>2. DOMAIN Found = 1 .. 60 /\ Len(Found) = 60 BY DEF Found
<1>3. seed \in 1 .. 60 BY <1>1, <1>2 DEF Inputs
<1>4. PICK i \in (seed + 1) .. 60, j \in (seed + 1) .. 60 :
         input = <<Found[seed], Found[i], Found[j]>>
  BY <1>1, <1>2, <1>3 DEF Inputs
<1>5. i \in 1 .. 60 /\ j \in 1 .. 60 BY <1>3
<1>6. PICK a, b, c : a = Found[seed] /\ b = Found[i] /\ c = Found[j] OBVIOUS
<1>7. /\ a \in Proved!Detections /\ b \in Proved!Detections /\ c \in Proved!Detections
      /\ a.slice + 1 \in 1 .. 2 /\ b.slice + 1 \in 1 .. 2 /\ c.slice + 1 \in 1 .. 2
  BY <1>3, <1>5, <1>6, FoundAreDetections
<1>8. input = <<a, b, c>> BY <1>4, <1>6
<1>9. QED BY <1>7, <1>8, TwoWindows

\* sahi.py: the slices cover a frame, and what the merge of detections returns
\* accounts for every one of them, and does not change when the slices of the
\* frame are answered for in the opposite order.
THEOREM SlicesAreAccounted == Spec => []SlicesAccounted
<1>1. InputTaken => SlicesAccounted
  <2>1. ASSUME InputTaken, Taken("slices")
        PROVE  Frames!Covered(input.width, input.height, input.size)
    <3>1. Proved!Covered(input.width, input.height, input.size)
      BY <2>1, SliceInput, Proved!FramesAreSliced
    <3>2. QED BY <3>1, SameCover
  <2>2. ASSUME InputTaken, Taken("detections")
        PROVE  Frames!DetectionsAccounted(6, 3, input, 2)
    <3>1. Proved!DetectionsAccounted(6, 3, input, 2)
      BY <2>2, DetectionInput, Proved!DetectionsAreAccounted
    <3>2. QED BY <3>1, SameDetections
  <2>3. ASSUME InputTaken, Taken("detections")
        PROVE  Frames!OrderIgnored(6, 3, input, 2)
    <3>1. PICK t : t = <<1, 2>> OBVIOUS
    <3>2. t[1] \in Nat /\ t[2] \in Nat /\ t[1] <= t[2] BY <3>1
    <3>3. Proved!OrderIgnored(6, 3, input, 2)
      BY <2>3, <3>1, <3>2, DetectionInput, Proved!DetectionOrderIsIgnored
    <3>4. QED BY <3>3, SameOrders
  <2>4. QED BY <2>1, <2>2, <2>3 DEF SlicesAccounted
<1>2. QED BY <1>1, InputsTaken, PTL

-----------------------------------------------------------------------------
(* Predictions on the disc.                                                *)

LEMMA SamePredictions ==
    ASSUME NEW predictions, NEW provenance
    PROVE  Proved!EvidenceKept(predictions, provenance) => Discs!EvidenceKept(predictions, provenance)
<1>1. \A set : Discs!Min(set) = Proved!Min(set) /\ Discs!Max(set) = Proved!Max(set)
  BY DEF Discs!Min, Proved!Min, Discs!Max, Proved!Max
<1>2. \A set : Discs!Cardinality(set) = Proved!Cardinality(set)
  BY DEF Discs!Cardinality, Proved!Cardinality
<1>3. /\ \A list : Discs!ToSet(list) = Proved!ToSet(list)
      /\ \A list : Discs!Reverse(list) = Proved!Reverse(list)
  BY DEF Discs!ToSet, Proved!ToSet, Discs!Reverse, Proved!Reverse
<1>4. \A pixels : Discs!Box(pixels) = Proved!Box(pixels) /\ Discs!BoxExtent(pixels) = Proved!BoxExtent(pixels)
  BY <1>1 DEF Discs!Box, Proved!Box, Discs!BoxExtent, Proved!BoxExtent
<1>5. \A p : Discs!Raster(p) = Proved!Raster(p)
  BY DEF Discs!Raster, Proved!Raster, Discs!ProvenanceMap, Proved!ProvenanceMap
<1>6. \A p, q : Discs!Footprint(p, q) = Proved!Footprint(p, q)
  BY <1>5 DEF Discs!Footprint, Proved!Footprint
<1>7. \A p, q : Discs!Projected(p, q) = Proved!Projected(p, q)
  BY <1>4, <1>5, <1>6 DEF Discs!Projected, Proved!Projected
<1>8. \A a, b : Discs!SamePlace(a, b) = Proved!SamePlace(a, b)
  BY <1>1, <1>2 DEF Discs!SamePlace, Proved!SamePlace
<1>9. /\ \A items, key : Discs!Sorted(items, key) = Proved!Sorted(items, key)
      /\ \A items, places : Discs!Selected(items, places) = Proved!Selected(items, places)
  <2>1. \A places, key : Discs!Order(places, key) = Proved!Order(places, key)
    BY DEF Discs!Order, Proved!Order, Discs!Rank, Proved!Rank, Discs!Earlier, Proved!Earlier,
           Discs!Before, Proved!Before, Discs!Cardinality, Proved!Cardinality
  <2>2. QED BY <1>2, <2>1 DEF Discs!Sorted, Proved!Sorted, Discs!Selected, Proved!Selected
<1>10. \A items : Discs!Dedup!Merged(items) = Proved!Dedup!Merged(items)
  BY DEF Discs!Dedup!Merged, Proved!Dedup!Merged, Discs!Dedup!Group, Proved!Dedup!Group,
         Discs!Dedup!Pass, Proved!Dedup!Pass, Discs!Dedup!FoldLeft, Proved!Dedup!FoldLeft,
         Discs!Dedup!MapThenFoldSet, Proved!Dedup!MapThenFoldSet, Discs!Dedup!Max,
         Proved!Dedup!Max, Discs!SamePlace, Proved!SamePlace, Discs!MergedPair, Proved!MergedPair,
         Discs!BoxExtent, Proved!BoxExtent, Discs!Box, Proved!Box, Discs!Cardinality,
         Proved!Cardinality, Discs!Min, Proved!Min, Discs!Max, Proved!Max
<1>11. \A items : Discs!Deduplicated(items) = Proved!Deduplicated(items)
  BY <1>1, <1>3, <1>4, <1>9, <1>10
  DEF Discs!Deduplicated, Proved!Deduplicated, Discs!Key, Proved!Key
<1>12. \A items : Discs!Total(items) = Proved!Total(items)
  BY DEF Discs!Total, Proved!Total, Discs!MapThenSumSet, Proved!MapThenSumSet,
         Discs!MapThenFoldSet, Proved!MapThenFoldSet, Discs!BoxExtent, Proved!BoxExtent,
         Discs!Box, Proved!Box, Discs!Min, Proved!Min, Discs!Max, Proved!Max
<1>13. \A p, q : Discs!AllProjected(p, q) = Proved!AllProjected(p, q)
  BY <1>6, <1>7, <1>9 DEF Discs!AllProjected, Proved!AllProjected
<1>14. \A p, q : Discs!Results(p, q) = Proved!Results(p, q)
  BY <1>3, <1>4, <1>5, <1>11, <1>12, <1>13
  DEF Discs!Results, Proved!Results, Discs!Repeated, Proved!Repeated, Discs!Rejection,
      Proved!Rejection
<1>15. PICK given : given = Discs!ToSet(predictions) /\ given = Proved!ToSet(predictions)
  BY <1>3
<1>16. PICK visible :
          /\ visible = {p \in given : \E q \in Discs!Raster(p) : provenance[q] = "acquired"}
          /\ visible = {p \in given : \E q \in Proved!Raster(p) : provenance[q] = "acquired"}
  BY <1>5
<1>17. \A S : UNION {Discs!Raster(p) : p \in S} = UNION {Proved!Raster(p) : p \in S} BY <1>5
<1>18. Discs!Rejection = Proved!Rejection BY DEF Discs!Rejection, Proved!Rejection
<1>19. PICK results : /\ results = Discs!Results(predictions, provenance)
                      /\ results = Proved!Results(predictions, provenance)
  BY <1>14
<1>20. PICK turned : /\ turned = Discs!Results(Discs!Reverse(predictions), provenance)
                     /\ turned = Proved!Results(Proved!Reverse(predictions), provenance)
  BY <1>3, <1>14
<1> DEFINE Behind(r) == {p \in given : p.id \in r.links}
<1>21. SUFFICES ASSUME Proved!EvidenceKept(predictions, provenance), results # {Proved!Rejection}
       PROVE  /\ UNION {r.links : r \in results} = {p.id : p \in visible}
              /\ \A r, s \in results : r # s => r.links \cap s.links = {}
              /\ \A r \in results :
                    /\ r.pixels = {q \in UNION {Discs!Raster(p) : p \in Behind(r)} :
                                      provenance[q] = "acquired"}
                    /\ \A p \in Behind(r) : p.class = r.class /\ p.confidence <= r.confidence
                    /\ \A p \in visible :
                          Discs!SamePlace(r, Discs!Projected(p, provenance)) =>
                              \E s \in results : p.id \in s.links /\ s.confidence >= r.confidence
  <2>1. Proved!EvidenceKept(predictions, provenance) => results = turned
    BY <1>19, <1>20 DEF Proved!EvidenceKept
  <2>2. QED BY <1>15, <1>16, <1>18, <1>19, <1>20, <2>1 DEF Discs!EvidenceKept
<1>22. /\ UNION {r.links : r \in results} = {p.id : p \in visible}
       /\ \A r, s \in results : r # s => r.links \cap s.links = {}
       /\ \A r \in results :
             /\ r.pixels = {q \in UNION {Proved!Raster(p) : p \in Behind(r)} :
                               provenance[q] = "acquired"}
             /\ \A p \in Behind(r) : p.class = r.class /\ p.confidence <= r.confidence
             /\ \A p \in visible :
                   Proved!SamePlace(r, Proved!Projected(p, provenance)) =>
                       \E s \in results : p.id \in s.links /\ s.confidence >= r.confidence
  BY <1>15, <1>16, <1>19, <1>21 DEF Proved!EvidenceKept
<1> HIDE DEF Behind
<1>23. QED BY <1>7, <1>8, <1>17, <1>22

LEMMA PredictedArePredictions ==
    ASSUME NEW k \in 1 .. 40
    PROVE  Predicted[k] \in Proved!Predictions
<1>1. ASSUME NEW m \in Nat PROVE Area(m) \in Int \X Int \X Int \X Int
  <2>1. (m % 4) + 1 \in 1 .. 4 OBVIOUS
  <2>2. PICK x \in Int \X Int : x = <<<<0, 1>>, <<0, 2>>, <<1, 3>>, <<-1, 3>>>>[(m % 4) + 1] BY <2>1
  <2>3. ((m \div 4) % 2) + 1 \in Int
    <3>1. m \div 4 \in Nat OBVIOUS
    <3>2. QED BY <3>1
  <2>4. Area(m) = <<x[1], 0, x[2], ((m \div 4) % 2) + 1>> BY <2>2 DEF Area
  <2>5. QED BY <2>2, <2>3, <2>4
<1>2. ASSUME NEW f \in Int, NEW c \in Int, NEW n \in Int, NEW m \in Nat, NEW id \in Int
      PROVE  Prediction(f, c, n, m, id) \in Proved!Predictions
  BY <1>1 DEF Prediction, Proved!Predictions
<1>3. k % 2 \in 0 .. 1 /\ k \div 2 \in Nat /\ k \div 4 \in Nat /\ k \in Nat OBVIOUS
<1>4. (k \div 2) % 2 \in 0 .. 1 BY <1>3
<1>5. CASE k <= 32
  <2>1. Predicted[k] = Prediction((k % 2) + 1, 1, ((k \div 2) % 2) + 1, k \div 4, k)
    BY <1>5 DEF Predicted
  <2>2. PICK f \in Int, n \in Int, m \in Nat :
           f = (k % 2) + 1 /\ n = ((k \div 2) % 2) + 1 /\ m = k \div 4
    BY <1>3, <1>4
  <2>3. Predicted[k] = Prediction(f, 1, n, m, k) /\ 1 \in Int /\ k \in Int BY <2>1, <2>2
  <2>4. QED BY <1>2, <2>3, Zenon
<1>6. CASE ~(k <= 32)
  <2>1. Predicted[k] = Prediction(2, 2, 1, k, k) BY <1>6 DEF Predicted
  <2>2. 1 \in Int /\ 2 \in Int /\ k \in Int /\ k \in Nat OBVIOUS
  <2>3. QED BY <1>2, <2>1, <2>2, Zenon
<1>7. QED BY <1>5, <1>6

LEMMA PredictionInput ==
    ASSUME InputTaken, Taken("discs")
    PROVE  input.predictions \in Seq(Proved!Predictions)
<1>1. input \in Inputs("discs", seed) BY DEF InputTaken, Taken
<1>2. DOMAIN Predicted = 1 .. 40 /\ Len(Predicted) = 40 BY DEF Predicted
<1>3. seed \in 1 .. 40 BY <1>1, <1>2 DEF Inputs
<1>4. PICK i \in (seed + 1) .. 40, j \in (seed + 2) .. 40 :
         input.predictions = <<Predicted[seed], Predicted[i], Predicted[j]>>
  BY <1>1, <1>2, <1>3 DEF Inputs
<1>5. i \in 1 .. 40 /\ j \in 1 .. 40 BY <1>3
<1>6. PICK a, b, c : a = Predicted[seed] /\ b = Predicted[i] /\ c = Predicted[j] OBVIOUS
<1>7. a \in Proved!Predictions /\ b \in Proved!Predictions /\ c \in Proved!Predictions
  BY <1>3, <1>5, <1>6, PredictedArePredictions
<1>8. input.predictions = <<a, b, c>> BY <1>4, <1>6
<1>9. QED BY <1>7, <1>8

\* projection.py: the results on the disc are what their evidence shows.
THEOREM DiscEvidenceIsKept == Spec => []EvidenceKept
<1>1. InputTaken => EvidenceKept
  <2> SUFFICES ASSUME InputTaken, Taken("discs")
               PROVE  Discs!EvidenceKept(input.predictions, input.provenance)
    BY DEF EvidenceKept
  <2>1. 4 \in Nat /\ 2 \in Nat /\ 2 \in Int OBVIOUS
  <2>2. Proved!EvidenceKept(input.predictions, input.provenance)
    BY <2>1, PredictionInput, Proved!EvidenceIsKept
  <2>3. QED BY <2>2, SamePredictions
<1>2. QED BY <1>1, InputsTaken, PTL

-----------------------------------------------------------------------------
(* The canvas: the definitions of the instance are those of the theorem.   *)

LEMMA SameGeometry ==
    /\ \A n : Render!UpTo(n) = Proved!UpTo(n)
    /\ \A f, a : Render!Origin(f, a) = Proved!Origin(f, a) /\ Render!Size(f, a) = Proved!Size(f, a)
    /\ \A f : Render!Canvas(f) = Proved!Canvas(f)
    /\ \A t : Render!Within(t) = Proved!Within(t)
    /\ \A f, o, p : Render!Valid(f, o, p) = Proved!Valid(f, o, p)
    /\ \A f, s : Render!Tiles(f, s) = Proved!Tiles(f, s)
    /\ \A set : Render!Max(set) = Proved!Max(set) /\ Render!Min(set) = Proved!Min(set)
<1>1. \A set : Render!Min(set) = Proved!Min(set) /\ Render!Max(set) = Proved!Max(set)
  BY DEF Render!Min, Proved!Min, Render!Max, Proved!Max
<1>2. \A n : /\ Render!UpTo(n) = Proved!UpTo(n) /\ Render!Floor(n) = Proved!Floor(n)
             /\ Render!Ceil(n) = Proved!Ceil(n) /\ Render!Extent(n) = Proved!Extent(n)
             /\ Render!ToSet(n) = Proved!ToSet(n)
  BY DEF Render!UpTo, Proved!UpTo, Render!Floor, Proved!Floor, Render!Ceil, Proved!Ceil,
         Render!Extent, Proved!Extent, Render!ToSet, Proved!ToSet
<1>3. \A f, a : Render!Far(f, a) = Proved!Far(f, a) BY <1>2 DEF Render!Far, Proved!Far
<1>4. \A f, a : Render!Origin(f, a) = Proved!Origin(f, a)
  BY <1>1, <1>2 DEF Render!Origin, Proved!Origin
<1>5. \A f, a : Render!Size(f, a) = Proved!Size(f, a)
  BY <1>1, <1>2, <1>3, <1>4 DEF Render!Size, Proved!Size
<1>6. \A f : Render!Canvas(f) = Proved!Canvas(f)
  BY <1>2, <1>5 DEF Render!Canvas, Proved!Canvas
<1>7. \A t : Render!Within(t) = Proved!Within(t) BY DEF Render!Within, Proved!Within
<1>8. \A f, o, p : Render!Valid(f, o, p) = Proved!Valid(f, o, p)
  BY <1>2 DEF Render!Valid, Proved!Valid, Render!SourceAt, Proved!SourceAt
<1>9. \A f, s : Render!Tiles(f, s) = Proved!Tiles(f, s)
  BY DEF Render!Tiles, Proved!Tiles, Render!UpTo, Proved!UpTo, Render!Size, Proved!Size,
         Render!Ceil, Proved!Ceil, Render!Max, Proved!Max, Render!Min, Proved!Min, Render!Far,
         Proved!Far, Render!Extent, Proved!Extent, Render!Origin, Proved!Origin, Render!Floor,
         Proved!Floor, Render!ToSet, Proved!ToSet
<1>10. QED BY <1>1, <1>2, <1>4, <1>5, <1>6, <1>7, <1>8, <1>9

LEMMA SameTile ==
    /\ \A f, o, p, s : Render!SummedWeight(f, o, p, s) = Proved!SummedWeight(f, o, p, s)
    /\ \A f, o, t, m : Render!Tile(f, o, t, m) = Proved!Tile(f, o, t, m)
<1>1. \A f, o, p, s : Render!SummedWeight(f, o, p, s) = Proved!SummedWeight(f, o, p, s)
  BY DEF Render!SummedWeight, Proved!SummedWeight, Render!FoldSet, Proved!FoldSet,
         Render!MapThenFoldSet, Proved!MapThenFoldSet, Render!Weight, Proved!Weight,
         Render!Min, Proved!Min, Render!SourceAt, Proved!SourceAt, Render!Extent, Proved!Extent
<1>2. \A f, o, t, m : Render!Tile(f, o, t, m) = Proved!Tile(f, o, t, m)
  BY DEF Render!Tile, Proved!Tile, Render!Skipped, Proved!Skipped, Render!Bound, Proved!Bound,
         Render!Floor, Proved!Floor, Render!Ceil, Proved!Ceil, Render!Far, Proved!Far,
         Render!Extent, Proved!Extent, Render!Valid, Proved!Valid, Render!SourceAt,
         Proved!SourceAt, Render!UpTo, Proved!UpTo, Render!Within, Proved!Within,
         Render!Cardinality, Proved!Cardinality, Render!Min, Proved!Min,
         Render!SummedWeight, Proved!SummedWeight, Render!FoldSet, Proved!FoldSet,
         Render!MapThenFoldSet, Proved!MapThenFoldSet, Render!Weight, Proved!Weight
<1>3. QED BY <1>1, <1>2

LEMMA SameRendered ==
    ASSUME NEW frames, NEW side, NEW mask
    PROVE  Render!Rendered(frames, side, mask) = Proved!Rendered(frames, side, mask)
<1> DEFINE rendered == {Render!Tile(frames, <<Render!Origin(frames, 1), Render!Origin(frames, 2)>>,
                                    t, mask) : t \in Render!Tiles(frames, side)}
<1>1. rendered = Proved!TilesOf(frames, side, mask)
  BY SameGeometry, SameTile DEF Proved!TilesOf
<1>2. Render!Rendered(frames, side, mask)
         = [map |-> Proved!MapOf(rendered), uncovered |-> Proved!UnfilledOf(rendered),
            maximum |-> Proved!MostOf(rendered)]
  BY DEF Render!Rendered, Proved!MapOf, Proved!UnfilledOf, Proved!MostOf, Proved!Unfilled,
         Render!FoldSet, Proved!FoldSet, Render!MapThenFoldSet, Proved!MapThenFoldSet,
         Render!Cardinality, Proved!Cardinality, Render!Max, Proved!Max
<1>3. Proved!Rendered(frames, side, mask)
         = [map |-> Proved!MapOf(Proved!TilesOf(frames, side, mask)),
            uncovered |-> Proved!UnfilledOf(Proved!TilesOf(frames, side, mask)),
            maximum |-> Proved!MostOf(Proved!TilesOf(frames, side, mask))]
  BY DEF Proved!Rendered, Proved!TilesOf, Proved!MapOf, Proved!UnfilledOf, Proved!MostOf,
         Proved!Unfilled, Proved!FoldSet, Proved!MapThenFoldSet
<1>4. QED BY <1>1, <1>2, <1>3

LEMMA SamePreview ==
    /\ \A f, a : Render!PreviewExtent(f, a) = Proved!PreviewExtent(f, a)
    /\ \A f, t : Render!PreviewBox(f, t) = Proved!PreviewBox(f, t)
<1>1. \A n, d : Render!Rounded(n, d) = Proved!Rounded(n, d)
  BY DEF Render!Rounded, Proved!Rounded
<1>2. \A f, a : Render!PreviewExtent(f, a) = Proved!PreviewExtent(f, a)
  BY <1>1, SameGeometry DEF Render!PreviewExtent, Proved!PreviewExtent
<1>3. QED BY <1>2, SameGeometry DEF Render!PreviewBox, Proved!PreviewBox

LEMMA SameCanvas ==
    ASSUME NEW frames, NEW side, NEW mask
    PROVE  Proved!OneCanvas(frames, side, mask) => Render!OneCanvas(frames, side, mask)
<1>1. \A set : Render!Cardinality(set) = Proved!Cardinality(set)
  BY DEF Render!Cardinality, Proved!Cardinality
<1>2. \A f, o, p : Render!Showing(f, o, p) = Proved!Showing(f, o, p)
  BY SameGeometry DEF Render!Showing, Proved!Showing
<1>3. Render!FramesFit(frames) = Proved!FramesFit(frames)
  BY <1>1, SameGeometry DEF Render!FramesFit, Proved!FramesFit
<1>4. Render!TilesPartition(frames, side) = Proved!TilesPartition(frames, side)
  BY SameGeometry DEF Render!TilesPartition, Proved!TilesPartition
<1>5. \A o, t : Render!TileExact(frames, o, t, mask) <=> Proved!TileExact(frames, o, t, mask)
  <2> TAKE o, t
  <2>1. PICK pixels : pixels = Render!Tile(frames, o, t, mask) /\ pixels = Proved!Tile(frames, o, t, mask)
    BY SameTile
  <2>2. Render!TileExact(frames, o, t, mask)
           <=> \A p \in Render!Within(t) :
                  LET shown == Render!Showing(frames, o, p)
                  IN  /\ pixels[p].coverage = Render!Min({Render!Cardinality(shown), 255})
                      /\ pixels[p].weight = Render!SummedWeight(frames, o, p, shown)
                      /\ pixels[p].provenance = "acquired" <=> shown # {}
                      /\ pixels[p].provenance = "reference fill" <=> shown = {} /\ p \in mask
    BY <2>1 DEF Render!TileExact
  <2>3. Proved!TileExact(frames, o, t, mask)
           <=> \A p \in Proved!Within(t) :
                  LET shown == Proved!Showing(frames, o, p)
                  IN  /\ pixels[p].coverage = Proved!Min({Proved!Cardinality(shown), 255})
                      /\ pixels[p].weight = Proved!SummedWeight(frames, o, p, shown)
                      /\ pixels[p].provenance = "acquired" <=> shown # {}
                      /\ pixels[p].provenance = "reference fill" <=> shown = {} /\ p \in mask
    BY <2>1 DEF Proved!TileExact
  <2>4. QED BY <1>1, <1>2, <2>2, <2>3, SameGeometry, SameTile
<1>6. PICK artifact : /\ artifact = Render!Rendered(frames, side, mask)
                      /\ artifact = Proved!Rendered(frames, side, mask)
  BY SameRendered
<1>7. PICK origins : /\ origins = <<Render!Origin(frames, 1), Render!Origin(frames, 2)>>
                     /\ origins = <<Proved!Origin(frames, 1), Proved!Origin(frames, 2)>>
  BY SameGeometry
<1>8. PICK tiles : tiles = Render!Tiles(frames, side) /\ tiles = Proved!Tiles(frames, side)
  BY SameGeometry
<1>9. PICK boxes : boxes = {Render!PreviewBox(frames, t) : t \in tiles}
                   /\ boxes = {Proved!PreviewBox(frames, t) : t \in tiles}
  BY SamePreview
<1>10. PICK preview :
          /\ preview = Render!UpTo(Render!PreviewExtent(frames, 1)) \X Render!UpTo(Render!PreviewExtent(frames, 2))
          /\ preview = Proved!UpTo(Proved!PreviewExtent(frames, 1)) \X Proved!UpTo(Proved!PreviewExtent(frames, 2))
  BY SamePreview, SameGeometry
<1>11. PICK canvas : canvas = Render!Canvas(frames) /\ canvas = Proved!Canvas(frames)
  BY SameGeometry
<1>12. \A b : Render!Within(b) = Proved!Within(b) BY SameGeometry
<1>13. SUFFICES ASSUME Proved!OneCanvas(frames, side, mask)
                PROVE  Render!OneCanvas(frames, side, mask)
  OBVIOUS
<1>14. /\ Proved!FramesFit(frames) /\ Proved!TilesPartition(frames, side)
       /\ \A t \in tiles : Proved!TileExact(frames, origins, t, mask)
  BY <1>7, <1>8, <1>13 DEF Proved!OneCanvas
<1>15. /\ DOMAIN artifact.map = canvas
       /\ \A p \in canvas :
             /\ artifact.map[p].coverage = Proved!Cardinality(Proved!Showing(frames, origins, p))
             /\ artifact.map[p].weight > 0 <=> Proved!Showing(frames, origins, p) # {}
  BY <1>6, <1>7, <1>11, <1>13 DEF Proved!OneCanvas
<1>16. /\ artifact.uncovered
             = Proved!Cardinality({p \in canvas : Proved!Showing(frames, origins, p) = {} /\ p \notin mask})
       /\ artifact.maximum
             = Proved!Max({Proved!Cardinality(Proved!Showing(frames, origins, p)) : p \in canvas})
  BY <1>6, <1>7, <1>11, <1>13 DEF Proved!OneCanvas
<1>17. /\ UNION {Proved!Within(b) : b \in boxes} = preview
       /\ {} \notin {Proved!Within(b) : b \in boxes}
  BY <1>8, <1>9, <1>10, <1>13 DEF Proved!OneCanvas
<1>18. /\ Render!FramesFit(frames) /\ Render!TilesPartition(frames, side)
       /\ \A t \in tiles : Render!TileExact(frames, origins, t, mask)
  BY <1>3, <1>4, <1>5, <1>14
<1>19. \A p \in canvas :
          /\ artifact.map[p].coverage = Render!Cardinality(Render!Showing(frames, origins, p))
          /\ artifact.map[p].weight > 0 <=> Render!Showing(frames, origins, p) # {}
  BY <1>1, <1>2, <1>15
<1>20. /\ artifact.uncovered
             = Render!Cardinality({p \in canvas : Render!Showing(frames, origins, p) = {} /\ p \notin mask})
       /\ artifact.maximum
             = Render!Max({Render!Cardinality(Render!Showing(frames, origins, p)) : p \in canvas})
  BY <1>1, <1>2, <1>16, SameGeometry
<1>21. /\ UNION {Render!Within(b) : b \in boxes} = preview
       /\ {} \notin {Render!Within(b) : b \in boxes}
  BY <1>12, <1>17
<1>22. QED
  BY <1>6, <1>7, <1>8, <1>9, <1>10, <1>11, <1>15, <1>18, <1>19, <1>20, <1>21
  DEF Render!OneCanvas

LEMMA CanvasInput ==
    ASSUME InputTaken, Taken("canvas")
    PROVE  /\ input.frames \in Seq(Int \X Int) /\ Len(input.frames) = 3
           /\ input.frames # <<>> /\ input.side \in Nat \ {0}
<1>1. input \in Inputs("canvas", seed) BY DEF InputTaken, Taken
<1>2. DOMAIN Shifts = 1 .. 20 /\ Len(Shifts) = 20 BY DEF Shifts
<1>3. seed \in 1 .. 20 BY <1>1, <1>2 DEF Inputs
<1>4. PICK i \in seed .. 20, j \in {1, 7} :
         input.frames = <<Shifts[seed], Shifts[i], Shifts[j]>> /\ input.side \in 1 .. 3
  BY <1>1, <1>2, <1>3 DEF Inputs
<1>5. i \in 1 .. 20 /\ j \in 1 .. 20 BY <1>3
<1>6. ASSUME NEW k \in 1 .. 20 PROVE Shifts[k] \in Int \X Int
  <2>1. (k % 5) + 1 \in 1 .. 5 /\ (k % 4) + 1 \in 1 .. 4 OBVIOUS
  <2>2. PICK x \in Int : x = <<0, 1, 3, 6, 9>>[(k % 5) + 1] BY <2>1
  <2>3. PICK y \in Int : y = <<0, 1, 3, 5>>[(k % 4) + 1] BY <2>1
  <2>4. QED BY <2>2, <2>3 DEF Shifts
<1>7. PICK a, b, c : a = Shifts[seed] /\ b = Shifts[i] /\ c = Shifts[j] OBVIOUS
<1>8. a \in Int \X Int /\ b \in Int \X Int /\ c \in Int \X Int BY <1>3, <1>5, <1>6, <1>7
<1>9. input.frames = <<a, b, c>> BY <1>4, <1>7
<1>10. QED BY <1>4, <1>8, <1>9

\* rendering.py, preview_center.py: whatever the size of the tiles, they add up
\* to one canvas, and of its preview only the opening in the middle is filled.
THEOREM CanvasesAreOne == Spec => []CanvasAccounted
<1>1. InputTaken => CanvasAccounted
  <2>1. ASSUME InputTaken, Taken("canvas")
        PROVE  Render!OneCanvas(input.frames, input.side, input.mask)
    <3>1. Proved!Sources BY DEF Proved!Sources
    <3>2. PICK n \in Nat : n = 3 /\ n = Len(input.frames) BY <2>1, CanvasInput
    <3>3. Len(input.frames) <= 255
      <4>1. n <= 255 BY ONLY n \in Nat, <3>2
      <4>2. QED BY <3>2, <4>1
    <3>4. Proved!OneCanvas(input.frames, input.side, input.mask)
      BY <2>1, <3>1, <3>3, 4 \in Nat, CanvasInput, Proved!CanvasIsOne
    <3>5. QED BY <3>4, SameCanvas
  <2>2. QED BY <2>1, OpeningFilled DEF CanvasAccounted
<1>2. QED BY <1>1, InputsTaken, PTL

-----------------------------------------------------------------------------
(* The cycle of joins, judged, and its center.                             *)

\* The center of the joins.
LEMMA SameMedian ==
    /\ \A items, places : Calibration!Selected(items, places) = Proved!Selected(items, places)
    /\ \A values : Calibration!Median(values) = Proved!Median(values)
    /\ \A distances : Calibration!Limit(distances) = Proved!Limit(distances)
<1>1. \A set : Calibration!Cardinality(set) = Proved!Cardinality(set)
  BY DEF Calibration!Cardinality, Proved!Cardinality
<1>2. \A places, key : Calibration!Order(places, key) = Proved!Order(places, key)
  BY DEF Calibration!Order, Proved!Order, Calibration!Rank, Proved!Rank,
         Calibration!Earlier, Proved!Earlier, Calibration!Before, Proved!Before,
         Calibration!Cardinality, Proved!Cardinality
<1>3. \A items, places : Calibration!Selected(items, places) = Proved!Selected(items, places)
  BY <1>1, <1>2 DEF Calibration!Selected, Proved!Selected
<1>4. \A items, key : Calibration!Sorted(items, key) = Proved!Sorted(items, key)
  BY <1>1, <1>2 DEF Calibration!Sorted, Proved!Sorted
<1>5. \A values : Calibration!Median(values) = Proved!Median(values)
  BY <1>4 DEF Calibration!Median, Proved!Median
<1>6. \A set : Calibration!Min(set) = Proved!Min(set) /\ Calibration!Max(set) = Proved!Max(set)
  BY DEF Calibration!Min, Proved!Min, Calibration!Max, Proved!Max
<1>7. \A distances : Calibration!Limit(distances) = Proved!Limit(distances)
  BY <1>5, <1>6 DEF Calibration!Limit, Proved!Limit
<1>8. QED BY <1>3, <1>5, <1>7

LEMMA SameCalibrated ==
    ASSUME NEW attempts
    PROVE  Calibration!Calibrated(attempts) = Proved!Calibrated(attempts)
<1> DEFINE found == Calibration!Selected(attempts,
                        {i \in DOMAIN attempts : Calibration!Candidate(attempts[i])})
           middle == Calibration!Median([i \in DOMAIN found |-> found[i].center])
           limit == Calibration!Limit(
                        [i \in DOMAIN found |-> Calibration!Absolute(found[i].center - middle)])
           retained == Calibration!Selected(found,
                        {i \in DOMAIN found :
                            Calibration!Absolute(found[i].center - middle) <= limit})
           center == Calibration!Median([i \in DOMAIN retained |-> retained[i].center])
           spread == Calibration!Max({Calibration!Absolute(a.center - center) :
                                          a \in Calibration!ToSet(retained)})
<1> DEFINE foundP == Proved!Selected(attempts,
                        {i \in DOMAIN attempts : Proved!Candidate(attempts[i])})
           middleP == Proved!Median([i \in DOMAIN foundP |-> foundP[i].center])
           limitP == Proved!Limit(
                        [i \in DOMAIN foundP |-> Proved!Absolute(foundP[i].center - middleP)])
           retainedP == Proved!Selected(foundP,
                        {i \in DOMAIN foundP :
                            Proved!Absolute(foundP[i].center - middleP) <= limitP})
           centerP == Proved!Median([i \in DOMAIN retainedP |-> retainedP[i].center])
           spreadP == Proved!Max({Proved!Absolute(a.center - centerP) : a \in Proved!ToSet(retainedP)})
<1>1. /\ \A a : Calibration!Candidate(a) <=> Proved!Candidate(a)
      /\ \A n : Calibration!Absolute(n) = Proved!Absolute(n)
      /\ \A list : Calibration!ToSet(list) = Proved!ToSet(list)
      /\ \A set : Calibration!Max(set) = Proved!Max(set)
      /\ Calibration!Failure = Proved!Failure
  BY DEF Calibration!Candidate, Proved!Candidate, Calibration!Absolute, Proved!Absolute,
         Calibration!ToSet, Proved!ToSet, Calibration!Failure, Proved!Failure,
         Calibration!Max, Proved!Max
<1>2. Calibration!Calibrated(attempts)
         = IF Len(attempts) # 8 \/ Len(found) < 5 THEN Calibration!Failure
           ELSE IF Len(retained) < 5 THEN Calibration!Failure
           ELSE [failed |-> FALSE, center |-> center, accepted |-> Calibration!ToSet(retained),
                 spread |-> spread]
  BY DEF Calibration!Calibrated
<1>3. Proved!Calibrated(attempts)
         = IF Len(attempts) # 8 \/ Len(foundP) < 5 THEN Proved!Failure
           ELSE IF Len(retainedP) < 5 THEN Proved!Failure
           ELSE [failed |-> FALSE, center |-> centerP, accepted |-> Proved!ToSet(retainedP),
                 spread |-> spreadP]
  BY DEF Proved!Calibrated
<1>4. found = foundP BY <1>1, SameMedian
<1> HIDE DEF found, foundP
<1>5. middle = middleP BY <1>4, SameMedian
<1> HIDE DEF middle, middleP
<1>6. limit = limitP BY <1>1, <1>4, <1>5, SameMedian
<1> HIDE DEF limit, limitP
<1>7. retained = retainedP BY <1>1, <1>4, <1>5, <1>6, SameMedian
<1> HIDE DEF retained, retainedP
<1>8. center = centerP BY <1>7, SameMedian
<1> HIDE DEF center, centerP
<1>9. spread = spreadP BY <1>1, <1>7, <1>8
<1> HIDE DEF spread, spreadP
<1>10. QED BY <1>1, <1>2, <1>3, <1>4, <1>7, <1>8, <1>9

LEMMA SameAgreed ==
    ASSUME NEW attempts
    PROVE  Proved!Agreed(attempts) => Calibration!Agreed(attempts)
<1>1. PICK result : result = Calibration!Calibrated(attempts) /\ result = Proved!Calibrated(attempts)
  BY SameCalibrated
<1>2. PICK found : /\ found = {a \in Calibration!ToSet(attempts) : Calibration!Candidate(a)}
                   /\ found = {a \in Proved!ToSet(attempts) : Proved!Candidate(a)}
  BY DEF Calibration!ToSet, Proved!ToSet, Calibration!Candidate, Proved!Candidate
<1>3. \A set : Calibration!Cardinality(set) = Proved!Cardinality(set)
  BY DEF Calibration!Cardinality, Proved!Cardinality
<1> SUFFICES ASSUME Proved!Agreed(attempts) PROVE Calibration!Agreed(attempts)
  OBVIOUS
<1>4. ASSUME ~result.failed
      PROVE  /\ result.accepted \subseteq found
             /\ Calibration!Cardinality(result.accepted) >= 5
             /\ result.spread <= 2 * 500
  BY <1>1, <1>2, <1>3, <1>4 DEF Proved!Agreed
<1>5. ASSUME NEW a \in found,
             NEW near, near = {b \in found : b.center \in a.center..(a.center + 50)},
             2 * Calibration!Cardinality(near) > Calibration!Cardinality(found),
             Calibration!Cardinality(near) >= 5, Len(attempts) = 8
      PROVE  /\ ~result.failed
             /\ near \subseteq result.accepted
             /\ result.center \in a.center..(a.center + 50)
  BY <1>1, <1>2, <1>3, <1>5 DEF Proved!Agreed
<1>6. QED BY <1>1, <1>2, <1>4, <1>5 DEF Calibration!Agreed

LEMMA CentersInput ==
    ASSUME InputTaken, Taken("centers")
    PROVE  \E S : /\ input \in Seq(S) /\ Proved!IsInjective(input)
                  /\ \A a \in Proved!ToSet(input) : Proved!Candidate(a) => a.center \in Int
<1>1. input \in Inputs("centers", seed) BY DEF InputTaken, Taken
<1>2. PICK kinds : input = [i \in 1..8 |-> Calibration!Attempted(i, Fit(kinds[i]))]
  <2>1. PICK a : input = [i \in 1..8 |-> Calibration!Attempted(i,
                             Fit(IF i <= 4 THEN Good[seed][i] ELSE a[i - 4]))]
    BY <1>1 DEF Inputs
  <2>2. PICK kinds : kinds = [i \in 1..8 |-> IF i <= 4 THEN Good[seed][i] ELSE a[i - 4]] OBVIOUS
  <2>3. QED BY <2>1, <2>2
<1>3. \A k : Fit(k).center \in Int
  <2>1. DOMAIN Centers = 1..8 /\ \A k \in 1..8 : Centers[k] \in Int BY DEF Centers
  <2>2. QED BY <2>1 DEF Fit
<1>4. ASSUME NEW i \in 1..8
      PROVE  /\ input[i].pair = i
             /\ Proved!Candidate(input[i]) => input[i].center \in Int
  <2>1. PICK fit : fit = Fit(kinds[i]) /\ fit.center \in Int BY <1>3
  <2>2. input[i] = Calibration!Attempted(i, fit) BY <1>2, <2>1
  <2>3. QED BY <2>1, <2>2 DEF Calibration!Attempted, Proved!Candidate
<1>5. PICK n \in Nat : n = 8 OBVIOUS
<1>6. PICK S : S = {input[i] : i \in 1..8} OBVIOUS
<1>7. input \in [1..n -> S] BY <1>2, <1>5, <1>6
<1>8. input \in Seq(S) BY <1>7, Proved!SeqDef
<1>9. DOMAIN input = 1..8 BY <1>2
<1>10. Proved!IsInjective(input) BY <1>4, <1>9 DEF Proved!IsInjective
<1>11. \A a \in Proved!ToSet(input) : Proved!Candidate(a) => a.center \in Int
  BY <1>4, <1>9 DEF Proved!ToSet
<1>12. QED BY <1>8, <1>10, <1>11

\* The judgement of a cycle.
LEMMA SameEvidence ==
    /\ \A list : Joins!ToSet(list) = Proved!ToSet(list)
    /\ \A set : Joins!Cardinality(set) = Proved!Cardinality(set)
    /\ \A list : Joins!IsInjective(list) <=> Proved!IsInjective(list)
    /\ \A c : Joins!Dense(c) = Proved!Dense(c)
    /\ \A join : Joins!Best(join) = Proved!Best(join)
    /\ \A points : Joins!Ordered(points) = Proved!Ordered(points)
    /\ \A points : Joins!Divided(points) = Proved!Divided(points)
<1>1. \A list : Joins!ToSet(list) = Proved!ToSet(list) BY DEF Joins!ToSet, Proved!ToSet
<1>2. \A set : Joins!Cardinality(set) = Proved!Cardinality(set)
  BY DEF Joins!Cardinality, Proved!Cardinality
<1>3. \A list : Joins!IsInjective(list) <=> Proved!IsInjective(list)
  BY DEF Joins!IsInjective, Proved!IsInjective
<1>4. \A c : Joins!Dense(c) = Proved!Dense(c) BY DEF Joins!Dense, Proved!Dense
<1>5. \A join : Joins!Best(join) = Proved!Best(join)
  BY DEF Joins!Best, Proved!Best, Joins!FoldLeft, Proved!FoldLeft,
         Joins!MapThenFoldSet, Proved!MapThenFoldSet, Joins!Max, Proved!Max,
         Joins!Dense, Proved!Dense
<1>6. \A places, key : Joins!Order(places, key) = Proved!Order(places, key)
  BY DEF Joins!Order, Proved!Order, Joins!Rank, Proved!Rank, Joins!Earlier, Proved!Earlier,
         Joins!Before, Proved!Before, Joins!Cardinality, Proved!Cardinality
<1>7. \A items, key : Joins!Sorted(items, key) = Proved!Sorted(items, key)
  BY <1>6 DEF Joins!Sorted, Proved!Sorted
<1>8. \A points : Joins!Ordered(points) = Proved!Ordered(points)
  BY <1>7 DEF Joins!Ordered, Proved!Ordered
<1>9. \A list, maximum : Joins!Bounded(list, maximum) = Proved!Bounded(list, maximum)
  BY DEF Joins!Bounded, Proved!Bounded
<1>10. \A points : Joins!HeldOut(points) = Proved!HeldOut(points)
  BY DEF Joins!HeldOut, Proved!HeldOut
<1>11. \A points : Joins!Fitted(points) = Proved!Fitted(points)
  BY <1>10 DEF Joins!Fitted, Proved!Fitted
<1>12. Joins!Refused = Proved!Refused BY DEF Joins!Refused, Proved!Refused
<1>13. \A points : Joins!Divided(points) = Proved!Divided(points)
  BY <1>9, <1>10, <1>11, <1>12 DEF Joins!Divided, Proved!Divided
<1>14. QED BY <1>1, <1>2, <1>3, <1>4, <1>5, <1>8, <1>13

LEMMA SameReport ==
    /\ \A joins : Joins!Evidence(joins) = Proved!Evidence(joins)
    /\ \A joins, solver : Joins!Reported(joins, solver) = Proved!Reported(joins, solver)
    /\ \A join : Joins!Reversed(join) = Proved!Reversed(join)
<1>1. Joins!Refused = Proved!Refused BY DEF Joins!Refused, Proved!Refused
<1>2. \A points : Joins!Split(points) = Proved!Split(points)
  BY <1>1, SameEvidence DEF Joins!Split, Proved!Split
<1>3. \A join : Joins!Registered(join) = Proved!Registered(join)
  BY <1>1, <1>2, SameEvidence DEF Joins!Registered, Proved!Registered
<1>4. \A joins : Joins!Evidence(joins) = Proved!Evidence(joins)
  BY <1>1, <1>3 DEF Joins!Evidence, Proved!Evidence
<1>5. \A e, join : Joins!Passed(e, join) <=> Proved!Passed(e, join)
  BY SameEvidence DEF Joins!Passed, Proved!Passed
<1>6. \A e, joins, solver : Joins!Solved(e, joins, solver) = Proved!Solved(e, joins, solver)
  BY <1>5 DEF Joins!Solved, Proved!Solved
<1>7. \A joins, solver : Joins!Reported(joins, solver) = Proved!Reported(joins, solver)
  BY <1>1, <1>4, <1>6, SameEvidence DEF Joins!Reported, Proved!Reported
<1>8. \A join : Joins!Reversed(join) = Proved!Reversed(join)
  BY DEF Joins!Reversed, Proved!Reversed, Joins!Turned, Proved!Turned,
         Joins!Reverse, Proved!Reverse
<1>9. QED BY <1>4, <1>7, <1>8

LEMMA SameJudged ==
    ASSUME NEW joins, NEW solver
    PROVE  Proved!Judged(joins, solver) => Joins!Judged(joins, solver)
<1>1. \A points : Joins!FairlyDivided(points) <=> Proved!FairlyDivided(points)
  BY SameEvidence DEF Joins!FairlyDivided, Proved!FairlyDivided, Joins!Last, Proved!Last
<1>2. \A points : Joins!Arranged(points) <=> Proved!Arranged(points)
  BY SameEvidence DEF Joins!Arranged, Proved!Arranged
<1>3. \A points, fit, p, q : Joins!Between(points, fit, p, q) = Proved!Between(points, fit, p, q)
  BY SameEvidence DEF Joins!Between, Proved!Between, Joins!PlaceIn, Proved!PlaceIn
<1>4. Joins!ApprovedByHeldOut(joins, solver) <=> Proved!ApprovedByHeldOut(joins, solver)
  BY SameEvidence, SameReport DEF Joins!ApprovedByHeldOut, Proved!ApprovedByHeldOut
<1>5. QED
  BY <1>1, <1>2, <1>3, <1>4, SameEvidence, SameReport DEF Joins!Judged, Proved!Judged

\* The correspondences of the samples are all different.
LEMMA PointsAre ==
    ASSUME NEW n \in 18..31
    PROVE  /\ Points(n) \in Seq(Proved!Pairs) /\ Proved!IsInjective(Points(n))
           /\ \A i \in 1..n : Points(n)[i] \in Proved!Pairs
<1>1. PICK points : points = Points(n) OBVIOUS
<1>2. points = [i \in 1..n |-> <<(7 * i) % 11, ((7 * i) \div 11) % 5>>]
  BY <1>1 DEF Points
<1>3. ASSUME NEW i \in 1..n
      PROVE  \E q \in Int, u \in Int, x \in Int, y \in Int :
                points[i] = <<x, y>> /\ 7 * i = 11 * q + x /\ q = 5 * u + y
  <2>1. PICK a \in Nat : a = 7 * i OBVIOUS
  <2>2. PICK q \in Nat, x \in Int : q = a \div 11 /\ x = a % 11 /\ a = 11 * q + x BY <2>1
  <2>3. PICK u \in Nat, y \in Int : u = q \div 5 /\ y = q % 5 /\ q = 5 * u + y BY <2>2
  <2>4. points[i] = <<x, y>> BY <1>2, <2>1, <2>2, <2>3
  <2>5. QED BY <2>1, <2>2, <2>3, <2>4
<1>4. \A i \in 1..n : points[i] \in Proved!Pairs BY <1>3 DEF Proved!Pairs
<1>5. DOMAIN points = 1..n BY <1>2
<1>6. points \in Seq(Proved!Pairs)
  <2>1. points \in [1..n -> Proved!Pairs] BY <1>2, <1>4
  <2>2. n \in Nat OBVIOUS
  <2>3. QED BY <2>1, <2>2, Proved!SeqDef
<1>7. ASSUME NEW i \in 1..n, NEW j \in 1..n, points[i] = points[j] PROVE i = j
  <2>1. PICK q \in Int, u \in Int, x \in Int, y \in Int :
           points[i] = <<x, y>> /\ 7 * i = 11 * q + x /\ q = 5 * u + y
    BY <1>3
  <2>2. PICK r \in Int, v \in Int, z \in Int, w \in Int :
           points[j] = <<z, w>> /\ 7 * j = 11 * r + z /\ r = 5 * v + w
    BY <1>3
  <2>3. x = z /\ y = w
    <3>1. <<x, y>> = <<z, w>> BY <1>7, <2>1, <2>2
    <3>2. QED BY ONLY <3>1
  <2>4. i \in Int /\ j \in Int /\ 1 <= i /\ i <= 31 /\ 1 <= j /\ j <= 31 OBVIOUS
  <2>5. 7 * i = 55 * u + 11 * y + x /\ 7 * j = 55 * v + 11 * y + x BY <2>1, <2>2, <2>3
  <2>6. QED BY ONLY <2>4, <2>5, u \in Int, v \in Int, x \in Int, y \in Int
<1>8. Proved!IsInjective(points) BY <1>5, <1>7 DEF Proved!IsInjective
<1>9. QED BY <1>1, <1>4, <1>6, <1>8

LEMMA JoinIs ==
    ASSUME NEW n \in 18..31, NEW other \in 0..2, NEW miss \in 0..n
    PROVE  Join(n, other, miss) \in Proved!Joins
<1>1. PICK m \in 18..31 : m = 22 OBVIOUS
<1>2. PICK a, b : a = Points(n) /\ b = Points(m) OBVIOUS
<1>3. /\ a \in Seq(Proved!Pairs) /\ Proved!IsInjective(a)
      /\ b \in Seq(Proved!Pairs) /\ Proved!IsInjective(b)
      /\ \A i \in 1..n : a[i] \in Proved!Pairs
  BY <1>2, PointsAre
<1>4. PICK c, d : /\ c = [corners |-> 40, retained |-> n, points |-> a]
                  /\ d = [corners |-> IF other = 2 THEN 39 ELSE 40, retained |-> 25, points |-> b]
  OBVIOUS
<1>5. c \in Proved!Channels /\ d \in Proved!Channels BY <1>3, <1>4 DEF Proved!Channels
<1>6. PICK list : list = <<c, d>> OBVIOUS
<1>7. list \in Seq(Proved!Channels) BY <1>5, <1>6
<1>8. PICK missed : missed = IF miss = 0 THEN {} ELSE {a[miss]} OBVIOUS
<1>9. missed \in SUBSET Proved!Pairs BY <1>3, <1>8
<1>10. Join(n, other, miss)
          = [matches |-> 12, inliers |-> IF other = 1 THEN 11 ELSE 12,
             channels |-> list, missed |-> missed]
  BY <1>1, <1>2, <1>4, <1>6, <1>8 DEF Join
<1>11. QED BY <1>7, <1>9, <1>10 DEF Proved!Joins

LEMMA JoinsInput ==
    ASSUME InputTaken, Taken("joins")
    PROVE  input.joins \in Seq(Proved!Joins)
<1>1. input \in Inputs("joins", seed) BY DEF InputTaken, Taken
<1>2. seed \in 18..31 BY <1>1 DEF Inputs
<1>3. \E a, b \in Proved!Joins : input.joins = <<a, b>>
  <2>1. CASE input.joins = <<Join(seed, 0, 0), Join(23, 0, 0)>>
    <3>1. 23 \in 18..31 /\ 0 \in 0..2 /\ 0 \in 0..23 /\ 0 \in 0..seed BY <1>2
    <3>2. QED BY <1>2, <2>1, <3>1, JoinIs
  <2>2. CASE input.joins # <<Join(seed, 0, 0), Join(23, 0, 0)>>
    <3>1. PICK o \in 0..2, m \in (0..6) \cup {seed}, n \in {20, 26}, k \in {0, 6} :
             input.joins = <<Join(seed, o, m), Join(n, 0, k)>>
      BY <1>1, <1>2, <2>2 DEF Inputs
    <3>2. m \in 0..seed /\ n \in 18..31 /\ k \in 0..n /\ 0 \in 0..2 BY <1>2
    <3>3. QED BY <1>2, <3>1, <3>2, JoinIs
  <2>3. QED BY <2>1, <2>2
<1>4. QED BY <1>3

\* dense_evidence.py, projective.py and calibration.py: the joins of a cycle are
\* judged by what was not fitted, and their center is the one that most agree on.
THEOREM CyclesJudged == Spec => []CycleJudged
<1>1. InputTaken => CycleJudged
  <2>1. ASSUME InputTaken, Taken("joins") PROVE Joins!Judged(input.joins, input.solver)
    <3>1. Proved!Limits BY DEF Proved!Limits
    <3>2. 2 \in Nat \ {0} /\ 5 \in Nat OBVIOUS
    <3>3. Proved!Judged(input.joins, input.solver)
      BY <2>1, <3>1, <3>2, JoinsInput, Proved!CyclesAreJudged
    <3>4. QED BY <3>3, SameJudged
  <2>2. ASSUME InputTaken, Taken("centers") PROVE Calibration!Agreed(input)
    <3>1. PICK S : /\ input \in Seq(S) /\ Proved!IsInjective(input)
                   /\ \A a \in Proved!ToSet(input) : Proved!Candidate(a) => a.center \in Int
      BY <2>2, CentersInput
    <3>2. 50 \in Nat /\ 500 \in Nat /\ 50 <= 500 /\ 5 \in Nat \ {0} OBVIOUS
    <3>3. Proved!Agreed(input) BY <3>1, <3>2, Proved!CentersAgree
    <3>4. QED BY <3>3, SameAgreed
  <2>3. QED BY <2>1, <2>2 DEF CycleJudged
<1>2. QED BY <1>1, InputsTaken, PTL

===============================================================================
