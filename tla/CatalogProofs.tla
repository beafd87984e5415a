----------------------------- MODULE CatalogProofs -----------------------------
(***************************************************************************)
(* Theorems about Catalog: the files on disk and the rows of the database  *)
(* agree, for any number of models, request threads, revisions, failing    *)
(* transactions and crashes.                                               *)
(***************************************************************************)
EXTENDS Catalog, TLAPS

-----------------------------------------------------------------------------
(* Types.                                                                  *)

\* What one part of the catalogue leaves alone.
LEMMA HandlerFrame ==
    ASSUME NEW h \in Handlers, Handler(h)
    PROVE  UNCHANGED <<model, files, jobAt, jobOn, crashed>>
<1> USE DEF rows, disk, requests, job, history
<1>1. ASSUME NEW c \in ModelChoices, CreateRead(h, c)
      PROVE  UNCHANGED <<model, files, jobAt, jobOn, crashed>>
  BY <1>1 DEF CreateRead
<1>2. CASE CreateSave(h) BY <1>2 DEF CreateSave
<1>3. CASE CreateInsert(h) BY <1>3 DEF CreateInsert
<1>4. CASE CreateFails(h) BY <1>4 DEF CreateFails
<1>5. ASSUME NEW r \in Revisions, ValidateRead(h, r)
      PROVE  UNCHANGED <<model, files, jobAt, jobOn, crashed>>
  BY <1>5 DEF ValidateRead
<1>6. ASSUME NEW r \in Revisions, ActivateRead(h, r)
      PROVE  UNCHANGED <<model, files, jobAt, jobOn, crashed>>
  BY <1>6 DEF ActivateRead
<1>7. CASE ValidateWrite(h) BY <1>7 DEF ValidateWrite
<1>8. CASE ActivateWrite(h) BY <1>8 DEF ActivateWrite
<1>9. CASE TransitionFails(h) BY <1>9 DEF TransitionFails
<1>10. QED BY <1>1, <1>2, <1>3, <1>4, <1>5, <1>6, <1>7, <1>8, <1>9 DEF Handler

LEMMA WorkerFrame ==
    ASSUME Worker
    PROVE  UNCHANGED <<pipe, uses, contract, at, rev, with, other, crashed>>
BY DEF Worker, ImportCheck, ArchiveRead, DeleteRead, ImportPlace, ImportRegister,
       ImportFails, ArchiveWrite, DeleteMove, DeleteDrop, DeleteFails,
       rows, disk, requests, job, history

LEMMA RequestTyped ==
    ASSUME TypeOK, NEW h \in Handlers, NEW where \in HandlerAts,
           NEW r \in Revisions \cup {None}, NEW c \in ModelChoices,
           NEW o \in Revisions \cup {None},
           Request(h, where, r, c, o),
           where # "idle", r # None
    PROVE  /\ at' \in [Handlers -> HandlerAts]
           /\ rev' \in [Handlers -> Revisions \cup {None}]
           /\ with' \in [Handlers -> ModelChoices]
           /\ other' \in [Handlers -> Revisions \cup {None}]
           /\ \A k \in Handlers : at'[k] = "idle" <=> rev'[k] = None
BY DEF TypeOK, Request

LEMMA AnswerTyped ==
    ASSUME TypeOK, NEW h \in Handlers, Answer(h)
    PROVE  /\ at' \in [Handlers -> HandlerAts]
           /\ rev' \in [Handlers -> Revisions \cup {None}]
           /\ with' \in [Handlers -> ModelChoices]
           /\ other' \in [Handlers -> Revisions \cup {None}]
           /\ \A k \in Handlers : at'[k] = "idle" <=> rev'[k] = None
BY DEF TypeOK, Answer, Request, HandlerAts, ModelChoices

LEMMA TypeInit == Init => TypeOK
<1> SUFFICES ASSUME Init PROVE TypeOK
  OBVIOUS
<1> USE DEF Init
<1>1. /\ model \in [Models -> ModelStates]
      /\ files \in [Models -> BOOLEAN]
      /\ pipe \in [Revisions -> PipeStates]
  BY DEF ModelStates, PipeStates
<1>2. /\ uses \in [Revisions -> ModelChoices]
      /\ contract \in [Revisions -> ModelChoices \cup {NoFile}]
  BY DEF ModelChoices
<1>3. /\ at \in [Handlers -> HandlerAts]
      /\ rev \in [Handlers -> Revisions \cup {None}]
      /\ with \in [Handlers -> ModelChoices]
      /\ other \in [Handlers -> Revisions \cup {None}]
  BY DEF HandlerAts, ModelChoices
<1>4. jobAt \in JobAts /\ jobOn \in Models \cup {None} /\ crashed \in BOOLEAN
  BY DEF JobAts
<1>5. breaks \in 0..MaxBreaks BY CatalogAssumption
<1>6. /\ \A h \in Handlers : at[h] = "idle" <=> rev[h] = None
      /\ jobAt = "idle" <=> jobOn = None
  OBVIOUS
<1>7. QED BY <1>1, <1>2, <1>3, <1>4, <1>5, <1>6 DEF TypeOK

\* A step of a request thread keeps the types.
LEMMA TypeHandler ==
    ASSUME TypeOK, NEW h \in Handlers, Handler(h)
    PROVE  TypeOK'
<1> USE CatalogAssumption DEF rows, disk, requests, history
<1>1. ASSUME NEW c \in ModelChoices, CreateRead(h, c) PROVE TypeOK'
  <2>1. PICK n \in Revisions : Request(h, "save", n, c, None)
    BY <1>1 DEF CreateRead
  <2>2. QED
    BY <1>1, <2>1, RequestTyped DEF CreateRead, TypeOK, HandlerAts, Revisions, job
<1>2. CASE CreateSave(h)
  BY <1>2 DEF CreateSave, TypeOK, HandlerAts, job
<1>3. CASE CreateInsert(h)
  BY <1>3, AnswerTyped
     DEF CreateInsert, TypeOK, PipeStates, job
<1>4. CASE CreateFails(h)
  BY <1>4, AnswerTyped DEF CreateFails, Breaks, TypeOK, job
<1>5. ASSUME NEW r \in Revisions, ValidateRead(h, r) PROVE TypeOK'
  <2>1. Request(h, "validate", r, NoModel, None) /\ UNCHANGED job
    BY <1>5 DEF ValidateRead
  <2>2. QED
    BY <1>5, <2>1, RequestTyped
       DEF ValidateRead, TypeOK, HandlerAts, ModelChoices, Revisions, job
<1>6. ASSUME NEW r \in Revisions, ActivateRead(h, r) PROVE TypeOK'
  <2>1. PICK o \in Revisions \cup {None} : Request(h, "activate", r, NoModel, o)
    BY <1>6 DEF ActivateRead
  <2>2. QED
    BY <1>6, <2>1, RequestTyped
       DEF ActivateRead, TypeOK, HandlerAts, ModelChoices, Revisions, job
<1>7. CASE ValidateWrite(h)
  BY <1>7, AnswerTyped DEF ValidateWrite, TypeOK, PipeStates, job
<1>8. CASE ActivateWrite(h)
  BY <1>8, AnswerTyped DEF ActivateWrite, TypeOK, PipeStates, job
<1>9. CASE TransitionFails(h)
  BY <1>9, AnswerTyped DEF TransitionFails, Breaks, TypeOK, job
<1>10. QED BY <1>1, <1>2, <1>3, <1>4, <1>5, <1>6, <1>7, <1>8, <1>9 DEF Handler

\* A step of the worker thread keeps the types.
LEMMA TypeWorker ==
    ASSUME TypeOK, Worker
    PROVE  TypeOK'
<1> USE CatalogAssumption
    DEF TypeOK, Job, JobEnds, Withdrawn, ModelStates,
        JobAts, rows, disk, requests, history
<1>1. ASSUME NEW m \in Models, ImportCheck(m) PROVE TypeOK'
  BY <1>1 DEF ImportCheck
<1>2. ASSUME NEW m \in Models, ArchiveRead(m) PROVE TypeOK'
  BY <1>2 DEF ArchiveRead
<1>3. ASSUME NEW m \in Models, DeleteRead(m) PROVE TypeOK'
  BY <1>3 DEF DeleteRead
<1>4. CASE ImportPlace BY <1>4 DEF ImportPlace
<1>5. CASE ImportRegister BY <1>5 DEF ImportRegister
<1>6. CASE ImportFails BY <1>6 DEF ImportFails, Breaks
<1>7. CASE ArchiveWrite BY <1>7 DEF ArchiveWrite
<1>8. CASE DeleteMove BY <1>8 DEF DeleteMove
<1>9. CASE DeleteDrop BY <1>9 DEF DeleteDrop
<1>10. CASE DeleteFails BY <1>10 DEF DeleteFails, Breaks
<1>11. QED
  BY <1>1, <1>2, <1>3, <1>4, <1>5, <1>6, <1>7, <1>8, <1>9, <1>10 DEF Worker

LEMMA TypeStep == TypeOK /\ [Next]_vars => TypeOK'
<1> SUFFICES ASSUME TypeOK, [Next]_vars PROVE TypeOK'
  OBVIOUS
<1>1. ASSUME NEW h \in Handlers, Handler(h) PROVE TypeOK'
  BY <1>1, TypeHandler
<1>2. CASE Worker BY <1>2, TypeWorker
<1>3. CASE Crash
  BY <1>3, CatalogAssumption
     DEF Crash, Breaks, JobEnds, Job, TypeOK, HandlerAts,
         JobAts, ModelChoices, rows, disk
<1>4. CASE UNCHANGED vars
  BY <1>4 DEF vars, rows, disk, requests, job, history, TypeOK
<1>5. QED BY <1>1, <1>2, <1>3, <1>4 DEF Next, AtRest

\* Every variable of the catalogue keeps its type.
THEOREM CatalogTypeCorrect == Spec => []TypeOK
<1>1. QED BY TypeInit, TypeStep, PTL DEF Spec

-----------------------------------------------------------------------------
(* Directories and model rows.                                             *)

\* What holds in the middle of a job.  Only the worker thread changes models
\* and directories, so what it has read of its model stays true.
JobAgrees ==
    /\ jobAt = "place" => ~files[jobOn]
    /\ jobAt = "register" => files[jobOn] /\ model[jobOn] # "valid"
    /\ jobAt = "register" /\ ~crashed => model[jobOn] = "absent"
    /\ jobAt = "retire" => model[jobOn] = "valid"
    /\ jobAt \in {"move", "drop"} => model[jobOn] = "retired"
    /\ jobAt = "drop" => ~files[jobOn]

FilesInv == AvailableHasFiles /\ FilesMatchRows /\ JobAgrees

LEMMA FilesInit == Init => FilesInv
BY DEF Init, FilesInv, AvailableHasFiles, FilesMatchRows, JobAgrees

LEMMA FilesWorker ==
    ASSUME TypeOK, FilesInv, Worker
    PROVE  FilesInv'
<1> USE CatalogAssumption
    DEF TypeOK, FilesInv, AvailableHasFiles, FilesMatchRows, JobAgrees, Job,
        JobEnds, rows, requests, history
<1>1. ASSUME NEW m \in Models, ImportCheck(m) PROVE FilesInv'
  BY <1>1 DEF ImportCheck, disk
<1>2. ASSUME NEW m \in Models, ArchiveRead(m) PROVE FilesInv'
  BY <1>2 DEF ArchiveRead, disk
<1>3. ASSUME NEW m \in Models, DeleteRead(m) PROVE FilesInv'
  BY <1>3 DEF DeleteRead, Deletable, disk
<1>4. CASE ImportPlace BY <1>4 DEF ImportPlace
<1>5. CASE ImportRegister BY <1>5 DEF ImportRegister, Withdrawn
<1>6. CASE ImportFails
  <2>1. /\ files' = [files EXCEPT ![jobOn] = FALSE]
        /\ jobAt' = "idle" /\ UNCHANGED <<model, crashed>>
        /\ jobOn \in Models /\ jobAt = "register"
    BY <1>6 DEF ImportFails, Withdrawn
  <2>2. AvailableHasFiles' BY <2>1
  <2>3. FilesMatchRows' BY <2>1
  <2>4. JobAgrees' BY <2>1
  <2>5. QED BY <2>2, <2>3, <2>4
<1>7. CASE ArchiveWrite BY <1>7 DEF ArchiveWrite, disk
<1>8. CASE DeleteMove BY <1>8 DEF DeleteMove
<1>9. CASE DeleteDrop BY <1>9 DEF DeleteDrop
<1>10. CASE DeleteFails BY <1>10 DEF DeleteFails
<1>11. QED
  BY <1>1, <1>2, <1>3, <1>4, <1>5, <1>6, <1>7, <1>8, <1>9, <1>10 DEF Worker

LEMMA FilesStep == TypeOK /\ FilesInv /\ [Next]_vars => FilesInv'
<1> SUFFICES ASSUME TypeOK, FilesInv, [Next]_vars PROVE FilesInv'
  OBVIOUS
<1> USE DEF FilesInv, AvailableHasFiles, FilesMatchRows, JobAgrees
<1>1. ASSUME NEW h \in Handlers, Handler(h) PROVE FilesInv'
  BY <1>1, HandlerFrame
<1>2. CASE Worker BY <1>2, FilesWorker
<1>3. CASE Crash BY <1>3 DEF Crash, JobEnds, Job, rows, disk
<1>4. CASE UNCHANGED vars BY <1>4 DEF vars, rows, disk, job, history
<1>5. QED BY <1>1, <1>2, <1>3, <1>4 DEF Next, AtRest

\* A model that can be put into a pipeline has its files, whatever fails and
\* whenever the process dies.
THEOREM AvailableModelsHaveFiles == Spec => []AvailableHasFiles
<1>1. FilesInv => AvailableHasFiles BY DEF FilesInv
<1>2. QED
  BY <1>1, TypeInit, TypeStep, FilesInit, FilesStep, PTL DEF Spec

\* Until the process dies, directories and model rows agree but for the model
\* that the worker is moving.
THEOREM DirectoriesMatchRows == Spec => []FilesMatchRows
<1>1. FilesInv => FilesMatchRows BY DEF FilesInv
<1>2. QED
  BY <1>1, TypeInit, TypeStep, FilesInit, FilesStep, PTL DEF Spec

-----------------------------------------------------------------------------
(* Contract files and pipeline rows.                                       *)

\* The lock: at most one thread creates a revision, and that is a new one.
OneCreates ==
    \A h, k \in Handlers :
        at[h] \in {"save", "insert"} /\ at[k] \in {"save", "insert"} => h = k
CreatesNew ==
    \A h \in Handlers : at[h] \in {"save", "insert"} => rev[h] \notin Saved

\* The file of that revision is in place before its row.
SavedFirst ==
    \A h \in Handlers : at[h] = "insert" => contract[rev[h]] = with[h]

\* Only saved revisions change their state.
ChangesSaved ==
    \A h \in Handlers :
        /\ at[h] \in {"validate", "activate"} => rev[h] \in Saved
        /\ other[h] \in Saved \cup {None}

PipelineInv ==
    /\ ContractsMatch
    /\ OneActive
    /\ OneCreates /\ CreatesNew /\ SavedFirst /\ ChangesSaved

LEMMA PipelineInit == Init => PipelineInv
BY DEF Init, PipelineInv, ContractsMatch, OneActive, OneCreates, CreatesNew,
       SavedFirst, ChangesSaved, Saved

\* An activation changes saved revisions only.
LEMMA ActivateKeepsSaved ==
    ASSUME TypeOK, ChangesSaved, NEW h \in Handlers, ActivateWrite(h)
    PROVE  /\ \A q \in Revisions : pipe'[q] = "absent" <=> pipe[q] = "absent"
           /\ Saved' = Saved
<1>1. \A q \in Revisions : pipe'[q] = "absent" <=> pipe[q] = "absent"
  <2> SUFFICES ASSUME NEW q \in Revisions
               PROVE  pipe'[q] = "absent" <=> pipe[q] = "absent"
    OBVIOUS
  <2>1. pipe[rev[h]] # "absent" /\ rev[h] \in Revisions
    BY DEF ActivateWrite, ChangesSaved, Saved
  <2>2. other[h] = q => pipe[q] # "absent"
    BY CatalogAssumption DEF ChangesSaved, Saved, Revisions
  <2>3. CASE StillSingle(rev[h], other[h])
    <3>1. pipe' = [p \in Revisions |-> IF p = rev[h] THEN "active"
                                       ELSE IF p = other[h] THEN "approved"
                                       ELSE pipe[p]]
      BY <2>3 DEF ActivateWrite
    <3>2. QED BY <2>1, <2>2, <3>1
  <2>4. CASE ~StillSingle(rev[h], other[h])
    BY <2>4 DEF ActivateWrite
  <2>5. QED BY <2>3, <2>4
<1>2. QED BY <1>1 DEF Saved

\* A thread that answers, or asks something other than to create a revision,
\* disturbs nothing by that.
LEMMA PipelineHandler ==
    ASSUME TypeOK, PipelineInv, NEW h \in Handlers, Handler(h)
    PROVE  PipelineInv'
<1> USE CatalogAssumption
    DEF TypeOK, PipelineInv, ContractsMatch, OneActive, OneCreates, CreatesNew,
        SavedFirst, ChangesSaved, Saved, Loads, Answer, Request
<1>1. ASSUME NEW c \in ModelChoices, CreateRead(h, c) PROVE PipelineInv'
  <2>1. PICK n \in Revisions : IsNextRevision(n) /\ Request(h, "save", n, c, None)
    BY <1>1 DEF CreateRead
  <2>2. pipe[n] = "absent"
    BY <2>1 DEF IsNextRevision, Revisions
  <2>3. QED
    BY <1>1, <2>1, <2>2 DEF CreateRead, CreateLockFree, rows, disk
<1>2. CASE CreateSave(h)
  BY <1>2 DEF CreateSave, rows
<1>3. CASE CreateInsert(h)
  <2>1. CASE RowAccepted(rev[h], with[h])
    BY <1>3, <2>1 DEF CreateInsert
  <2>2. CASE ~RowAccepted(rev[h], with[h])
    BY <1>3, <2>2 DEF CreateInsert
  <2>3. QED BY <2>1, <2>2
<1>4. CASE CreateFails(h)
  BY <1>4 DEF CreateFails, rows
<1>5. ASSUME NEW r \in Revisions, ValidateRead(h, r) PROVE PipelineInv'
  BY <1>5 DEF ValidateRead, rows, disk
<1>6. ASSUME NEW r \in Revisions, ActivateRead(h, r) PROVE PipelineInv'
  BY <1>6 DEF ActivateRead, rows, disk
<1>7. CASE ValidateWrite(h)
  BY <1>7 DEF ValidateWrite, disk
<1>8. CASE ActivateWrite(h)
  <2>1. CASE StillSingle(rev[h], other[h])
    <3>1. /\ pipe' = [q \in Revisions |-> IF q = rev[h] THEN "active"
                                          ELSE IF q = other[h] THEN "approved"
                                          ELSE pipe[q]]
          /\ UNCHANGED <<uses, contract>>
          /\ \A q \in Revisions : pipe[q] = "active" => q \in {rev[h], other[h]}
      BY <1>8, <2>1 DEF ActivateWrite, StillSingle, disk
    <3>2. Saved' = Saved BY <1>8, ActivateKeepsSaved
    <3>3. ContractsMatch' BY <3>1, <3>2
    <3>4. OneActive' BY <3>1
    <3>5. /\ at' = [at EXCEPT ![h] = "idle"] /\ rev' = [rev EXCEPT ![h] = None]
          /\ with' = [with EXCEPT ![h] = NoModel]
          /\ other' = [other EXCEPT ![h] = None]
      BY <1>8 DEF ActivateWrite
    <3>6. OneCreates' BY <3>5
    <3>7. CreatesNew' BY <3>2, <3>5
    <3>8. SavedFirst' BY <3>1, <3>5
    <3>9. ChangesSaved' BY <3>2, <3>5
    <3>10. QED BY <3>3, <3>4, <3>6, <3>7, <3>8, <3>9
  <2>2. CASE ~StillSingle(rev[h], other[h])
    BY <1>8, <2>2 DEF ActivateWrite, disk
  <2>3. QED BY <2>1, <2>2
<1>9. CASE TransitionFails(h)
  BY <1>9 DEF TransitionFails, rows, disk
<1>10. QED BY <1>1, <1>2, <1>3, <1>4, <1>5, <1>6, <1>7, <1>8, <1>9 DEF Handler

LEMMA PipelineStep == TypeOK /\ PipelineInv /\ [Next]_vars => PipelineInv'
<1> SUFFICES ASSUME TypeOK, PipelineInv, [Next]_vars PROVE PipelineInv'
  OBVIOUS
<1> USE DEF PipelineInv, ContractsMatch, OneActive, OneCreates, CreatesNew,
            SavedFirst, ChangesSaved, Saved, Loads
<1>1. ASSUME NEW h \in Handlers, Handler(h) PROVE PipelineInv'
  BY <1>1, PipelineHandler
<1>2. CASE Worker BY <1>2, WorkerFrame
<1>3. CASE Crash BY <1>3 DEF Crash, rows, disk
<1>4. CASE UNCHANGED vars BY <1>4 DEF vars, rows, disk, requests
<1>5. QED BY <1>1, <1>2, <1>3, <1>4 DEF Next, AtRest

\* Every saved revision has its contract file, however drafts, failures and
\* crashes interleave.
THEOREM ContractFilesMatch == Spec => []ContractsMatch
<1>1. PipelineInv => ContractsMatch BY DEF PipelineInv
<1>2. QED
  BY <1>1, TypeInit, TypeStep, PipelineInit, PipelineStep, PTL DEF Spec

\* No interleaving of activations and late validations makes two revisions
\* active.
THEOREM AtMostOneActive == Spec => []OneActive
<1>1. PipelineInv => OneActive BY DEF PipelineInv
<1>2. QED
  BY <1>1, TypeInit, TypeStep, PipelineInit, PipelineStep, PTL DEF Spec

-----------------------------------------------------------------------------
(* Pipelines and their models.                                             *)

LEMMA ModelsInit == Init => PipelinesHaveModels
BY DEF Init, PipelinesHaveModels, Saved

\* Rows of models are deleted by DeleteDrop only, and new references are made
\* by CreateInsert only; changes of state need rows that are saved already.
LEMMA ModelsStep ==
    TypeOK /\ FilesInv /\ PipelineInv /\ PipelinesHaveModels /\ [Next]_vars
        => PipelinesHaveModels'
<1> SUFFICES ASSUME TypeOK, FilesInv, PipelineInv, PipelinesHaveModels, [Next]_vars
             PROVE  PipelinesHaveModels'
  OBVIOUS
<1> USE CatalogAssumption
    DEF TypeOK, FilesInv, JobAgrees, PipelinesHaveModels, Saved, ModelChoices, ModelStates
<1>1. ASSUME NEW h \in Handlers, Handler(h) PROVE PipelinesHaveModels'
  <2>1. UNCHANGED model BY <1>1, HandlerFrame
  <2> USE <2>1 DEF PipelineInv, ChangesSaved
  <2>2. ASSUME NEW c \in ModelChoices, CreateRead(h, c) PROVE PipelinesHaveModels'
    BY <2>2 DEF CreateRead, rows
  <2>3. CASE CreateSave(h) BY <2>3 DEF CreateSave, rows
  <2>4. CASE CreateInsert(h)
    BY <2>4 DEF CreateInsert, RowAccepted
  <2>5. CASE CreateFails(h) BY <2>5 DEF CreateFails, rows
  <2>6. ASSUME NEW r \in Revisions, ValidateRead(h, r) PROVE PipelinesHaveModels'
    BY <2>6 DEF ValidateRead, rows
  <2>7. ASSUME NEW r \in Revisions, ActivateRead(h, r) PROVE PipelinesHaveModels'
    BY <2>7 DEF ActivateRead, rows
  <2>8. CASE ValidateWrite(h) BY <2>8 DEF ValidateWrite
  <2>9. CASE ActivateWrite(h)
    <3>1. \A r \in Revisions : pipe'[r] # "absent" => pipe[r] # "absent"
      BY <2>9, ActivateKeepsSaved
    <3>2. UNCHANGED uses BY <2>9 DEF ActivateWrite
    <3>3. QED BY <3>1, <3>2
  <2>10. CASE TransitionFails(h) BY <2>10 DEF TransitionFails, rows
  <2>11. QED
    BY <1>1, <2>2, <2>3, <2>4, <2>5, <2>6, <2>7, <2>8, <2>9, <2>10 DEF Handler
<1>2. CASE Worker
  <2>1. UNCHANGED <<pipe, uses>> BY <1>2, WorkerFrame
  <2> USE <2>1 DEF Job, JobEnds
  <2>2. ASSUME NEW m \in Models, ImportCheck(m) \/ ArchiveRead(m) \/ DeleteRead(m)
        PROVE  PipelinesHaveModels'
    BY <2>2 DEF ImportCheck, ArchiveRead, DeleteRead, rows
  <2>3. CASE ImportPlace \/ ImportFails \/ DeleteMove \/ DeleteFails
    BY <2>3 DEF ImportPlace, ImportFails, DeleteMove, DeleteFails, rows
  <2>4. CASE ImportRegister BY <2>4 DEF ImportRegister
  <2>5. CASE ArchiveWrite BY <2>5 DEF ArchiveWrite
  <2>6. CASE DeleteDrop BY <2>6 DEF DeleteDrop, Referenced
  <2>7. QED BY <1>2, <2>2, <2>3, <2>4, <2>5, <2>6 DEF Worker
<1>3. CASE Crash BY <1>3 DEF Crash, rows
<1>4. CASE UNCHANGED vars BY <1>4 DEF vars, rows
<1>5. QED BY <1>1, <1>2, <1>3, <1>4 DEF Next, AtRest

\* The model of a saved pipeline is never deleted, however the two interleave.
THEOREM PipelineModelsExist == Spec => []PipelinesHaveModels
BY TypeInit, TypeStep, FilesInit, FilesStep, PipelineInit, PipelineStep,
   ModelsInit, ModelsStep, PTL DEF Spec
=============================================================================
