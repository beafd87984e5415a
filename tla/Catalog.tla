-------------------------------- MODULE Catalog --------------------------------
(***************************************************************************)
(* The catalogue of models and pipelines: rows of the database and the     *)
(* files they describe, which no transaction covers together.              *)
(*                                                                         *)
(*   - request threads create, validate and activate the revisions of a    *)
(*     pipeline (services/pipeline_lifecycle.py);                          *)
(*   - one worker thread imports, archives and deletes models              *)
(*     (services/model_import.py and model_library.py).                    *)
(*                                                                         *)
(* SQLite locks at the first write of a transaction, so an operation that  *)
(* reads and then writes is two steps, and what it has read can be stale   *)
(* when it writes.  The process can die between any two steps.             *)
(***************************************************************************)
EXTENDS Naturals

CONSTANTS
    Models,       \* values of model_bundle_id
    NoModel,      \* a pipeline without inference
    NoFile,       \* no contract file
    Handlers,     \* request threads
    None,
    MaxRevision,  \* bound on the revisions of the pipeline
    MaxBreaks     \* bound on crashes and failed transactions

ASSUME CatalogAssumption ==
    /\ NoModel \notin Models
    /\ NoFile \notin Models \cup {NoModel}
    /\ None \notin Models \cup 1..MaxRevision
    /\ MaxRevision \in Nat \ {0}
    /\ MaxBreaks \in Nat

VARIABLES
    model,     \* model_bundles.state, "absent" without a row
    files,     \* is there a directory models/<model_bundle_id>?
    pipe,      \* pipeline_snapshots.state, "absent" without a row
    uses,      \* pipeline_snapshots.model_bundle_id
    contract,  \* model_bundle_id in the contract file of a revision
    at,        \* where a handler is
    rev,       \* the revision of its request
    with,      \* the model of its draft
    other,     \* the active revision it has read, None for none
    jobAt,     \* where the worker thread is
    jobOn,     \* the model of its job
    breaks,    \* history: crashes and failed transactions
    crashed    \* history: the process has died

rows     == <<model, pipe, uses>>
disk     == <<files, contract>>
requests == <<at, rev, with, other>>
job      == <<jobAt, jobOn>>
history  == <<breaks, crashed>>
vars     == <<rows, disk, requests, job, history>>

Revisions   == 1..MaxRevision
ModelChoices     == Models \cup {NoModel}
ModelStates == {"absent", "valid", "retired"}
PipeStates  == {"absent", "draft", "validated", "approved", "active"}
HandlerAts  == {"idle", "save", "insert", "validate", "activate"}
JobAts      == {"idle", "place", "register", "retire", "move", "drop"}

Init ==
    /\ model = [m \in Models |-> "absent"]
    /\ files = [m \in Models |-> FALSE]
    /\ pipe = [r \in Revisions |-> "absent"]
    /\ uses = [r \in Revisions |-> NoModel]
    /\ contract = [r \in Revisions |-> NoFile]
    /\ at = [h \in Handlers |-> "idle"]
    /\ rev = [h \in Handlers |-> None]
    /\ with = [h \in Handlers |-> NoModel]
    /\ other = [h \in Handlers |-> None]
    /\ jobAt = "idle"
    /\ jobOn = None
    /\ breaks = 0
    /\ crashed = FALSE

Saved == {r \in Revisions : pipe[r] # "absent"}

\* count_pipeline_snapshots_for_model(m) > 0, and the foreign key of a row.
Referenced(m) == \E r \in Saved : uses[r] = m

\* _validate_model
ModelUsable(c) == c \notin {m \in Models : model[m] # "valid"}

\* _load_verified: checksum and identity of the contract file.
Loads(r) == contract[r] = uses[r]

Breaks ==
    /\ breaks < MaxBreaks
    /\ breaks' = breaks + 1

Request(h, where, r, c, o) ==
    /\ at' = [at EXCEPT ![h] = where]
    /\ rev' = [rev EXCEPT ![h] = r]
    /\ with' = [with EXCEPT ![h] = c]
    /\ other' = [other EXCEPT ![h] = o]

Answer(h) == Request(h, "idle", None, NoModel, None)

-----------------------------------------------------------------------------
(* create_draft                                                            *)

\* next_pipeline_revision: one more than the last one.
IsNextRevision(n) ==
    /\ \A r \in Saved : r < n
    /\ n = 1 \/ n - 1 \in Saved

\* The lock is held from here to the answer; the mutant has none.
Bug_CreateLockFree == TRUE
CreateLockFree == \A h \in Handlers : at[h] \notin {"save", "insert"}

CreateRead(h, c) ==
    /\ at[h] = "idle"
    /\ CreateLockFree
    /\ ModelUsable(c)
    /\ \E n \in Revisions :
         IsNextRevision(n) /\ Request(h, "save", n, c, None)
    /\ UNCHANGED <<rows, disk, job, history>>

\* The contract file is replaced atomically.
CreateSave(h) ==
    /\ at[h] = "save"
    /\ contract' = [contract EXCEPT ![rev[h]] = with[h]]
    /\ at' = [at EXCEPT ![h] = "insert"]
    /\ UNCHANGED <<rows, files, rev, with, other, job, history>>

\* The constraints on the row: a new revision, and a model that exists.
Bug_RowAccepted(r, c) == pipe[r] = "absent"
RowAccepted(r, c) ==
    /\ pipe[r] = "absent"
    /\ c = NoModel \/ model[c] # "absent"

\* The row is inserted, or refused and the file is unlinked.
CreateInsert(h) ==
    LET r == rev[h]
        c == with[h]
    IN  /\ at[h] = "insert"
        /\ IF RowAccepted(r, c)
             THEN /\ pipe' = [pipe EXCEPT ![r] = "draft"]
                  /\ uses' = [uses EXCEPT ![r] = c]
                  /\ UNCHANGED contract
             ELSE /\ contract' = [contract EXCEPT ![r] = NoFile]
                  /\ UNCHANGED <<pipe, uses>>
        /\ Answer(h)
        /\ UNCHANGED <<model, files, job, history>>

\* Saving the file or the transaction fails: the file is unlinked.
CreateFails(h) ==
    /\ at[h] \in {"save", "insert"}
    /\ Breaks
    /\ contract' = [contract EXCEPT ![rev[h]] = NoFile]
    /\ Answer(h)
    /\ UNCHANGED <<rows, files, job, crashed>>

-----------------------------------------------------------------------------
(* validate and approve_and_activate                                       *)

ValidateRead(h, r) ==
    /\ at[h] = "idle"
    /\ pipe[r] = "draft"
    /\ Loads(r) /\ ModelUsable(contract[r])
    /\ Request(h, "validate", r, NoModel, None)
    /\ UNCHANGED <<rows, disk, job, history>>

\* The update names the row only, not the state that was read.
ValidateWrite(h) ==
    /\ at[h] = "validate"
    /\ pipe' = [pipe EXCEPT ![rev[h]] = "validated"]
    /\ Answer(h)
    /\ UNCHANGED <<model, uses, disk, job, history>>

ActivateRead(h, r) ==
    LET active == {q \in Revisions \ {r} : pipe[q] = "active"} IN
    /\ at[h] = "idle"
    /\ pipe[r] \in {"validated", "approved"}
    /\ Loads(r) /\ ModelUsable(contract[r])
    /\ \E o \in IF active = {} THEN {None} ELSE active :
         Request(h, "activate", r, NoModel, o)
    /\ UNCHANGED <<rows, disk, job, history>>

\* The unique index on the active state; the mutant has none.
Bug_StillSingle(r, o) == TRUE
StillSingle(r, o) == \A q \in Revisions \ {r, o} : pipe[q] # "active"

\* One transaction: the revision that was active becomes approved and this
\* one active, or neither if another one has become active meanwhile.
ActivateWrite(h) ==
    LET r == rev[h]
        o == other[h]
    IN  /\ at[h] = "activate"
        /\ pipe' = IF StillSingle(r, o)
                     THEN [q \in Revisions |-> IF q = r THEN "active"
                                               ELSE IF q = o THEN "approved"
                                               ELSE pipe[q]]
                     ELSE pipe
        /\ Answer(h)
        /\ UNCHANGED <<model, uses, disk, job, history>>

\* The transaction of either is rolled back.
TransitionFails(h) ==
    /\ at[h] \in {"validate", "activate"}
    /\ Breaks
    /\ Answer(h)
    /\ UNCHANGED <<rows, disk, job, crashed>>

-----------------------------------------------------------------------------
(* The worker thread.  A job that is refused changes nothing.              *)

Job(where, m) == jobAt' = where /\ jobOn' = m
\* The mutant forgets which model it was about.
Bug_JobEnds == Job("idle", jobOn)
JobEnds == Job("idle", None)

\* import_bundle, once the staged bundle is valid: its directory must not
\* exist, is moved into place, and the row is added.
ImportCheck(m) ==
    /\ jobAt = "idle"
    /\ ~files[m]
    /\ Job("place", m)
    /\ UNCHANGED <<rows, disk, requests, history>>

ImportPlace ==
    /\ jobAt = "place"
    /\ files' = [files EXCEPT ![jobOn] = TRUE]
    /\ Job("register", jobOn)
    /\ UNCHANGED <<rows, contract, requests, history>>

\* The insert was refused: the directory is removed; the mutant leaves it.
Bug_Withdrawn(m) == files
Withdrawn(m) == [files EXCEPT ![m] = FALSE]

ImportRegister ==
    /\ jobAt = "register"
    /\ IF model[jobOn] = "absent"
         THEN /\ model' = [model EXCEPT ![jobOn] = "valid"]
              /\ UNCHANGED files
         ELSE /\ files' = Withdrawn(jobOn)
              /\ UNCHANGED model
    /\ JobEnds
    /\ UNCHANGED <<pipe, uses, contract, requests, history>>

ImportFails ==
    /\ jobAt = "register"
    /\ Breaks
    /\ files' = Withdrawn(jobOn)
    /\ JobEnds
    /\ UNCHANGED <<rows, contract, requests, crashed>>

\* archive: state and references are read, then the state is written.
ArchiveRead(m) ==
    /\ jobAt = "idle"
    /\ model[m] = "valid" /\ ~Referenced(m)
    /\ Job("retire", m)
    /\ UNCHANGED <<rows, disk, requests, history>>

ArchiveWrite ==
    /\ jobAt = "retire"
    /\ model' = [model EXCEPT ![jobOn] = "retired"]
    /\ JobEnds
    /\ UNCHANGED <<pipe, uses, disk, requests, history>>

\* delete_archived: only a retired model without references.
Bug_Deletable(m) == model[m] \in {"valid", "retired"} /\ ~Referenced(m)
Deletable(m) == model[m] = "retired" /\ ~Referenced(m)

DeleteRead(m) ==
    /\ jobAt = "idle"
    /\ Deletable(m)
    /\ Job("move", m)
    /\ UNCHANGED <<rows, disk, requests, history>>

\* The directory is moved aside, if it is there.
DeleteMove ==
    /\ jobAt = "move"
    /\ IF files[jobOn] THEN Job("drop", jobOn) ELSE JobEnds
    /\ files' = [files EXCEPT ![jobOn] = FALSE]
    /\ UNCHANGED <<rows, contract, requests, history>>

\* The row is deleted, unless a pipeline refers to it by now: then the
\* directory is moved back.
DeleteDrop ==
    /\ jobAt = "drop"
    /\ IF Referenced(jobOn)
         THEN /\ files' = [files EXCEPT ![jobOn] = TRUE]
              /\ UNCHANGED model
         ELSE /\ model' = [model EXCEPT ![jobOn] = "absent"]
              /\ UNCHANGED files
    /\ JobEnds
    /\ UNCHANGED <<pipe, uses, contract, requests, history>>

DeleteFails ==
    /\ jobAt = "drop"
    /\ Breaks
    /\ files' = [files EXCEPT ![jobOn] = TRUE]
    /\ JobEnds
    /\ UNCHANGED <<rows, contract, requests, crashed>>

-----------------------------------------------------------------------------
\* The process dies, and the next one starts with what is durable.
Crash ==
    /\ Breaks
    /\ crashed' = TRUE
    /\ at' = [h \in Handlers |-> "idle"]
    /\ rev' = [h \in Handlers |-> None]
    /\ with' = [h \in Handlers |-> NoModel]
    /\ other' = [h \in Handlers |-> None]
    /\ JobEnds
    /\ UNCHANGED <<rows, disk>>

\* The bounds allow no further request.
AtRest ==
    /\ jobAt = "idle"
    /\ \A h \in Handlers : at[h] = "idle"
    /\ UNCHANGED vars

Handler(h) ==
    \/ \E c \in ModelChoices : CreateRead(h, c)
    \/ CreateSave(h) \/ CreateInsert(h) \/ CreateFails(h)
    \/ \E r \in Revisions : ValidateRead(h, r) \/ ActivateRead(h, r)
    \/ ValidateWrite(h) \/ ActivateWrite(h) \/ TransitionFails(h)

Worker ==
    \/ \E m \in Models : ImportCheck(m) \/ ArchiveRead(m) \/ DeleteRead(m)
    \/ ImportPlace \/ ImportRegister \/ ImportFails
    \/ ArchiveWrite
    \/ DeleteMove \/ DeleteDrop \/ DeleteFails

Next == (\E h \in Handlers : Handler(h)) \/ Worker \/ Crash \/ AtRest

Spec == Init /\ [][Next]_vars

-----------------------------------------------------------------------------
(* Properties.                                                             *)

\* A thread has a revision, or a model, exactly while it is doing something.
TypeOK ==
    /\ model \in [Models -> ModelStates]
    /\ files \in [Models -> BOOLEAN]
    /\ pipe \in [Revisions -> PipeStates]
    /\ uses \in [Revisions -> ModelChoices]
    /\ contract \in [Revisions -> ModelChoices \cup {NoFile}]
    /\ at \in [Handlers -> HandlerAts]
    /\ rev \in [Handlers -> Revisions \cup {None}]
    /\ with \in [Handlers -> ModelChoices]
    /\ other \in [Handlers -> Revisions \cup {None}]
    /\ jobAt \in JobAts
    /\ jobOn \in Models \cup {None}
    /\ breaks \in 0..MaxBreaks
    /\ crashed \in BOOLEAN
    /\ \A h \in Handlers : at[h] = "idle" <=> rev[h] = None
    /\ jobAt = "idle" <=> jobOn = None

\* Every saved revision has the contract file its row describes: drafts that
\* are created at the same time do not overwrite or unlink each other's file,
\* and neither a failure nor a crash leaves a row without its file.
ContractsMatch == \A r \in Saved : Loads(r)

\* As long as the process does not die, the directories are those of the
\* models with a row, but for the one the worker is moving, whichever of its
\* transactions fails.
FilesMatchRows ==
    ~crashed =>
        \A m \in Models :
            \/ files[m] <=> model[m] # "absent"
            \/ jobOn = m /\ jobAt \in {"register", "drop"}

\* A model that can be put into a pipeline has its files, even when the
\* process dies in the middle of an import or a deletion.
AvailableHasFiles == \A m \in Models : model[m] = "valid" => files[m]

\* Saving a draft and deleting its model do not both succeed.
PipelinesHaveModels ==
    \A r \in Saved : uses[r] \in Models => model[uses[r]] # "absent"

\* "Exactly one snapshot may be active", however activations overlap.
OneActive == \A r, q \in Revisions : pipe[r] = "active" /\ pipe[q] = "active" => r = q

\* "Only a deliberate activation action changes the active version": when a
\* revision stops being the active one, another one has become it.
OnlyActivationDemotes ==
    [][\A r \in Revisions : pipe[r] = "active" /\ pipe'[r] # "active" =>
          \E q \in Revisions : pipe[q] # "active" /\ pipe'[q] = "active"]_pipe
=============================================================================
