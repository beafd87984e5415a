---------------------------- MODULE RunOrchestration ----------------------------
(***************************************************************************)
(* The durable coordination of one inspection run: DurableRunOrchestrator  *)
(* (backend/services/run_orchestration.py) over the rows the metadata      *)
(* repository keeps for the run (backend/database/repositories.py).        *)
(*                                                                         *)
(* Every member of Owners is one call of execute(), with the owner id it   *)
(* draws.  Calls of one process or of several share the run row, its       *)
(* control row (cancellation and lease), one checkpoint row per stage and  *)
(* the evidence files.  A call has a main thread (pc) and, while its pool  *)
(* is open, at most one worker thread per submitted stage (wpc).           *)
(*                                                                         *)
(* A database transaction is one step, except where it reads a row and     *)
(* writes it under a condition on what it read: SQLite opens its           *)
(* transaction at the first write, so acquiring the lease, marking the run *)
(* running and releasing the lease are a read step and a write step.       *)
(* renew_run_lease has that shape too and stays one step: a renewal that   *)
(* lands on a new owner's lease only sets an expiry that owner has set.    *)
(***************************************************************************)
EXTENDS Naturals, FiniteSets

CONSTANTS
    Owners,       \* calls of execute() for the run
    Outputs,      \* what the reconstruction stage can produce
    Passing,      \* the outputs that the reconstruction gate accepts
    Predictions,  \* what the inference stage produces
    None,         \* an empty column, a result not returned yet
    MaxAttempts,  \* maximum_stage_attempts
    MaxFaults     \* bound on every kind of fault

Faults == {"stage", "crash", "lapse", "race", "tamper", "db"}

ASSUME ConstantsAssumption ==
    /\ Passing \subseteq Outputs
    /\ Predictions \notin Outputs
    /\ None \notin Outputs \cup Owners \cup {Predictions, "cancelled", "error"}
    /\ MaxAttempts \in 1..3
    /\ MaxFaults \in [Faults -> Nat]

VARIABLES
    status,           \* inspection_runs.status
    cancelRequested,  \* run_controls.cancellation_requested
    lease,            \* run_controls.lease_owner, and whether it has not expired
    ckpt,             \* run_stage_checkpoints, one row per stage
    file,             \* content of the evidence file of each stage
    pc,               \* where the main thread of a call is
    next,             \* the stage it submits next
    remaining,        \* the futures _await_futures still waits for
    firstError,       \* the exception the call is going to raise
    event,            \* the call's cancellation event
    wpc,              \* where the worker of a stage is
    tries,            \* its local attempts counter
    seen,             \* the attempt count a checkpoint update has read back
    result,           \* the evidence its future holds
    ops,              \* history: operations performed for each stage
    faults            \* history: faults of each kind that have happened

durable == <<status, cancelRequested, lease, ckpt, file>>
main    == <<pc, next, remaining, firstError, event>>
workers == <<wpc, tries, seen, result>>
history == <<ops, faults>>
vars    == <<durable, main, workers, history>>

Stages   == {"reconstruction", "inference", "validation", "publication"}
Parallel == {"reconstruction", "inference"}

\* The order in which execute() submits the stages, and a plausible wrong one.
Bug_Following(s) ==
    CASE s = "reconstruction" -> "inference"
      [] s = "inference"      -> "publication"
      [] s = "publication"    -> "validation"
      [] OTHER                -> "none"

Following(s) ==
    CASE s = "reconstruction" -> "inference"
      [] s = "inference"      -> "validation"
      [] s = "validation"     -> "publication"
      [] OTHER                -> "none"

\* Evidence is named by the reconstruction output it was derived from.
Evidence == Outputs \cup {Predictions, None}

SettledPcs == {"ok", "cancelled", "error"}
WorkerPcs  == {"idle", "queued", "loop", "start", "operate", "returned",
               "complete", "failing", "retrying", "cancelling", "put_failed",
               "put_retry", "put_cancelled"} \cup SettledPcs
EndedPcs   == {"rejected", "finished", "crashed"}
MainPcs    == {"idle", "claim", "mark_running", "write_running",
               "check_cancel", "submit", "invalidate", "put_invalid", "await",
               "drain", "mark_completed", "mark_failed", "mark_cancelled",
               "release", "free"} \cup EndedPcs

CkptStates == {"none", "running", "completed", "failed", "cancelled"}
Checkpoint == [status : CkptStates, attempts : 0..MaxAttempts,
               evidence : Evidence]
Lease      == [owner : Owners \cup {None}, live : BOOLEAN]

Row(st, n, e) == [status |-> st, attempts |-> n, evidence |-> e]
Unowned       == [owner |-> None, live |-> FALSE]

\* A call that is past _acquire and has not left execute().
Active(o) == pc[o] \notin {"idle", "claim"} \cup EndedPcs

\* The locals of a call that has left its pool; they are never read again.
Forgotten(o) ==
    /\ remaining'  = [remaining EXCEPT ![o] = {}]
    /\ firstError' = [firstError EXCEPT ![o] = None]
    /\ event'      = [event EXCEPT ![o] = FALSE]
    /\ next'       = [next EXCEPT ![o] = "none"]
    /\ wpc'        = [wpc EXCEPT ![o] = [s \in Stages |-> "idle"]]
    /\ tries'      = [tries EXCEPT ![o] = [s \in Stages |-> 0]]
    /\ seen'       = [seen EXCEPT ![o] = [s \in Stages |-> 0]]
    /\ result'     = [result EXCEPT ![o] = [s \in Stages |-> None]]

\* One more fault of kind f, if the bound allows it.
Happens(f) ==
    /\ faults[f] < MaxFaults[f]
    /\ faults' = [faults EXCEPT ![f] = @ + 1]

Init ==
    /\ status = "created"
    /\ cancelRequested = FALSE
    /\ lease = Unowned
    /\ ckpt = [s \in Stages |-> Row("none", 0, None)]
    /\ file = [s \in Stages |-> None]
    /\ pc = [o \in Owners |-> "idle"]
    /\ next = [o \in Owners |-> "none"]
    /\ remaining = [o \in Owners |-> {}]
    /\ firstError = [o \in Owners |-> None]
    /\ event = [o \in Owners |-> FALSE]
    /\ wpc = [o \in Owners |-> [s \in Stages |-> "idle"]]
    /\ tries = [o \in Owners |-> [s \in Stages |-> 0]]
    /\ seen = [o \in Owners |-> [s \in Stages |-> 0]]
    /\ result = [o \in Owners |-> [s \in Stages |-> None]]
    /\ ops = [s \in Stages |-> 0]
    /\ faults = [f \in Faults |-> 0]

Goto(o, label) == pc' = [pc EXCEPT ![o] = label]

-----------------------------------------------------------------------------
(* Entering a call: _acquire and _mark_running.                            *)

\* try_acquire_run_lease takes a lease that nobody holds or that has expired.
Claimable == lease.owner = None \/ ~lease.live

AcquireRead(o) ==
    /\ pc[o] = "idle"
    /\ Goto(o, IF Claimable THEN "claim" ELSE "rejected")
    /\ UNCHANGED <<durable, next, remaining, firstError, event, workers, history>>

\* expires_at = now + lease_duration; the mutant writes a lease already over.
Bug_Granted(o) == [owner |-> o, live |-> FALSE]
Granted(o) == [owner |-> o, live |-> TRUE]

\* The UPDATE has no condition on the row: a lease taken since the read is
\* overwritten, which is the fault "race".
AcquireWrite(o) ==
    /\ pc[o] = "claim"
    /\ IF Claimable THEN UNCHANGED faults ELSE Happens("race")
    /\ lease' = Granted(o)
    /\ Goto(o, "mark_running")
    /\ UNCHANGED <<status, cancelRequested, ckpt, file, next, remaining,
                   firstError, event, workers, ops>>

\* Runs in these states are not executed again; the mutant forgets one.
Bug_Terminal(st) == st = "completed"
Terminal(st) == st \in {"completed", "cancelled"}

MarkRunningRead(o) ==
    /\ pc[o] = "mark_running"
    /\ Goto(o, IF Terminal(status) THEN "release" ELSE "write_running")
    /\ UNCHANGED <<durable, next, remaining, firstError, event, workers, history>>

MarkRunningWrite(o) ==
    /\ pc[o] = "write_running"
    /\ status' = "running"
    /\ Goto(o, "check_cancel")
    /\ UNCHANGED <<cancelRequested, lease, ckpt, file, next, remaining,
                   firstError, event, workers, history>>

CheckCancel(o) ==
    /\ pc[o] = "check_cancel"
    /\ Goto(o, IF cancelRequested THEN "mark_cancelled" ELSE "submit")
    /\ event' = [event EXCEPT ![o] = @ \/ cancelRequested]
    /\ next' = [next EXCEPT ![o] = "reconstruction"]
    /\ UNCHANGED <<durable, remaining, firstError, workers, history>>

-----------------------------------------------------------------------------
(* Submitting a stage: _resume_or_submit and _completed_evidence.          *)

\* _verify_evidence: the file is there and has the recorded checksum.
Verified(s, e) == e # None /\ file[s] = e

\* The future of stage s exists: the main thread goes on to the next stage,
\* or to waiting for the futures of this phase.
HandedOver(o, s) ==
    /\ next' = [next EXCEPT ![o] = Following(s)]
    /\ IF s = "reconstruction"
         THEN Goto(o, "submit") /\ UNCHANGED remaining
         ELSE /\ Goto(o, "await")
              /\ remaining' = [remaining EXCEPT ![o] =
                                 IF s \in Parallel THEN Parallel ELSE {s}]

SubmitStage(o) ==
    LET s == next[o] IN
    /\ pc[o] = "submit"
    /\ \/ /\ ckpt[s].status = "completed"
          /\ Verified(s, ckpt[s].evidence)
          /\ wpc' = [wpc EXCEPT ![o][s] = "ok"]
          /\ result' = [result EXCEPT ![o][s] = ckpt[s].evidence]
          /\ HandedOver(o, s)
       \/ /\ ckpt[s].status = "completed"
          /\ ~Verified(s, ckpt[s].evidence)
          /\ Goto(o, "invalidate")
          /\ UNCHANGED <<wpc, result, next, remaining>>
       \/ /\ ckpt[s].status # "completed"
          /\ wpc' = [wpc EXCEPT ![o][s] = "queued"]
          /\ HandedOver(o, s)
          /\ UNCHANGED result
    /\ UNCHANGED <<durable, firstError, event, tries, seen, history>>

\* _fail_checkpoint("checkpoint_evidence_invalid") reads the attempt count...
InvalidateRead(o) ==
    /\ pc[o] = "invalidate"
    /\ seen' = [seen EXCEPT ![o][next[o]] = ckpt[next[o]].attempts]
    /\ Goto(o, "put_invalid")
    /\ UNCHANGED <<durable, next, remaining, firstError, event, wpc, tries,
                   result, history>>

\* ... and writes it back with the failure; then the stage is submitted.
InvalidateWrite(o) ==
    LET s == next[o] IN
    /\ pc[o] = "put_invalid"
    /\ ckpt' = [ckpt EXCEPT ![s] = Row("failed", seen[o][s], None)]
    /\ wpc' = [wpc EXCEPT ![o][s] = "queued"]
    /\ seen' = [seen EXCEPT ![o][s] = 0]
    /\ HandedOver(o, s)
    /\ UNCHANGED <<status, cancelRequested, lease, file, firstError, event,
                   tries, result, history>>

-----------------------------------------------------------------------------
(* A stage worker: _execute_stage.                                         *)

WorkerGoto(o, s, label) == wpc' = [wpc EXCEPT ![o][s] = label]

\* The call returns or raises; its counters are gone with it.
Settle(o, s, outcome) ==
    /\ WorkerGoto(o, s, outcome)
    /\ tries' = [tries EXCEPT ![o][s] = 0]
    /\ seen' = [seen EXCEPT ![o][s] = 0]

\* _checkpoint_attempts: a restart goes on with the persisted count.
Bug_PersistedAttempts(s) == 0
PersistedAttempts(s) == ckpt[s].attempts

WorkerBegin(o, s) ==
    /\ wpc[o][s] = "queued"
    /\ tries' = [tries EXCEPT ![o][s] = PersistedAttempts(s)]
    /\ WorkerGoto(o, s, "loop")
    /\ UNCHANGED <<durable, main, seen, result, history>>

Bug_AttemptsLeft(n) == n <= MaxAttempts
AttemptsLeft(n) == n < MaxAttempts

\* The head of the loop: the attempt limit, then the two cancellation flags.
WorkerLoop(o, s) ==
    /\ wpc[o][s] = "loop"
    /\ \/ /\ ~AttemptsLeft(tries[o][s])
          /\ Settle(o, s, "error")
       \/ /\ AttemptsLeft(tries[o][s])
          /\ WorkerGoto(o, s, IF event[o] \/ cancelRequested THEN "cancelling"
                              ELSE "start")
          /\ UNCHANGED <<tries, seen>>
    /\ UNCHANGED <<durable, main, result, history>>

WorkerStart(o, s) ==
    /\ wpc[o][s] = "start"
    /\ tries' = [tries EXCEPT ![o][s] = @ + 1]
    /\ ckpt' = [ckpt EXCEPT ![s] = Row("running", tries[o][s] + 1, None)]
    /\ WorkerGoto(o, s, "operate")
    /\ UNCHANGED <<status, cancelRequested, lease, file, main, seen, result,
                   history>>

\* The executor's evidence: a fresh reconstruction, the predictions, or
\* evidence about the reconstruction that execute() passes to the stage.
Produced(o, s) ==
    CASE s = "reconstruction" -> Outputs
      [] s = "inference"      -> {Predictions}
      [] OTHER                -> {result[o]["reconstruction"]}

\* validate_with_gate: evidence.reconstruction_passed is True.
Bug_GatePasses(o) == TRUE
GatePasses(o) == result[o]["reconstruction"] \in Passing

\* operation(): it returns evidence, notices the cancellation event, asks for
\* a retry or fails; the last two are the fault "stage".  The gate runs inside
\* the validation operation.
WorkerOperate(o, s) ==
    /\ wpc[o][s] = "operate"
    /\ ops' = [ops EXCEPT ![s] = @ + 1]
    /\ \/ \E e \in Produced(o, s) :
            /\ file' = [file EXCEPT ![s] = e]
            /\ \/ /\ s # "validation" \/ GatePasses(o)
                  /\ result' = [result EXCEPT ![o][s] = e]
                  /\ WorkerGoto(o, s, "returned")
               \/ /\ s = "validation" /\ ~GatePasses(o)
                  /\ WorkerGoto(o, s, "failing")
                  /\ UNCHANGED result
            /\ UNCHANGED faults
       \/ /\ event[o]
          /\ WorkerGoto(o, s, "cancelling")
          /\ UNCHANGED <<file, result, faults>>
       \/ /\ Happens("stage")
          /\ \E label \in {"retrying", "failing"} : WorkerGoto(o, s, label)
          /\ UNCHANGED <<file, result>>
    /\ UNCHANGED <<status, cancelRequested, lease, ckpt, main, tries, seen>>

\* After the operation: the cancellation event, then _verify_evidence.
WorkerVerify(o, s) ==
    /\ wpc[o][s] = "returned"
    /\ WorkerGoto(o, s, IF event[o] THEN "cancelling"
                        ELSE IF Verified(s, result[o][s]) THEN "complete"
                        ELSE "failing")
    /\ UNCHANGED <<durable, main, tries, seen, result, history>>

WorkerComplete(o, s) ==
    /\ wpc[o][s] = "complete"
    /\ ckpt' = [ckpt EXCEPT ![s] = Row("completed", tries[o][s], result[o][s])]
    /\ Settle(o, s, "ok")
    /\ UNCHANGED <<status, cancelRequested, lease, file, main, result, history>>

\* _fail_checkpoint and _cancel_checkpoint read the attempt count in one
\* transaction and put the checkpoint in the next.
WorkerReadBack(o, s) ==
    /\ wpc[o][s] \in {"failing", "retrying", "cancelling"}
    /\ seen' = [seen EXCEPT ![o][s] = ckpt[s].attempts]
    /\ WorkerGoto(o, s, CASE wpc[o][s] = "failing"  -> "put_failed"
                          [] wpc[o][s] = "retrying" -> "put_retry"
                          [] OTHER                  -> "put_cancelled")
    /\ UNCHANGED <<durable, main, tries, result, history>>

\* What is written when an attempt ends without evidence, and a version that
\* leaves the row of a cancelled attempt alone.
Bug_Abandoned(o, s, st) ==
    IF st = "cancelled" THEN ckpt[s] ELSE Row(st, seen[o][s], None)
Abandoned(o, s, st) == Row(st, seen[o][s], None)

WorkerPutFailed(o, s) ==
    /\ wpc[o][s] = "put_failed"
    /\ ckpt' = [ckpt EXCEPT ![s] = Abandoned(o, s, "failed")]
    /\ Settle(o, s, "error")
    /\ UNCHANGED <<status, cancelRequested, lease, file, main, result, history>>

\* Only a RetryableStageError comes back to the head of the loop.
WorkerPutRetry(o, s) ==
    /\ wpc[o][s] = "put_retry"
    /\ ckpt' = [ckpt EXCEPT ![s] = Abandoned(o, s, "failed")]
    /\ IF AttemptsLeft(tries[o][s])
         THEN /\ WorkerGoto(o, s, "loop")
              /\ seen' = [seen EXCEPT ![o][s] = 0]
              /\ UNCHANGED tries
         ELSE Settle(o, s, "error")
    /\ UNCHANGED <<status, cancelRequested, lease, file, main, result, history>>

WorkerPutCancelled(o, s) ==
    /\ wpc[o][s] = "put_cancelled"
    /\ ckpt' = [ckpt EXCEPT ![s] = Abandoned(o, s, "cancelled")]
    /\ Settle(o, s, "cancelled")
    /\ UNCHANGED <<status, cancelRequested, lease, file, main, result, history>>

-----------------------------------------------------------------------------
(* Waiting: _await_futures with _heartbeat, and the exit of the pool.      *)

\* The futures that wait() reports; the mutant misses those that raised.
Bug_Done(o) == {s \in remaining[o] : wpc[o][s] = "ok"}
Done(o) == {s \in remaining[o] : wpc[o][s] \in SettledPcs}

\* What is left to wait for; the mutant takes the first future for all.
Bug_StillAwaited(o) == IF Done(o) = {} THEN remaining[o] ELSE {}
StillAwaited(o) == remaining[o] \ Done(o)

\* The errors a tick can record: the first one stays; of several futures done
\* at once, the order of a set of futures decides.
Bug_ErrorsAfterTick(o) ==
    LET new == {wpc[o][s] : s \in Done(o)} \ {"ok"} IN
    IF new = {} THEN {firstError[o]} ELSE new
ErrorsAfterTick(o) ==
    LET new == {wpc[o][s] : s \in Done(o)} \ {"ok"} IN
    IF firstError[o] # None \/ new = {} THEN {firstError[o]} ELSE new

\* A tick whose heartbeat still owns the lease: it renews the lease, whether
\* or not it has expired, and propagates the durable cancellation request.
AwaitTick(o) ==
    /\ pc[o] = "await"
    /\ lease.owner = o
    /\ lease' = Granted(o)
    /\ \E error \in ErrorsAfterTick(o) :
         /\ firstError' = [firstError EXCEPT ![o] = error]
         /\ event' = [event EXCEPT ![o] = @ \/ cancelRequested \/ error # None]
         /\ Goto(o, IF StillAwaited(o) # {} THEN "await"
                    ELSE IF error # None THEN "drain"
                    ELSE IF next[o] = "none" THEN "mark_completed"
                    ELSE "submit")
    /\ remaining' = [remaining EXCEPT ![o] = StillAwaited(o)]
    /\ UNCHANGED <<status, cancelRequested, ckpt, file, next, workers, history>>

\* A tick whose heartbeat finds another owner, or none: RunLeaseLost.
LeaseLost(o) ==
    /\ pc[o] = "await"
    /\ lease.owner # o
    /\ event' = [event EXCEPT ![o] = TRUE]
    /\ firstError' = [firstError EXCEPT ![o] = "error"]
    /\ Goto(o, "drain")
    /\ UNCHANGED <<durable, next, remaining, workers, history>>

\* The pool's __exit__ waits for the workers before the handlers run.
PoolDrained(o) == \A s \in Stages : wpc[o][s] \in SettledPcs \cup {"idle"}

Drain(o) ==
    /\ pc[o] = "drain"
    /\ PoolDrained(o)
    /\ event' = [event EXCEPT ![o] = TRUE]
    /\ Goto(o, IF firstError[o] = "cancelled" THEN "mark_cancelled"
               ELSE "mark_failed")
    /\ UNCHANGED <<durable, next, remaining, firstError, workers, history>>

-----------------------------------------------------------------------------
(* Leaving a call: _mark_terminal and _release.                            *)

\* set_run_status is unconditional: it reads neither the status nor the lease.
MarkTerminal(o, label, st) ==
    /\ pc[o] = label
    /\ status' = st
    /\ Goto(o, "release")
    /\ Forgotten(o)
    /\ UNCHANGED <<cancelRequested, lease, ckpt, file, history>>

MarkCompleted(o) == MarkTerminal(o, "mark_completed", "completed")
MarkFailed(o)    == MarkTerminal(o, "mark_failed", "failed")

\* The mutant raises RunCancelled without recording the terminal status.
Bug_MarkCancelled(o) == MarkTerminal(o, "mark_cancelled", status)
MarkCancelled(o) == MarkTerminal(o, "mark_cancelled", "cancelled")

ReleaseRead(o) ==
    /\ pc[o] = "release"
    /\ Goto(o, IF lease.owner = o THEN "free" ELSE "finished")
    /\ Forgotten(o)
    /\ UNCHANGED <<durable, history>>

ReleaseWrite(o) ==
    /\ pc[o] = "free"
    /\ lease' = Unowned
    /\ Goto(o, "finished")
    /\ UNCHANGED <<status, cancelRequested, ckpt, file, next, remaining,
                   firstError, event, workers, history>>

-----------------------------------------------------------------------------
(* The environment: requests, time, crashes and failing storage.           *)

RequestCancel ==
    /\ ~cancelRequested
    /\ cancelRequested' = TRUE
    /\ UNCHANGED <<status, lease, ckpt, file, main, workers, history>>

\* The lease outlives a call that cannot renew it any more.
LeaseExpires ==
    /\ lease.live
    /\ ~Active(lease.owner)
    /\ lease' = [lease EXCEPT !.live = FALSE]
    /\ UNCHANGED <<status, cancelRequested, ckpt, file, main, workers, history>>

\* A call is stopped for longer than the lease: a suspended machine, a wait
\* for the database lock, hashing a large file between two heartbeats.
LeaseLapses ==
    /\ lease.live
    /\ Active(lease.owner)
    /\ Happens("lapse")
    /\ lease' = [lease EXCEPT !.live = FALSE]
    /\ UNCHANGED <<status, cancelRequested, ckpt, file, main, workers, ops>>

\* The process of a call ends: its threads and locals are gone.
Crash(o) ==
    /\ Active(o) \/ pc[o] = "claim"
    /\ Happens("crash")
    /\ Goto(o, "crashed")
    /\ Forgotten(o)
    /\ UNCHANGED <<durable, ops>>

\* An evidence file is deleted or damaged.
Tamper(s) ==
    /\ file[s] # None
    /\ Happens("tamper")
    /\ file' = [file EXCEPT ![s] = None]
    /\ UNCHANGED <<status, cancelRequested, lease, ckpt, main, workers, ops>>

\* Where a main thread goes when its transaction raises (a locked or full
\* database): execute()'s handlers, seen from each of its transactions.
OnDbError(label) ==
    CASE label \in {"claim"} -> "rejected"
      [] label \in {"mark_running", "write_running", "mark_failed",
                    "mark_cancelled"} -> "release"
      [] label \in {"check_cancel", "mark_completed"} -> "mark_failed"
      [] label \in {"submit", "invalidate", "put_invalid", "await"} -> "drain"
      [] label \in {"release", "free"} -> "finished"

MainDbError(o) ==
    /\ pc[o] \in MainPcs \ ({"idle", "drain"} \cup EndedPcs)
    /\ Happens("db")
    /\ Goto(o, OnDbError(pc[o]))
    /\ firstError' = [firstError EXCEPT ![o] =
                        IF OnDbError(pc[o]) = "drain" THEN "error" ELSE @]
    /\ UNCHANGED <<durable, next, remaining, event, workers, ops>>

\* The same for a worker: completing a checkpoint is inside the try of the
\* attempt, so its failure is recorded; every other one ends the stage.
WorkerDbError(o, s) ==
    /\ wpc[o][s] \in WorkerPcs \ (SettledPcs \cup {"idle", "operate", "returned"})
    /\ Happens("db")
    /\ IF wpc[o][s] = "complete"
         THEN WorkerGoto(o, s, "failing") /\ UNCHANGED <<tries, seen>>
         ELSE Settle(o, s, "error")
    /\ UNCHANGED <<durable, main, result, ops>>

-----------------------------------------------------------------------------
MainStep(o) ==
    \/ AcquireWrite(o)
    \/ MarkRunningRead(o)
    \/ MarkRunningWrite(o)
    \/ CheckCancel(o)
    \/ SubmitStage(o)
    \/ InvalidateRead(o)
    \/ InvalidateWrite(o)
    \/ AwaitTick(o)
    \/ LeaseLost(o)
    \/ Drain(o)
    \/ MarkCompleted(o)
    \/ MarkFailed(o)
    \/ MarkCancelled(o)
    \/ ReleaseRead(o)
    \/ ReleaseWrite(o)

WorkerStep(o, s) ==
    \/ WorkerBegin(o, s)
    \/ WorkerLoop(o, s)
    \/ WorkerStart(o, s)
    \/ WorkerOperate(o, s)
    \/ WorkerVerify(o, s)
    \/ WorkerComplete(o, s)
    \/ WorkerReadBack(o, s)
    \/ WorkerPutFailed(o, s)
    \/ WorkerPutRetry(o, s)
    \/ WorkerPutCancelled(o, s)

Environment ==
    \/ RequestCancel
    \/ LeaseExpires
    \/ LeaseLapses
    \/ \E s \in Stages : Tamper(s)
    \/ \E o \in Owners : Crash(o) \/ MainDbError(o)
    \/ \E o \in Owners, s \in Stages : WorkerDbError(o, s)

\* Every call has ended and its lease has run out: nothing is left to do.
AllEnded ==
    /\ \A o \in Owners : pc[o] \in EndedPcs
    /\ UNCHANGED vars

Next ==
    \/ \E o \in Owners : AcquireRead(o) \/ MainStep(o)
    \/ \E o \in Owners, s \in Stages : WorkerStep(o, s)
    \/ Environment
    \/ AllEnded

Spec == Init /\ [][Next]_vars

\* Threads are scheduled and operations return; a lease nobody renews runs
\* out.  Starting a call, faults and requests are never forced.
Fairness ==
    /\ \A o \in Owners : WF_vars(MainStep(o))
    /\ \A o \in Owners, s \in Stages : WF_vars(WorkerStep(o, s))
    /\ WF_vars(LeaseExpires)

FairSpec == Spec /\ Fairness

-----------------------------------------------------------------------------
(* Properties.                                                             *)

\* Every variable keeps its type; a checkpoint's attempt_count never exceeds
\* maximum_stage_attempts, however many calls count attempts.
TypeOK ==
    /\ status \in {"created", "running", "completed", "failed", "cancelled"}
    /\ cancelRequested \in BOOLEAN
    /\ lease \in Lease
    /\ ckpt \in [Stages -> Checkpoint]
    /\ file \in [Stages -> Evidence]
    /\ pc \in [Owners -> MainPcs]
    /\ next \in [Owners -> Stages \cup {"none"}]
    /\ remaining \in [Owners -> SUBSET Stages]
    /\ firstError \in [Owners -> {None, "cancelled", "error"}]
    /\ event \in [Owners -> BOOLEAN]
    /\ wpc \in [Owners -> [Stages -> WorkerPcs]]
    /\ tries \in [Owners -> [Stages -> 0..MaxAttempts]]
    /\ seen \in [Owners -> [Stages -> 0..MaxAttempts]]
    /\ result \in [Owners -> [Stages -> Evidence]]
    /\ ops \in [Stages -> Nat]
    /\ faults \in [Faults -> Nat]

\* "The gate is checked before the validation checkpoint can become
\* completed": no crash, retry, overlap of calls or damaged file ever leaves
\* a completed validation checkpoint for a reconstruction that fails the gate.
GatedValidation ==
    ckpt["validation"].status = "completed" =>
        ckpt["validation"].evidence \in Passing

\* A run is recorded as cancelled only if somebody asked for it.  When one of
\* the parallel stages fails, its sibling is stopped through the same event
\* and raises RunCancelled too; that exception must not become the outcome.
CancelledOnlyOnRequest ==
    status = "cancelled" => cancelRequested

\* No lease lapsed under a live call and no acquisition raced another.
Undisturbed == faults["lapse"] = 0 /\ faults["race"] = 0

\* From _acquire to the end of _release the call is the recorded owner, so
\* there is at most one: crashes, expiry of dead leases, rejected calls and
\* failing transactions never leave two calls inside execute().
Exclusive ==
    Undisturbed => \A o \in Owners : Active(o) => lease.owner = o

\* "Attempt counts persist across restart, so process restart cannot reset a
\* retry budget": over all calls together, crashed ones included, a stage's
\* operation is performed at most as often as its checkpoint counts.
RetryBudget ==
    Undisturbed => \A s \in Stages : ops[s] <= ckpt[s].attempts

\* A completed run has four completed checkpoints, whatever resumed it.
CompletedHasEvidence ==
    Undisturbed /\ status = "completed" =>
        \A s \in Stages : ckpt[s].status = "completed"

\* Once a run has ended, no checkpoint still says that its stage is running,
\* unless the process died or the database refused the update.
CheckpointsSettled ==
    /\ Undisturbed
    /\ faults["crash"] = 0
    /\ faults["db"] = 0
    /\ status \in {"completed", "failed", "cancelled"}
    => \A s \in Stages : ckpt[s].status # "running"

\* What is published has passed the gate, as long as no evidence is damaged:
\* the publication is derived from the reconstruction that was validated.
PublishedPassedGate ==
    /\ Undisturbed
    /\ faults["tamper"] = 0
    /\ ckpt["publication"].status = "completed"
    => ckpt["publication"].evidence \in Passing

\* The contract of a run, for calls that do not overlap.
Promise == INSTANCE RunContract WITH
    phase     <- status,
    accepted  <- {s \in Stages : ckpt[s].status = "completed"},
    requested <- cancelRequested

ImplementsContract == Promise!Contract

\* Every call that has acquired the run leaves execute(), by return, by an
\* exception or with its process: no wait for a future, no exit of the pool
\* and no retry loop keeps it there.
EveryCallEnds == \A o \in Owners : Active(o) ~> ~Active(o)

\* A run does not stay "running" when nothing kept its call from recording
\* the outcome.
RunSettles ==
    status = "running" ~>
        (status # "running" \/ faults["crash"] > 0 \/ faults["db"] > 0)

\* What the documentation says of the run and of what is published, without
\* the restrictions above.
\* "Completed and cancelled runs cannot be executed again", and "A cancelled
\* run is terminal": a call that comes late never turns either into a failure.
OutcomeNotRevoked == [][Terminal(status) => status' # "failed"]_status

\* "... cannot turn a failed reconstruction into publishable evidence".
NothingUngatedPublished ==
    ckpt["publication"].status = "completed" =>
        ckpt["publication"].evidence \in Passing
=============================================================================
