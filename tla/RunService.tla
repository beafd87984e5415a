------------------------------- MODULE RunService -------------------------------
(***************************************************************************)
(* The runs as the local API serves them: the routes that create, start    *)
(* and cancel a run (backend/api/routes.py), the dispatcher that executes  *)
(* started runs on one worker thread (backend/api/commands.py), over       *)
(* processes that stop, crash and start again.  What execute() does to the *)
(* row of the run is summarised by the steps of RunOrchestration that      *)
(* write it; of the events only the last one of each run's executions is   *)
(* kept (EventBroker models how they are delivered).                       *)
(*                                                                         *)
(* Every member of Handlers is a thread that serves one request at a time. *)
(***************************************************************************)
EXTENDS Naturals, Sequences, FiniteSets

CONSTANTS
    Runs,         \* values of run_id
    Handlers,     \* request threads of the server
    MaxPending,   \* maximum_pending_runs
    NoRun,
    MaxAsked,     \* bound on the start requests for one run
    MaxBreaks     \* bound on crashes, stops and failed transactions

ASSUME ServiceAssumption ==
    /\ MaxPending \in Nat \ {0}
    /\ NoRun \notin Runs
    /\ {MaxAsked, MaxBreaks} \subseteq Nat

VARIABLES
    status,     \* inspection_runs.status, "absent" without a row
    requested,  \* run_controls.cancellation_requested
    leased,     \* runs with an unexpired lease that nobody will release
    pool,       \* "closed", "open" or, after close(), "draining"
    queue,      \* futures the pool has not started, in order
    job,        \* the run its worker executes
    jobAt,      \* where the worker is in _execute
    active,     \* _active
    slots,      \* the semaphore _capacity
    callbacks,  \* runs whose future has its done callback
    ended,      \* runs whose future is done and has not been finished
    at,         \* where a handler is
    for,        \* the run of its request
    told,       \* history: the last event of a run's executions
    barred,     \* history: cancellation requested before the run was taken up
    asked,      \* history: start requests
    breaks,     \* history: crashes, stops and failed transactions
    crashed     \* history: a process has died

rows       == <<status, requested, leased>>
dispatcher == <<pool, queue, job, jobAt, active, slots, callbacks, ended>>
requests   == <<at, for>>
history    == <<barred, asked, breaks, crashed>>
vars == <<rows, dispatcher, requests, told, history>>

Statuses   == {"absent", "created", "running", "completed", "failed", "cancelled"}
HandlerAts == {"idle", "submit", "register", "request"}
WorkerAts  == {"idle", "acquire", "mark", "check", "work", "returned",
               "raised", "finish"}
Outcomes   == {"run_completed", "run_failed"}

EmptyDispatcher ==
    /\ queue = <<>>
    /\ job = NoRun
    /\ jobAt = "idle"
    /\ active = {}
    /\ slots = MaxPending
    /\ callbacks = {}
    /\ ended = {}

Init ==
    /\ EmptyDispatcher
    /\ status = [r \in Runs |-> "absent"]
    /\ requested = [r \in Runs |-> FALSE]
    /\ leased = {}
    /\ pool = "closed"
    /\ at = [h \in Handlers |-> "idle"]
    /\ for = [h \in Handlers |-> NoRun]
    /\ told = [r \in Runs |-> "none"]
    /\ barred = [r \in Runs |-> FALSE]
    /\ asked = [r \in Runs |-> 0]
    /\ breaks = 0
    /\ crashed = FALSE

\* An event of an execution, and what it tells of the run.
Publish(type, r) == told' = [told EXCEPT ![r] = type]

Serve(h, r, where) ==
    /\ at' = [at EXCEPT ![h] = where]
    /\ for' = [for EXCEPT ![h] = r]
Answer(h) == Serve(h, NoRun, "idle")

-----------------------------------------------------------------------------
(* Routes.  A request that is rejected with 404 or 409 changes nothing.    *)

\* create_run: one transaction.
CreateRun(h, r) ==
    /\ pool = "open" /\ at[h] = "idle"
    /\ status[r] = "absent"
    /\ status' = [status EXCEPT ![r] = "created"]
    /\ UNCHANGED <<requested, leased, dispatcher, requests, told, history>>

\* The row says that the run is being executed, and nobody executes it.
Interrupted(r) == status[r] = "running" /\ job # r

\* start_run: the states in which a run can be started.  The bound on start
\* requests is lifted for a run that somebody has to get going again.
Startable(r) == status[r] \in {"created", "failed"}

StartCheck(h, r) ==
    /\ pool = "open" /\ at[h] = "idle"
    /\ Startable(r)
    /\ asked[r] < MaxAsked \/ Interrupted(r)
    /\ asked' = [asked EXCEPT ![r] = IF @ < MaxAsked THEN @ + 1 ELSE @]
    /\ Serve(h, r, "submit")
    /\ UNCHANGED <<rows, dispatcher, told, barred, breaks, crashed>>

\* submit(), under the dispatcher's lock: no pool (500), a duplicate or no
\* slot (409), or the future is created.
Refused(r) == r \in active \/ slots = 0

Submit(h) ==
    LET r == for[h] IN
    /\ at[h] = "submit"
    /\ \/ /\ pool # "open" \/ Refused(r)
          /\ Answer(h)
          /\ UNCHANGED dispatcher
       \/ /\ pool = "open" /\ ~Refused(r)
          /\ active' = active \cup {r}
          /\ slots' = slots - 1
          /\ queue' = Append(queue, r)
          /\ Serve(h, r, "register")
          /\ UNCHANGED <<pool, job, jobAt, callbacks, ended>>
    /\ UNCHANGED <<rows, told, history>>

\* _finished(), under the lock.  The mutants forget to discard the run, and
\* wait for the lock while close() holds it during its wait for the futures.
Bug_Finished(r) == slots' = slots + 1 /\ UNCHANGED active
Bug_FinishedUnlessClosing(r) ==
    /\ pool # "draining"
    /\ active' = active \ {r}
    /\ slots' = slots + 1
Finished(r) ==
    /\ active' = active \ {r}
    /\ slots' = slots + 1

\* future.add_done_callback, outside the lock: a future that is done already
\* has its callback called here.
Register(h) ==
    LET r == for[h] IN
    /\ at[h] = "register"
    /\ IF r \in ended
         THEN /\ Finished(r)
              /\ ended' = ended \ {r}
              /\ UNCHANGED callbacks
         ELSE /\ callbacks' = callbacks \cup {r}
              /\ UNCHANGED <<active, slots, ended>>
    /\ Answer(h)
    /\ UNCHANGED <<rows, pool, queue, job, jobAt, told, history>>

\* cancel_run: the status, then the durable request.
CancelCheck(h, r) ==
    /\ pool = "open" /\ at[h] = "idle"
    /\ status[r] \notin {"absent", "completed", "cancelled"}
    /\ ~requested[r]
    /\ Serve(h, r, "request")
    /\ UNCHANGED <<rows, dispatcher, told, history>>

RequestCancellation(h) ==
    LET r == for[h] IN
    /\ at[h] = "request"
    /\ requested' = [requested EXCEPT ![r] = TRUE]
    /\ barred' = [barred EXCEPT ![r] = status[r] \in {"created", "failed"}]
    /\ Answer(h)
    /\ UNCHANGED <<status, leased, dispatcher, told, asked, breaks, crashed>>

-----------------------------------------------------------------------------
(* The worker thread: _execute around the orchestrator's execute().        *)

WorkerTakes ==
    /\ jobAt = "idle" /\ queue # <<>>
    /\ job' = Head(queue)
    /\ queue' = Tail(queue)
    /\ jobAt' = "acquire"
    /\ Publish("run_started", Head(queue))
    /\ UNCHANGED <<rows, pool, active, slots, callbacks, ended, requests, history>>

WorkerGoto(where) ==
    /\ jobAt' = where
    /\ UNCHANGED <<pool, queue, job, active, slots, callbacks, ended>>

\* RunLeaseUnavailable is raised before the run is marked running, and leaves
\* its row alone.
WorkerAcquires ==
    /\ jobAt = "acquire"
    /\ WorkerGoto(IF job \in leased THEN "raised" ELSE "mark")
    /\ UNCHANGED <<rows, requests, told, history>>

Bug_Terminal(st) == FALSE
Terminal(st) == st \in {"completed", "cancelled"}

WorkerMarksRunning ==
    /\ jobAt = "mark"
    /\ IF Terminal(status[job])
         THEN UNCHANGED status /\ WorkerGoto("raised")
         ELSE /\ status' = [status EXCEPT ![job] = "running"]
              /\ WorkerGoto("check")
    /\ UNCHANGED <<requested, leased, requests, told, history>>

\* The cancellation requested before the stages begin.
Bug_CancelledFirst(r) == FALSE
CancelledFirst(r) == requested[r]

WorkerChecks ==
    /\ jobAt = "check"
    /\ IF CancelledFirst(job)
         THEN /\ status' = [status EXCEPT ![job] = "cancelled"]
              /\ WorkerGoto("raised")
         ELSE UNCHANGED status /\ WorkerGoto("work")
    /\ UNCHANGED <<requested, leased, requests, told, history>>

\* The stages complete, fail, or notice a cancellation.
WorkerWorks ==
    /\ jobAt = "work"
    /\ \E outcome \in {"completed", "failed", "cancelled"} :
         /\ outcome = "cancelled" => requested[job]
         /\ status' = [status EXCEPT ![job] = outcome]
         /\ WorkerGoto(IF outcome = "completed" THEN "returned" ELSE "raised")
    /\ UNCHANGED <<requested, leased, requests, told, history>>

\* A transaction fails, the one that acquires the lease, marks the run running
\* or records the outcome: execute() raises and the row is what it was.
TransactionFails ==
    /\ jobAt \in {"acquire", "mark", "work"}
    /\ breaks < MaxBreaks
    /\ breaks' = breaks + 1
    /\ WorkerGoto("raised")
    /\ UNCHANGED <<rows, requests, told, barred, asked, crashed>>

\* The transaction that releases the lease fails: execute() raises although
\* the run is completed.
ReleaseFails ==
    /\ jobAt = "returned"
    /\ breaks < MaxBreaks
    /\ breaks' = breaks + 1
    /\ leased' = leased \cup {job}
    /\ WorkerGoto("raised")
    /\ UNCHANGED <<status, requested, requests, told, barred, asked, crashed>>

\* The outcome is published and the future is done; its callback, if it has
\* one by now, runs in the worker thread.  The mutant swaps the two events.
Bug_OutcomeEvent == IF jobAt = "returned" THEN "run_failed" ELSE "run_completed"
OutcomeEvent == IF jobAt = "returned" THEN "run_completed" ELSE "run_failed"

WorkerEnds ==
    /\ jobAt \in {"returned", "raised"}
    /\ Publish(OutcomeEvent, job)
    /\ IF job \in callbacks
         THEN /\ jobAt' = "finish"
              /\ callbacks' = callbacks \ {job}
              /\ UNCHANGED <<job, ended>>
         ELSE /\ jobAt' = "idle"
              /\ job' = NoRun
              /\ ended' = ended \cup {job}
              /\ UNCHANGED callbacks
    /\ UNCHANGED <<rows, pool, queue, active, slots, requests, history>>

WorkerFinishes ==
    /\ jobAt = "finish"
    /\ Finished(job)
    /\ jobAt' = "idle"
    /\ job' = NoRun
    /\ UNCHANGED <<rows, pool, queue, callbacks, ended, requests,
                   told, history>>

-----------------------------------------------------------------------------
(* The process: its lifespan, its death and the next one.                  *)

\* start() when the application starts.
LifespanStart ==
    /\ pool = "closed"
    /\ pool' = "open"
    /\ UNCHANGED <<rows, queue, job, jobAt, active, slots, callbacks,
                   ended, requests, told, history>>

\* close(): no more futures, and a wait for those there are.
LifespanStop ==
    /\ pool = "open"
    /\ breaks < MaxBreaks
    /\ breaks' = breaks + 1
    /\ pool' = "draining"
    /\ UNCHANGED <<rows, queue, job, jobAt, active, slots, callbacks,
                   ended, requests, told, barred, asked, crashed>>

\* The memory of the process is gone.
MemoryLost ==
    /\ pool' = "closed"
    /\ queue' = <<>> /\ job' = NoRun /\ jobAt' = "idle"
    /\ active' = {} /\ slots' = MaxPending /\ callbacks' = {} /\ ended' = {}
    /\ at' = [h \in Handlers |-> "idle"]
    /\ for' = [h \in Handlers |-> NoRun]
    /\ told' = [r \in Runs |-> "none"]

\* shutdown(wait=True, cancel_futures=False) returns when all futures are done.
Bug_Drained == job = NoRun
Drained == queue = <<>> /\ job = NoRun

LifespanStopped ==
    /\ pool = "draining" /\ Drained
    /\ \A h \in Handlers : at[h] = "idle"
    /\ MemoryLost
    /\ UNCHANGED <<rows, history>>

\* The lease of the run in execution outlives the process.
Crash ==
    /\ pool # "closed"
    /\ breaks < MaxBreaks
    /\ breaks' = breaks + 1
    /\ leased' = IF jobAt \in {"mark", "check", "work"} THEN leased \cup {job}
                 ELSE leased
    /\ crashed' = TRUE
    /\ MemoryLost
    /\ UNCHANGED <<status, requested, barred, asked>>

LeaseExpires ==
    /\ leased # {}
    /\ leased' = {}
    /\ UNCHANGED <<status, requested, dispatcher, requests,
                   told, history>>

-----------------------------------------------------------------------------
Handle(h) ==
    \/ Submit(h)
    \/ Register(h)
    \/ RequestCancellation(h)

Worker ==
    \/ WorkerTakes
    \/ WorkerAcquires
    \/ WorkerMarksRunning
    \/ WorkerChecks
    \/ WorkerWorks
    \/ WorkerEnds
    \/ WorkerFinishes

\* Nobody has anything to do and the bounds allow no request.
AtRest ==
    /\ pool = "open" /\ queue = <<>> /\ job = NoRun
    /\ \A h \in Handlers : at[h] = "idle"
    /\ UNCHANGED vars

Next ==
    \/ \E h \in Handlers, r \in Runs :
          CreateRun(h, r) \/ StartCheck(h, r) \/ CancelCheck(h, r)
    \/ \E h \in Handlers : Handle(h)
    \/ Worker
    \/ TransactionFails \/ ReleaseFails
    \/ LifespanStart \/ LifespanStop \/ LifespanStopped
    \/ Crash \/ LeaseExpires
    \/ AtRest

Spec == Init /\ [][Next]_vars

\* Threads run and stages return; a server that is down is started again;
\* a lease that nobody renews expires.
Fairness ==
    /\ WF_vars(Worker)
    /\ \A h \in Handlers : WF_vars(Handle(h))
    /\ WF_vars(LifespanStart)
    /\ WF_vars(LifespanStopped)
    /\ WF_vars(LeaseExpires)

FairSpec == Spec /\ Fairness

-----------------------------------------------------------------------------
(* Properties.                                                             *)

\* There are never more than maximum_pending_runs slots, nor fewer than none.
TypeOK ==
    /\ status \in [Runs -> Statuses]
    /\ requested \in [Runs -> BOOLEAN]
    /\ leased \subseteq Runs
    /\ pool \in {"closed", "open", "draining"}
    /\ queue \in Seq(Runs)
    /\ job \in Runs \cup {NoRun}
    /\ jobAt \in WorkerAts
    /\ active \subseteq Runs
    /\ slots \in 0..MaxPending
    /\ callbacks \subseteq Runs
    /\ ended \subseteq Runs
    /\ at \in [Handlers -> HandlerAts]
    /\ for \in [Handlers -> Runs \cup {NoRun}]
    /\ told \in [Runs -> Outcomes \cup {"run_started", "none"}]
    /\ barred \in [Runs -> BOOLEAN]
    /\ asked \in [Runs -> 0..MaxAsked]
    /\ breaks \in 0..MaxBreaks
    /\ crashed \in BOOLEAN

\* How many ways there are for run r to be taken out of _active: its future
\* waits or runs, its callback runs, or the thread that submits it will find
\* it done.
WaysOut(r) ==
    Cardinality({i \in DOMAIN queue : queue[i] = r})
      + (IF job = r THEN 1 ELSE 0) + (IF r \in ended THEN 1 ELSE 0)

\* Whatever the order in which a future ends and its callback is added, every
\* active run has one way out and no other run has any, and the slots that
\* are taken are those of the active runs: no slot is lost or given back
\* twice, and no run stays "already queued".
SlotsAccounted ==
    /\ \A r \in Runs : WaysOut(r) = IF r \in active THEN 1 ELSE 0
    /\ slots + Cardinality(active) = MaxPending
    /\ \A r \in ended : \E h \in Handlers : at[h] = "register" /\ for[h] = r

\* A cancellation that was acknowledged before the run was taken up (again)
\* is never overtaken by its execution, whatever is queued or restarted.
BarredNeverCompletes == \A r \in Runs : barred[r] => status[r] # "completed"

\* A completed or cancelled run stays so, although its state is read before
\* it is queued and can have changed when it is executed.
OutcomeStays ==
    [][\A r \in Runs : status[r] \in {"completed", "cancelled"} =>
                          status'[r] = status[r]]_status

\* The event "run_completed" is only published of a completed run.
CompletionIsTrue ==
    \A r \in Runs : told[r] = "run_completed" => status[r] = "completed"

\* A run that was accepted is executed unless the process dies: the queue is
\* worked off in order, also while the server stops.
AcceptedIsExecuted ==
    \A r \in Runs :
        (\E i \in DOMAIN queue : queue[i] = r) ~> (job = r \/ crashed)

\* A server that stops does stop.
StopEnds == pool = "draining" ~> pool = "closed"
=============================================================================
