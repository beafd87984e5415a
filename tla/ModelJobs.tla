------------------------------ MODULE ModelJobs ------------------------------
(***************************************************************************)
(* Model-library jobs (api/model_jobs.py): imports, archivings and         *)
(* deletions of models run one after the other on one worker thread while  *)
(* request threads submit and look at them.                                *)
(*                                                                         *)
(* The job table is the only state the dispatcher keeps.  A submission is  *)
(* two critical sections with the registration of the done callback        *)
(* between them, and that callback runs on the worker when the operation   *)
(* ends later, on the request thread when it has ended already.            *)
(***************************************************************************)
EXTENDS Integers, Sequences, FiniteSets, Functions

CONSTANTS Requests,          \* the submissions: one request thread, one job each
          MaximumRetained    \* maximum_retained_jobs

VARIABLES table,    \* _jobs: the status of each job, and its place in the order of the dict
          queue,    \* operations the executor has not begun
          worker,   \* the request the worker thread is busy with, or NoRequest
          ended,    \* the requests whose operation returned or raised
          phase,    \* where each request thread is
          callback, \* who still has to run the callback: "worker", "caller", "done"
          closed    \* _closed

modelVars == <<table, queue, worker, ended, phase, callback, closed>>

NoRequest == "none"
Finished == {"completed", "failed"}
Statuses == {"queued", "running"} \cup Finished

Known(r) == r \in DOMAIN table

Accepted(r) == phase[r] \notin {"new", "refused"}

(* The table with the status of one job replaced; its place stays.         *)
WithStatus(r, status) == [table EXCEPT ![r].status = status]

(* The table with a job added behind those there are.                      *)
Inserted(jobs, r) ==
    [q \in DOMAIN jobs \cup {r} |->
        IF q = r THEN [status |-> "queued", place |-> Cardinality({s \in Requests : Accepted(s)})]
                 ELSE jobs[q]]

(* The first jobs of a set, "overflow" of them, in the order of the dict.   *)
Oldest(ids, overflow) ==
    {r \in ids : Cardinality({q \in ids : table[q].place < table[r].place}) < overflow}

Overflow == (Cardinality(DOMAIN table) + 1) - MaximumRetained

(* A trim that takes the oldest jobs whatever they are doing.              *)
Bug_Trimmed == Restrict(table, DOMAIN table \ Oldest(DOMAIN table, Overflow))

(* _trim_completed_jobs: the oldest finished jobs make room for one more.  *)
Trimmed ==
    LET finished == {r \in DOMAIN table : table[r].status \in Finished}
    IN  Restrict(table, DOMAIN table \ Oldest(finished, Overflow))

Init ==
    /\ table = [r \in {} |-> r]
    /\ queue = <<>>
    /\ worker = NoRequest
    /\ ended = {}
    /\ phase = [r \in Requests |-> "new"]
    /\ callback = [r \in Requests |-> "worker"]
    /\ closed = FALSE

(* _submit, its first critical section: refused after close(); otherwise   *)
(* the job enters the trimmed table and the queue of the executor.         *)
Submit(r) ==
    /\ phase[r] = "new"
    /\ IF closed
       THEN /\ phase' = [phase EXCEPT ![r] = "refused"]
            /\ UNCHANGED <<table, queue>>
       ELSE /\ phase' = [phase EXCEPT ![r] = "submitted"]
            /\ table' = Inserted(Trimmed, r)
            /\ queue' = Append(queue, r)
    /\ UNCHANGED <<worker, ended, callback, closed>>

(* A registration that forgets an operation which has ended already.       *)
Bug_CallbackRunner(r) == "worker"

CallbackRunner(r) == IF r \in ended THEN "caller" ELSE "worker"

(* future.add_done_callback: kept for the worker while the operation is    *)
(* unfinished, left to this thread when it has ended.                      *)
Register(r) ==
    /\ phase[r] = "submitted"
    /\ phase' = [phase EXCEPT ![r] = "registered"]
    /\ callback' = [callback EXCEPT ![r] = CallbackRunner(r)]
    /\ UNCHANGED <<table, queue, worker, ended, closed>>

(* A second critical section that does not look at the status first.       *)
Bug_MarkedRunning(r) == IF Known(r) THEN WithStatus(r, "running") ELSE table

MarkedRunning(r) ==
    IF Known(r) /\ table[r].status = "queued" THEN WithStatus(r, "running") ELSE table

(* _submit, its second critical section: a job still queued becomes        *)
(* running; a job trimmed meanwhile is a KeyError for the caller.          *)
Reply(r) ==
    /\ phase[r] = "registered"
    /\ callback[r] # "caller"
    /\ phase' = [phase EXCEPT ![r] = IF Known(r) THEN "answered" ELSE "key_error"]
    /\ table' = MarkedRunning(r)
    /\ UNCHANGED <<queue, worker, ended, callback, closed>>

(* The worker thread of the executor takes the next operation.             *)
Begin ==
    /\ worker = NoRequest
    /\ queue # <<>>
    /\ worker' = Head(queue)
    /\ queue' = Tail(queue)
    /\ UNCHANGED <<table, ended, phase, callback, closed>>

(* The operation returns or raises.  The worker is free again at once when *)
(* nobody has registered a callback yet.                                   *)
EndOperation ==
    /\ worker # NoRequest
    /\ worker \notin ended
    /\ ended' = ended \cup {worker}
    /\ worker' = IF phase[worker] = "submitted" THEN NoRequest ELSE worker
    /\ UNCHANGED <<table, queue, phase, callback, closed>>

(* _complete: whoever runs the callback records the outcome.  A job that   *)
(* is not in the table raises, and the executor only logs that.            *)
Complete(r, outcome) ==
    /\ r \in ended
    /\ \/ worker = r /\ callback[r] = "worker" /\ worker' = NoRequest
       \/ callback[r] = "caller" /\ worker' = worker
    /\ callback' = [callback EXCEPT ![r] = "done"]
    /\ table' = IF Known(r) THEN WithStatus(r, outcome) ELSE table
    /\ UNCHANGED <<queue, ended, phase, closed>>

(* close: no more submissions, those accepted are carried out.             *)
Close ==
    /\ ~closed
    /\ closed' = TRUE
    /\ UNCHANGED <<table, queue, worker, ended, phase, callback>>

Step(r) == Submit(r) \/ Register(r) \/ Reply(r) \/ \E o \in Finished : Complete(r, o)
Next == (\E r \in Requests : Step(r)) \/ Begin \/ EndOperation \/ Close

(* Threads run: a request thread past its submission, the worker thread.   *)
Fairness ==
    /\ \A r \in Requests : WF_modelVars(Register(r) \/ Reply(r) \/ \E o \in Finished : Complete(r, o))
    /\ WF_modelVars(Begin)
    /\ WF_modelVars(EndOperation)

Spec == Init /\ [][Next]_modelVars /\ Fairness

TypeOK ==
    /\ DOMAIN table \subseteq Requests
    /\ table \in [DOMAIN table -> [status : Statuses, place : Nat]]
    /\ queue \in Seq(Requests)
    /\ worker \in Requests \cup {NoRequest}
    /\ ended \subseteq Requests
    /\ phase \in [Requests -> {"new", "refused", "submitted", "registered", "answered",
                               "key_error"}]
    /\ callback \in [Requests -> {"worker", "caller", "done"}]
    /\ closed \in BOOLEAN

(* A job that is not finished stays in the table, whatever is trimmed and  *)
(* whichever thread runs its callback: the page can poll it.               *)
UnfinishedKept ==
    \A r \in Requests : Accepted(r) /\ callback[r] # "done" => Known(r)

(* A finished job is never reported as running again, although the caller  *)
(* moves its job to running after the worker may have finished it.         *)
FinalStays ==
    [][\A r \in DOMAIN table \cap DOMAIN table' :
          table[r].status \in Finished => table'[r] = table[r]]_table

(* Every job that was accepted comes to an end, also after close().        *)
AcceptedEnds ==
    \A r \in Requests : Accepted(r) ~> callback[r] = "done"
=============================================================================
