------------------------------ MODULE OnnxWorker ------------------------------
(***************************************************************************)
(* PersistentOnnxCudaWorker (inference/onnx_worker.py): one session, three *)
(* methods that any thread may call, one lock around each of them.         *)
(*                                                                         *)
(* The runtime is external: a step of it succeeds, or fails in a way the   *)
(* worker turns into an exception.                                         *)
(***************************************************************************)
EXTENDS Naturals

CONSTANTS Threads,
          WarmupRuns,       \* warmup_runs
          MaximumBatchSize  \* maximum_batch_size

VARIABLES state,   \* _state
          session, \* _session: "none", "cuda", or "cpu"
          warmed,  \* warm-up runs the session has been through
          within,  \* by thread: the method it is in and how far it is
          batch    \* by thread: size of the batch it has handed over, 0 before

workerVars == <<state, session, warmed, within, batch>>

Locked == {"verifying", "warming", "running"}
Free == \A t \in Threads : within[t] \notin Locked

Init ==
    /\ state = "created"
    /\ session = "none"
    /\ warmed = 0
    /\ within = [t \in Threads |-> "outside"]
    /\ batch = [t \in Threads |-> 0]

Enter(t, place) == within' = [within EXCEPT ![t] = place]

(* start(): a ready worker answers at once, any other but a new one raises.*)
Start(t) ==
    /\ within[t] = "outside" /\ Free
    /\ Enter(t, IF state = "created" THEN "verifying" ELSE "outside")
    /\ UNCHANGED <<state, session, warmed, batch>>

Failed(t) ==
    /\ session' = "none"
    /\ state' = "failed"
    /\ Enter(t, "outside")
    /\ UNCHANGED warmed

(* _validate_session, after the file, its checksum and the providers.      *)
Accepted(provider) == provider = "cuda"

(* _verified_model_path, create_cuda_session and _validate_session; the    *)
(* file, the runtime or the contract of its tensors may also be wrong.     *)
CreateSession(t) ==
    /\ within[t] = "verifying"
    /\ \/ \E provider \in {"cuda", "cpu"} :
             /\ Accepted(provider)
             /\ session' = provider
             /\ Enter(t, "warming")
             /\ UNCHANGED <<state, warmed>>
       \/ Failed(t)
    /\ UNCHANGED batch

(* One warm-up run: its outputs are checked like any other's.              *)
Warm(t) ==
    /\ within[t] = "warming"
    /\ \/ /\ warmed' = warmed + 1
          /\ IF warmed' = WarmupRuns
             THEN state' = "ready" /\ Enter(t, "outside")
             ELSE UNCHANGED <<state, within>>
          /\ UNCHANGED session
       \/ Failed(t)
    /\ UNCHANGED batch

Ready == state = "ready" /\ session # "none"

(* infer(): refused unless ready; what batches a model accepts is          *)
(* ModelBundle's.                                                          *)
Infer(t, size) ==
    /\ within[t] = "outside" /\ Free
    /\ Ready
    /\ Enter(t, "running")
    /\ batch' = [batch EXCEPT ![t] = size]
    /\ UNCHANGED <<state, session, warmed>>

(* The outputs are complete and copied, or there is none; the worker stays *)
(* ready after an error.                                                   *)
Answer(t) ==
    /\ within[t] = "running"
    /\ Enter(t, "outside")
    /\ batch' = [batch EXCEPT ![t] = 0]
    /\ UNCHANGED <<state, session, warmed>>

(* A close() that does not wait.                                           *)
Bug_CloseAllowed == TRUE

(* close() waits for the lock like the others.                             *)
CloseAllowed == Free

Close(t) ==
    /\ within[t] = "outside" /\ CloseAllowed
    /\ session' = "none"
    /\ state' = "closed"
    /\ UNCHANGED <<warmed, within, batch>>

Next == \E t \in Threads :
    \/ Start(t) \/ CreateSession(t) \/ Warm(t) \/ Answer(t) \/ Close(t)
    \/ \E size \in 1..MaximumBatchSize : Infer(t, size)

Spec == Init /\ [][Next]_workerVars

TypeOK ==
    /\ state \in {"created", "ready", "failed", "closed"}
    /\ session \in {"none", "cuda", "cpu"}
    /\ warmed \in 0..WarmupRuns
    /\ within \in [Threads -> Locked \cup {"outside"}]
    /\ batch \in [Threads -> 0..MaximumBatchSize]

(* While a batch runs, its session is there, on the GPU, has been through  *)
(* every warm-up run and is nobody else's: close() and start() of other    *)
(* threads cannot take it away in the middle, and a worker that was closed *)
(* or has failed while another thread waited never runs one.               *)
RunsOnWarmSession ==
    \A t \in Threads : within[t] = "running" =>
        /\ state = "ready" /\ session = "cuda" /\ warmed = WarmupRuns
        /\ \A u \in Threads \ {t} : within[u] \notin Locked
===============================================================================
