------------------------------- MODULE JobProofs -------------------------------
(***************************************************************************)
(* Theorems about the two job dispatchers and the page, for any number of  *)
(* submissions, jobs, pages, monitors and crashes, and any size of the     *)
(* table: what a dispatcher keeps, and what a page may show.               *)
(***************************************************************************)
EXTENDS MCJobs, SequenceTheorems, TLAPS

-----------------------------------------------------------------------------
(* The table of the model jobs.                                            *)

Unfinished == {"queued", "running"}

ModelTypes ==
    /\ DOMAIN table \subseteq Requests
    /\ table = [r \in DOMAIN table |-> [status |-> table[r].status, place |-> table[r].place]]
    /\ \A r \in DOMAIN table : table[r].status \in Models!Statuses
    /\ queue \in Seq(Requests)
    /\ worker \in Requests \cup {Models!NoRequest}
    /\ phase \in [Requests -> {"new", "refused", "submitted", "registered", "answered",
                               "key_error"}]
    /\ callback \in [Requests -> {"worker", "caller", "done"}]
    /\ ended \subseteq Requests

Waits(r) == \E i \in DOMAIN queue : queue[i] = r

\* Whatever the dispatcher has of a request it has of an accepted one.
OfAccepted ==
    \A r \in Requests :
        \/ r \in DOMAIN table
        \/ Waits(r)
        \/ worker = r /\ r # Models!NoRequest
        \/ r \in ended
        \/ callback[r] # "worker"
        => Models!Accepted(r)

\* A job is in the table, and not finished there, until its callback has run.
KeptUnfinished ==
    \A r \in Requests :
        Models!Accepted(r) /\ callback[r] # "done" =>
            r \in DOMAIN table /\ table[r].status \in Unfinished

\* An operation is begun once.  Until the callback is registered nobody runs
\* it: the worker does not stay with an operation that ends before.
BegunOnce ==
    /\ \A i, j \in DOMAIN queue : queue[i] = queue[j] => i = j
    /\ \A r \in Requests : Waits(r) => worker # r /\ r \notin ended
    /\ \A r \in Requests : phase[r] = "submitted" =>
          callback[r] = "worker" /\ ~(worker = r /\ r \in ended)

ModelInv == ModelTypes /\ OfAccepted /\ KeptUnfinished /\ BegunOnce

\* No entry with an outcome is changed, although it may be taken out.
OutcomesStay ==
    \A r \in DOMAIN table \cap DOMAIN table' :
        table[r].status \in Models!Finished => table'[r] = table[r]

LEMMA ModelInit == Models!Init => ModelInv
BY EmptySeq
DEF Models!Init, ModelInv, ModelTypes, OfAccepted, KeptUnfinished, BegunOnce,
    Models!Accepted, Waits

\* The trimmed table is a part of the table and has what was not finished.
LEMMA TrimmedTable ==
    ASSUME ModelTypes
    PROVE  /\ DOMAIN Models!Trimmed \subseteq DOMAIN table
           /\ \A r \in DOMAIN Models!Trimmed : Models!Trimmed[r] = table[r]
           /\ \A r \in DOMAIN table :
                 table[r].status \in Unfinished => r \in DOMAIN Models!Trimmed
BY DEF Models!Trimmed, Models!Restrict, Models!Oldest, Models!Finished, Unfinished

\* A submission adds its own job to what the trimming leaves.
LEMMA SubmitKept ==
    ASSUME ModelInv, NEW r \in Requests, Models!Submit(r)
    PROVE  ModelInv' /\ OutcomesStay
<1>1. CASE closed
  <2>1. UNCHANGED <<table, queue, worker, ended, callback>> /\ phase' = [phase EXCEPT ![r] = "refused"]
    BY <1>1 DEF Models!Submit
  <2>2. phase[r] = "new" BY DEF Models!Submit
  <2>3. QED
    BY <2>1, <2>2
    DEF ModelInv, ModelTypes, OfAccepted, KeptUnfinished, BegunOnce, OutcomesStay,
        Models!Accepted, Waits
<1>2. CASE ~closed
  <2>1. /\ phase[r] = "new" /\ phase' = [phase EXCEPT ![r] = "submitted"]
        /\ table' = Models!Inserted(Models!Trimmed, r)
        /\ queue' = Append(queue, r)
        /\ UNCHANGED <<worker, ended, callback>>
    BY <1>2 DEF Models!Submit
  <2>2. PICK n : table' = [q \in DOMAIN Models!Trimmed \cup {r} |->
                             IF q = r THEN [status |-> "queued", place |-> n]
                                      ELSE Models!Trimmed[q]]
    BY <2>1 DEF Models!Inserted
  <2>3. r \notin DOMAIN table BY <2>1 DEF ModelInv, OfAccepted, Models!Accepted
  <2>4. /\ DOMAIN table' \subseteq DOMAIN table \cup {r}
        /\ table'[r] = [status |-> "queued", place |-> n] /\ r \in DOMAIN table'
        /\ \A q \in DOMAIN table' \ {r} : q \in DOMAIN table /\ table'[q] = table[q]
        /\ \A q \in DOMAIN table : table[q].status \in Unfinished => q \in DOMAIN table' \ {r}
    BY <2>2, <2>3, TrimmedTable DEF ModelInv
  <2>5. \A q \in Requests : Models!Accepted(q)' <=> Models!Accepted(q) \/ q = r
    BY <2>1 DEF ModelInv, ModelTypes, Models!Accepted
  <2>6. ModelTypes'
    <3>1. table' = [q \in DOMAIN table' |-> table'[q]] BY <2>2
    <3>2. \A q \in DOMAIN table' :
             /\ table'[q] = [status |-> table'[q].status, place |-> table'[q].place]
             /\ table'[q].status \in Models!Statuses
      BY <2>4 DEF ModelInv, ModelTypes, Models!Statuses
    <3>3. table' = [q \in DOMAIN table' |->
                      [status |-> table'[q].status, place |-> table'[q].place]]
      BY <3>1, <3>2
    <3>4. queue' \in Seq(Requests) BY <2>1 DEF ModelInv, ModelTypes
    <3>5. QED BY <2>1, <2>4, <3>2, <3>3, <3>4 DEF ModelInv, ModelTypes
  <2>7. OfAccepted'
    <3>1. \A q \in Requests : Waits(q)' => Waits(q) \/ q = r
      BY <2>1, AppendProperties, LenProperties DEF ModelInv, ModelTypes, Waits
    <3>2. QED BY <2>1, <2>4, <2>5, <3>1 DEF ModelInv, ModelTypes, OfAccepted
  <2>8. KeptUnfinished'
    BY <2>1, <2>4, <2>5 DEF ModelInv, KeptUnfinished, Unfinished
  <2>9. OutcomesStay BY <2>3, <2>4 DEF OutcomesStay
  <2>10. BegunOnce'
    <3>1. ~Waits(r) /\ r \notin ended /\ worker # r /\ callback[r] = "worker"
      BY <2>1, JobsAssumption DEF ModelInv, OfAccepted, Models!Accepted
    <3>2. \A q \in Requests : Waits(q)' => Waits(q) \/ q = r
      BY <2>1, AppendProperties, LenProperties DEF ModelInv, ModelTypes, Waits
    <3>3. ASSUME NEW i \in DOMAIN queue', NEW j \in DOMAIN queue', queue'[i] = queue'[j]
          PROVE  i = j
      BY <2>1, <3>1, <3>3, AppendProperties, LenProperties
      DEF ModelInv, ModelTypes, BegunOnce, Waits
    <3>4. \A q \in Requests \ {r} : phase'[q] = phase[q] BY <2>1 DEF ModelInv, ModelTypes
    <3>5. QED BY <2>1, <3>1, <3>2, <3>3, <3>4 DEF ModelInv, BegunOnce
  <2>11. QED BY <2>6, <2>7, <2>8, <2>9, <2>10 DEF ModelInv
<1>3. QED BY <1>1, <1>2

\* A job whose status is replaced keeps its place, and so do the others.
LEMMA StatusReplaced ==
    ASSUME ModelTypes, NEW r \in DOMAIN table, NEW s \in Models!Statuses,
           table' = Models!WithStatus(r, s)
    PROVE  /\ DOMAIN table' = DOMAIN table
           /\ table' = [q \in DOMAIN table' |->
                           [status |-> table'[q].status, place |-> table'[q].place]]
           /\ table'[r].status = s
           /\ \A q \in DOMAIN table \ {r} : table'[q] = table[q]
<1>1. DOMAIN table' = DOMAIN table /\ table' = [q \in DOMAIN table |-> table'[q]]
  BY DEF ModelTypes, Models!WithStatus
<1>2. \A q \in DOMAIN table \ {r} : table'[q] = table[q]
  BY DEF ModelTypes, Models!WithStatus
<1>3. table[r] = [status |-> table[r].status, place |-> table[r].place] BY DEF ModelTypes
<1>4. table'[r] = [status |-> s, place |-> table[r].place]
  BY <1>3 DEF ModelTypes, Models!WithStatus
<1>5. \A q \in DOMAIN table :
         table'[q] = [status |-> table'[q].status, place |-> table'[q].place]
  BY <1>2, <1>4 DEF ModelTypes
<1>6. QED BY <1>1, <1>2, <1>4, <1>5

\* The second critical section finds the job queued or leaves it alone.
LEMMA ReplyKept ==
    ASSUME ModelInv, NEW r \in Requests, Models!Reply(r)
    PROVE  ModelInv' /\ OutcomesStay
<1>1. /\ phase[r] = "registered"
      /\ phase' = [phase EXCEPT ![r] = IF r \in DOMAIN table THEN "answered" ELSE "key_error"]
      /\ UNCHANGED <<queue, worker, ended, callback>>
  BY DEF Models!Reply, Models!Known
<1>2. phase' \in [Requests -> {"new", "refused", "submitted", "registered", "answered",
                               "key_error"}]
  BY <1>1 DEF ModelInv, ModelTypes
<1>3. \A q \in Requests :
         /\ Models!Accepted(q)' <=> Models!Accepted(q)
         /\ Waits(q)' <=> Waits(q)
  BY <1>1 DEF ModelInv, ModelTypes, Models!Accepted, Waits
<1>b. BegunOnce'
  BY <1>1, <1>2, <1>3 DEF ModelInv, ModelTypes, BegunOnce
<1>4. CASE r \in DOMAIN table /\ table[r].status = "queued"
  <2>1. table' = Models!WithStatus(r, "running")
    BY <1>4 DEF Models!Reply, Models!MarkedRunning, Models!Known
  <2>2. /\ DOMAIN table' = DOMAIN table
        /\ table' = [q \in DOMAIN table' |->
                        [status |-> table'[q].status, place |-> table'[q].place]]
        /\ table'[r].status = "running"
        /\ \A q \in DOMAIN table \ {r} : table'[q] = table[q]
    BY <1>4, <2>1, StatusReplaced DEF ModelInv, Models!Statuses
  <2>3. ModelTypes' BY <1>1, <1>2, <2>2 DEF ModelInv, ModelTypes, Models!Statuses
  <2>4. OfAccepted' BY <1>1, <1>3, <2>2 DEF ModelInv, OfAccepted
  <2>5. KeptUnfinished'
    BY <1>1, <1>3, <2>2 DEF ModelInv, KeptUnfinished, Unfinished
  <2>6. OutcomesStay BY <1>4, <2>2 DEF OutcomesStay, Models!Finished
  <2>7. QED BY <1>b, <2>3, <2>4, <2>5, <2>6 DEF ModelInv
<1>5. CASE ~(r \in DOMAIN table /\ table[r].status = "queued")
  <2>1. table' = table BY <1>5 DEF Models!Reply, Models!MarkedRunning, Models!Known
  <2>2. ModelTypes' BY <1>1, <1>2, <2>1 DEF ModelInv, ModelTypes
  <2>3. OfAccepted' /\ KeptUnfinished' /\ OutcomesStay
    BY <1>1, <1>3, <2>1 DEF ModelInv, OfAccepted, KeptUnfinished, OutcomesStay
  <2>4. QED BY <1>b, <2>2, <2>3 DEF ModelInv
<1>6. QED BY <1>4, <1>5

\* The callback runs once, and finds the job unfinished.
LEMMA CompleteKept ==
    ASSUME ModelInv, NEW r \in Requests, NEW s \in Models!Finished, Models!Complete(r, s)
    PROVE  ModelInv' /\ OutcomesStay
<1>1. /\ callback' = [callback EXCEPT ![r] = "done"] /\ callback[r] # "done"
      /\ r \in ended
      /\ worker' \in {worker, Models!NoRequest}
      /\ UNCHANGED <<queue, ended, phase>>
  BY DEF Models!Complete
<1>2. Models!Accepted(r) BY <1>1 DEF ModelInv, OfAccepted
<1>3. r \in DOMAIN table /\ table[r].status \in Unfinished
  BY <1>1, <1>2 DEF ModelInv, KeptUnfinished
<1>4. s \in Models!Statuses BY DEF Models!Finished, Models!Statuses
<1>5. table' = Models!WithStatus(r, s) BY <1>3 DEF Models!Complete, Models!Known
<1>6. /\ DOMAIN table' = DOMAIN table
      /\ table' = [q \in DOMAIN table' |->
                      [status |-> table'[q].status, place |-> table'[q].place]]
      /\ table'[r].status = s
      /\ \A q \in DOMAIN table \ {r} : table'[q] = table[q]
  BY <1>3, <1>4, <1>5, StatusReplaced DEF ModelInv
<1>7. ModelTypes' BY <1>1, <1>4, <1>6 DEF ModelInv, ModelTypes
<1>8. \A q \in Requests :
         /\ Models!Accepted(q)' <=> Models!Accepted(q)
         /\ Waits(q)' <=> Waits(q)
         /\ q # r => callback'[q] = callback[q]
         /\ callback'[r] = "done"
  BY <1>1 DEF ModelInv, ModelTypes, Models!Accepted, Waits
<1>9. OfAccepted' BY <1>1, <1>2, <1>6, <1>8 DEF ModelInv, OfAccepted
<1>10. KeptUnfinished' BY <1>6, <1>8 DEF ModelInv, KeptUnfinished
<1>11. OutcomesStay BY <1>3, <1>6 DEF OutcomesStay, Models!Finished, Unfinished
<1>12. BegunOnce' BY <1>1, <1>8, JobsAssumption DEF ModelInv, BegunOnce, Models!Complete
<1>13. QED BY <1>7, <1>9, <1>10, <1>11, <1>12 DEF ModelInv

LEMMA ModelStepKept ==
    ModelInv /\ Models!Next => ModelInv' /\ OutcomesStay
<1> SUFFICES ASSUME ModelInv, Models!Next PROVE ModelInv' /\ OutcomesStay
  OBVIOUS
<1>1. ASSUME NEW r \in Requests, Models!Register(r) PROVE ModelInv' /\ OutcomesStay
  <2>1. /\ phase[r] = "submitted" /\ phase' = [phase EXCEPT ![r] = "registered"]
        /\ callback' = [callback EXCEPT ![r] = Models!CallbackRunner(r)]
        /\ Models!CallbackRunner(r) \in {"caller", "worker"}
        /\ UNCHANGED <<table, queue, worker, ended>>
    BY <1>1 DEF Models!Register, Models!CallbackRunner
  <2>2. \A q \in Requests :
           /\ Models!Accepted(q)' <=> Models!Accepted(q)
           /\ Waits(q)' <=> Waits(q)
           /\ q # r => callback'[q] = callback[q]
           /\ Models!Accepted(r)
    BY <2>1 DEF ModelInv, ModelTypes, Models!Accepted, Waits
  <2>3. ModelTypes' BY <2>1 DEF ModelInv, ModelTypes
  <2>4. OfAccepted' BY <2>1, <2>2 DEF ModelInv, OfAccepted
  <2>5. callback[r] # "done" BY <2>1 DEF ModelInv, BegunOnce
  <2>6. KeptUnfinished' BY <2>1, <2>2, <2>5 DEF ModelInv, KeptUnfinished
  <2>7. BegunOnce' BY <2>1, <2>2 DEF ModelInv, ModelTypes, BegunOnce
  <2>8. QED BY <2>1, <2>3, <2>4, <2>6, <2>7 DEF ModelInv, OutcomesStay
<1>2. ASSUME Models!Begin PROVE ModelInv' /\ OutcomesStay
  <2>1. /\ queue # <<>> /\ worker' = Head(queue) /\ queue' = Tail(queue)
        /\ worker = Models!NoRequest
        /\ UNCHANGED <<table, ended, phase, callback>>
    BY <1>2 DEF Models!Begin
  <2>2. PICK r \in Requests : r = Head(queue)
    BY <2>1, HeadTailProperties DEF ModelInv, ModelTypes
  <2>3. /\ Tail(queue) \in Seq(Requests)
        /\ Len(queue) \in Nat \ {0} /\ DOMAIN queue = 1 .. Len(queue)
        /\ queue[1] = r
        /\ DOMAIN queue' = 1 .. Len(queue) - 1
        /\ \A i \in DOMAIN queue' : queue'[i] = queue[i + 1]
    BY <2>1, <2>2, HeadTailProperties, LenProperties DEF ModelInv, ModelTypes
  <2>4. Waits(r) /\ \A q \in Requests : Waits(q)' => Waits(q) BY <2>3 DEF Waits
  <2>5. ModelTypes' BY <2>1, <2>2, <2>3 DEF ModelInv, ModelTypes
  <2>6. OfAccepted' BY <2>1, <2>2, <2>4 DEF ModelInv, OfAccepted, Models!Accepted
  <2>7. BegunOnce'
    <3>1. ASSUME NEW i \in DOMAIN queue', NEW j \in DOMAIN queue', queue'[i] = queue'[j]
          PROVE  i = j
      BY <2>3, <3>1 DEF ModelInv, BegunOnce
    <3>2. ~Waits(r)' BY <2>3 DEF ModelInv, BegunOnce, Waits
    <3>3. r \notin ended BY <2>4 DEF ModelInv, BegunOnce
    <3>4. QED BY <2>1, <2>2, <2>4, <3>1, <3>2, <3>3 DEF ModelInv, BegunOnce
  <2>8. QED
    BY <2>1, <2>5, <2>6, <2>7 DEF ModelInv, KeptUnfinished, OutcomesStay, Models!Accepted
<1>3. ASSUME Models!EndOperation PROVE ModelInv' /\ OutcomesStay
  <2>1. PICK r \in Requests : worker = r
    BY <1>3 DEF Models!EndOperation, ModelInv, ModelTypes
  <2>2. /\ r \notin ended /\ ended' = ended \cup {r}
        /\ worker' = IF phase[r] = "submitted" THEN Models!NoRequest ELSE r
        /\ UNCHANGED <<table, queue, phase, callback>>
    BY <1>3, <2>1 DEF Models!EndOperation
  <2>3. Models!Accepted(r) BY <2>1, JobsAssumption DEF ModelInv, OfAccepted
  <2>4. \A q \in Requests :
           /\ Models!Accepted(q)' <=> Models!Accepted(q)
           /\ Waits(q)' <=> Waits(q)
    BY <2>2 DEF Models!Accepted, Waits
  <2>5. ModelTypes' BY <2>1, <2>2 DEF ModelInv, ModelTypes
  <2>6. OfAccepted' BY <2>1, <2>2, <2>3, <2>4, JobsAssumption DEF ModelInv, OfAccepted
  <2>7. KeptUnfinished' /\ OutcomesStay
    BY <2>2, <2>4 DEF ModelInv, KeptUnfinished, OutcomesStay
  <2>8. BegunOnce' BY <2>1, <2>2, <2>4, JobsAssumption DEF ModelInv, BegunOnce
  <2>9. QED BY <2>5, <2>6, <2>7, <2>8 DEF ModelInv
<1>4. ASSUME Models!Close PROVE ModelInv' /\ OutcomesStay
  BY <1>4
  DEF Models!Close, ModelInv, ModelTypes, OfAccepted, KeptUnfinished, BegunOnce,
      OutcomesStay, Models!Accepted, Waits
<1>5. QED
  BY <1>1, <1>2, <1>3, <1>4, SubmitKept, ReplyKept, CompleteKept
  DEF Models!Next, Models!Step

-----------------------------------------------------------------------------
(* The reconstruction service.                                              *)

\* What is on disk of a job that has come so far.
LeftBehind(place) ==
    CASE place = "rendering" -> {"frames"}
      [] place = "completing_center" -> {"frames", "preview"}
      [] place = "reporting" -> {"frames", "preview", "center"}
      [] place = "completed" -> Desk!Artifacts
      [] OTHER -> {}

ServerTypes ==
    /\ board \in [Desk!Jobs -> {"unknown", "queued"} \cup Desk!Running \cup Desk!Final]
    /\ accepted \in Nat
    /\ waiting \in Seq(Desk!Jobs)
    /\ files \in [Desk!Jobs -> SUBSET Desk!Artifacts]
    /\ restarts \in Nat

\* A job is known once it was accepted, and waits once, as long as it is queued.
WaitsQueued ==
    /\ \A j \in Desk!Jobs : board[j] # "unknown" => j <= accepted
    /\ \A i \in DOMAIN waiting : board[waiting[i]] = "queued"
    /\ \A i, k \in DOMAIN waiting : waiting[i] = waiting[k] => i = k

StagesLeft == \A j \in Desk!Jobs : LeftBehind(board[j]) \subseteq files[j]

ServerInv == ServerTypes /\ WaitsQueued /\ StagesLeft

\* The jobs of which everything is on disk.
Whole == {j \in Desk!Jobs : files[j] = Desk!Artifacts}

\* Outcomes are kept, and nothing on disk is taken away.
ServerKeeps ==
    /\ \A j \in Desk!Jobs : board[j] \in Desk!Final =>
          board'[j] = board[j] \/ restarts' # restarts
    /\ Whole \subseteq Whole'

LEMMA StagesNamed ==
    /\ Desk!Running = {"verifying", "rendering", "completing_center", "reporting"}
    /\ Desk!Final = {"completed", "failed"}
BY DEF Desk!Running, Desk!Stages, Desk!ToSet, Desk!Final

LEMMA ServerInit == Desk!Init => ServerInv
BY EmptySeq DEF Desk!Init, ServerInv, ServerTypes, WaitsQueued, StagesLeft, LeftBehind

LEMMA ServerUnchanged ==
    ASSUME ServerInv, UNCHANGED Desk!serverVars
    PROVE  ServerInv' /\ ServerKeeps
BY DEF ServerInv, ServerTypes, WaitsQueued, StagesLeft, ServerKeeps, Whole, Desk!serverVars

\* A stage that ends leaves what the next one is entitled to find.
LEMMA AdvanceKept ==
    ASSUME ServerInv, NEW j \in Desk!Jobs, Desk!Advance(j)
    PROVE  ServerInv' /\ ServerKeeps
<1>1. PICK n \in DOMAIN Desk!Stages :
         /\ board[j] = Desk!Stages[n]
         /\ files' = [files EXCEPT ![j] = @ \cup Desk!Published(Desk!Stages[n])]
         /\ board' = [board EXCEPT ![j] = Desk!Following(n)]
         /\ UNCHANGED <<accepted, waiting, restarts>>
  BY DEF Desk!Advance
<1>2. n \in 1 .. 4 BY DEF Desk!Stages
<1>3. /\ Desk!Following(n) \in Desk!Running \cup Desk!Final
      /\ Desk!Published(Desk!Stages[n]) \subseteq Desk!Artifacts
      /\ Desk!Stages[n] \in Desk!Running
      /\ LeftBehind(Desk!Following(n))
            = LeftBehind(Desk!Stages[n]) \cup Desk!Published(Desk!Stages[n])
  BY <1>2, StagesNamed
  DEF Desk!Following, Desk!Stages, Desk!Published, Desk!Artifacts, LeftBehind
<1>4. ServerTypes' BY <1>1, <1>3 DEF ServerInv, ServerTypes
<1>5. board[j] \notin {"unknown", "queued"} \cup Desk!Final BY <1>1, <1>3, StagesNamed
<1>6. /\ \A k \in Desk!Jobs \ {j} : board'[k] = board[k] /\ files'[k] = files[k]
      /\ board'[j] = Desk!Following(n)
      /\ files'[j] = files[j] \cup Desk!Published(Desk!Stages[n])
  BY <1>1 DEF ServerInv, ServerTypes
<1>7. WaitsQueued'
  BY <1>1, <1>5, <1>6, LenProperties DEF ServerInv, ServerTypes, WaitsQueued
<1>8. StagesLeft'
  <2>1. \A k \in Desk!Jobs : LeftBehind(board'[k]) \subseteq files'[k]
    BY <1>1, <1>3, <1>6 DEF ServerInv, StagesLeft
  <2>2. QED BY <2>1 DEF StagesLeft
<1>9. ServerKeeps BY <1>3, <1>5, <1>6 DEF ServerInv, ServerTypes, ServerKeeps, Whole
<1>10. QED BY <1>4, <1>7, <1>8, <1>9 DEF ServerInv

LEMMA ServiceKept ==
    ASSUME ServerInv, Desk!Work \/ Desk!Close \/ Desk!Restart
    PROVE  ServerInv' /\ ServerKeeps
<1>1. CASE Desk!Execute
  <2>1. /\ waiting # <<>> /\ waiting' = Tail(waiting)
        /\ board' = [board EXCEPT ![Head(waiting)] = "verifying"]
        /\ UNCHANGED <<accepted, files, restarts>>
    BY <1>1 DEF Desk!Execute, Desk!Stages
  <2>2. PICK j \in Desk!Jobs : j = Head(waiting)
    BY <2>1, HeadTailProperties DEF ServerInv, ServerTypes
  <2>3. /\ waiting' \in Seq(Desk!Jobs)
        /\ Len(waiting) \in Nat \ {0} /\ DOMAIN waiting = 1 .. Len(waiting)
        /\ waiting[1] = j
        /\ DOMAIN waiting' = 1 .. Len(waiting) - 1
        /\ \A i \in DOMAIN waiting' : waiting'[i] = waiting[i + 1]
    BY <2>1, <2>2, HeadTailProperties, LenProperties DEF ServerInv, ServerTypes
  <2>4. board[j] = "queued" BY <2>3 DEF ServerInv, WaitsQueued
  <2>5. /\ board'[j] = "verifying"
        /\ \A k \in Desk!Jobs \ {j} : board'[k] = board[k]
    BY <2>1, <2>2 DEF ServerInv, ServerTypes
  <2>6. ServerTypes' BY <2>1, <2>2, <2>3, StagesNamed DEF ServerInv, ServerTypes
  <2>7. WaitsQueued'
    <3>1. \A i \in DOMAIN waiting' : waiting'[i] \in Desk!Jobs \ {j}
      BY <2>3 DEF ServerInv, ServerTypes, WaitsQueued
    <3>2. \A i \in DOMAIN waiting' : board'[waiting'[i]] = "queued"
      BY <2>3, <2>5, <3>1 DEF ServerInv, WaitsQueued
    <3>3. \A i, k \in DOMAIN waiting' : waiting'[i] = waiting'[k] => i = k
      BY <2>3 DEF ServerInv, WaitsQueued
    <3>4. QED BY <2>1, <2>4, <2>5, <3>2, <3>3 DEF ServerInv, WaitsQueued
  <2>8. StagesLeft'
    <3>1. \A k \in Desk!Jobs : LeftBehind(board'[k]) \subseteq files'[k]
      BY <2>1, <2>5 DEF ServerInv, StagesLeft, LeftBehind
    <3>2. QED BY <3>1 DEF StagesLeft
  <2>9. ServerKeeps BY <2>1, <2>4, <2>5, StagesNamed DEF ServerKeeps, Whole
  <2>10. QED BY <2>6, <2>7, <2>8, <2>9 DEF ServerInv
<1>2. ASSUME NEW j \in Desk!Jobs, Desk!FailStage(j) PROVE ServerInv' /\ ServerKeeps
  <2>1. /\ board[j] \in Desk!Running
        /\ board' = [board EXCEPT ![j] = "failed"]
        /\ UNCHANGED <<accepted, waiting, files, restarts>>
    BY <1>2 DEF Desk!FailStage
  <2>2. /\ board'[j] = "failed"
        /\ \A k \in Desk!Jobs \ {j} : board'[k] = board[k]
    BY <2>1 DEF ServerInv, ServerTypes
  <2>3. ServerTypes' BY <2>1, StagesNamed DEF ServerInv, ServerTypes
  <2>4. WaitsQueued'
    BY <2>1, <2>2, StagesNamed, LenProperties DEF ServerInv, ServerTypes, WaitsQueued
  <2>5. StagesLeft'
    <3>1. \A k \in Desk!Jobs : LeftBehind(board'[k]) \subseteq files'[k]
      BY <2>1, <2>2 DEF ServerInv, StagesLeft, LeftBehind
    <3>2. QED BY <3>1 DEF StagesLeft
  <2>6. ServerKeeps BY <2>1, <2>2, StagesNamed DEF ServerKeeps, Whole
  <2>7. QED BY <2>3, <2>4, <2>5, <2>6 DEF ServerInv
<1>3. CASE Desk!Close
  BY <1>3
  DEF Desk!Close, ServerInv, ServerTypes, WaitsQueued, StagesLeft, ServerKeeps, Whole
<1>4. CASE Desk!Restart
  BY <1>4, EmptySeq
  DEF Desk!Restart, ServerInv, ServerTypes, WaitsQueued, StagesLeft, LeftBehind,
      ServerKeeps, Whole
<1>5. QED BY <1>1, <1>2, <1>3, <1>4, AdvanceKept DEF Desk!Work

\* A submission is a job nobody has seen before.
LEMMA SubmissionKept ==
    ASSUME ServerInv, NEW m, Desk!Submit(m)
    PROVE  /\ ServerInv' /\ ServerKeeps
           /\ accepted' \in Desk!Jobs
           /\ UNCHANGED files
<1>1. /\ accepted < MaxJobs /\ accepted' = accepted + 1
      /\ board' = [board EXCEPT ![accepted'] = "queued"]
      /\ waiting' = Append(waiting, accepted')
      /\ UNCHANGED <<files, restarts>>
  BY DEF Desk!Submit, Desk!Handed
<1>2. PICK j \in Desk!Jobs : j = accepted'
  BY <1>1, JobsAssumption DEF Desk!Jobs, ServerInv, ServerTypes
<1>3. board[j] = "unknown"
  BY <1>1, <1>2 DEF ServerInv, ServerTypes, WaitsQueued
<1>4. /\ board'[j] = "queued"
      /\ \A k \in Desk!Jobs \ {j} : board'[k] = board[k]
  BY <1>1, <1>2 DEF ServerInv, ServerTypes
<1>5. /\ waiting' \in Seq(Desk!Jobs)
      /\ Len(waiting) \in Nat /\ DOMAIN waiting = 1 .. Len(waiting)
      /\ DOMAIN waiting' = 1 .. Len(waiting) + 1
      /\ waiting'[Len(waiting) + 1] = j
      /\ \A i \in DOMAIN waiting : waiting'[i] = waiting[i]
  BY <1>1, <1>2, AppendProperties, LenProperties DEF ServerInv, ServerTypes
<1>6. \A i \in DOMAIN waiting : waiting[i] \in Desk!Jobs \ {j}
  BY <1>3, <1>5 DEF ServerInv, ServerTypes, WaitsQueued
<1>7. ServerTypes' BY <1>1, <1>2, <1>5 DEF ServerInv, ServerTypes
<1>8. WaitsQueued'
  <2>1. \A i \in DOMAIN waiting' : board'[waiting'[i]] = "queued"
    BY <1>4, <1>5, <1>6 DEF ServerInv, WaitsQueued
  <2>2. \A i, k \in DOMAIN waiting' : waiting'[i] = waiting'[k] => i = k
    BY <1>5, <1>6 DEF ServerInv, WaitsQueued
  <2>3. \A k \in Desk!Jobs : board'[k] # "unknown" => k <= accepted'
    BY <1>1, <1>2, <1>4 DEF ServerInv, ServerTypes, WaitsQueued, Desk!Jobs
  <2>4. QED BY <2>1, <2>2, <2>3 DEF WaitsQueued
<1>9. StagesLeft'
  <2>1. \A k \in Desk!Jobs : LeftBehind(board'[k]) \subseteq files'[k]
    BY <1>1, <1>4 DEF ServerInv, StagesLeft, LeftBehind
  <2>2. QED BY <2>1 DEF StagesLeft
<1>10. ServerKeeps BY <1>1, <1>3, <1>4, StagesNamed DEF ServerKeeps, Whole
<1>11. QED BY <1>1, <1>2, <1>7, <1>8, <1>9, <1>10 DEF ServerInv

-----------------------------------------------------------------------------
(* The page and its monitors.                                              *)

Answers == {"none", "not_found", "queued", "running", "completed", "failed"}

\* A monitor that polls has a job.  It has an answer between two steps only,
\* and an answer "completed" was given of a job that is whole on disk.
MonitorOf(whole) ==
    {x \in [page : Nat, job : Desk!Jobs \cup {Desk!NoJob},
            at : {"posting", "posted", "asking", "answered", "waiting", "ended"},
            answer : Answers, aborted : BOOLEAN, restored : BOOLEAN] :
        /\ x.at \in {"posted", "asking", "answered", "waiting"} => x.job \in Desk!Jobs
        /\ x.answer # "none" => x.at = "answered"
        /\ x.answer = "completed" => x.job \in whole}

PageTypes ==
    /\ page \in Nat
    /\ session \in Desk!Jobs \cup {Desk!NoJob}
    /\ shown \in [job : Desk!Jobs \cup {Desk!NoJob}, status : Answers]

ShownWhole == shown.status = "completed" => shown.job \in Whole

PageInv == PageTypes /\ ShownWhole /\ monitors \in Seq(MonitorOf(Whole))

LEMMA PageInit == Desk!Init => PageInv
BY EmptySeq
DEF Desk!Init, PageInv, PageTypes, ShownWhole, Answers, Desk!Blank, Desk!NoJob

\* The more is on disk, the more a monitor may have been answered.
LEMMA MonitorsOfMore ==
    ASSUME NEW w, NEW v, w \subseteq v, NEW ms \in Seq(MonitorOf(w))
    PROVE  ms \in Seq(MonitorOf(v))
<1>1. \A x \in MonitorOf(w) : x \in MonitorOf(v) BY DEF MonitorOf
<1>2. Len(ms) \in Nat /\ ms \in [1 .. Len(ms) -> MonitorOf(w)] BY LenProperties
<1>3. ms \in [1 .. Len(ms) -> MonitorOf(v)] BY <1>1, <1>2
<1>4. QED BY <1>2, <1>3, SeqDef

\* A page that does not change shows a whole reconstruction after a step of
\* the service as before, and its monitors have heard of no other.
LEMMA PageStays ==
    ASSUME PageInv, ServerKeeps, UNCHANGED <<page, session, shown, monitors>>
    PROVE  PageInv'
<1>1. Whole \subseteq Whole' BY DEF ServerKeeps
<1>2. ShownWhole' BY <1>1 DEF PageInv, ShownWhole
<1>3. monitors' \in Seq(MonitorOf(Whole')) BY <1>1, MonitorsOfMore DEF PageInv
<1>4. QED BY <1>2, <1>3 DEF PageInv, PageTypes

\* Replacing one monitor.
LEMMA MonitorReplaced ==
    ASSUME NEW w, NEW ms \in Seq(MonitorOf(w)), NEW m \in DOMAIN ms, NEW x \in MonitorOf(w)
    PROVE  [ms EXCEPT ![m] = x] \in Seq(MonitorOf(w))
BY ExceptSeq, LenProperties

LEMMA OverIsMonitor == \A w : Desk!Over \in MonitorOf(w)
BY DEF Desk!Over, MonitorOf, Answers, Desk!NoJob

\* An abort ends a monitor or marks it.
LEMMA AbortedMonitors ==
    ASSUME NEW w, NEW ms \in Seq(MonitorOf(w)), NEW m
    PROVE  Desk!Abort(ms, m) \in Seq(MonitorOf(w))
<1>1. CASE m \notin DOMAIN ms BY <1>1 DEF Desk!Abort
<1>2. CASE m \in DOMAIN ms
  <2>1. ms[m] \in MonitorOf(w) BY <1>2, LenProperties
  <2>2. [ms[m] EXCEPT !.aborted = TRUE] \in MonitorOf(w) BY <2>1 DEF MonitorOf
  <2>3. [ms EXCEPT ![m] = [ms[m] EXCEPT !.aborted = TRUE]] \in Seq(MonitorOf(w))
    BY <1>2, <2>2, MonitorReplaced
  <2>4. [ms EXCEPT ![m] = Desk!Over] \in Seq(MonitorOf(w))
    BY <1>2, OverIsMonitor, MonitorReplaced
  <2>5. QED BY <1>2, <2>3, <2>4 DEF Desk!Abort
<1>3. QED BY <1>1, <1>2

LEMMA MonitorKept ==
    ASSUME PageInv, NEW m \in DOMAIN monitors
    PROVE  monitors[m] \in MonitorOf(Whole)
BY LenProperties DEF PageInv

LEMMA OneOf == ASSUME NEW S, NEW e \in S PROVE <<e>> \in Seq(S)
OBVIOUS

\* What the user does: nothing is shown completed by it.
LEMMA UserKept ==
    ASSUME PageInv,
           Desk!Mount \/ Desk!Unmount \/ Desk!SelectFolder \/ Desk!Reconstruct
    PROVE  PageInv' /\ UNCHANGED Desk!serverVars
<1>1. UNCHANGED Desk!serverVars
  BY DEF Desk!Mount, Desk!Unmount, Desk!SelectFolder, Desk!Reconstruct
<1>2. Whole' = Whole BY <1>1 DEF Whole, Desk!serverVars
<1>3. CASE Desk!Mount
  <2>1. /\ page' = page + 1 /\ shown' = Desk!Blank /\ UNCHANGED session
        /\ monitors' = monitors \o (IF session = Desk!NoJob THEN <<>>
                                    ELSE <<Desk!Started("asking", session, TRUE)>>)
    BY <1>3 DEF Desk!Mount
  <2>2. ASSUME session # Desk!NoJob
        PROVE  Desk!Started("asking", session, TRUE) \in MonitorOf(Whole)
    BY <2>1, <2>2 DEF Desk!Started, MonitorOf, Answers, PageInv, PageTypes
  <2>3. CASE session = Desk!NoJob
    <3>1. monitors' = monitors \o <<>> BY <2>1, <2>3
    <3>2. monitors' = monitors BY <3>1, ConcatEmptySeq DEF PageInv
    <3>3. PageTypes' /\ ShownWhole'
      BY <2>1 DEF PageInv, PageTypes, ShownWhole, Answers, Desk!Blank, Desk!NoJob
    <3>4. QED BY <1>1, <1>2, <3>2, <3>3 DEF PageInv
  <2>4. CASE session # Desk!NoJob
    <3>1. PICK y \in MonitorOf(Whole) : y = Desk!Started("asking", session, TRUE)
      BY <2>2, <2>4
    <3>2. monitors' = monitors \o <<y>> BY <2>1, <2>4, <3>1
    <3>3. <<y>> \in Seq(MonitorOf(Whole)) BY <3>1, OneOf
    <3>4. monitors' \in Seq(MonitorOf(Whole)) BY <3>2, <3>3, ConcatProperties DEF PageInv
    <3>5. PageTypes' /\ ShownWhole'
      BY <2>1 DEF PageInv, PageTypes, ShownWhole, Answers, Desk!Blank, Desk!NoJob
    <3>6. QED BY <1>1, <1>2, <3>4, <3>5 DEF PageInv
  <2>5. QED BY <2>3, <2>4
<1>4. CASE Desk!Unmount
  <2>1. UNCHANGED <<page, shown, session>> BY <1>4 DEF Desk!Unmount
  <2>2. PICK own : monitors' = Desk!Abort(monitors, own) BY <1>4 DEF Desk!Unmount
  <2>3. monitors' \in Seq(MonitorOf(Whole))
    <3>1. Desk!Abort(monitors, own) \in Seq(MonitorOf(Whole)) BY AbortedMonitors DEF PageInv
    <3>2. QED BY <2>2, <3>1
  <2>4. QED BY <1>1, <1>2, <2>1, <2>3 DEF PageInv, PageTypes, ShownWhole
<1>5. CASE Desk!SelectFolder
  BY <1>2, <1>5
  DEF Desk!SelectFolder, PageInv, PageTypes, ShownWhole, Answers, Desk!Blank, Desk!NoJob
<1>6. CASE Desk!Reconstruct
  <2>1. /\ UNCHANGED <<page, shown, session>>
        /\ monitors' = Append(Desk!Abort(monitors, current),
                              Desk!Started("posting", Desk!NoJob, FALSE))
    BY <1>6 DEF Desk!Reconstruct
  <2>2. Desk!Started("posting", Desk!NoJob, FALSE) \in MonitorOf(Whole)
    BY <2>1 DEF Desk!Started, MonitorOf, Answers, PageInv, PageTypes, Desk!NoJob
  <2>3. Desk!Abort(monitors, current) \in Seq(MonitorOf(Whole))
    BY AbortedMonitors DEF PageInv
  <2>4. monitors' \in Seq(MonitorOf(Whole))
    <3>1. PICK y \in MonitorOf(Whole) : y = Desk!Started("posting", Desk!NoJob, FALSE)
      BY <2>2
    <3>2. monitors' = Append(Desk!Abort(monitors, current), y) BY <2>1, <3>1
    <3>3. QED BY <2>3, <3>2, AppendProperties
  <2>5. QED BY <1>1, <1>2, <2>1, <2>4 DEF PageInv, PageTypes, ShownWhole
<1>7. QED BY <1>1, <1>3, <1>4, <1>5, <1>6

\* The answer of the service to a poll.
LEMMA AnswerTold ==
    ASSUME ServerInv, NEW j \in Desk!Jobs
    PROVE  /\ Desk!Answer(j) \in Answers
           /\ Desk!Answer(j) = "completed" => j \in Whole
<1>1. board[j] \in {"unknown", "queued"} \cup Desk!Running \cup Desk!Final
  BY DEF ServerInv, ServerTypes
<1>2. Desk!Answer(j) \in Answers BY <1>1, StagesNamed DEF Desk!Answer, Answers
<1>3. ASSUME Desk!Answer(j) = "completed" PROVE j \in Whole
  <2>1. board[j] = "completed" BY <1>1, <1>3, StagesNamed DEF Desk!Answer
  <2>2. Desk!Artifacts \subseteq files[j]
    BY <2>1 DEF ServerInv, StagesLeft, LeftBehind
  <2>3. QED BY <2>2 DEF ServerInv, ServerTypes, Whole
<1>4. QED BY <1>2, <1>3

\* A monitor that goes on, with a submission or without.
LEMMA MonitorStepKept ==
    ASSUME ServerInv, PageInv, NEW m \in DOMAIN monitors,
           Desk!Network(m) \/ Desk!PostFails(m) \/ Desk!PollFails(m)
    PROVE  PageInv' /\ UNCHANGED Desk!serverVars
<1> DEFINE x == monitors[m]
<1>1. UNCHANGED <<Desk!serverVars, page>>
  BY DEF Desk!Network, Desk!Submitted, Desk!AnswerPoll, Desk!TakeAnswer, Desk!PollAgain,
         Desk!PostFails, Desk!PollFails, Desk!pageVars
<1>2. Whole' = Whole BY <1>1 DEF Whole, Desk!serverVars
<1>3. x \in MonitorOf(Whole) BY MonitorKept
<1>4. monitors \in Seq(MonitorOf(Whole)) BY DEF PageInv
<1>5. CASE Desk!Submitted(m)
  <2>1. /\ x.at = "posted" /\ session' = x.job
        /\ shown' = IF Desk!OnScreen(m) THEN [job |-> x.job, status |-> "queued"] ELSE shown
        /\ monitors' = [monitors EXCEPT ![m] = [x EXCEPT !.at = "asking"]]
    BY <1>5 DEF Desk!Submitted
  <2>2. x.job \in Desk!Jobs BY <1>3, <2>1 DEF MonitorOf
  <2>3. [x EXCEPT !.at = "asking"] \in MonitorOf(Whole) BY <1>3, <2>1 DEF MonitorOf
  <2>4. monitors' \in Seq(MonitorOf(Whole)) BY <1>4, <2>1, <2>3, MonitorReplaced
  <2>5. QED BY <1>1, <1>2, <2>1, <2>2, <2>4 DEF PageInv, PageTypes, ShownWhole, Answers
<1>6. CASE Desk!AnswerPoll(m)
  <2>1. /\ x.at = "asking" /\ UNCHANGED <<session, shown>>
        /\ monitors' = [monitors EXCEPT ![m] = [x EXCEPT !.at = "answered",
                                                         !.answer = Desk!Answer(x.job)]]
    BY <1>6 DEF Desk!AnswerPoll, Desk!pageVars
  <2>2. x.job \in Desk!Jobs BY <1>3, <2>1 DEF MonitorOf
  <2>3. [x EXCEPT !.at = "answered", !.answer = Desk!Answer(x.job)] \in MonitorOf(Whole)
    BY <1>3, <2>2, AnswerTold DEF MonitorOf
  <2>4. monitors' \in Seq(MonitorOf(Whole)) BY <1>4, <2>1, <2>3, MonitorReplaced
  <2>5. QED BY <1>1, <1>2, <2>1, <2>4 DEF PageInv, PageTypes, ShownWhole
<1>7. CASE Desk!TakeAnswer(m)
  <2>1. /\ x.at = "answered" /\ UNCHANGED session
        /\ shown' = IF Desk!OnScreen(m) /\ x.answer # "not_found"
                    THEN [job |-> x.job, status |-> x.answer] ELSE shown
        /\ monitors' \in {[monitors EXCEPT ![m] = Desk!Over],
                          [monitors EXCEPT ![m] = [x EXCEPT !.at = "waiting",
                                                            !.answer = "none"]]}
    BY <1>7 DEF Desk!TakeAnswer, Desk!End
  <2>2. /\ x.job \in Desk!Jobs /\ x.answer \in Answers
        /\ x.answer = "completed" => x.job \in Whole
    BY <1>3, <2>1 DEF MonitorOf
  <2>3. [x EXCEPT !.at = "waiting", !.answer = "none"] \in MonitorOf(Whole)
    BY <1>3, <2>1 DEF MonitorOf, Answers
  <2>4. monitors' \in Seq(MonitorOf(Whole))
    BY <1>4, <2>1, <2>3, MonitorReplaced, OverIsMonitor
  <2>5. QED BY <1>1, <1>2, <2>1, <2>2, <2>4 DEF PageInv, PageTypes, ShownWhole
<1>8. CASE Desk!PollAgain(m)
  <2>1. /\ x.at = "waiting" /\ UNCHANGED <<session, shown>>
        /\ monitors' = [monitors EXCEPT ![m] = [x EXCEPT !.at = "asking"]]
    BY <1>8 DEF Desk!PollAgain, Desk!pageVars
  <2>2. [x EXCEPT !.at = "asking"] \in MonitorOf(Whole) BY <1>3, <2>1 DEF MonitorOf
  <2>3. monitors' \in Seq(MonitorOf(Whole)) BY <1>4, <2>1, <2>2, MonitorReplaced
  <2>4. QED BY <1>1, <1>2, <2>1, <2>3 DEF PageInv, PageTypes, ShownWhole
<1>9. CASE Desk!PostFails(m) \/ Desk!PollFails(m)
  <2>1. /\ UNCHANGED <<session, shown>>
        /\ monitors' = [monitors EXCEPT ![m] = Desk!Over]
    BY <1>9 DEF Desk!PostFails, Desk!PollFails, Desk!End, Desk!pageVars
  <2>2. monitors' \in Seq(MonitorOf(Whole))
    BY <1>4, <2>1, MonitorReplaced, OverIsMonitor
  <2>3. QED BY <1>1, <1>2, <2>1, <2>2 DEF PageInv, PageTypes, ShownWhole
<1>10. QED BY <1>1, <1>5, <1>6, <1>7, <1>8, <1>9 DEF Desk!Network

LEMMA DeskStepKept ==
    ServerInv /\ PageInv /\ Desk!Next => ServerInv' /\ ServerKeeps /\ PageInv'
<1> SUFFICES ASSUME ServerInv, PageInv, Desk!Next
             PROVE  ServerInv' /\ ServerKeeps /\ PageInv'
  OBVIOUS
<1>1. CASE Desk!Work \/ Desk!Close \/ Desk!Restart
  <2>1. UNCHANGED <<page, session, shown, monitors>>
    BY <1>1
    DEF Desk!Work, Desk!Execute, Desk!Advance, Desk!FailStage, Desk!Close, Desk!Restart,
        Desk!pageVars
  <2>2. QED BY <1>1, <2>1, ServiceKept, PageStays
<1>2. CASE Desk!Mount \/ Desk!Unmount \/ Desk!SelectFolder \/ Desk!Reconstruct
  BY <1>2, UserKept, ServerUnchanged
<1>3. ASSUME NEW m \in DOMAIN monitors,
             Desk!Network(m) \/ Desk!PostFails(m) \/ Desk!PollFails(m)
      PROVE  ServerInv' /\ ServerKeeps /\ PageInv'
  BY <1>3, MonitorStepKept, ServerUnchanged
<1>4. ASSUME NEW m \in DOMAIN monitors, Desk!Submit(m)
      PROVE  ServerInv' /\ ServerKeeps /\ PageInv'
  <2>1. ServerInv' /\ ServerKeeps /\ UNCHANGED files BY <1>4, SubmissionKept
  <2>2. PICK j \in Desk!Jobs : j = accepted' BY <1>4, SubmissionKept
  <2>3. /\ monitors[m].at = "posting" /\ UNCHANGED <<page, session, shown>>
        /\ monitors' = [monitors EXCEPT ![m] = [monitors[m] EXCEPT !.at = "posted",
                                                                   !.job = j]]
    BY <1>4, <2>2 DEF Desk!Submit, Desk!pageVars
  <2>4. monitors[m] \in MonitorOf(Whole) BY <1>4, MonitorKept
  <2>5. [monitors[m] EXCEPT !.at = "posted", !.job = j] \in MonitorOf(Whole)
    BY <2>3, <2>4 DEF MonitorOf
  <2>6. monitors' \in Seq(MonitorOf(Whole)) BY <1>4, <2>3, <2>5, MonitorReplaced DEF PageInv
  <2>7. Whole' = Whole BY <2>1 DEF Whole
  <2>8. QED BY <2>1, <2>3, <2>6, <2>7 DEF PageInv, PageTypes, ShownWhole
<1>5. QED BY <1>1, <1>2, <1>3, <1>4 DEF Desk!Next

-----------------------------------------------------------------------------
(* Both together.                                                          *)

JobsInv == ModelInv /\ ServerInv /\ PageInv

\* A step of one part leaves the variables of the other as they are.
LEMMA ModelUnchanged == ModelInv /\ UNCHANGED modelVars => ModelInv' /\ OutcomesStay
BY DEF ModelInv, ModelTypes, OfAccepted, KeptUnfinished, BegunOnce, OutcomesStay,
       Models!Accepted, Waits, modelVars

LEMMA DeskUnchanged ==
    ServerInv /\ PageInv /\ UNCHANGED deskVars => ServerInv' /\ ServerKeeps /\ PageInv'
BY ServerUnchanged, PageStays DEF deskVars, Desk!serverVars

LEMMA JobsStep ==
    JobsInv /\ [Next]_vars => JobsInv' /\ OutcomesStay /\ ServerKeeps
<1> SUFFICES ASSUME JobsInv, [Next]_vars PROVE JobsInv' /\ OutcomesStay /\ ServerKeeps
  OBVIOUS
<1>1. CASE ModelStep
  BY <1>1, ModelStepKept, DeskUnchanged DEF ModelStep, JobsInv
<1>2. CASE DeskStep
  BY <1>2, DeskStepKept, ModelUnchanged DEF DeskStep, JobsInv
<1>3. CASE UNCHANGED vars
  BY <1>3, ModelUnchanged, DeskUnchanged DEF vars, JobsInv
<1>4. QED BY <1>1, <1>2, <1>3 DEF Next

LEMMA JobsHold == Spec => []JobsInv
<1>1. Init => JobsInv BY ModelInit, ServerInit, PageInit DEF Init, JobsInv
<1>2. JobsInv /\ [Next]_vars => JobsInv' BY JobsStep
<1>3. QED BY <1>1, <1>2, PTL DEF Spec

\* _trim_completed_jobs may run between the two critical sections of another
\* submission and between the end of an operation and its callback: whatever
\* is submitted meanwhile, a job is in the table until its outcome is.
THEOREM UnfinishedJobsAreKept == Spec => []UnfinishedKept
<1>1. JobsInv => UnfinishedKept
  BY DEF JobsInv, ModelInv, KeptUnfinished, UnfinishedKept, Models!UnfinishedKept,
         Models!Known
<1>2. QED BY <1>1, JobsHold, PTL

\* The page may be gone and back, its monitors may be aborted or take answers
\* late, stages may fail and the service may crash: what it shows completed
\* has all its artifacts on disk.
THEOREM ShownJobsAreComplete == Spec => []ShownIsComplete
<1>1. JobsInv => ShownIsComplete
  BY DEF JobsInv, PageInv, ShownWhole, Whole, ShownIsComplete, Desk!ShownIsComplete
<1>2. QED BY <1>1, JobsHold, PTL

\* The caller of _submit moves its job to running after the worker may have
\* recorded its outcome, and the worker of the reconstructions begins others:
\* an outcome on either table is not changed, as long as its process lives.
THEOREM JobOutcomesAreKept == Spec => OutcomeKept
<1>1. JobsInv /\ [Next]_vars
      => [\A r \in DOMAIN table \cap DOMAIN table' :
             table[r].status \in Models!Finished => table'[r] = table[r]]_table
  BY JobsStep DEF OutcomesStay
<1>2. JobsInv /\ [Next]_vars
      => [\A j \in Desk!Jobs : board[j] \in Desk!Final =>
             board'[j] = board[j] \/ restarts' # restarts]_board
  BY JobsStep DEF ServerKeeps
<1>3. QED
  BY <1>1, <1>2, JobsHold, PTL DEF Spec, OutcomeKept, Models!FinalStays, Desk!OutcomeKept
================================================================================
