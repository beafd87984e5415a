---------------------------- MODULE RunServiceProofs ----------------------------
(***************************************************************************)
(* Theorems about RunService, for any number of runs, request threads and  *)
(* slots: the slots and futures of the dispatcher, and the outcomes of the *)
(* runs that its worker executes.                                          *)
(***************************************************************************)
EXTENDS RunService, FiniteSetTheorems, SequenceTheorems, TLAPS

-----------------------------------------------------------------------------
(* Types.                                                                  *)

\* The worker has a run unless it is idle, a handler has one while it serves
\* a request.
JobNamed == job = NoRun <=> jobAt = "idle"
RunNamed == \A h \in Handlers : at[h] # "idle" => for[h] \in Runs

TypeInv ==
    /\ status \in [Runs -> Statuses]
    /\ requested \in [Runs -> BOOLEAN]
    /\ leased \subseteq Runs
    /\ pool \in {"closed", "open", "draining"}
    /\ queue \in Seq(Runs)
    /\ job \in Runs \cup {NoRun}
    /\ jobAt \in WorkerAts
    /\ active \subseteq Runs
    /\ slots \in Nat
    /\ callbacks \subseteq Runs
    /\ ended \subseteq Runs
    /\ at \in [Handlers -> HandlerAts]
    /\ for \in [Handlers -> Runs \cup {NoRun}]
    /\ told \in [Runs -> Outcomes \cup {"run_started", "none"}]
    /\ barred \in [Runs -> BOOLEAN]
    /\ asked \in [Runs -> 0..MaxAsked]
    /\ breaks \in 0..MaxBreaks
    /\ crashed \in BOOLEAN
    /\ JobNamed /\ RunNamed

LEMMA ServeTyped ==
    ASSUME TypeInv, NEW h \in Handlers, NEW r \in Runs \cup {NoRun},
           NEW where \in HandlerAts, where # "idle" => r \in Runs, Serve(h, r, where)
    PROVE  /\ at' \in [Handlers -> HandlerAts]
           /\ for' \in [Handlers -> Runs \cup {NoRun}]
           /\ RunNamed'
BY DEF TypeInv, RunNamed, Serve

LEMMA TypeInit == Init => TypeInv
<1> SUFFICES ASSUME Init PROVE TypeInv OBVIOUS
<1> USE ServiceAssumption DEF Init, EmptyDispatcher
<1>1. queue \in Seq(Runs) OBVIOUS
<1>2. /\ asked \in [Runs -> 0..MaxAsked]
      /\ breaks \in 0..MaxBreaks
      /\ slots \in Nat
  OBVIOUS
<1>3. /\ status \in [Runs -> Statuses]
      /\ told \in [Runs -> Outcomes \cup {"run_started", "none"}]
      /\ requested \in [Runs -> BOOLEAN]
      /\ barred \in [Runs -> BOOLEAN]
  BY DEF Statuses, Outcomes
<1>4. /\ at \in [Handlers -> HandlerAts]
      /\ for \in [Handlers -> Runs \cup {NoRun}]
      /\ RunNamed
  BY DEF HandlerAts, RunNamed
<1>5. QED BY <1>1, <1>2, <1>3, <1>4 DEF TypeInv, JobNamed, WorkerAts

LEMMA TypeStep == TypeInv /\ [Next]_vars => TypeInv'
<1> SUFFICES ASSUME TypeInv, [Next]_vars PROVE TypeInv'
  OBVIOUS
<1> USE ServiceAssumption
    DEF TypeInv, JobNamed, Statuses, HandlerAts, WorkerAts, Outcomes, rows, dispatcher,
        requests, history, WorkerGoto
<1>1. ASSUME NEW h \in Handlers, NEW r \in Runs, CreateRun(h, r) PROVE TypeInv'
  BY <1>1 DEF CreateRun, RunNamed
<1>2. ASSUME NEW h \in Handlers, NEW r \in Runs, StartCheck(h, r) PROVE TypeInv'
  <2>1. asked' \in [Runs -> 0..MaxAsked] BY <1>2 DEF StartCheck
  <2>2. QED BY <1>2, <2>1, ServeTyped DEF StartCheck
<1>3. ASSUME NEW h \in Handlers, NEW r \in Runs, CancelCheck(h, r) PROVE TypeInv'
  BY <1>3, ServeTyped DEF CancelCheck
<1>4. ASSUME NEW h \in Handlers, Submit(h) PROVE TypeInv'
  <2>1. for[h] \in Runs BY <1>4 DEF Submit, RunNamed
  <2>2. CASE Answer(h) /\ UNCHANGED dispatcher
    BY <1>4, <2>2, ServeTyped DEF Submit, Answer
  <2>3. CASE /\ active' = active \cup {for[h]}
             /\ ~Refused(for[h])
             /\ slots' = slots - 1
             /\ queue' = Append(queue, for[h])
             /\ Serve(h, for[h], "register")
             /\ UNCHANGED <<pool, job, jobAt, callbacks, ended>>
    <3>1. slots' \in Nat BY <2>3 DEF Refused
    <3>2. queue' \in Seq(Runs) BY <2>1, <2>3
    <3>3. QED BY <1>4, <2>1, <2>3, <3>1, <3>2, ServeTyped DEF Submit
  <2>4. QED BY <1>4, <2>2, <2>3 DEF Submit
<1>5. ASSUME NEW h \in Handlers, Register(h) PROVE TypeInv'
  <2>1. for[h] \in Runs BY <1>5 DEF Register, RunNamed
  <2>2. QED BY <1>5, <2>1, ServeTyped DEF Register, Answer, Finished
<1>6. ASSUME NEW h \in Handlers, RequestCancellation(h) PROVE TypeInv'
  <2>1. for[h] \in Runs BY <1>6 DEF RequestCancellation, RunNamed
  <2>2. QED BY <1>6, <2>1, ServeTyped DEF RequestCancellation, Answer
<1>7. ASSUME WorkerTakes PROVE TypeInv'
  <2>1. Head(queue) \in Runs /\ Tail(queue) \in Seq(Runs)
    BY <1>7, HeadTailProperties DEF WorkerTakes
  <2>2. QED BY <1>7, <2>1 DEF WorkerTakes, Publish, RunNamed
<1>8. ASSUME WorkerAcquires PROVE TypeInv' BY <1>8 DEF WorkerAcquires, RunNamed
<1>9. ASSUME WorkerMarksRunning PROVE TypeInv'
  BY <1>9 DEF WorkerMarksRunning, RunNamed
<1>10. ASSUME WorkerChecks PROVE TypeInv' BY <1>10 DEF WorkerChecks, RunNamed
<1>11. ASSUME WorkerWorks PROVE TypeInv' BY <1>11 DEF WorkerWorks, RunNamed
<1>12. ASSUME WorkerEnds PROVE TypeInv'
  BY <1>12 DEF WorkerEnds, Publish, OutcomeEvent, RunNamed
<1>13. ASSUME WorkerFinishes PROVE TypeInv'
  BY <1>13 DEF WorkerFinishes, Finished, RunNamed
<1>14. ASSUME TransactionFails PROVE TypeInv' BY <1>14 DEF TransactionFails, RunNamed
<1>15. ASSUME ReleaseFails PROVE TypeInv' BY <1>15 DEF ReleaseFails, RunNamed
<1>16. ASSUME LifespanStart PROVE TypeInv' BY <1>16 DEF LifespanStart, RunNamed
<1>17. ASSUME LifespanStop PROVE TypeInv' BY <1>17 DEF LifespanStop, RunNamed
<1>18. ASSUME LifespanStopped PROVE TypeInv'
  BY <1>18 DEF LifespanStopped, MemoryLost, RunNamed
<1>19. ASSUME Crash PROVE TypeInv' BY <1>19 DEF Crash, MemoryLost, RunNamed
<1>20. ASSUME LeaseExpires PROVE TypeInv' BY <1>20 DEF LeaseExpires, RunNamed
<1>21. CASE UNCHANGED vars BY <1>21 DEF vars, RunNamed
<1>22. QED
  BY <1>1, <1>2, <1>3, <1>4, <1>5, <1>6, <1>7, <1>8, <1>9, <1>10, <1>11, <1>12, <1>13,
     <1>14, <1>15, <1>16, <1>17, <1>18, <1>19, <1>20, <1>21
  DEF Next, Handle, Worker, AtRest

\* The variables of a run's row, of its executions and of its requests always
\* have values of their kinds.
LEMMA TypesHold == Spec => []TypeInv
<1>1. Init => TypeInv BY TypeInit
<1>2. TypeInv /\ [Next]_vars => TypeInv' BY TypeStep
<1>3. QED BY <1>1, <1>2, PTL DEF Spec

-----------------------------------------------------------------------------
(* Outcomes.  What the worker knows of the row of its run, what has been    *)
(* told of a run, and what a barred run can no longer do.                   *)

WorkerKnows ==
    /\ jobAt \in {"check", "work"} => status[job] = "running"
    /\ jobAt = "returned" => status[job] = "completed"

Barred(r) ==
    barred[r] => /\ requested[r]
                 /\ status[r] # "completed"
                 /\ ~(job = r /\ jobAt = "work")

OutcomeInv ==
    /\ WorkerKnows
    /\ CompletionIsTrue
    /\ \A r \in Runs : Barred(r)

\* A row with a final status is not written.
FinalKept ==
    \A r \in Runs : status[r] \in {"completed", "cancelled"} => status'[r] = status[r]

LEMMA OutcomeInit == Init => OutcomeInv
BY DEF Init, EmptyDispatcher, OutcomeInv, WorkerKnows, CompletionIsTrue, Barred

\* What neither writes rows nor moves the worker on keeps the outcomes.
LEMMA OutcomeIdle ==
    ASSUME OutcomeInv, UNCHANGED <<status, requested, told, barred, job, jobAt>>
    PROVE  OutcomeInv' /\ FinalKept
BY DEF OutcomeInv, WorkerKnows, CompletionIsTrue, Barred, FinalKept

LEMMA OutcomeStep == TypeInv /\ OutcomeInv /\ [Next]_vars => OutcomeInv' /\ FinalKept
<1> SUFFICES ASSUME TypeInv, OutcomeInv, [Next]_vars PROVE OutcomeInv' /\ FinalKept
  OBVIOUS
<1> USE ServiceAssumption
    DEF rows, dispatcher, requests, history, WorkerGoto
<1>t. /\ status \in [Runs -> Statuses] /\ requested \in [Runs -> BOOLEAN]
      /\ told \in [Runs -> Outcomes \cup {"run_started", "none"}]
      /\ barred \in [Runs -> BOOLEAN]
      /\ job \in Runs \cup {NoRun} /\ jobAt \in WorkerAts /\ JobNamed
  BY DEF TypeInv
<1>j. jobAt # "idle" => job \in Runs BY <1>t DEF JobNamed
<1>1. ASSUME NEW h \in Handlers, NEW r \in Runs, CreateRun(h, r)
      PROVE  OutcomeInv' /\ FinalKept
  BY <1>1, <1>t, <1>j
  DEF CreateRun, OutcomeInv, WorkerKnows, CompletionIsTrue, Barred, FinalKept
<1>2. ASSUME NEW h \in Handlers, NEW r \in Runs, StartCheck(h, r)
      PROVE  OutcomeInv' /\ FinalKept
  BY <1>2, OutcomeIdle DEF StartCheck
<1>3. ASSUME NEW h \in Handlers, NEW r \in Runs, CancelCheck(h, r)
      PROVE  OutcomeInv' /\ FinalKept
  BY <1>3, OutcomeIdle DEF CancelCheck
<1>4. ASSUME NEW h \in Handlers, Submit(h) PROVE OutcomeInv' /\ FinalKept
  BY <1>4, OutcomeIdle DEF Submit
<1>5. ASSUME NEW h \in Handlers, Register(h) PROVE OutcomeInv' /\ FinalKept
  BY <1>5, OutcomeIdle DEF Register
<1>6. ASSUME NEW h \in Handlers, RequestCancellation(h) PROVE OutcomeInv' /\ FinalKept
  BY <1>6, <1>t, <1>j
  DEF RequestCancellation, OutcomeInv, WorkerKnows, CompletionIsTrue, Barred, FinalKept
<1>7. ASSUME WorkerTakes PROVE OutcomeInv' /\ FinalKept
  BY <1>7, <1>t
  DEF WorkerTakes, Publish, OutcomeInv, WorkerKnows, CompletionIsTrue, Barred, FinalKept
<1>8. ASSUME WorkerAcquires PROVE OutcomeInv' /\ FinalKept
  BY <1>8 DEF WorkerAcquires, OutcomeInv, WorkerKnows, CompletionIsTrue, Barred, FinalKept
<1>9. ASSUME WorkerMarksRunning PROVE OutcomeInv' /\ FinalKept
  BY <1>9, <1>t, <1>j
  DEF WorkerMarksRunning, Terminal, OutcomeInv, WorkerKnows, CompletionIsTrue, Barred,
      FinalKept
<1>10. ASSUME WorkerChecks PROVE OutcomeInv' /\ FinalKept
  BY <1>10, <1>t, <1>j
  DEF WorkerChecks, CancelledFirst, OutcomeInv, WorkerKnows, CompletionIsTrue, Barred,
      FinalKept
<1>11. ASSUME WorkerWorks PROVE OutcomeInv' /\ FinalKept
  BY <1>11, <1>t, <1>j
  DEF WorkerWorks, OutcomeInv, WorkerKnows, CompletionIsTrue, Barred, FinalKept
<1>12. ASSUME WorkerEnds PROVE OutcomeInv' /\ FinalKept
  BY <1>12, <1>t, <1>j
  DEF WorkerEnds, Publish, OutcomeEvent, OutcomeInv, WorkerKnows, CompletionIsTrue,
      Barred, FinalKept
<1>13. ASSUME WorkerFinishes PROVE OutcomeInv' /\ FinalKept
  BY <1>13 DEF WorkerFinishes, OutcomeInv, WorkerKnows, CompletionIsTrue, Barred, FinalKept
<1>14. ASSUME TransactionFails PROVE OutcomeInv' /\ FinalKept
  BY <1>14
  DEF TransactionFails, OutcomeInv, WorkerKnows, CompletionIsTrue, Barred, FinalKept
<1>15. ASSUME ReleaseFails PROVE OutcomeInv' /\ FinalKept
  BY <1>15 DEF ReleaseFails, OutcomeInv, WorkerKnows, CompletionIsTrue, Barred, FinalKept
<1>16. ASSUME LifespanStart \/ LifespanStop \/ LeaseExpires PROVE OutcomeInv' /\ FinalKept
  BY <1>16, OutcomeIdle DEF LifespanStart, LifespanStop, LeaseExpires
<1>17. ASSUME LifespanStopped \/ Crash PROVE OutcomeInv' /\ FinalKept
  BY <1>17, <1>t
  DEF LifespanStopped, Crash, MemoryLost, OutcomeInv, WorkerKnows, CompletionIsTrue,
      Barred, FinalKept
<1>18. CASE UNCHANGED vars BY <1>18, OutcomeIdle DEF vars
<1>19. QED
  BY <1>1, <1>2, <1>3, <1>4, <1>5, <1>6, <1>7, <1>8, <1>9, <1>10, <1>11, <1>12, <1>13,
     <1>14, <1>15, <1>16, <1>17, <1>18
  DEF Next, Handle, Worker, AtRest

LEMMA OutcomesHold == Spec => []OutcomeInv
<1>1. Init => OutcomeInv BY OutcomeInit
<1>2. TypeInv /\ OutcomeInv /\ [Next]_vars => OutcomeInv' BY OutcomeStep
<1>3. QED BY <1>1, <1>2, TypesHold, PTL DEF Spec

\* A start request reads the status before the run is queued, and any number
\* of requests, executions, crashes and restarts come between that reading and
\* the execution: the transaction that marks the run running looks again, so
\* that a completed or cancelled run stays what it is.
THEOREM OutcomesAreFinal == Spec => OutcomeStays
<1>1. TypeInv /\ OutcomeInv /\ [Next]_vars
      => [\A r \in Runs : status[r] \in {"completed", "cancelled"} =>
                             status'[r] = status[r]]_status
  BY OutcomeStep DEF FinalKept
<1>2. QED BY <1>1, TypesHold, OutcomesHold, PTL DEF Spec, OutcomeStays

\* The dispatcher publishes "run_completed" after execute() has returned, and
\* by then the row is completed and stays so.
THEOREM CompletionsAreTrue == Spec => []CompletionIsTrue
<1>1. OutcomeInv => CompletionIsTrue BY DEF OutcomeInv
<1>2. QED BY <1>1, OutcomesHold, PTL

\* The request for cancellation is durable and is read after the run has been
\* marked running: a run for which it was acknowledged while nobody executed
\* it never completes, in this process or in a later one.
THEOREM BarredRunsEnd == Spec => []BarredNeverCompletes
<1>1. OutcomeInv => BarredNeverCompletes
  BY DEF OutcomeInv, Barred, BarredNeverCompletes
<1>2. QED BY <1>1, OutcomesHold, PTL

-----------------------------------------------------------------------------
(* Futures.  A run is active as long as its future waits, runs or has not   *)
(* been finished, and its callback is called exactly once: by the worker or *)
(* by the thread that registers it.                                         *)

InQueue(r) == \E i \in DOMAIN queue : queue[i] = r
QueuedOnce == \A i, j \in DOMAIN queue : queue[i] = queue[j] => i = j

\* The places of the future of an active run exclude each other.
OnePlace(r) ==
    /\ r \in active <=> InQueue(r) \/ job = r \/ r \in ended
    /\ InQueue(r) => job # r /\ r \notin ended
    /\ job = r => r \notin ended

Finishing(r) == jobAt = "finish" /\ job = r
Registers(h, r) == at[h] = "register" /\ for[h] = r

\* Who calls the callback of the future of run r: the worker, now or when the
\* future is done, or else the one thread that has still to add it.
OneCaller(r) ==
    /\ r \in callbacks => r \in active /\ r \notin ended /\ ~Finishing(r)
    /\ \A h \in Handlers : Registers(h, r) =>
          r \in active /\ r \notin callbacks /\ ~Finishing(r)
    /\ \A h, g \in Handlers : Registers(h, r) /\ Registers(g, r) => h = g
    /\ r \in active /\ r \notin callbacks /\ ~Finishing(r) =>
          \E h \in Handlers : Registers(h, r)

SlotsBalance == IsFiniteSet(active) /\ slots + Cardinality(active) = MaxPending

FutureInv ==
    /\ QueuedOnce
    /\ \A r \in Runs : OnePlace(r) /\ OneCaller(r)
    /\ SlotsBalance

\* What it takes to append to a sequence and to take its head.
LEMMA Appended ==
    ASSUME NEW S, NEW s \in Seq(S), NEW e \in S
    PROVE  /\ DOMAIN s = 1 .. Len(s) /\ Len(s) \in Nat
           /\ DOMAIN Append(s, e) = 1 .. Len(s) + 1
           /\ Append(s, e)[Len(s) + 1] = e
           /\ \A i \in DOMAIN s : Append(s, e)[i] = s[i]
BY LenProperties, AppendProperties

LEMMA Taken ==
    ASSUME NEW S, NEW s \in Seq(S), s # <<>>
    PROVE  /\ DOMAIN s = 1 .. Len(s) /\ Len(s) \in Nat \ {0}
           /\ Head(s) = s[1]
           /\ DOMAIN Tail(s) = 1 .. Len(s) - 1
           /\ \A i \in DOMAIN Tail(s) : Tail(s)[i] = s[i + 1]
<1>1. Len(s) \in Nat /\ DOMAIN s = 1 .. Len(s) BY LenProperties
<1>2. Len(s) # 0 BY EmptySeq, LenProperties
<1>3. Tail(s) \in Seq(S) /\ Len(Tail(s)) = Len(s) - 1 BY HeadTailProperties
<1>4. DOMAIN Tail(s) = 1 .. Len(Tail(s)) BY <1>3, LenProperties
<1>5. \A i \in 1 .. Len(s) - 1 : Tail(s)[i] = s[i + 1] BY <1>1, <1>2
<1>6. Head(s) = s[1] OBVIOUS
<1>7. QED BY <1>1, <1>2, <1>3, <1>4, <1>5, <1>6

\* Taking a slot for a run that is not active, and giving it back.
LEMMA SlotTaken ==
    ASSUME TypeInv, SlotsBalance, NEW r \in Runs, r \notin active,
           active' = active \cup {r}, slots' = slots - 1
    PROVE  SlotsBalance'
<1>1. IsFiniteSet(active') /\ Cardinality(active') = Cardinality(active) + 1
  BY FS_AddElement DEF SlotsBalance
<1>2. Cardinality(active) \in Nat BY FS_CardinalityType DEF SlotsBalance
<1>3. QED BY <1>1, <1>2, ServiceAssumption DEF TypeInv, SlotsBalance

LEMMA SlotGivenBack ==
    ASSUME TypeInv, SlotsBalance, NEW r \in Runs, r \in active, Finished(r)
    PROVE  SlotsBalance'
<1>1. IsFiniteSet(active') /\ Cardinality(active') = Cardinality(active) - 1
  BY FS_RemoveElement DEF SlotsBalance, Finished
<1>2. Cardinality(active) \in Nat BY FS_CardinalityType DEF SlotsBalance
<1>3. QED BY <1>1, <1>2, ServiceAssumption DEF TypeInv, SlotsBalance, Finished

\* What leaves the dispatcher alone and registers nothing keeps the futures.
LEMMA FuturesIdle ==
    ASSUME TypeInv, FutureInv,
           UNCHANGED <<queue, job, active, slots, callbacks, ended>>,
           jobAt' = jobAt \/ (jobAt # "finish" /\ jobAt' # "finish"),
           \A h \in Handlers, r \in Runs : Registers(h, r)' <=> Registers(h, r)
    PROVE  FutureInv'
<1>1. SlotsBalance' BY DEF FutureInv, SlotsBalance
<1>2. QED
  BY <1>1 DEF FutureInv, QueuedOnce, OnePlace, InQueue, OneCaller, Finishing

\* A handler that moves between other steps than the registration.
LEMMA ServesElsewhere ==
    ASSUME TypeInv, NEW h \in Handlers, NEW q, NEW where, Serve(h, q, where),
           at[h] # "register", where # "register"
    PROVE  \A g \in Handlers, r \in Runs : Registers(g, r)' <=> Registers(g, r)
BY DEF TypeInv, Serve, Registers

LEMMA SubmitKeepsFutures ==
    ASSUME TypeInv, FutureInv, NEW h \in Handlers, Submit(h)
    PROVE  FutureInv'
<1>1. for[h] \in Runs /\ at[h] = "submit" BY DEF Submit, TypeInv, RunNamed
<1>2. CASE Answer(h) /\ UNCHANGED dispatcher
  <2>1. \A g \in Handlers, r \in Runs : Registers(g, r)' <=> Registers(g, r)
    BY <1>1, <1>2, ServesElsewhere DEF Answer
  <2>2. QED BY <1>2, <2>1, FuturesIdle DEF dispatcher
<1>3. ASSUME NEW q, q = for[h],
             active' = active \cup {q}, ~Refused(q), slots' = slots - 1,
             queue' = Append(queue, q), Serve(h, q, "register"),
             UNCHANGED <<pool, job, jobAt, callbacks, ended>>
      PROVE  FutureInv'
  <2>1. q \in Runs /\ q \notin active BY <1>1, <1>3 DEF Refused
  <2>2. SlotsBalance' BY <1>3, <2>1, SlotTaken DEF FutureInv
  <2>3. \A r \in Runs : OnePlace(r) /\ OneCaller(r) BY DEF FutureInv
  <2>4. \A i \in DOMAIN queue : queue[i] # q BY <2>1, <2>3 DEF OnePlace, InQueue
  <2>5. queue \in Seq(Runs) BY DEF TypeInv
  <2>6. QueuedOnce'
    BY <1>3, <2>1, <2>4, <2>5, Appended DEF FutureInv, QueuedOnce
  <2>7. \A r \in Runs : InQueue(r)' <=> InQueue(r) \/ r = q
    <3> TAKE r \in Runs
    <3>1. ASSUME InQueue(r)' PROVE InQueue(r) \/ r = q
      BY <1>3, <2>1, <2>5, <3>1, Appended DEF InQueue
    <3>2. ASSUME InQueue(r) PROVE InQueue(r)'
      BY <1>3, <2>1, <2>5, <3>2, Appended DEF InQueue
    <3>3. ASSUME r = q PROVE InQueue(r)'
      <4>1. /\ Len(queue) + 1 \in DOMAIN Append(queue, q)
            /\ Append(queue, q)[Len(queue) + 1] = q
        BY <2>1, <2>5, Appended
      <4>2. QED BY <1>3, <3>3, <4>1 DEF InQueue
    <3>4. QED BY <3>1, <3>2, <3>3
  <2>8. ASSUME NEW r \in Runs PROVE OnePlace(r)'
    BY <1>3, <2>1, <2>3, <2>7 DEF OnePlace
  <2>9. /\ \A g \in Handlers \ {h} : at'[g] = at[g] /\ for'[g] = for[g]
        /\ at'[h] = "register" /\ for'[h] = q
    BY <1>3 DEF TypeInv, Serve
  <2>10. ASSUME NEW r \in Runs PROVE OneCaller(r)'
    <3>1. CASE r = q
      <4>1. \A g \in Handlers : ~Registers(g, q) /\ q \notin callbacks /\ job # q
        BY <2>1, <2>3 DEF OneCaller, OnePlace
      <4>2. \A g \in Handlers : Registers(g, q)' <=> g = h
        BY <2>9, <4>1 DEF Registers
      <4>3. QED BY <1>3, <3>1, <4>1, <4>2 DEF OneCaller, Finishing
    <3>2. CASE r # q
      <4>1. \A g \in Handlers : Registers(g, r)' <=> Registers(g, r)
        BY <1>1, <2>9, <3>2 DEF Registers
      <4>2. OneCaller(r) BY <2>3
      <4>3. QED BY <1>3, <3>2, <4>1, <4>2 DEF OneCaller, Finishing
    <3>3. QED BY <3>1, <3>2
  <2>11. QED BY <2>2, <2>6, <2>8, <2>10 DEF FutureInv
<1>4. QED BY <1>2, <1>3 DEF Submit

\* The future is done already: its callback is called here.
LEMMA RegisterKeepsFutures ==
    ASSUME TypeInv, FutureInv, NEW h \in Handlers, Register(h)
    PROVE  FutureInv'
<1> DEFINE q == for[h]
<1>1. q \in Runs /\ Registers(h, q) BY DEF Register, TypeInv, RunNamed, Registers
<1>2. \A r \in Runs : OnePlace(r) /\ OneCaller(r) BY DEF FutureInv
<1>3. /\ q \in active /\ q \notin callbacks /\ ~Finishing(q)
      /\ \A g \in Handlers : Registers(g, q) => g = h
  BY <1>1, <1>2 DEF OneCaller
<1>4. /\ \A g \in Handlers \ {h} : at'[g] = at[g] /\ for'[g] = for[g]
      /\ at'[h] = "idle" /\ for'[h] = NoRun
  BY DEF Register, Answer, Serve, TypeInv
<1>5. \A r \in Runs, g \in Handlers : Registers(g, r)' <=> Registers(g, r) /\ r # q
  <2> TAKE r \in Runs, g \in Handlers
  <2>1. CASE g = h BY <1>1, <1>4, <2>1 DEF Registers
  <2>2. CASE g # h BY <1>3, <1>4, <2>2 DEF Registers
  <2>3. QED BY <2>1, <2>2
<1>6. UNCHANGED <<queue, job, jobAt>> BY DEF Register
<1>7. QueuedOnce' BY <1>6 DEF FutureInv, QueuedOnce
<1>8. \A r \in Runs : InQueue(r)' <=> InQueue(r) BY <1>6 DEF InQueue
<1>9. CASE q \in ended
  <2>1. Finished(q) /\ ended' = ended \ {q} /\ UNCHANGED callbacks BY <1>9 DEF Register
  <2>2. SlotsBalance' BY <1>1, <1>3, <2>1, SlotGivenBack DEF FutureInv
  <2>3. ASSUME NEW r \in Runs PROVE OnePlace(r)'
    BY <1>2, <1>6, <1>8, <1>9, <2>1 DEF OnePlace, Finished
  <2>4. ASSUME NEW r \in Runs PROVE OneCaller(r)'
    <3>1. OneCaller(r) BY <1>2
    <3>2. CASE r = q BY <1>3, <1>5, <2>1, <3>2 DEF OneCaller, Finished
    <3>3. CASE r # q BY <1>5, <1>6, <2>1, <3>1, <3>3 DEF OneCaller, Finished, Finishing
    <3>4. QED BY <3>2, <3>3
  <2>5. QED BY <1>7, <2>2, <2>3, <2>4 DEF FutureInv
<1>10. CASE q \notin ended
  <2>1. callbacks' = callbacks \cup {q} /\ UNCHANGED <<active, slots, ended>>
    BY <1>10 DEF Register
  <2>2. SlotsBalance' BY <2>1 DEF FutureInv, SlotsBalance
  <2>3. ASSUME NEW r \in Runs PROVE OnePlace(r)'
    BY <1>2, <1>6, <1>8, <2>1 DEF OnePlace
  <2>4. ASSUME NEW r \in Runs PROVE OneCaller(r)'
    <3>1. OneCaller(r) BY <1>2
    <3>2. CASE r = q BY <1>3, <1>5, <1>6, <1>10, <2>1, <3>2 DEF OneCaller, Finishing
    <3>3. CASE r # q BY <1>5, <1>6, <2>1, <3>1, <3>3 DEF OneCaller, Finishing
    <3>4. QED BY <3>2, <3>3
  <2>5. QED BY <1>7, <2>2, <2>3, <2>4 DEF FutureInv
<1>11. QED BY <1>9, <1>10

LEMMA TakingKeepsFutures ==
    ASSUME TypeInv, FutureInv, WorkerTakes
    PROVE  FutureInv'
<1>1. queue \in Seq(Runs) /\ queue # <<>> BY DEF TypeInv, WorkerTakes
<1>q. PICK q \in Runs : q = Head(queue) BY <1>1, HeadTailProperties
<1>2. \A r \in Runs : OnePlace(r) /\ OneCaller(r) BY DEF FutureInv
<1>3. /\ job' = q /\ queue' = Tail(queue) /\ jobAt' = "acquire" /\ jobAt = "idle"
      /\ UNCHANGED <<active, slots, callbacks, ended, at, for>>
  BY <1>q DEF WorkerTakes, requests
<1>4. job = NoRun BY <1>3 DEF TypeInv, JobNamed
<1>5. QueuedOnce' BY <1>1, <1>3, Taken DEF FutureInv, QueuedOnce
<1>6. \A r \in Runs : InQueue(r) <=> InQueue(r)' \/ r = q
  <2> TAKE r \in Runs
  <2>1. ASSUME InQueue(r) PROVE InQueue(r)' \/ r = q
    <3>1. PICK i \in DOMAIN queue : queue[i] = r BY <2>1 DEF InQueue
    <3>2. CASE i = 1 BY <1>1, <1>q, <3>1, <3>2, Taken
    <3>3. CASE i # 1
      <4>1. i - 1 \in DOMAIN Tail(queue) /\ Tail(queue)[i - 1] = queue[i - 1 + 1]
        BY <1>1, <3>1, <3>3, Taken
      <4>2. i - 1 + 1 = i BY <1>1, <3>1, Taken
      <4>3. QED BY <1>3, <3>1, <4>1, <4>2 DEF InQueue
    <3>4. QED BY <3>2, <3>3
  <2>2. ASSUME InQueue(r)' PROVE InQueue(r)
    <3>1. PICK i \in DOMAIN Tail(queue) : Tail(queue)[i] = r BY <1>3, <2>2 DEF InQueue
    <3>2. i + 1 \in DOMAIN queue /\ queue[i + 1] = r BY <1>1, <3>1, Taken
    <3>3. QED BY <3>2 DEF InQueue
  <2>3. ASSUME r = q PROVE InQueue(r)
    <3>1. 1 \in DOMAIN queue /\ queue[1] = q BY <1>1, <1>q, Taken
    <3>2. QED BY <2>3, <3>1 DEF InQueue
  <2>4. QED BY <2>1, <2>2, <2>3
<1>7. ~InQueue(q)'
  <2>1. SUFFICES ASSUME NEW i \in DOMAIN Tail(queue), Tail(queue)[i] = q PROVE FALSE
    BY <1>3 DEF InQueue
  <2>2. 1 \in DOMAIN queue /\ i + 1 \in DOMAIN queue /\ queue[i + 1] = queue[1] /\ i + 1 # 1
    BY <1>1, <1>q, <2>1, Taken
  <2>3. QED BY <2>2 DEF FutureInv, QueuedOnce
<1>8. SlotsBalance' BY <1>3 DEF FutureInv, SlotsBalance
<1>9. ASSUME NEW r \in Runs PROVE OnePlace(r)'
  BY <1>2, <1>3, <1>4, <1>6, <1>7, ServiceAssumption DEF OnePlace
<1>10. ASSUME NEW r \in Runs PROVE OneCaller(r)'
  BY <1>2, <1>3 DEF OneCaller, Finishing, Registers
<1>11. QED BY <1>5, <1>8, <1>9, <1>10 DEF FutureInv

\* A future that ends has its callback called by the worker, if it has one,
\* and else by the thread that has still to add it.
LEMMA EndKeepsFutures ==
    ASSUME TypeInv, FutureInv, WorkerEnds
    PROVE  FutureInv'
<1>1. job \in Runs /\ job # NoRun /\ jobAt # "finish"
  BY ServiceAssumption DEF WorkerEnds, TypeInv, JobNamed
<1>2. \A r \in Runs : OnePlace(r) /\ OneCaller(r) BY DEF FutureInv
<1>3. UNCHANGED <<queue, active, slots, at, for>> BY DEF WorkerEnds, requests
<1>4. QueuedOnce' /\ SlotsBalance' BY <1>3 DEF FutureInv, QueuedOnce, SlotsBalance
<1>5. \A r \in Runs : InQueue(r)' <=> InQueue(r) BY <1>3 DEF InQueue
<1>6. CASE job \in callbacks
  <2>1. jobAt' = "finish" /\ callbacks' = callbacks \ {job} /\ UNCHANGED <<job, ended>>
    BY <1>6 DEF WorkerEnds
  <2>2. ASSUME NEW r \in Runs PROVE OnePlace(r)' BY <1>2, <1>3, <1>5, <2>1 DEF OnePlace
  <2>3. ASSUME NEW r \in Runs PROVE OneCaller(r)'
    BY <1>1, <1>2, <1>3, <1>6, <2>1 DEF OneCaller, Finishing, Registers
  <2>4. QED BY <1>4, <2>2, <2>3 DEF FutureInv
<1>7. CASE job \notin callbacks
  <2>1. jobAt' = "idle" /\ job' = NoRun /\ ended' = ended \cup {job} /\ UNCHANGED callbacks
    BY <1>7 DEF WorkerEnds
  <2>2. ASSUME NEW r \in Runs PROVE OnePlace(r)'
    BY <1>1, <1>2, <1>3, <1>5, <2>1, ServiceAssumption DEF OnePlace
  <2>3. ASSUME NEW r \in Runs PROVE OneCaller(r)'
    BY <1>1, <1>2, <1>3, <1>7, <2>1 DEF OneCaller, Finishing, Registers
  <2>4. QED BY <1>4, <2>2, <2>3 DEF FutureInv
<1>8. QED BY <1>6, <1>7

LEMMA FinishKeepsFutures ==
    ASSUME TypeInv, FutureInv, WorkerFinishes
    PROVE  FutureInv'
<1>1. job \in Runs /\ job # NoRun /\ Finishing(job)
  BY ServiceAssumption DEF WorkerFinishes, TypeInv, JobNamed, Finishing
<1>2. \A r \in Runs : OnePlace(r) /\ OneCaller(r) BY DEF FutureInv
<1>3. /\ Finished(job) /\ jobAt' = "idle" /\ job' = NoRun
      /\ UNCHANGED <<queue, callbacks, ended, at, for>>
  BY DEF WorkerFinishes, requests
<1>4. job \in active BY <1>1, <1>2 DEF OnePlace
<1>5. SlotsBalance' BY <1>1, <1>3, <1>4, SlotGivenBack DEF FutureInv
<1>6. QueuedOnce' BY <1>3 DEF FutureInv, QueuedOnce
<1>7. ASSUME NEW r \in Runs PROVE OnePlace(r)'
  <2>1. InQueue(r)' <=> InQueue(r) BY <1>3 DEF InQueue
  <2>2. QED BY <1>1, <1>2, <1>3, <2>1, ServiceAssumption DEF OnePlace, Finished
<1>8. ASSUME NEW r \in Runs PROVE OneCaller(r)'
  BY <1>1, <1>2, <1>3 DEF OneCaller, Finishing, Finished, Registers
<1>9. QED BY <1>5, <1>6, <1>7, <1>8 DEF FutureInv

\* A process that ends takes its dispatcher and its request threads with it.
LEMMA NothingPending ==
    ASSUME queue = <<>>, job = NoRun, jobAt = "idle", active = {}, slots = MaxPending,
           callbacks = {}, ended = {}, \A h \in Handlers : at[h] = "idle"
    PROVE  FutureInv
<1>1. DOMAIN queue = {} OBVIOUS
<1>2. SlotsBalance BY FS_EmptySet, ServiceAssumption DEF SlotsBalance
<1>3. QED
  BY <1>1, <1>2, ServiceAssumption
  DEF FutureInv, QueuedOnce, OnePlace, InQueue, OneCaller, Finishing, Registers

LEMMA MemoryLossKeepsFutures == MemoryLost => FutureInv'
<1> SUFFICES ASSUME MemoryLost PROVE FutureInv' OBVIOUS
<1>1. DOMAIN queue' = {} BY DEF MemoryLost
<1>2. SlotsBalance' BY FS_EmptySet, ServiceAssumption DEF SlotsBalance, MemoryLost
<1>3. QED
  BY <1>1, <1>2, ServiceAssumption
  DEF MemoryLost, FutureInv, QueuedOnce, OnePlace, InQueue, OneCaller, Finishing, Registers

LEMMA FutureInit == Init => FutureInv
BY NothingPending DEF Init, EmptyDispatcher

LEMMA FutureStep == TypeInv /\ FutureInv /\ [Next]_vars => FutureInv'
<1> SUFFICES ASSUME TypeInv, FutureInv, [Next]_vars PROVE FutureInv'
  OBVIOUS
<1> USE DEF rows, dispatcher, requests, history
<1>1. ASSUME NEW h \in Handlers, NEW r \in Runs, CreateRun(h, r) PROVE FutureInv'
  BY <1>1, FuturesIdle DEF CreateRun, Registers
<1>2. ASSUME NEW h \in Handlers, NEW r \in Runs, StartCheck(h, r) PROVE FutureInv'
  <2>1. \A g \in Handlers, q \in Runs : Registers(g, q)' <=> Registers(g, q)
    BY <1>2, ServesElsewhere DEF StartCheck
  <2>2. QED BY <1>2, <2>1, FuturesIdle DEF StartCheck
<1>3. ASSUME NEW h \in Handlers, NEW r \in Runs, CancelCheck(h, r) PROVE FutureInv'
  <2>1. \A g \in Handlers, q \in Runs : Registers(g, q)' <=> Registers(g, q)
    BY <1>3, ServesElsewhere DEF CancelCheck
  <2>2. QED BY <1>3, <2>1, FuturesIdle DEF CancelCheck
<1>4. ASSUME NEW h \in Handlers, RequestCancellation(h) PROVE FutureInv'
  <2>1. \A g \in Handlers, q \in Runs : Registers(g, q)' <=> Registers(g, q)
    BY <1>4, ServesElsewhere DEF RequestCancellation, Answer
  <2>2. QED BY <1>4, <2>1, FuturesIdle DEF RequestCancellation
<1>5. ASSUME WorkerAcquires \/ WorkerMarksRunning \/ WorkerChecks \/ WorkerWorks
             \/ TransactionFails \/ ReleaseFails
      PROVE  FutureInv'
  <2>1. /\ UNCHANGED <<queue, job, active, slots, callbacks, ended, at, for>>
        /\ jobAt # "finish" /\ jobAt' # "finish"
    BY <1>5
    DEF WorkerAcquires, WorkerMarksRunning, WorkerChecks, WorkerWorks, TransactionFails,
        ReleaseFails, WorkerGoto
  <2>2. QED BY <2>1, FuturesIdle DEF Registers
<1>6. ASSUME LifespanStart \/ LifespanStop \/ LeaseExpires PROVE FutureInv'
  BY <1>6, FuturesIdle DEF LifespanStart, LifespanStop, LeaseExpires, Registers
<1>7. ASSUME LifespanStopped \/ Crash PROVE FutureInv'
  BY <1>7, MemoryLossKeepsFutures DEF LifespanStopped, Crash
<1>8. CASE UNCHANGED vars BY <1>8, FuturesIdle DEF vars, Registers
<1>9. QED
  BY <1>1, <1>2, <1>3, <1>4, <1>5, <1>6, <1>7, <1>8, SubmitKeepsFutures,
     RegisterKeepsFutures, TakingKeepsFutures, EndKeepsFutures, FinishKeepsFutures
  DEF Next, Handle, Worker, AtRest

LEMMA FuturesHold == Spec => []FutureInv
<1>1. Init => FutureInv BY FutureInit
<1>2. TypeInv /\ FutureInv /\ [Next]_vars => FutureInv' BY FutureStep
<1>3. QED BY <1>1, <1>2, TypesHold, PTL DEF Spec

\* The places of run r in the queue, counted.
LEMMA PlacesCounted ==
    ASSUME FutureInv, NEW r \in Runs
    PROVE  Cardinality({i \in DOMAIN queue : queue[i] = r}) = IF InQueue(r) THEN 1 ELSE 0
<1> DEFINE places == {i \in DOMAIN queue : queue[i] = r}
<1>1. CASE InQueue(r)
  <2>1. PICK i \in DOMAIN queue : queue[i] = r BY <1>1 DEF InQueue
  <2>2. places = {i} BY <2>1 DEF FutureInv, QueuedOnce
  <2>3. QED BY <1>1, <2>2, FS_Singleton
<1>2. CASE ~InQueue(r)
  <2>1. places = {} BY <1>2 DEF InQueue
  <2>2. QED BY <1>2, <2>1, FS_EmptySet
<1>3. QED BY <1>1, <1>2

\* The callback of a future is added outside the lock of the dispatcher, after
\* the worker may have ended the future: in either order the run leaves
\* _active exactly once and its slot is given back exactly once.
THEOREM NoSlotIsLost == Spec => []SlotsAccounted
<1>1. ASSUME TypeInv, FutureInv PROVE SlotsAccounted
  <2>1. ASSUME NEW r \in Runs PROVE WaysOut(r) = IF r \in active THEN 1 ELSE 0
    <3>1. OnePlace(r) BY <1>1 DEF FutureInv
    <3>2. QED BY <1>1, <3>1, PlacesCounted DEF OnePlace, WaysOut
  <2>2. slots + Cardinality(active) = MaxPending BY <1>1 DEF FutureInv, SlotsBalance
  <2>3. ASSUME NEW r \in ended
        PROVE  \E h \in Handlers : at[h] = "register" /\ for[h] = r
    <3>1. r \in Runs BY <1>1 DEF TypeInv
    <3>2. OnePlace(r) /\ OneCaller(r) BY <1>1, <3>1 DEF FutureInv
    <3>3. r \in active /\ r \notin callbacks /\ ~Finishing(r)
      BY <3>2 DEF OnePlace, OneCaller, Finishing
    <3>4. QED BY <3>2, <3>3 DEF OneCaller, Registers
  <2>4. QED BY <2>1, <2>2, <2>3 DEF SlotsAccounted
<1>2. QED BY <1>1, TypesHold, FuturesHold, PTL

\* The slots are never more than maximum_pending_runs nor fewer than none, and
\* every other variable has values of its kind.
THEOREM TypeCorrect == Spec => []TypeOK
<1>1. ASSUME TypeInv, FutureInv PROVE TypeOK
  <2>1. Cardinality(active) \in Nat BY <1>1, FS_CardinalityType DEF FutureInv, SlotsBalance
  <2>2. slots \in 0 .. MaxPending
    BY <1>1, <2>1, ServiceAssumption DEF TypeInv, FutureInv, SlotsBalance
  <2>3. QED BY <1>1, <2>2 DEF TypeInv, TypeOK
<1>2. QED BY <1>1, TypesHold, FuturesHold, PTL
=============================================================================
