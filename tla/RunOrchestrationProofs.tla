------------------------ MODULE RunOrchestrationProofs ------------------------
(***************************************************************************)
(* Theorems about RunOrchestration, for any number of calls, any set of    *)
(* reconstruction outputs and any number of faults.  The first ones are    *)
(* about one call at a time and its files, each from an inductive          *)
(* invariant of its own on top of TypeInv; the later ones about a run that *)
(* several calls execute one after the other: the retry budget, the        *)
(* evidence of a completed run, no checkpoint left "running", only gated   *)
(* evidence published, and the contract of RunContract.  Their invariants  *)
(* are layers, each one proved on top of TypeInv and HoldsLiveLease:       *)
(*   PoolInv       what a call knows of its own futures,                   *)
(*   StatusInv     the status of the run while a call executes it,         *)
(*   LedgerInv     the checkpoint rows against the workers that write them,*)
(*   SettledInv    the "running" rows against the workers,                 *)
(*   Sequenced     a stage has a future only on top of those it needs,     *)
(*   EvidenceInv   the evidence of the rows against the files, undamaged.  *)
(***************************************************************************)
EXTENDS RunOrchestration, TLAPS

-----------------------------------------------------------------------------
(* Types.                                                                  *)

\* A call that is submitting a stage has a stage to submit.
SubmitsAStage ==
    \A o \in Owners :
        pc[o] \in {"submit", "invalidate", "put_invalid"} => next[o] \in Stages

\* A worker about to start an attempt has one left.
StartsWithinLimit ==
    \A o \in Owners, s \in Stages :
        wpc[o][s] = "start" => tries[o][s] < MaxAttempts

TypeInv == TypeOK /\ SubmitsAStage /\ StartsWithinLimit

\* The helpers keep the types of what they update.
LEMMA HappensTyped ==
    ASSUME TypeOK, NEW f \in Faults, Happens(f)
    PROVE  faults' \in [Faults -> Nat] /\ faults'[f] # 0
BY DEF TypeOK, Happens

LEMMA RowTyped ==
    ASSUME NEW st \in CkptStates, NEW n \in 0..MaxAttempts, NEW e \in Evidence
    PROVE  Row(st, n, e) \in Checkpoint
BY DEF Row, Checkpoint

LEMMA FollowingTyped == \A s \in Stages : Following(s) \in Stages \cup {"none"}
<1>1. Following("reconstruction") = "inference" BY DEF Following
<1>2. Following("inference") = "validation" BY DEF Following
<1>3. Following("validation") = "publication" BY DEF Following
<1>4. Following("publication") = "none" BY DEF Following
<1>5. QED BY <1>1, <1>2, <1>3, <1>4 DEF Stages

LEMMA HandedOverTyped ==
    ASSUME TypeInv, NEW o \in Owners, NEW s \in Stages, HandedOver(o, s)
    PROVE  /\ next' \in [Owners -> Stages \cup {"none"}]
           /\ pc' \in [Owners -> MainPcs]
           /\ remaining' \in [Owners -> SUBSET Stages]
           /\ SubmitsAStage'
<1> USE DEF TypeInv, TypeOK
<1>1. next' = [next EXCEPT ![o] = Following(s)] BY DEF HandedOver
<1>2. next' \in [Owners -> Stages \cup {"none"}] BY <1>1, FollowingTyped
<1>3. CASE s = "reconstruction"
  <2>1. pc' = [pc EXCEPT ![o] = "submit"] /\ UNCHANGED remaining
    BY <1>3 DEF HandedOver, Goto
  <2>2. next'[o] = "inference" BY <1>1, <1>3 DEF Following
  <2>3. QED BY <1>1, <1>2, <2>1, <2>2 DEF SubmitsAStage, MainPcs, Stages
<1>4. CASE s # "reconstruction"
  <2>1. /\ pc' = [pc EXCEPT ![o] = "await"]
        /\ remaining' = [remaining EXCEPT ![o] =
                            IF s \in Parallel THEN Parallel ELSE {s}]
    BY <1>4 DEF HandedOver, Goto
  <2>2. QED BY <1>1, <1>2, <2>1 DEF SubmitsAStage, MainPcs, Stages, Parallel
<1>5. QED BY <1>3, <1>4

LEMMA ProducedTyped ==
    ASSUME TypeOK, NEW o \in Owners, NEW s \in Stages, NEW e \in Produced(o, s)
    PROVE  e \in Evidence
<1>1. CASE s = "reconstruction" BY <1>1 DEF Produced, Evidence
<1>2. CASE s = "inference" BY <1>2 DEF Produced, Evidence
<1>3. CASE s \notin Parallel
  <2>1. e = result[o]["reconstruction"] BY <1>3 DEF Produced, Parallel
  <2>2. QED BY <2>1 DEF TypeOK, Stages
<1>4. QED BY <1>1, <1>2, <1>3 DEF Parallel

LEMMA ErrorsTyped ==
    ASSUME TypeOK, NEW o \in Owners, NEW error \in ErrorsAfterTick(o)
    PROVE  error \in {None, "cancelled", "error"}
BY DEF TypeOK, ErrorsAfterTick, Done, SettledPcs

LEMMA OnDbErrorTyped ==
    ASSUME TypeOK, NEW o \in Owners, MainDbError(o)
    PROVE  /\ OnDbError(pc[o]) \in MainPcs
           /\ OnDbError(pc[o]) \notin {"submit", "invalidate", "put_invalid", "idle", "claim"}
BY DEF TypeOK, MainDbError, OnDbError, MainPcs, EndedPcs

LEMMA NestedUpdate ==
    ASSUME NEW S, NEW f \in [Owners -> [Stages -> S]],
           NEW o \in Owners, NEW s \in Stages, NEW v \in S
    PROVE  [f EXCEPT ![o][s] = v] \in [Owners -> [Stages -> S]]
OBVIOUS

LEMMA NestedAt ==
    ASSUME NEW S, NEW f \in [Owners -> [Stages -> S]],
           NEW o \in Owners, NEW s \in Stages, NEW v,
           NEW p \in Owners, NEW t \in Stages
    PROVE  [f EXCEPT ![o][s] = v][p][t] = IF p = o /\ t = s THEN v ELSE f[p][t]
OBVIOUS

LEMMA WorkerGotoTyped ==
    ASSUME TypeInv, NEW o \in Owners, NEW s \in Stages,
           NEW label \in WorkerPcs, WorkerGoto(o, s, label)
    PROVE  /\ wpc' \in [Owners -> [Stages -> WorkerPcs]]
           /\ label # "start" /\ UNCHANGED tries => StartsWithinLimit'
<1>1. wpc' = [wpc EXCEPT ![o][s] = label] BY DEF WorkerGoto
<1>2. wpc' \in [Owners -> [Stages -> WorkerPcs]]
  BY <1>1 DEF TypeInv, TypeOK
<1>3. ASSUME label # "start", NEW p \in Owners, NEW t \in Stages,
             wpc'[p][t] = "start"
      PROVE  wpc[p][t] = "start"
  BY <1>1, <1>3 DEF TypeInv, TypeOK
<1>4. QED BY <1>2, <1>3 DEF TypeInv, StartsWithinLimit

LEMMA SettleTyped ==
    ASSUME TypeInv, NEW o \in Owners, NEW s \in Stages,
           NEW outcome \in SettledPcs, Settle(o, s, outcome)
    PROVE  /\ wpc' \in [Owners -> [Stages -> WorkerPcs]]
           /\ tries' \in [Owners -> [Stages -> 0..MaxAttempts]]
           /\ seen' \in [Owners -> [Stages -> 0..MaxAttempts]]
           /\ StartsWithinLimit'
<1>1. /\ wpc' = [wpc EXCEPT ![o][s] = outcome]
      /\ tries' = [tries EXCEPT ![o][s] = 0]
      /\ seen' = [seen EXCEPT ![o][s] = 0]
  BY DEF Settle, WorkerGoto
<1>2. wpc' \in [Owners -> [Stages -> WorkerPcs]]
  BY <1>1 DEF TypeInv, TypeOK, WorkerPcs
<1>3. /\ tries' \in [Owners -> [Stages -> 0..MaxAttempts]]
      /\ seen' \in [Owners -> [Stages -> 0..MaxAttempts]]
  BY <1>1, ConstantsAssumption DEF TypeInv, TypeOK
<1>4. ASSUME NEW p \in Owners, NEW t \in Stages, wpc'[p][t] = "start"
      PROVE  wpc[p][t] = "start" /\ tries'[p][t] = tries[p][t]
  BY <1>1, <1>4 DEF TypeInv, TypeOK, SettledPcs
<1>5. QED BY <1>2, <1>3, <1>4 DEF TypeInv, StartsWithinLimit

LEMMA TypeInit == Init => TypeInv
<1> SUFFICES ASSUME Init PROVE TypeInv
  OBVIOUS
<1> USE DEF Init
<1>1. /\ status \in {"created", "running", "completed", "failed", "cancelled"}
      /\ cancelRequested \in BOOLEAN
      /\ lease \in Lease
      /\ file \in [Stages -> Evidence]
  BY DEF Lease, Unowned, Evidence
<1>2. ckpt \in [Stages -> Checkpoint]
  BY RowTyped, ConstantsAssumption DEF CkptStates, Evidence
<1>3. /\ pc \in [Owners -> MainPcs]
      /\ next \in [Owners -> Stages \cup {"none"}]
      /\ remaining \in [Owners -> SUBSET Stages]
      /\ firstError \in [Owners -> {None, "cancelled", "error"}]
      /\ event \in [Owners -> BOOLEAN]
  BY DEF MainPcs
<1>4. /\ wpc \in [Owners -> [Stages -> WorkerPcs]]
      /\ tries \in [Owners -> [Stages -> 0..MaxAttempts]]
      /\ seen \in [Owners -> [Stages -> 0..MaxAttempts]]
      /\ result \in [Owners -> [Stages -> Evidence]]
  BY ConstantsAssumption DEF WorkerPcs, Evidence
<1>5. ops \in [Stages -> Nat] /\ faults \in [Faults -> Nat]
  OBVIOUS
<1>6. SubmitsAStage /\ StartsWithinLimit
  BY DEF SubmitsAStage, StartsWithinLimit
<1>7. QED BY <1>1, <1>2, <1>3, <1>4, <1>5, <1>6 DEF TypeInv, TypeOK

LEMMA TypeStep == TypeInv /\ [Next]_vars => TypeInv'
<1> SUFFICES ASSUME TypeInv, [Next]_vars PROVE TypeInv'
  OBVIOUS
<1> USE ConstantsAssumption
    DEF TypeInv, TypeOK, SubmitsAStage, StartsWithinLimit, Stages, Evidence,
        MainPcs, EndedPcs, WorkerPcs, SettledPcs, Checkpoint, Goto, WorkerGoto,
        durable, main, workers, history
<1>1. ASSUME NEW o \in Owners, AcquireRead(o) PROVE TypeInv'
  BY <1>1 DEF AcquireRead, Claimable
<1>2. ASSUME NEW o \in Owners, AcquireWrite(o) PROVE TypeInv'
  <2>1. faults' \in [Faults -> Nat]
    BY <1>2, HappensTyped DEF AcquireWrite, Faults
  <2>2. QED BY <1>2, <2>1 DEF AcquireWrite, Granted, Lease
<1>3. ASSUME NEW o \in Owners, MarkRunningRead(o) PROVE TypeInv'
  BY <1>3 DEF MarkRunningRead, Terminal
<1>4. ASSUME NEW o \in Owners, MarkRunningWrite(o) PROVE TypeInv'
  BY <1>4 DEF MarkRunningWrite
<1>5. ASSUME NEW o \in Owners, CheckCancel(o) PROVE TypeInv'
  BY <1>5 DEF CheckCancel
<1>6. ASSUME NEW o \in Owners, SubmitStage(o) PROVE TypeInv'
  <2> DEFINE s == next[o]
  <2>1. s \in Stages BY <1>6 DEF SubmitStage
  <2>2. CASE /\ \E label \in {"ok", "queued"} : WorkerGoto(o, s, label)
             /\ HandedOver(o, s)
             /\ \/ result' = [result EXCEPT ![o][s] = ckpt[s].evidence]
                \/ UNCHANGED result
    <3>1. /\ wpc' \in [Owners -> [Stages -> WorkerPcs]]
          /\ StartsWithinLimit'
      <4>1. {"ok", "queued"} \subseteq WorkerPcs \ {"start"} OBVIOUS
      <4>2. UNCHANGED tries BY <1>6 DEF SubmitStage
      <4> HIDE DEF TypeInv, WorkerGoto, WorkerPcs, StartsWithinLimit
      <4>3. QED BY <2>1, <2>2, <4>1, <4>2, WorkerGotoTyped
    <3>2. ckpt[s].evidence \in Evidence BY <2>1
    <3>3. result' \in [Owners -> [Stages -> Evidence]]
      <4>1. CASE result' = [result EXCEPT ![o][s] = ckpt[s].evidence]
        <5>1. [result EXCEPT ![o][s] = ckpt[s].evidence]
                 \in [Owners -> [Stages -> Evidence]]
          BY <2>1, <3>2, NestedUpdate
        <5>2. QED BY <4>1, <5>1
      <4>2. QED BY <2>2, <4>1
    <3>4. QED BY <1>6, <2>1, <2>2, <3>1, <3>3, HandedOverTyped DEF SubmitStage
  <2>3. CASE Goto(o, "invalidate") /\ UNCHANGED <<wpc, result, next, remaining>>
    BY <1>6, <2>1, <2>3 DEF SubmitStage
  <2>4. QED BY <1>6, <2>2, <2>3 DEF SubmitStage
<1>7. ASSUME NEW o \in Owners, InvalidateRead(o) PROVE TypeInv'
  BY <1>7 DEF InvalidateRead
<1>8. ASSUME NEW o \in Owners, InvalidateWrite(o) PROVE TypeInv'
  <2> DEFINE s == next[o]
  <2>1. s \in Stages /\ HandedOver(o, s) BY <1>8 DEF InvalidateWrite
  <2>2. ckpt' \in [Stages -> Checkpoint]
    BY <1>8, <2>1, RowTyped DEF InvalidateWrite, CkptStates
  <2>3. /\ wpc' \in [Owners -> [Stages -> WorkerPcs]]
        /\ seen' \in [Owners -> [Stages -> 0..MaxAttempts]]
        /\ StartsWithinLimit'
    BY <1>8, <2>1 DEF InvalidateWrite
  <2>4. QED BY <1>8, <2>1, <2>2, <2>3, HandedOverTyped DEF InvalidateWrite
<1>9. ASSUME NEW o \in Owners, AwaitTick(o) PROVE TypeInv'
  <2>1. PICK error \in ErrorsAfterTick(o) :
          /\ firstError' = [firstError EXCEPT ![o] = error]
          /\ event' = [event EXCEPT ![o] = @ \/ cancelRequested \/ error # None]
          /\ Goto(o, IF StillAwaited(o) # {} THEN "await"
                     ELSE IF error # None THEN "drain"
                     ELSE IF next[o] = "none" THEN "mark_completed"
                     ELSE "submit")
    BY <1>9 DEF AwaitTick
  <2>2. error \in {None, "cancelled", "error"} BY ErrorsTyped
  <2>3. event' \in [Owners -> BOOLEAN] BY <2>1
  <2>4. /\ pc' \in [Owners -> MainPcs]
        /\ SubmitsAStage'
    BY <1>9, <2>1 DEF AwaitTick
  <2>5. lease' \in Lease /\ remaining' \in [Owners -> SUBSET Stages]
    BY <1>9 DEF AwaitTick, Granted, Lease, StillAwaited, Done
  <2>6. QED BY <1>9, <2>1, <2>2, <2>3, <2>4, <2>5 DEF AwaitTick
<1>10. ASSUME NEW o \in Owners, LeaseLost(o) PROVE TypeInv'
  BY <1>10 DEF LeaseLost
<1>11. ASSUME NEW o \in Owners, Drain(o) PROVE TypeInv'
  BY <1>11 DEF Drain
<1>12. ASSUME NEW o \in Owners, MarkCompleted(o) PROVE TypeInv'
  BY <1>12 DEF MarkCompleted, MarkTerminal, Forgotten
<1>13. ASSUME NEW o \in Owners, MarkFailed(o) PROVE TypeInv'
  BY <1>13 DEF MarkFailed, MarkTerminal, Forgotten
<1>14. ASSUME NEW o \in Owners, MarkCancelled(o) PROVE TypeInv'
  BY <1>14 DEF MarkCancelled, MarkTerminal, Forgotten
<1>15. ASSUME NEW o \in Owners, ReleaseRead(o) PROVE TypeInv'
  BY <1>15 DEF ReleaseRead, Forgotten
<1>16. ASSUME NEW o \in Owners, ReleaseWrite(o) PROVE TypeInv'
  BY <1>16 DEF ReleaseWrite, Unowned, Lease
<1>17. ASSUME NEW o \in Owners, NEW s \in Stages, WorkerBegin(o, s) PROVE TypeInv'
  BY <1>17 DEF WorkerBegin, PersistedAttempts
<1>18. ASSUME NEW o \in Owners, NEW s \in Stages, WorkerLoop(o, s) PROVE TypeInv'
  <2>1. CASE Settle(o, s, "error")
    BY <1>18, <2>1, SettleTyped DEF WorkerLoop
  <2>2. CASE /\ AttemptsLeft(tries[o][s])
             /\ WorkerGoto(o, s, IF event[o] \/ cancelRequested THEN "cancelling"
                                 ELSE "start")
             /\ UNCHANGED <<tries, seen>>
    BY <1>18, <2>2 DEF WorkerLoop, AttemptsLeft
  <2>3. QED BY <1>18, <2>1, <2>2 DEF WorkerLoop
<1>19. ASSUME NEW o \in Owners, NEW s \in Stages, WorkerStart(o, s) PROVE TypeInv'
  BY <1>19 DEF WorkerStart, Row, CkptStates
<1>20. ASSUME NEW o \in Owners, NEW s \in Stages, WorkerOperate(o, s) PROVE TypeInv'
  <2>1. faults' \in [Faults -> Nat]
    BY <1>20, HappensTyped DEF WorkerOperate, Faults
  <2>2. PICK label \in {"returned", "failing", "retrying", "cancelling"} :
          WorkerGoto(o, s, label)
    BY <1>20 DEF WorkerOperate
  <2>3. /\ wpc' \in [Owners -> [Stages -> WorkerPcs]]
        /\ StartsWithinLimit'
    BY <1>20, <2>2, WorkerGotoTyped DEF WorkerOperate
  <2>4. \/ UNCHANGED <<file, result>>
        \/ \E e \in Produced(o, s) :
             /\ file' = [file EXCEPT ![s] = e]
             /\ \/ result' = [result EXCEPT ![o][s] = e]
                \/ UNCHANGED result
    BY <1>20 DEF WorkerOperate
  <2>5. \A e \in Produced(o, s) : e \in Evidence
    BY ProducedTyped
  <2>6. file' \in [Stages -> Evidence]
    <3>1. CASE UNCHANGED file BY <3>1
    <3>2. ASSUME NEW e \in Evidence, file' = [file EXCEPT ![s] = e]
          PROVE  file' \in [Stages -> Evidence]
      BY <3>2
    <3>3. QED BY <2>4, <2>5, <3>1, <3>2
  <2>7. CASE UNCHANGED result
    BY <1>20, <2>1, <2>3, <2>6, <2>7 DEF WorkerOperate
  <2>8. CASE \E e \in Evidence : result' = [result EXCEPT ![o][s] = e]
    <3>1. result' \in [Owners -> [Stages -> Evidence]] BY <2>8
    <3>2. QED BY <1>20, <2>1, <2>3, <2>6, <3>1 DEF WorkerOperate
  <2>9. QED BY <2>4, <2>5, <2>7, <2>8
<1>21. ASSUME NEW o \in Owners, NEW s \in Stages, WorkerVerify(o, s) PROVE TypeInv'
  BY <1>21 DEF WorkerVerify, Verified
<1>22. ASSUME NEW o \in Owners, NEW s \in Stages, WorkerComplete(o, s) PROVE TypeInv'
  BY <1>22 DEF WorkerComplete, Settle, Row, CkptStates
<1>23. ASSUME NEW o \in Owners, NEW s \in Stages, WorkerReadBack(o, s) PROVE TypeInv'
  BY <1>23 DEF WorkerReadBack
<1>24. ASSUME NEW o \in Owners, NEW s \in Stages, WorkerPutFailed(o, s) PROVE TypeInv'
  BY <1>24 DEF WorkerPutFailed, Settle, Abandoned, Row, CkptStates
<1>25. ASSUME NEW o \in Owners, NEW s \in Stages, WorkerPutRetry(o, s) PROVE TypeInv'
  <2>1. ckpt' \in [Stages -> Checkpoint]
    BY <1>25, RowTyped DEF WorkerPutRetry, Abandoned, CkptStates
  <2>2. CASE Settle(o, s, "error")
    BY <1>25, <2>1, <2>2, SettleTyped DEF WorkerPutRetry
  <2>3. CASE /\ WorkerGoto(o, s, "loop")
             /\ seen' = [seen EXCEPT ![o][s] = 0]
             /\ UNCHANGED tries
    <3>1. /\ wpc' \in [Owners -> [Stages -> WorkerPcs]]
          /\ StartsWithinLimit'
      <4>1. "loop" \in WorkerPcs \ {"start"} OBVIOUS
      <4> HIDE DEF TypeInv, WorkerGoto, WorkerPcs, StartsWithinLimit
      <4>2. QED BY <2>3, <4>1, WorkerGotoTyped
    <3>2. seen' \in [Owners -> [Stages -> 0..MaxAttempts]]
      BY <2>3
    <3>3. QED BY <1>25, <2>1, <2>3, <3>1, <3>2 DEF WorkerPutRetry
  <2>4. QED BY <1>25, <2>2, <2>3 DEF WorkerPutRetry
<1>26. ASSUME NEW o \in Owners, NEW s \in Stages, WorkerPutCancelled(o, s) PROVE TypeInv'
  BY <1>26 DEF WorkerPutCancelled, Settle, Abandoned, Row, CkptStates
<1>27. ASSUME RequestCancel PROVE TypeInv'
  BY <1>27 DEF RequestCancel
<1>28. ASSUME LeaseExpires PROVE TypeInv'
  BY <1>28 DEF LeaseExpires, Lease
<1>29. ASSUME LeaseLapses PROVE TypeInv'
  <2>1. faults' \in [Faults -> Nat]
    BY <1>29, HappensTyped DEF LeaseLapses, Faults
  <2>2. QED BY <1>29, <2>1 DEF LeaseLapses, Lease
<1>30. ASSUME NEW s \in Stages, Tamper(s) PROVE TypeInv'
  <2>1. faults' \in [Faults -> Nat]
    BY <1>30, HappensTyped DEF Tamper, Faults
  <2>2. QED BY <1>30, <2>1 DEF Tamper
<1>31. ASSUME NEW o \in Owners, Crash(o) PROVE TypeInv'
  <2>1. faults' \in [Faults -> Nat]
    BY <1>31, HappensTyped DEF Crash, Faults
  <2>2. QED BY <1>31, <2>1 DEF Crash, Forgotten
<1>32. ASSUME NEW o \in Owners, MainDbError(o) PROVE TypeInv'
  <2>1. faults' \in [Faults -> Nat]
    BY <1>32, HappensTyped DEF MainDbError, Faults
  <2>2. QED BY <1>32, <2>1, OnDbErrorTyped DEF MainDbError
<1>33. ASSUME NEW o \in Owners, NEW s \in Stages, WorkerDbError(o, s) PROVE TypeInv'
  <2>1. faults' \in [Faults -> Nat]
    BY <1>33, HappensTyped DEF WorkerDbError, Faults
  <2>2. CASE Settle(o, s, "error")
    BY <1>33, <2>1, <2>2, SettleTyped DEF WorkerDbError
  <2>3. CASE WorkerGoto(o, s, "failing") /\ UNCHANGED <<tries, seen>>
    <3>1. /\ wpc' \in [Owners -> [Stages -> WorkerPcs]]
          /\ StartsWithinLimit'
      <4>1. "failing" \in WorkerPcs \ {"start"} OBVIOUS
      <4> HIDE DEF TypeInv, WorkerGoto, WorkerPcs, StartsWithinLimit
      <4>2. QED BY <2>3, <4>1, WorkerGotoTyped
    <3>2. QED BY <1>33, <2>1, <2>3, <3>1 DEF WorkerDbError
  <2>4. QED BY <1>33, <2>2, <2>3 DEF WorkerDbError
<1>34. CASE UNCHANGED vars
  BY <1>34 DEF vars, durable, main, workers, history
<1> HIDE DEF TypeInv, Stages
<1>35. QED
  BY <1>1, <1>2, <1>3, <1>4, <1>5, <1>6, <1>7, <1>8, <1>9, <1>10, <1>11,
     <1>12, <1>13, <1>14, <1>15, <1>16, <1>17, <1>18, <1>19, <1>20, <1>21,
     <1>22, <1>23, <1>24, <1>25, <1>26, <1>27, <1>28, <1>29, <1>30, <1>31,
     <1>32, <1>33, <1>34
  DEF Next, MainStep, WorkerStep, Environment, AllEnded

\* Whatever happens, every variable keeps its type and no checkpoint counts
\* more attempts than maximum_stage_attempts.
THEOREM TypeCorrect == Spec => []TypeOK
<1>1. TypeInv => TypeOK BY DEF TypeInv
<1>2. QED BY <1>1, TypeInit, TypeStep, PTL DEF Spec

-----------------------------------------------------------------------------
(* The reconstruction gate.                                                *)

\* The evidence a validation worker is about to record passed the gate.
ValidatedEvidencePasses ==
    \A o \in Owners :
        wpc[o]["validation"] \in {"returned", "complete"} =>
            result[o]["validation"] \in Passing

GateInv == GatedValidation /\ ValidatedEvidencePasses

\* A worker step keeps GateInv if what it hands over as validation evidence
\* passes the gate and the checkpoint rows stay gated.
LEMMA GateWorker ==
    ASSUME TypeInv, GateInv, NEW o \in Owners, NEW s \in Stages, NEW label,
           wpc' = [wpc EXCEPT ![o][s] = label],
           GatedValidation',
           \/ UNCHANGED result /\ label \notin {"returned", "complete"}
           \/ UNCHANGED result /\ wpc[o][s] = "returned"
           \/ \E e : /\ result' = [result EXCEPT ![o][s] = e]
                     /\ \/ s = "validation" => e \in Passing
                        \/ label \notin {"returned", "complete"}
    PROVE  GateInv'
<1>1. SUFFICES ASSUME NEW p \in Owners,
                      wpc'[p]["validation"] \in {"returned", "complete"}
               PROVE  result'[p]["validation"] \in Passing
  BY DEF GateInv, ValidatedEvidencePasses
<1>2. "validation" \in Stages BY DEF Stages
<1>3. wpc'[p]["validation"] = IF p = o /\ "validation" = s THEN label
                              ELSE wpc[p]["validation"]
  BY <1>2, NestedAt DEF TypeInv, TypeOK
<1>4. CASE /\ UNCHANGED result
           /\ label \notin {"returned", "complete"} \/ wpc[o][s] = "returned"
  <2>1. wpc[p]["validation"] \in {"returned", "complete"}
    BY <1>1, <1>3, <1>4
  <2>2. QED BY <1>4, <2>1 DEF GateInv, ValidatedEvidencePasses
<1>5. ASSUME NEW e, result' = [result EXCEPT ![o][s] = e],
             \/ s = "validation" => e \in Passing
             \/ label \notin {"returned", "complete"}
      PROVE  result'[p]["validation"] \in Passing
  <2>1. result'[p]["validation"] = IF p = o /\ "validation" = s THEN e
                                   ELSE result[p]["validation"]
    BY <1>2, <1>5, NestedAt DEF TypeInv, TypeOK
  <2>2. QED BY <1>1, <1>3, <1>5, <2>1 DEF GateInv, ValidatedEvidencePasses
<1>6. QED BY <1>4, <1>5

LEMMA GateInit == Init => GateInv
BY DEF Init, GateInv, GatedValidation, ValidatedEvidencePasses, Row, Stages

LEMMA GateStep == TypeInv /\ GateInv /\ [Next]_vars => GateInv'
<1> SUFFICES ASSUME TypeInv, GateInv, [Next]_vars PROVE GateInv'
  OBVIOUS
<1> USE DEF TypeInv, TypeOK, GateInv, GatedValidation, ValidatedEvidencePasses,
        Stages, Goto, WorkerGoto, durable, main, workers, history
<1>1. ASSUME NEW o \in Owners, AcquireRead(o) PROVE GateInv'
  BY <1>1 DEF AcquireRead
<1>2. ASSUME NEW o \in Owners, AcquireWrite(o) PROVE GateInv'
  BY <1>2 DEF AcquireWrite
<1>3. ASSUME NEW o \in Owners, MarkRunningRead(o) PROVE GateInv'
  BY <1>3 DEF MarkRunningRead
<1>4. ASSUME NEW o \in Owners, MarkRunningWrite(o) PROVE GateInv'
  BY <1>4 DEF MarkRunningWrite
<1>5. ASSUME NEW o \in Owners, CheckCancel(o) PROVE GateInv'
  BY <1>5 DEF CheckCancel
<1>6. ASSUME NEW o \in Owners, SubmitStage(o) PROVE GateInv'
  <2> HIDE DEF TypeInv, TypeOK, GateInv, GatedValidation, ValidatedEvidencePasses,
              Stages, WorkerGoto
  <2>1. next[o] \in Stages /\ GatedValidation'
    BY <1>6 DEF SubmitStage, TypeInv, TypeOK, SubmitsAStage, GateInv, GatedValidation
  <2>2. CASE UNCHANGED <<wpc, result>>
    BY <2>1, <2>2 DEF GateInv, ValidatedEvidencePasses
  <2>3. ASSUME NEW label \in {"ok", "queued"},
               wpc' = [wpc EXCEPT ![o][next[o]] = label],
               \/ UNCHANGED result
               \/ \E e : result' = [result EXCEPT ![o][next[o]] = e]
        PROVE  GateInv'
    BY <2>1, <2>3, GateWorker
  <2>4. QED BY <1>6, <2>2, <2>3 DEF SubmitStage
<1>7. ASSUME NEW o \in Owners, InvalidateRead(o) PROVE GateInv'
  BY <1>7 DEF InvalidateRead
<1>8. ASSUME NEW o \in Owners, InvalidateWrite(o) PROVE GateInv'
  BY <1>8 DEF InvalidateWrite, Row
<1>9. ASSUME NEW o \in Owners, AwaitTick(o) PROVE GateInv'
  BY <1>9 DEF AwaitTick
<1>10. ASSUME NEW o \in Owners, LeaseLost(o) PROVE GateInv'
  BY <1>10 DEF LeaseLost
<1>11. ASSUME NEW o \in Owners, Drain(o) PROVE GateInv'
  BY <1>11 DEF Drain
<1>12. ASSUME NEW o \in Owners, MarkCompleted(o) PROVE GateInv'
  BY <1>12 DEF MarkCompleted, MarkTerminal, Forgotten
<1>13. ASSUME NEW o \in Owners, MarkFailed(o) PROVE GateInv'
  BY <1>13 DEF MarkFailed, MarkTerminal, Forgotten
<1>14. ASSUME NEW o \in Owners, MarkCancelled(o) PROVE GateInv'
  BY <1>14 DEF MarkCancelled, MarkTerminal, Forgotten
<1>15. ASSUME NEW o \in Owners, ReleaseRead(o) PROVE GateInv'
  BY <1>15 DEF ReleaseRead, Forgotten
<1>16. ASSUME NEW o \in Owners, ReleaseWrite(o) PROVE GateInv'
  BY <1>16 DEF ReleaseWrite
<1>17. ASSUME NEW o \in Owners, NEW s \in Stages, WorkerBegin(o, s) PROVE GateInv'
  BY <1>17 DEF WorkerBegin
<1>18. ASSUME NEW o \in Owners, NEW s \in Stages, WorkerLoop(o, s) PROVE GateInv'
  <2> HIDE DEF TypeInv, TypeOK, GateInv, GatedValidation, ValidatedEvidencePasses,
              Stages, WorkerGoto
  <2>1. PICK label \in {"error", "cancelling", "start"} :
          wpc' = [wpc EXCEPT ![o][s] = label]
    BY <1>18 DEF WorkerLoop, Settle, WorkerGoto
  <2>2. GatedValidation' /\ UNCHANGED result
    BY <1>18 DEF WorkerLoop, GateInv, GatedValidation
  <2>3. QED BY <2>1, <2>2, GateWorker
<1>19. ASSUME NEW o \in Owners, NEW s \in Stages, WorkerStart(o, s) PROVE GateInv'
  BY <1>19 DEF WorkerStart, Row
<1>20. ASSUME NEW o \in Owners, NEW s \in Stages, WorkerOperate(o, s) PROVE GateInv'
  <2> HIDE DEF TypeInv, TypeOK, GateInv, GatedValidation, ValidatedEvidencePasses,
              Stages, WorkerGoto
  <2>1. GatedValidation'
    BY <1>20 DEF WorkerOperate, GateInv, GatedValidation
  <2>2. CASE \E e \in Produced(o, s) :
               /\ s # "validation" \/ GatePasses(o)
               /\ result' = [result EXCEPT ![o][s] = e]
               /\ WorkerGoto(o, s, "returned")
    <3>1. PICK e \in Produced(o, s) :
            /\ s # "validation" \/ GatePasses(o)
            /\ result' = [result EXCEPT ![o][s] = e]
            /\ wpc' = [wpc EXCEPT ![o][s] = "returned"]
      BY <2>2 DEF WorkerGoto
    <3>2. s = "validation" => e = result[o]["reconstruction"]
      BY DEF Produced
    <3>3. s = "validation" => e \in Passing
      BY <3>1, <3>2 DEF GatePasses
    <3>4. QED BY <2>1, <3>1, <3>3, GateWorker
  <2>3. CASE /\ \E label \in {"failing", "retrying", "cancelling"} :
                  wpc' = [wpc EXCEPT ![o][s] = label]
             /\ UNCHANGED result
    BY <2>1, <2>3, GateWorker
  <2>4. QED BY <1>20, <2>2, <2>3 DEF WorkerOperate, WorkerGoto
<1>21. ASSUME NEW o \in Owners, NEW s \in Stages, WorkerVerify(o, s) PROVE GateInv'
  BY <1>21 DEF WorkerVerify
<1>22. ASSUME NEW o \in Owners, NEW s \in Stages, WorkerComplete(o, s) PROVE GateInv'
  BY <1>22 DEF WorkerComplete, Settle, Row
<1>23. ASSUME NEW o \in Owners, NEW s \in Stages, WorkerReadBack(o, s) PROVE GateInv'
  BY <1>23 DEF WorkerReadBack
<1>24. ASSUME NEW o \in Owners, NEW s \in Stages, WorkerPutFailed(o, s) PROVE GateInv'
  BY <1>24 DEF WorkerPutFailed, Settle, Abandoned, Row
<1>25. ASSUME NEW o \in Owners, NEW s \in Stages, WorkerPutRetry(o, s) PROVE GateInv'
  <2> HIDE DEF TypeInv, TypeOK, GateInv, GatedValidation, ValidatedEvidencePasses,
              Stages, WorkerGoto
  <2>1. PICK label \in {"error", "loop"} : wpc' = [wpc EXCEPT ![o][s] = label]
    BY <1>25 DEF WorkerPutRetry, Settle, WorkerGoto
  <2>2. GatedValidation' /\ UNCHANGED result
    BY <1>25 DEF WorkerPutRetry, Abandoned, Row, GateInv, GatedValidation, TypeInv, TypeOK
  <2>3. QED BY <2>1, <2>2, GateWorker
<1>26. ASSUME NEW o \in Owners, NEW s \in Stages, WorkerPutCancelled(o, s) PROVE GateInv'
  BY <1>26 DEF WorkerPutCancelled, Settle, Abandoned, Row
<1>27. ASSUME RequestCancel PROVE GateInv'
  BY <1>27 DEF RequestCancel
<1>28. ASSUME LeaseExpires PROVE GateInv'
  BY <1>28 DEF LeaseExpires
<1>29. ASSUME LeaseLapses PROVE GateInv'
  BY <1>29 DEF LeaseLapses
<1>30. ASSUME NEW s \in Stages, Tamper(s) PROVE GateInv'
  BY <1>30 DEF Tamper
<1>31. ASSUME NEW o \in Owners, Crash(o) PROVE GateInv'
  BY <1>31 DEF Crash, Forgotten
<1>32. ASSUME NEW o \in Owners, MainDbError(o) PROVE GateInv'
  BY <1>32 DEF MainDbError
<1>33. ASSUME NEW o \in Owners, NEW s \in Stages, WorkerDbError(o, s) PROVE GateInv'
  BY <1>33 DEF WorkerDbError, Settle
<1>34. CASE UNCHANGED vars
  BY <1>34 DEF vars, durable, main, workers, history
<1> HIDE DEF TypeInv, GateInv, Stages
<1>35. QED
  BY <1>1, <1>2, <1>3, <1>4, <1>5, <1>6, <1>7, <1>8, <1>9, <1>10, <1>11,
     <1>12, <1>13, <1>14, <1>15, <1>16, <1>17, <1>18, <1>19, <1>20, <1>21,
     <1>22, <1>23, <1>24, <1>25, <1>26, <1>27, <1>28, <1>29, <1>30, <1>31,
     <1>32, <1>33, <1>34
  DEF Next, MainStep, WorkerStep, Environment, AllEnded

\* No execution leaves a completed validation checkpoint whose
\* reconstruction fails the gate: calls may overlap, crash and be retried,
\* transactions may fail and evidence may be damaged.
THEOREM GateHolds == Spec => []GatedValidation
<1>1. GateInv => GatedValidation BY DEF GateInv
<1>2. QED
  BY <1>1, TypeInit, TypeStep, GateInit, GateStep, PTL DEF Spec

-----------------------------------------------------------------------------
(* Cancellation.                                                           *)

\* A call stops its workers because somebody asked for it or because it has
\* an error of its own to raise.
EventHasReason ==
    \A o \in Owners : event[o] => cancelRequested \/ firstError[o] # None

\* What a call is going to report as a cancellation was requested.
CancelHasReason ==
    \A o \in Owners :
        firstError[o] = "cancelled" \/ pc[o] = "mark_cancelled" => cancelRequested

\* A worker raises RunCancelled after it saw one of the two flags.
CancelledWorkerHasReason ==
    \A o \in Owners, s \in Stages :
        wpc[o][s] \in {"cancelling", "put_cancelled", "cancelled"} =>
            event[o] \/ cancelRequested

\* A call that raises out of its pool has an exception.
DrainHasError == \A o \in Owners : pc[o] = "drain" => firstError[o] # None

CancelInv ==
    /\ CancelledOnlyOnRequest
    /\ EventHasReason
    /\ CancelHasReason
    /\ CancelledWorkerHasReason
    /\ DrainHasError

\* A worker step keeps CancelInv if it is cancelled for a reason.
LEMMA CancelWorker ==
    ASSUME TypeInv, CancelInv, NEW o \in Owners, NEW s \in Stages, NEW label,
           wpc' = [wpc EXCEPT ![o][s] = label],
           label \in {"cancelling", "put_cancelled", "cancelled"} =>
               event[o] \/ cancelRequested,
           UNCHANGED <<status, cancelRequested, pc, firstError, event>>
    PROVE  CancelInv'
<1>1. CancelledWorkerHasReason'
  <2>1. SUFFICES ASSUME NEW p \in Owners, NEW t \in Stages,
                        wpc'[p][t] \in {"cancelling", "put_cancelled", "cancelled"}
                 PROVE  event[p] \/ cancelRequested
    BY DEF CancelledWorkerHasReason
  <2>2. wpc'[p][t] = IF p = o /\ t = s THEN label ELSE wpc[p][t]
    BY NestedAt DEF TypeInv, TypeOK
  <2>3. QED BY <2>1, <2>2 DEF CancelInv, CancelledWorkerHasReason
<1>2. QED
  BY <1>1 DEF CancelInv, CancelledOnlyOnRequest, EventHasReason,
              CancelHasReason, DrainHasError

\* So does a call that has forgotten its locals.
LEMMA CancelForgotten ==
    ASSUME TypeInv, CancelInv, NEW o \in Owners, Forgotten(o), NEW label,
           pc' = [pc EXCEPT ![o] = label],
           label \notin {"mark_cancelled", "drain"},
           UNCHANGED cancelRequested, CancelledOnlyOnRequest'
    PROVE  CancelInv'
<1>1. /\ event' = [event EXCEPT ![o] = FALSE]
      /\ firstError' = [firstError EXCEPT ![o] = None]
      /\ wpc' = [wpc EXCEPT ![o] = [s \in Stages |-> "idle"]]
  BY DEF Forgotten
<1>2. \A p \in Owners : p # o =>
        /\ event'[p] = event[p] /\ firstError'[p] = firstError[p]
        /\ wpc'[p] = wpc[p] /\ pc'[p] = pc[p]
  BY <1>1 DEF TypeInv, TypeOK
<1>3. /\ event'[o] = FALSE /\ firstError'[o] = None /\ pc'[o] = label
      /\ wpc'[o] = [s \in Stages |-> "idle"]
  BY <1>1 DEF TypeInv, TypeOK
<1>4. EventHasReason'
  BY <1>2, <1>3 DEF CancelInv, EventHasReason
<1>5. CancelHasReason' /\ DrainHasError'
  BY <1>2, <1>3, ConstantsAssumption DEF CancelInv, CancelHasReason, DrainHasError
<1>6. CancelledWorkerHasReason'
  BY <1>2, <1>3 DEF CancelInv, CancelledWorkerHasReason
<1>7. QED BY <1>4, <1>5, <1>6 DEF CancelInv

LEMMA CancelInit == Init => CancelInv
<1> SUFFICES ASSUME Init PROVE CancelInv
  OBVIOUS
<1>1. CancelledOnlyOnRequest BY DEF Init, CancelledOnlyOnRequest
<1>2. EventHasReason BY DEF Init, EventHasReason
<1>3. CancelHasReason /\ DrainHasError
  BY ConstantsAssumption DEF Init, CancelHasReason, DrainHasError
<1>4. CancelledWorkerHasReason BY DEF Init, CancelledWorkerHasReason
<1>5. QED BY <1>1, <1>2, <1>3, <1>4 DEF CancelInv

LEMMA CancelStep == TypeInv /\ CancelInv /\ [Next]_vars => CancelInv'
<1> SUFFICES ASSUME TypeInv, CancelInv, [Next]_vars PROVE CancelInv'
  OBVIOUS
<1> USE ConstantsAssumption
    DEF TypeInv, TypeOK, CancelInv, CancelledOnlyOnRequest, EventHasReason,
        CancelHasReason, CancelledWorkerHasReason, DrainHasError, Goto,
        WorkerGoto, durable, main, workers, history
<1>1. ASSUME NEW o \in Owners, AcquireRead(o) PROVE CancelInv'
  BY <1>1 DEF AcquireRead
<1>2. ASSUME NEW o \in Owners, AcquireWrite(o) PROVE CancelInv'
  BY <1>2 DEF AcquireWrite
<1>3. ASSUME NEW o \in Owners, MarkRunningRead(o) PROVE CancelInv'
  BY <1>3 DEF MarkRunningRead
<1>4. ASSUME NEW o \in Owners, MarkRunningWrite(o) PROVE CancelInv'
  BY <1>4 DEF MarkRunningWrite
<1>5. ASSUME NEW o \in Owners, CheckCancel(o) PROVE CancelInv'
  <2> HIDE DEF TypeInv, TypeOK, CancelInv, CancelledOnlyOnRequest, EventHasReason,
              CancelHasReason, CancelledWorkerHasReason, DrainHasError, Goto,
              WorkerGoto, durable, main, workers, history
  <2>1. /\ pc' = [pc EXCEPT ![o] = IF cancelRequested THEN "mark_cancelled"
                                       ELSE "submit"]
        /\ event' = [event EXCEPT ![o] = @ \/ cancelRequested]
        /\ UNCHANGED <<status, cancelRequested, firstError, wpc>>
    BY <1>5 DEF CheckCancel, Goto, durable, workers
  <2>2. \A p \in Owners :
          /\ p # o => pc'[p] = pc[p] /\ event'[p] = event[p]
          /\ event'[o] <=> event[o] \/ cancelRequested
          /\ pc'[o] # "drain"
          /\ pc'[o] = "mark_cancelled" => cancelRequested
    BY <2>1 DEF TypeInv, TypeOK
  <2>3. EventHasReason' /\ DrainHasError' /\ CancelHasReason'
    BY <2>1, <2>2 DEF CancelInv, EventHasReason, DrainHasError, CancelHasReason
  <2>4. CancelledWorkerHasReason'
    BY <2>1, <2>2 DEF CancelInv, CancelledWorkerHasReason
  <2>5. CancelledOnlyOnRequest' BY <2>1 DEF CancelInv, CancelledOnlyOnRequest
  <2>6. QED BY <2>3, <2>4, <2>5 DEF CancelInv
<1>6. ASSUME NEW o \in Owners, SubmitStage(o) PROVE CancelInv'
  <2> HIDE DEF TypeInv, TypeOK, CancelInv, CancelledOnlyOnRequest, EventHasReason,
              CancelHasReason, CancelledWorkerHasReason, DrainHasError, Goto,
              WorkerGoto, durable, main, workers, history
  <2>1. UNCHANGED <<status, cancelRequested, firstError, event>>
    BY <1>6 DEF SubmitStage, durable
  <2>2. PICK label \in {"submit", "await", "invalidate"} :
          pc' = [pc EXCEPT ![o] = label]
    BY <1>6 DEF SubmitStage, HandedOver, Goto
  <2>3. \A p \in Owners : pc'[p] \in {"mark_cancelled", "drain"} => pc'[p] = pc[p]
    BY <2>2 DEF TypeInv, TypeOK
  <2>4. CancelHasReason' /\ DrainHasError'
    BY <2>1, <2>3 DEF CancelInv, CancelHasReason, DrainHasError
  <2>5. \/ UNCHANGED wpc
        \/ \E outcome \in {"ok", "queued"} :
             wpc' = [wpc EXCEPT ![o][next[o]] = outcome]
    BY <1>6 DEF SubmitStage
  <2>6. \A p \in Owners, t \in Stages :
          wpc'[p][t] \in {"cancelling", "put_cancelled", "cancelled"} =>
              wpc'[p][t] = wpc[p][t]
    <3>1. next[o] \in Stages
      BY <1>6 DEF SubmitStage, TypeInv, TypeOK, SubmitsAStage
    <3>2. ASSUME NEW outcome \in {"ok", "queued"},
                 wpc' = [wpc EXCEPT ![o][next[o]] = outcome],
                 NEW p \in Owners, NEW t \in Stages
          PROVE  wpc'[p][t] = outcome \/ wpc'[p][t] = wpc[p][t]
      <4>1. wpc'[p][t] = IF p = o /\ t = next[o] THEN outcome ELSE wpc[p][t]
        BY <3>1, <3>2, NestedAt DEF TypeInv, TypeOK
      <4>2. QED BY <4>1
    <3>3. QED BY <2>5, <3>2
  <2>7. CancelledWorkerHasReason'
    BY <2>1, <2>6 DEF CancelInv, CancelledWorkerHasReason
  <2>8. QED BY <2>1, <2>4, <2>7
            DEF CancelInv, CancelledOnlyOnRequest, EventHasReason
<1>7. ASSUME NEW o \in Owners, InvalidateRead(o) PROVE CancelInv'
  BY <1>7 DEF InvalidateRead
<1>8. ASSUME NEW o \in Owners, InvalidateWrite(o) PROVE CancelInv'
  BY <1>8 DEF InvalidateWrite, HandedOver
<1>9. ASSUME NEW o \in Owners, AwaitTick(o) PROVE CancelInv'
  <2>1. PICK error \in ErrorsAfterTick(o) :
          /\ firstError' = [firstError EXCEPT ![o] = error]
          /\ event' = [event EXCEPT ![o] = @ \/ cancelRequested \/ error # None]
          /\ Goto(o, IF StillAwaited(o) # {} THEN "await"
                     ELSE IF error # None THEN "drain"
                     ELSE IF next[o] = "none" THEN "mark_completed"
                     ELSE "submit")
    BY <1>9 DEF AwaitTick
  <2>2. error = "cancelled" => cancelRequested
    <3>1. CASE error = firstError[o] BY <3>1
    <3>2. CASE /\ firstError[o] = None
               /\ \E s \in Stages : error = wpc[o][s]
      BY <3>2
    <3>3. QED BY <2>1, <3>1, <3>2 DEF ErrorsAfterTick, Done
  <2>3. firstError[o] # None => error # None
    BY <2>1 DEF ErrorsAfterTick
  <2>4. UNCHANGED <<status, cancelRequested, wpc>>
    BY <1>9 DEF AwaitTick
  <2>5. QED BY <2>1, <2>2, <2>3, <2>4
<1>10. ASSUME NEW o \in Owners, LeaseLost(o) PROVE CancelInv'
  <2> HIDE DEF TypeInv, TypeOK, CancelInv, CancelledOnlyOnRequest, EventHasReason,
              CancelHasReason, CancelledWorkerHasReason, DrainHasError, Goto,
              WorkerGoto, durable, main, workers, history
  <2>1. /\ pc' = [pc EXCEPT ![o] = "drain"]
        /\ firstError' = [firstError EXCEPT ![o] = "error"]
        /\ event' = [event EXCEPT ![o] = TRUE]
        /\ UNCHANGED <<status, cancelRequested, wpc>>
    BY <1>10 DEF LeaseLost, Goto, durable, workers
  <2>2. \A p \in Owners :
          /\ pc'[p] = IF p = o THEN "drain" ELSE pc[p]
          /\ firstError'[p] = IF p = o THEN "error" ELSE firstError[p]
          /\ p # o => event'[p] = event[p]
    BY <2>1 DEF TypeInv, TypeOK
  <2>3. event'[o] BY <2>1 DEF TypeInv, TypeOK
  <2>4. EventHasReason' /\ DrainHasError'
    <3>1. \A p \in Owners : p # o => /\ event'[p] = event[p]
                                     /\ firstError'[p] = firstError[p]
                                     /\ pc'[p] = pc[p]
      BY <2>2
    <3>2. firstError'[o] # None BY <2>2, ConstantsAssumption
    <3>3. QED BY <2>1, <3>1, <3>2 DEF CancelInv, EventHasReason, DrainHasError
  <2>5. CancelHasReason'
    BY <2>1, <2>2 DEF CancelInv, CancelHasReason
  <2>6. CancelledWorkerHasReason' /\ CancelledOnlyOnRequest'
    BY <2>1, <2>2, <2>3 DEF CancelInv, CancelledWorkerHasReason, CancelledOnlyOnRequest
  <2>7. QED BY <2>4, <2>6, <2>5 DEF CancelInv
<1>11. ASSUME NEW o \in Owners, Drain(o) PROVE CancelInv'
  BY <1>11 DEF Drain
<1>12. ASSUME NEW o \in Owners, MarkCompleted(o) PROVE CancelInv'
  <2> HIDE DEF TypeInv, TypeOK, CancelInv, CancelledOnlyOnRequest, EventHasReason,
              CancelHasReason, CancelledWorkerHasReason, DrainHasError, Goto,
              WorkerGoto, durable, main, workers, history
  <2>1. /\ Forgotten(o) /\ pc' = [pc EXCEPT ![o] = "release"]
        /\ UNCHANGED cancelRequested /\ CancelledOnlyOnRequest'
    BY <1>12 DEF MarkCompleted, MarkTerminal, Goto, CancelInv, CancelledOnlyOnRequest, durable
  <2>2. QED BY <2>1, CancelForgotten
<1>13. ASSUME NEW o \in Owners, MarkFailed(o) PROVE CancelInv'
  <2> HIDE DEF TypeInv, TypeOK, CancelInv, CancelledOnlyOnRequest, EventHasReason,
              CancelHasReason, CancelledWorkerHasReason, DrainHasError, Goto,
              WorkerGoto, durable, main, workers, history
  <2>1. /\ Forgotten(o) /\ pc' = [pc EXCEPT ![o] = "release"]
        /\ UNCHANGED cancelRequested /\ CancelledOnlyOnRequest'
    BY <1>13 DEF MarkFailed, MarkTerminal, Goto, CancelInv, CancelledOnlyOnRequest, durable
  <2>2. QED BY <2>1, CancelForgotten
<1>14. ASSUME NEW o \in Owners, MarkCancelled(o) PROVE CancelInv'
  <2> HIDE DEF TypeInv, TypeOK, CancelInv, CancelledOnlyOnRequest, EventHasReason,
              CancelHasReason, CancelledWorkerHasReason, DrainHasError, Goto,
              WorkerGoto, durable, main, workers, history
  <2>1. /\ Forgotten(o) /\ pc' = [pc EXCEPT ![o] = "release"]
        /\ UNCHANGED cancelRequested
    BY <1>14 DEF MarkCancelled, MarkTerminal, Goto
  <2>2. CancelledOnlyOnRequest'
    BY <1>14 DEF MarkCancelled, MarkTerminal, CancelInv, CancelHasReason,
                CancelledOnlyOnRequest
  <2>3. QED BY <2>1, <2>2, CancelForgotten
<1>15. ASSUME NEW o \in Owners, ReleaseRead(o) PROVE CancelInv'
  <2> HIDE DEF TypeInv, TypeOK, CancelInv, CancelledOnlyOnRequest, EventHasReason,
              CancelHasReason, CancelledWorkerHasReason, DrainHasError, Goto,
              WorkerGoto, durable, main, workers, history
  <2>1. PICK label \in {"free", "finished"} : pc' = [pc EXCEPT ![o] = label]
    BY <1>15 DEF ReleaseRead, Goto
  <2>2. Forgotten(o) /\ UNCHANGED cancelRequested /\ CancelledOnlyOnRequest'
    BY <1>15 DEF ReleaseRead, durable, CancelInv, CancelledOnlyOnRequest
  <2>3. QED BY <2>1, <2>2, CancelForgotten
<1>16. ASSUME NEW o \in Owners, ReleaseWrite(o) PROVE CancelInv'
  BY <1>16 DEF ReleaseWrite
<1>17. ASSUME NEW o \in Owners, NEW s \in Stages, WorkerBegin(o, s) PROVE CancelInv'
  BY <1>17 DEF WorkerBegin
<1>18. ASSUME NEW o \in Owners, NEW s \in Stages, WorkerLoop(o, s) PROVE CancelInv'
  <2> HIDE DEF TypeInv, TypeOK, CancelInv, CancelledOnlyOnRequest, EventHasReason,
              CancelHasReason, CancelledWorkerHasReason, DrainHasError, Goto,
              WorkerGoto, durable, main, workers, history
  <2>1. PICK label \in {"error", "cancelling", "start"} :
          /\ wpc' = [wpc EXCEPT ![o][s] = label]
          /\ label = "cancelling" => event[o] \/ cancelRequested
    BY <1>18 DEF WorkerLoop, WorkerGoto, Settle
  <2>2. UNCHANGED <<status, cancelRequested, pc, firstError, event>>
    BY <1>18 DEF WorkerLoop, durable, main
  <2>3. QED BY <2>1, <2>2, CancelWorker
<1>19. ASSUME NEW o \in Owners, NEW s \in Stages, WorkerStart(o, s) PROVE CancelInv'
  BY <1>19 DEF WorkerStart
<1>20. ASSUME NEW o \in Owners, NEW s \in Stages, WorkerOperate(o, s) PROVE CancelInv'
  <2> HIDE DEF TypeInv, TypeOK, CancelInv, CancelledOnlyOnRequest, EventHasReason,
              CancelHasReason, CancelledWorkerHasReason, DrainHasError, Goto,
              WorkerGoto, durable, main, workers, history
  <2>1. PICK label \in {"returned", "failing", "retrying", "cancelling"} :
          /\ wpc' = [wpc EXCEPT ![o][s] = label]
          /\ label = "cancelling" => event[o] \/ cancelRequested
    BY <1>20 DEF WorkerOperate, WorkerGoto
  <2>2. UNCHANGED <<status, cancelRequested, pc, firstError, event>>
    BY <1>20 DEF WorkerOperate, durable, main
  <2>3. QED BY <2>1, <2>2, CancelWorker
<1>21. ASSUME NEW o \in Owners, NEW s \in Stages, WorkerVerify(o, s) PROVE CancelInv'
  BY <1>21 DEF WorkerVerify
<1>22. ASSUME NEW o \in Owners, NEW s \in Stages, WorkerComplete(o, s) PROVE CancelInv'
  BY <1>22 DEF WorkerComplete, Settle
<1>23. ASSUME NEW o \in Owners, NEW s \in Stages, WorkerReadBack(o, s) PROVE CancelInv'
  BY <1>23 DEF WorkerReadBack
<1>24. ASSUME NEW o \in Owners, NEW s \in Stages, WorkerPutFailed(o, s) PROVE CancelInv'
  BY <1>24 DEF WorkerPutFailed, Settle
<1>25. ASSUME NEW o \in Owners, NEW s \in Stages, WorkerPutRetry(o, s) PROVE CancelInv'
  <2> HIDE DEF TypeInv, TypeOK, CancelInv, CancelledOnlyOnRequest, EventHasReason,
              CancelHasReason, CancelledWorkerHasReason, DrainHasError, Goto,
              WorkerGoto, durable, main, workers, history
  <2>1. PICK label \in {"error", "loop"} :
          /\ wpc' = [wpc EXCEPT ![o][s] = label]
          /\ label = "cancelling" => event[o] \/ cancelRequested
    BY <1>25 DEF WorkerPutRetry, WorkerGoto, Settle
  <2>2. UNCHANGED <<status, cancelRequested, pc, firstError, event>>
    BY <1>25 DEF WorkerPutRetry, durable, main
  <2>3. QED BY <2>1, <2>2, CancelWorker
<1>26. ASSUME NEW o \in Owners, NEW s \in Stages, WorkerPutCancelled(o, s) PROVE CancelInv'
  BY <1>26 DEF WorkerPutCancelled, Settle
<1>27. ASSUME RequestCancel PROVE CancelInv'
  BY <1>27 DEF RequestCancel
<1>28. ASSUME LeaseExpires PROVE CancelInv'
  BY <1>28 DEF LeaseExpires
<1>29. ASSUME LeaseLapses PROVE CancelInv'
  BY <1>29 DEF LeaseLapses
<1>30. ASSUME NEW s \in Stages, Tamper(s) PROVE CancelInv'
  BY <1>30 DEF Tamper
<1>31. ASSUME NEW o \in Owners, Crash(o) PROVE CancelInv'
  <2> HIDE DEF TypeInv, TypeOK, CancelInv, CancelledOnlyOnRequest, EventHasReason,
              CancelHasReason, CancelledWorkerHasReason, DrainHasError, Goto,
              WorkerGoto, durable, main, workers, history
  <2>1. /\ Forgotten(o) /\ pc' = [pc EXCEPT ![o] = "crashed"]
        /\ UNCHANGED cancelRequested /\ CancelledOnlyOnRequest'
    BY <1>31 DEF Crash, Goto, CancelInv, CancelledOnlyOnRequest, durable
  <2>2. QED BY <2>1, CancelForgotten
<1>32. ASSUME NEW o \in Owners, MainDbError(o) PROVE CancelInv'
  <2> HIDE DEF TypeInv, TypeOK, CancelInv, CancelledOnlyOnRequest, EventHasReason,
              CancelHasReason, CancelledWorkerHasReason, DrainHasError, Goto,
              WorkerGoto, durable, main, workers, history
  <2>1. OnDbError(pc[o]) # "mark_cancelled"
    BY <1>32 DEF MainDbError, OnDbError, MainPcs, EndedPcs
  <2>2. \A p \in Owners :
          /\ pc'[p] = IF p = o THEN OnDbError(pc[o]) ELSE pc[p]
          /\ firstError'[p] = IF p = o /\ OnDbError(pc[o]) = "drain" THEN "error"
                              ELSE firstError[p]
    BY <1>32 DEF MainDbError, Goto, TypeInv, TypeOK
  <2>3. UNCHANGED <<status, cancelRequested, event, wpc>>
    BY <1>32 DEF MainDbError, durable, workers
  <2>4. EventHasReason' /\ DrainHasError' /\ CancelHasReason'
    BY <2>1, <2>2, <2>3, ConstantsAssumption
       DEF CancelInv, EventHasReason, DrainHasError, CancelHasReason
  <2>5. CancelledWorkerHasReason' /\ CancelledOnlyOnRequest'
    BY <2>3 DEF CancelInv, CancelledWorkerHasReason, CancelledOnlyOnRequest
  <2>6. QED BY <2>4, <2>5 DEF CancelInv
<1>33. ASSUME NEW o \in Owners, NEW s \in Stages, WorkerDbError(o, s) PROVE CancelInv'
  <2> HIDE DEF TypeInv, TypeOK, CancelInv, CancelledOnlyOnRequest, EventHasReason,
              CancelHasReason, CancelledWorkerHasReason, DrainHasError, Goto,
              WorkerGoto, durable, main, workers, history
  <2>1. PICK label \in {"failing", "error"} :
          /\ wpc' = [wpc EXCEPT ![o][s] = label]
          /\ label = "cancelling" => event[o] \/ cancelRequested
    BY <1>33 DEF WorkerDbError, WorkerGoto, Settle
  <2>2. UNCHANGED <<status, cancelRequested, pc, firstError, event>>
    BY <1>33 DEF WorkerDbError, durable, main
  <2>3. QED BY <2>1, <2>2, CancelWorker
<1>34. CASE UNCHANGED vars
  BY <1>34 DEF vars, durable, main, workers, history
<1> HIDE DEF TypeInv, CancelInv
<1>35. QED
  BY <1>1, <1>2, <1>3, <1>4, <1>5, <1>6, <1>7, <1>8, <1>9, <1>10, <1>11,
     <1>12, <1>13, <1>14, <1>15, <1>16, <1>17, <1>18, <1>19, <1>20, <1>21,
     <1>22, <1>23, <1>24, <1>25, <1>26, <1>27, <1>28, <1>29, <1>30, <1>31,
     <1>32, <1>33, <1>34
  DEF Next, MainStep, WorkerStep, Environment, AllEnded

\* A run is recorded as cancelled only after a request, whatever fails.
THEOREM CancelledRunsWereRequested == Spec => []CancelledOnlyOnRequest
<1>1. CancelInv => CancelledOnlyOnRequest BY DEF CancelInv
<1>2. QED
  BY <1>1, TypeInit, TypeStep, CancelInit, CancelStep, PTL DEF Spec

-----------------------------------------------------------------------------
(* Single ownership.                                                       *)

\* A call inside execute() holds the lease, and the lease has not expired.
HoldsLiveLease ==
    Undisturbed => \A o \in Owners : Active(o) => lease = Granted(o)

LEMMA HoldsInit == Init => HoldsLiveLease
BY DEF Init, HoldsLiveLease, Active

LEMMA HoldsStep == TypeInv /\ HoldsLiveLease /\ [Next]_vars => HoldsLiveLease'
<1> SUFFICES ASSUME TypeInv, HoldsLiveLease, [Next]_vars PROVE HoldsLiveLease'
  OBVIOUS
<1> USE ConstantsAssumption
    DEF TypeInv, TypeOK, HoldsLiveLease, Undisturbed, Active, EndedPcs, Granted,
        Lease, Goto, durable, main, workers, history
<1>1. ASSUME NEW o \in Owners, AcquireRead(o) PROVE HoldsLiveLease'
  BY <1>1 DEF AcquireRead
<1>2. ASSUME NEW o \in Owners, AcquireWrite(o) PROVE HoldsLiveLease'
  <2>1. CASE Claimable /\ Undisturbed
    <3>1. \A p \in Owners : ~Active(p)
      BY <2>1 DEF Claimable
    <3>2. \A p \in Owners : Active(p)' => p = o
      BY <1>2, <3>1 DEF AcquireWrite
    <3>3. lease' = Granted(o) BY <1>2 DEF AcquireWrite
    <3>4. QED BY <3>2, <3>3
  <2>2. CASE ~Claimable
    <3>1. faults'["race"] # 0
      BY <1>2, <2>2, HappensTyped DEF AcquireWrite, Faults
    <3>2. QED BY <3>1
  <2>3. CASE ~Undisturbed
    BY <1>2, <2>3, <2>2 DEF AcquireWrite
  <2>4. QED BY <2>1, <2>2, <2>3
<1>3. ASSUME NEW o \in Owners, MarkRunningRead(o) PROVE HoldsLiveLease'
  BY <1>3 DEF MarkRunningRead
<1>4. ASSUME NEW o \in Owners, MarkRunningWrite(o) PROVE HoldsLiveLease'
  BY <1>4 DEF MarkRunningWrite
<1>5. ASSUME NEW o \in Owners, CheckCancel(o) PROVE HoldsLiveLease'
  BY <1>5 DEF CheckCancel
<1>6. ASSUME NEW o \in Owners, SubmitStage(o) PROVE HoldsLiveLease'
  BY <1>6 DEF SubmitStage, HandedOver
<1>7. ASSUME NEW o \in Owners, InvalidateRead(o) PROVE HoldsLiveLease'
  BY <1>7 DEF InvalidateRead
<1>8. ASSUME NEW o \in Owners, InvalidateWrite(o) PROVE HoldsLiveLease'
  BY <1>8 DEF InvalidateWrite, HandedOver
<1>9. ASSUME NEW o \in Owners, AwaitTick(o) PROVE HoldsLiveLease'
  BY <1>9 DEF AwaitTick
<1>10. ASSUME NEW o \in Owners, LeaseLost(o) PROVE HoldsLiveLease'
  BY <1>10 DEF LeaseLost
<1>11. ASSUME NEW o \in Owners, Drain(o) PROVE HoldsLiveLease'
  BY <1>11 DEF Drain
<1>12. ASSUME NEW o \in Owners, MarkCompleted(o) PROVE HoldsLiveLease'
  BY <1>12 DEF MarkCompleted, MarkTerminal
<1>13. ASSUME NEW o \in Owners, MarkFailed(o) PROVE HoldsLiveLease'
  BY <1>13 DEF MarkFailed, MarkTerminal
<1>14. ASSUME NEW o \in Owners, MarkCancelled(o) PROVE HoldsLiveLease'
  BY <1>14 DEF MarkCancelled, MarkTerminal
<1>15. ASSUME NEW o \in Owners, ReleaseRead(o) PROVE HoldsLiveLease'
  BY <1>15 DEF ReleaseRead
<1>16. ASSUME NEW o \in Owners, ReleaseWrite(o) PROVE HoldsLiveLease'
  <2>1. Active(o) BY <1>16 DEF ReleaseWrite
  <2>2. ASSUME Undisturbed, NEW p \in Owners, Active(p) PROVE p = o
    <3>1. Granted(p) = Granted(o) BY <2>1, <2>2
    <3>2. QED BY <3>1
  <2>3. \A p \in Owners : Active(p)' => Active(p) /\ p # o
    BY <1>16 DEF ReleaseWrite
  <2>4. UNCHANGED faults BY <1>16 DEF ReleaseWrite
  <2>5. QED BY <2>2, <2>3, <2>4
<1>17. ASSUME NEW o \in Owners, NEW s \in Stages, WorkerBegin(o, s) PROVE HoldsLiveLease'
  BY <1>17 DEF WorkerBegin
<1>18. ASSUME NEW o \in Owners, NEW s \in Stages, WorkerLoop(o, s) PROVE HoldsLiveLease'
  BY <1>18 DEF WorkerLoop
<1>19. ASSUME NEW o \in Owners, NEW s \in Stages, WorkerStart(o, s) PROVE HoldsLiveLease'
  BY <1>19 DEF WorkerStart
<1>20. ASSUME NEW o \in Owners, NEW s \in Stages, WorkerOperate(o, s) PROVE HoldsLiveLease'
  <2>1. Undisturbed' => Undisturbed
    BY <1>20 DEF WorkerOperate, Happens, Faults
  <2>2. UNCHANGED <<pc, lease>> BY <1>20 DEF WorkerOperate
  <2>3. QED BY <2>1, <2>2
<1>21. ASSUME NEW o \in Owners, NEW s \in Stages, WorkerVerify(o, s) PROVE HoldsLiveLease'
  BY <1>21 DEF WorkerVerify
<1>22. ASSUME NEW o \in Owners, NEW s \in Stages, WorkerComplete(o, s) PROVE HoldsLiveLease'
  BY <1>22 DEF WorkerComplete
<1>23. ASSUME NEW o \in Owners, NEW s \in Stages, WorkerReadBack(o, s) PROVE HoldsLiveLease'
  BY <1>23 DEF WorkerReadBack
<1>24. ASSUME NEW o \in Owners, NEW s \in Stages, WorkerPutFailed(o, s) PROVE HoldsLiveLease'
  BY <1>24 DEF WorkerPutFailed
<1>25. ASSUME NEW o \in Owners, NEW s \in Stages, WorkerPutRetry(o, s) PROVE HoldsLiveLease'
  BY <1>25 DEF WorkerPutRetry
<1>26. ASSUME NEW o \in Owners, NEW s \in Stages, WorkerPutCancelled(o, s) PROVE HoldsLiveLease'
  BY <1>26 DEF WorkerPutCancelled
<1>27. ASSUME RequestCancel PROVE HoldsLiveLease'
  BY <1>27 DEF RequestCancel
<1>28. ASSUME LeaseExpires PROVE HoldsLiveLease'
  BY <1>28 DEF LeaseExpires
<1>29. ASSUME LeaseLapses PROVE HoldsLiveLease'
  <2>1. faults'["lapse"] # 0
    BY <1>29, HappensTyped DEF LeaseLapses, Faults
  <2>2. QED BY <2>1
<1>30. ASSUME NEW s \in Stages, Tamper(s) PROVE HoldsLiveLease'
  BY <1>30 DEF Tamper, Happens
<1>31. ASSUME NEW o \in Owners, Crash(o) PROVE HoldsLiveLease'
  BY <1>31 DEF Crash, Happens
<1>32. ASSUME NEW o \in Owners, MainDbError(o) PROVE HoldsLiveLease'
  <2>1. faults'["lapse"] = faults["lapse"] /\ faults'["race"] = faults["race"]
    BY <1>32 DEF MainDbError, Happens, Faults
  <2>2. Active(o)' => Active(o)
    BY <1>32 DEF MainDbError, OnDbError, MainPcs
  <2>3. QED BY <1>32, <2>1, <2>2 DEF MainDbError
<1>33. ASSUME NEW o \in Owners, NEW s \in Stages, WorkerDbError(o, s) PROVE HoldsLiveLease'
  BY <1>33 DEF WorkerDbError, Happens
<1>34. CASE UNCHANGED vars
  BY <1>34 DEF vars, durable, main, workers, history
<1> HIDE DEF TypeInv, HoldsLiveLease
<1>35. QED
  BY <1>1, <1>2, <1>3, <1>4, <1>5, <1>6, <1>7, <1>8, <1>9, <1>10, <1>11,
     <1>12, <1>13, <1>14, <1>15, <1>16, <1>17, <1>18, <1>19, <1>20, <1>21,
     <1>22, <1>23, <1>24, <1>25, <1>26, <1>27, <1>28, <1>29, <1>30, <1>31,
     <1>32, <1>33, <1>34
  DEF Next, MainStep, WorkerStep, Environment, AllEnded

\* Without lapses and races, at most one call is inside execute(), and the
\* control row names it.
THEOREM OneCallAtATime == Spec => []Exclusive
<1>1. TypeInv /\ HoldsLiveLease => Exclusive
  BY DEF HoldsLiveLease, Exclusive, Granted
<1>2. QED
  BY <1>1, TypeInit, TypeStep, HoldsInit, HoldsStep, PTL DEF Spec

-----------------------------------------------------------------------------
(* The pool of a call.                                                     *)

Working    == WorkerPcs \ (SettledPcs \cup {"idle"})
Preparing  == {"idle", "claim", "mark_running", "write_running", "check_cancel"}
Submitting == {"submit", "invalidate", "put_invalid"}
InPool     == Submitting \cup {"await", "drain"}
Executing  == {"check_cancel", "mark_completed", "mark_failed", "mark_cancelled"}
                \cup InPool

\* The stages whose futures exist when n is the next one to submit.
Handed(n) ==
    CASE n = "reconstruction" -> {}
      [] n = "inference"      -> {"reconstruction"}
      [] n = "validation"     -> Parallel
      [] n = "publication"    -> Parallel \cup {"validation"}
      [] OTHER                -> Stages

\* No future exists outside the pool or for a stage not handed over; validation
\* and publication are submitted when everything before them has succeeded; a
\* stage that is not awaited any more has settled, well if there is no error.
PoolShape(o) ==
    /\ pc[o] \in Preparing => \A s \in Stages : wpc[o][s] = "idle"
    /\ pc[o] \in Submitting \cup {"await"} =>
         \A s \in Stages \ Handed(next[o]) : wpc[o][s] = "idle"
    /\ pc[o] \in Submitting /\ next[o] \notin Parallel =>
         \A s \in Handed(next[o]) : wpc[o][s] = "ok"
    /\ pc[o] = "await" =>
         /\ next[o] \notin Parallel
         /\ \A s \in Handed(next[o]) \ remaining[o] :
              /\ wpc[o][s] \in SettledPcs
              /\ firstError[o] = None => wpc[o][s] = "ok"
    /\ pc[o] = "mark_completed" => \A s \in Stages : wpc[o][s] = "ok"
    /\ pc[o] \notin InPool => PoolDrained(o)

PoolInv == \A o \in Owners : PoolShape(o)

-----------------------------------------------------------------------------
(* The status of the run.                                                  *)

\* A call that executes the run finds it "running", and a call about to mark
\* it running has not been overtaken by its end.
StatusInv ==
    Undisturbed => \A o \in Owners :
        /\ pc[o] \in Executing => status = "running"
        /\ pc[o] = "write_running" => ~Terminal(status)

-----------------------------------------------------------------------------
(* Checkpoints and workers.                                                *)

Reading == {"failing", "retrying", "cancelling"}
Putting == {"put_failed", "put_retry", "put_cancelled"}
Counting == {"loop", "start", "operate", "returned", "complete"}
              \cup Reading \cup Putting

\* What the worker of a stage knows of the stage's checkpoint: the local and
\* the persisted count agree, also in the count read back for an update; the
\* operation about to be performed is counted; a stage reported as done has a
\* completed checkpoint with that evidence.
Agrees(o, s) ==
    /\ wpc[o][s] \in Counting => tries[o][s] = ckpt[s].attempts
    /\ wpc[o][s] \in Putting => seen[o][s] = ckpt[s].attempts
    /\ wpc[o][s] = "operate" => ops[s] < ckpt[s].attempts
    /\ wpc[o][s] = "ok" /\ pc[o] \in Executing =>
         /\ ckpt[s].status = "completed"
         /\ ckpt[s].evidence = result[o][s]
    /\ pc[o] = "put_invalid" /\ s = next[o] => seen[o][s] = ckpt[s].attempts

LedgerInv ==
    Undisturbed => \A s \in Stages :
        /\ ops[s] <= ckpt[s].attempts
        /\ \A o \in Owners : Agrees(o, s)

\* A "running" checkpoint has the worker that wrote it.
Attempting == {"operate", "returned", "complete"} \cup Reading \cup Putting

SettledInv ==
    Undisturbed /\ faults["crash"] = 0 /\ faults["db"] = 0 =>
        \A s \in Stages : ckpt[s].status = "running" =>
            \E o \in Owners : wpc[o][s] \in Attempting

-----------------------------------------------------------------------------
(* Undamaged evidence.                                                     *)

Undamaged == Undisturbed /\ faults["tamper"] = 0

Derived(s) ==
    ckpt[s].status = "completed" =>
        /\ ckpt["reconstruction"].status = "completed"
        /\ ckpt[s].evidence = ckpt["reconstruction"].evidence

\* A stage that depends on others has a future only on top of theirs.
Sequenced ==
    \A o \in Owners, s \in Stages \ Parallel :
        wpc[o][s] # "idle" => \A t \in Handed(s) : wpc[o][t] = "ok"

\* A completed checkpoint names the evidence in the file of its stage.
Stored ==
    \A s \in Stages :
        ckpt[s].status = "completed" => Verified(s, ckpt[s].evidence)

\* No call has evidence to withdraw.
Unwithdrawn == \A o \in Owners : pc[o] \notin {"invalidate", "put_invalid"}

\* A stage is performed only without a completed checkpoint; what its worker
\* is about to record is in the file, and derived from the reconstruction.
HoldsOutput(o, s) ==
    /\ wpc[o][s] \in Working => ckpt[s].status # "completed"
    /\ wpc[o][s] = "complete" => Verified(s, result[o][s])
    /\ wpc[o][s] \in {"returned", "complete"} /\ s \notin Parallel =>
         result[o][s] = result[o]["reconstruction"]

\* The publication stands on the validation, both on the reconstruction.
Chained ==
    /\ Derived("validation") /\ Derived("publication")
    /\ ckpt["publication"].status = "completed" =>
         ckpt["validation"].status = "completed"

EvidenceInv ==
    Undamaged =>
        /\ Stored /\ Unwithdrawn /\ Chained
        /\ \A o \in Owners, s \in Stages : HoldsOutput(o, s)

-----------------------------------------------------------------------------
(* What a step leaves alone.                                               *)

\* The steps of a call's main thread, those of one of its workers, and the
\* steps of neither.
CallMoves(o) == AcquireRead(o) \/ MainStep(o) \/ Crash(o) \/ MainDbError(o)
WorkerMoves(o, s) == WorkerStep(o, s) \/ WorkerDbError(o, s)
NobodyMoves == UNCHANGED <<status, ckpt, main, workers, ops>>

SameCall(p) ==
    /\ pc'[p] = pc[p] /\ next'[p] = next[p] /\ remaining'[p] = remaining[p]
    /\ firstError'[p] = firstError[p] /\ wpc'[p] = wpc[p] /\ tries'[p] = tries[p]
    /\ seen'[p] = seen[p] /\ result'[p] = result[p]

LEMMA StepKinds ==
    ASSUME [Next]_vars
    PROVE  \/ \E o \in Owners : CallMoves(o)
           \/ \E o \in Owners, s \in Stages : WorkerMoves(o, s)
           \/ /\ NobodyMoves
              /\ UNCHANGED file \/ \E s \in Stages : Tamper(s)
<1> USE DEF NobodyMoves, history
<1>1. CASE RequestCancel BY <1>1 DEF RequestCancel
<1>2. CASE LeaseExpires BY <1>2 DEF LeaseExpires
<1>3. CASE LeaseLapses BY <1>3 DEF LeaseLapses
<1>4. CASE \E s \in Stages : Tamper(s) BY <1>4 DEF Tamper
<1>5. CASE UNCHANGED vars BY <1>5 DEF vars, durable
<1>6. QED
  BY <1>1, <1>2, <1>3, <1>4, <1>5
  DEF Next, Environment, AllEnded, CallMoves, WorkerMoves

\* A fault that has happened has happened.
LEMMA FaultsStay ==
    ASSUME TypeInv, [Next]_vars, NEW f \in Faults, faults'[f] = 0
    PROVE  faults[f] = 0
<1> USE DEF TypeInv, TypeOK
<1>1. CASE UNCHANGED faults BY <1>1
<1>2. CASE \E g \in Faults : Happens(g) BY <1>2 DEF Happens
<1>3. CASE UNCHANGED vars BY <1>1, <1>3 DEF vars, history
<1>4. \A g \in {"stage", "crash", "lapse", "race", "tamper", "db"} : g \in Faults
  BY DEF Faults
<1>5. ASSUME NEW o \in Owners, CallMoves(o) PROVE faults[f] = 0
  <2>1. CASE Crash(o) BY <2>1, <1>2, <1>4 DEF Crash
  <2>2. CASE MainDbError(o) BY <2>2, <1>2, <1>4 DEF MainDbError
  <2>3. CASE AcquireWrite(o) BY <2>3, <1>1, <1>2, <1>4 DEF AcquireWrite
  <2>4. CASE CallMoves(o) /\ ~Crash(o) /\ ~MainDbError(o) /\ ~AcquireWrite(o)
    <3>1. UNCHANGED faults
      BY <2>4 DEF CallMoves, MainStep, history, AcquireRead, MarkRunningRead,
         MarkRunningWrite, CheckCancel, SubmitStage, InvalidateRead,
         InvalidateWrite, AwaitTick, LeaseLost, Drain, MarkCompleted, MarkFailed,
         MarkCancelled, MarkTerminal, ReleaseRead, ReleaseWrite
    <3>2. QED BY <3>1, <1>1
  <2>5. QED BY <1>5, <2>1, <2>2, <2>3, <2>4
<1>6. ASSUME NEW o \in Owners, NEW s \in Stages, WorkerMoves(o, s) PROVE faults[f] = 0
  <2>1. CASE WorkerDbError(o, s) BY <2>1, <1>2, <1>4 DEF WorkerDbError
  <2>2. CASE WorkerOperate(o, s) BY <2>2, <1>1, <1>2, <1>4 DEF WorkerOperate
  <2>3. CASE WorkerStep(o, s) /\ ~WorkerOperate(o, s)
    <3>1. UNCHANGED faults
      BY <2>3 DEF WorkerStep, history, WorkerBegin, WorkerLoop, WorkerStart,
         WorkerVerify, WorkerComplete, WorkerReadBack, WorkerPutFailed,
         WorkerPutRetry, WorkerPutCancelled
    <3>2. QED BY <3>1, <1>1
  <2>4. QED BY <1>6, <2>1, <2>2, <2>3 DEF WorkerMoves
<1>7. CASE RequestCancel \/ LeaseExpires
  BY <1>7, <1>1 DEF RequestCancel, LeaseExpires, history
<1>8. CASE LeaseLapses BY <1>8, <1>2, <1>4 DEF LeaseLapses
<1>9. ASSUME NEW s \in Stages, Tamper(s) PROVE faults[f] = 0
  BY <1>9, <1>2, <1>4 DEF Tamper
<1>10. QED
  BY <1>3, <1>5, <1>6, <1>7, <1>8, <1>9
  DEF Next, Environment, AllEnded, CallMoves, WorkerMoves

LEMMA DisturbanceStays ==
    ASSUME TypeInv, [Next]_vars
    PROVE  /\ Undisturbed' => Undisturbed
           /\ Undamaged' => Undamaged
BY FaultsStay DEF Undisturbed, Undamaged, Faults

\* A step of one call's main thread leaves the other calls alone.
LEMMA OtherCallsSame ==
    ASSUME TypeInv, NEW o \in Owners, CallMoves(o), NEW p \in Owners \ {o}
    PROVE  SameCall(p)
<1> USE DEF TypeInv, TypeOK, SameCall, Goto, main, workers
<1>1. CASE AcquireRead(o) BY <1>1 DEF AcquireRead
<1>2. CASE AcquireWrite(o) BY <1>2 DEF AcquireWrite
<1>3. CASE MarkRunningRead(o) BY <1>3 DEF MarkRunningRead
<1>4. CASE MarkRunningWrite(o) BY <1>4 DEF MarkRunningWrite
<1>5. CASE CheckCancel(o) BY <1>5 DEF CheckCancel
<1>6. CASE SubmitStage(o) BY <1>6 DEF SubmitStage, HandedOver
<1>7. CASE InvalidateRead(o) BY <1>7 DEF InvalidateRead
<1>8. CASE InvalidateWrite(o) BY <1>8 DEF InvalidateWrite, HandedOver
<1>9. CASE AwaitTick(o) BY <1>9 DEF AwaitTick
<1>10. CASE LeaseLost(o) BY <1>10 DEF LeaseLost
<1>11. CASE Drain(o) BY <1>11 DEF Drain
<1>12. CASE MarkCompleted(o) BY <1>12 DEF MarkCompleted, MarkTerminal, Forgotten
<1>13. CASE MarkFailed(o) BY <1>13 DEF MarkFailed, MarkTerminal, Forgotten
<1>14. CASE MarkCancelled(o) BY <1>14 DEF MarkCancelled, MarkTerminal, Forgotten
<1>15. CASE ReleaseRead(o) BY <1>15 DEF ReleaseRead, Forgotten
<1>16. CASE ReleaseWrite(o) BY <1>16 DEF ReleaseWrite
<1>17. CASE Crash(o) BY <1>17 DEF Crash, Forgotten
<1>18. CASE MainDbError(o) BY <1>18 DEF MainDbError
<1>19. QED
  BY <1>1, <1>2, <1>3, <1>4, <1>5, <1>6, <1>7, <1>8, <1>9, <1>10, <1>11, <1>12, <1>13, <1>14, <1>15, <1>16, <1>17, <1>18 DEF CallMoves, MainStep

\* A worker has work to do when it moves; it touches its own entries and the
\* row and the file of its stage.
LEMMA WorkerTouches ==
    ASSUME TypeInv, NEW o \in Owners, NEW s \in Stages, WorkerMoves(o, s)
    PROVE  /\ wpc[o][s] \in Working
           /\ wpc'[o][s] \in WorkerPcs \ {"idle", "queued"}
           /\ \A p \in Owners, t \in Stages : p # o \/ t # s =>
                /\ wpc'[p][t] = wpc[p][t] /\ tries'[p][t] = tries[p][t]
                /\ seen'[p][t] = seen[p][t] /\ result'[p][t] = result[p][t]
           /\ \A t \in Stages \ {s} :
                ckpt'[t] = ckpt[t] /\ file'[t] = file[t] /\ ops'[t] = ops[t]
           /\ UNCHANGED <<main, status, cancelRequested, lease>>
<1> USE DEF Working, WorkerPcs, SettledPcs
<1>1. PICK label \in WorkerPcs \ {"idle", "queued"} : WorkerGoto(o, s, label)
  BY DEF WorkerMoves, WorkerStep, WorkerDbError, Settle, WorkerBegin, WorkerLoop,
     WorkerStart, WorkerOperate, WorkerVerify, WorkerComplete, WorkerReadBack,
     WorkerPutFailed, WorkerPutRetry, WorkerPutCancelled
<1>2. \A p \in Owners, t \in Stages :
        wpc'[p][t] = IF p = o /\ t = s THEN label ELSE wpc[p][t]
  BY <1>1, NestedAt DEF WorkerGoto, TypeInv, TypeOK
<1>3. wpc[o][s] \in Working
  BY DEF WorkerMoves, WorkerStep, WorkerDbError, WorkerBegin, WorkerLoop,
     WorkerStart, WorkerOperate, WorkerVerify, WorkerComplete, WorkerReadBack,
     WorkerPutFailed, WorkerPutRetry, WorkerPutCancelled
<1>4. /\ UNCHANGED tries \/ \E n : tries' = [tries EXCEPT ![o][s] = n]
      /\ UNCHANGED seen \/ \E n : seen' = [seen EXCEPT ![o][s] = n]
      /\ UNCHANGED result \/ \E e : result' = [result EXCEPT ![o][s] = e]
  BY DEF WorkerMoves, WorkerStep, WorkerDbError, Settle, WorkerBegin, WorkerLoop,
     WorkerStart, WorkerOperate, WorkerVerify, WorkerComplete, WorkerReadBack,
     WorkerPutFailed, WorkerPutRetry, WorkerPutCancelled, workers
<1>5. \A p \in Owners, t \in Stages : p # o \/ t # s =>
        /\ tries'[p][t] = tries[p][t]
        /\ seen'[p][t] = seen[p][t]
        /\ result'[p][t] = result[p][t]
  BY <1>4, NestedAt DEF TypeInv, TypeOK
<1>6. /\ UNCHANGED ckpt \/ \E r : ckpt' = [ckpt EXCEPT ![s] = r]
      /\ UNCHANGED file \/ \E e : file' = [file EXCEPT ![s] = e]
      /\ UNCHANGED ops \/ \E n : ops' = [ops EXCEPT ![s] = n]
  BY DEF WorkerMoves, WorkerStep, WorkerDbError, Settle, WorkerBegin, WorkerLoop,
     WorkerStart, WorkerOperate, WorkerVerify, WorkerComplete, WorkerReadBack,
     WorkerPutFailed, WorkerPutRetry, WorkerPutCancelled, durable, history
<1>7. \A t \in Stages \ {s} :
        ckpt'[t] = ckpt[t] /\ file'[t] = file[t] /\ ops'[t] = ops[t]
  BY <1>6 DEF TypeInv, TypeOK
<1>8. UNCHANGED <<main, status, cancelRequested, lease>>
  BY DEF WorkerMoves, WorkerStep, WorkerDbError, WorkerBegin, WorkerLoop,
     WorkerStart, WorkerOperate, WorkerVerify, WorkerComplete, WorkerReadBack,
     WorkerPutFailed, WorkerPutRetry, WorkerPutCancelled, durable
<1>9. QED BY <1>1, <1>2, <1>3, <1>5, <1>7, <1>8

-----------------------------------------------------------------------------
(* The pool.                                                               *)

LEMMA HandedValues ==
    /\ Handed("reconstruction") = {}
    /\ Handed("inference") = {"reconstruction"}
    /\ Handed("validation") = {"reconstruction", "inference"}
    /\ Handed("publication") = {"reconstruction", "inference", "validation"}
    /\ Handed("none") = Stages
    /\ \A s \in Stages : Handed(Following(s)) = Handed(s) \cup {s}
<1>1. /\ Handed("reconstruction") = {}
      /\ Handed("inference") = {"reconstruction"}
      /\ Handed("validation") = {"reconstruction", "inference"}
      /\ Handed("publication") = {"reconstruction", "inference", "validation"}
      /\ Handed("none") = Stages
  BY DEF Handed, Parallel
<1>2. /\ Following("reconstruction") = "inference"
      /\ Following("inference") = "validation"
      /\ Following("validation") = "publication"
      /\ Following("publication") = "none"
  BY DEF Following
<1>3. \A s \in Stages : Handed(Following(s)) = Handed(s) \cup {s}
  BY <1>1, <1>2 DEF Stages
<1>4. QED BY <1>1, <1>3

\* A call that has forgotten its locals outside the pool has a pool of idle
\* entries.
LEMMA PoolForgotten ==
    ASSUME TypeInv, NEW o \in Owners, Forgotten(o),
           NEW label \in {"release", "free", "finished", "crashed"}, Goto(o, label)
    PROVE  PoolShape(o)'
<1>1. \A s \in Stages : wpc'[o][s] = "idle" BY DEF Forgotten, TypeInv, TypeOK
<1>2. pc'[o] = label BY DEF Goto, TypeInv, TypeOK
<1>3. QED BY <1>1, <1>2 DEF PoolShape, PoolDrained, InPool, Submitting

\* Handing over the stage to be submitted next, with its future waiting or done.
LEMMA PoolHandedOver ==
    ASSUME TypeInv, PoolInv, NEW o \in Owners, pc[o] \in Submitting,
           HandedOver(o, next[o]), UNCHANGED firstError,
           NEW label \in {"ok", "queued"}, wpc' = [wpc EXCEPT ![o][next[o]] = label]
    PROVE  PoolShape(o)'
<1> DEFINE s == next[o]
<1>1. s \in Stages BY DEF TypeInv, SubmitsAStage, Submitting
<1>2. /\ \A t \in Stages \ Handed(s) : wpc[o][t] = "idle"
      /\ s \notin Parallel => \A t \in Handed(s) : wpc[o][t] = "ok"
  BY DEF PoolInv, PoolShape
<1>3. \A t \in Stages : wpc'[o][t] = IF t = s THEN label ELSE wpc[o][t]
  BY <1>1, NestedAt DEF TypeInv, TypeOK
<1>4. next'[o] = Following(s) /\ Handed(next'[o]) = Handed(s) \cup {s}
  BY <1>1, HandedValues DEF HandedOver, TypeInv, TypeOK
<1>5. \A t \in Stages \ Handed(next'[o]) : wpc'[o][t] = "idle"
  BY <1>2, <1>3, <1>4
<1>6. CASE s = "reconstruction"
  <2>1. pc'[o] = "submit" BY <1>6 DEF HandedOver, Goto, TypeInv, TypeOK
  <2>2. next'[o] = "inference" BY <1>4, <1>6 DEF Following
  <2>3. QED
    BY <1>5, <2>1, <2>2 DEF PoolShape, InPool, Submitting, Preparing, Parallel
<1>7. CASE s # "reconstruction"
  <2>1. /\ pc'[o] = "await"
        /\ remaining'[o] = IF s \in Parallel THEN Parallel ELSE {s}
    BY <1>7 DEF HandedOver, Goto, TypeInv, TypeOK
  <2>2. next'[o] \notin Parallel
    BY <1>1, <1>4, <1>7 DEF Following, Stages, Parallel
  <2>3. ASSUME NEW t \in Handed(next'[o]) \ remaining'[o]
        PROVE  wpc'[o][t] = "ok"
    <3>1. CASE s \in Parallel
      <4>1. s = "inference" BY <1>7, <3>1 DEF Parallel
      <4>2. Handed(next'[o]) = Parallel BY <1>4, <4>1, HandedValues DEF Parallel
      <4>3. QED BY <2>1, <2>3, <3>1, <4>2
    <3>2. CASE s \notin Parallel
      <4>1. t \in Handed(s) /\ t # s BY <1>4, <2>1, <2>3, <3>2
      <4>2. t \in Stages BY <1>1, <4>1, HandedValues DEF Stages
      <4>3. QED BY <1>2, <1>3, <3>2, <4>1, <4>2
    <3>3. QED BY <3>1, <3>2
  <2>4. QED
    BY <1>5, <2>1, <2>2, <2>3
       DEF PoolShape, InPool, Submitting, Preparing, SettledPcs
<1>8. QED BY <1>6, <1>7

\* One tick of the wait.
LEMMA PoolTick ==
    ASSUME TypeInv, PoolInv, NEW o \in Owners, AwaitTick(o)
    PROVE  PoolShape(o)'
<1>1. PICK error \in ErrorsAfterTick(o) :
        /\ firstError' = [firstError EXCEPT ![o] = error]
        /\ Goto(o, IF StillAwaited(o) # {} THEN "await"
                   ELSE IF error # None THEN "drain"
                   ELSE IF next[o] = "none" THEN "mark_completed"
                   ELSE "submit")
  BY DEF AwaitTick
<1>2. /\ next[o] \notin Parallel
      /\ \A s \in Stages \ Handed(next[o]) : wpc[o][s] = "idle"
      /\ \A s \in Handed(next[o]) \ remaining[o] :
           /\ wpc[o][s] \in SettledPcs
           /\ firstError[o] = None => wpc[o][s] = "ok"
  BY DEF AwaitTick, PoolInv, PoolShape
<1>3. /\ remaining'[o] = StillAwaited(o) /\ firstError'[o] = error
      /\ pc'[o] = IF StillAwaited(o) # {} THEN "await"
                  ELSE IF error # None THEN "drain"
                  ELSE IF next[o] = "none" THEN "mark_completed" ELSE "submit"
      /\ next'[o] = next[o] /\ wpc'[o] = wpc[o]
  BY <1>1 DEF AwaitTick, Goto, workers, TypeInv, TypeOK
<1>4. next[o] \in Stages \cup {"none"} BY DEF TypeInv, TypeOK
<1>5. Handed(next[o]) \subseteq Stages
  BY <1>4, HandedValues DEF Stages
<1>6. \A s \in Done(o) : wpc[o][s] \in SettledPcs BY DEF Done
<1>7. error = None => firstError[o] = None /\ \A s \in Done(o) : wpc[o][s] = "ok"
  <2>1. None \notin {"cancelled", "error"} BY ConstantsAssumption
  <2>2. QED BY <1>1, <1>6, <2>1 DEF ErrorsAfterTick, SettledPcs
<1>8. \A s \in Handed(next[o]) \ remaining'[o] :
        /\ wpc'[o][s] \in SettledPcs
        /\ firstError'[o] = None => wpc'[o][s] = "ok"
  BY <1>2, <1>3, <1>6, <1>7 DEF StillAwaited
<1>9. CASE pc'[o] \in {"await", "drain"}
  BY <1>2, <1>3, <1>8, <1>9 DEF PoolShape, InPool, Submitting, Preparing
<1>10. CASE pc'[o] \notin {"await", "drain"}
  <2>1. error = None /\ remaining'[o] = {} /\ pc'[o] \in {"submit", "mark_completed"}
    BY <1>3, <1>10
  <2>2. \A s \in Handed(next[o]) : wpc'[o][s] = "ok" BY <1>3, <1>8, <2>1
  <2>3. pc'[o] = "mark_completed" => \A s \in Stages : wpc'[o][s] = "ok"
    BY <1>3, <2>1, <2>2, HandedValues
  <2>4. QED
    BY <1>2, <1>3, <2>1, <2>2, <2>3
       DEF PoolShape, PoolDrained, InPool, Submitting, Preparing, SettledPcs
<1>11. QED BY <1>9, <1>10

LEMMA PoolInit == Init => PoolInv
BY DEF Init, PoolInv, PoolShape, PoolDrained, InPool, Submitting

LEMMA PoolCall ==
    ASSUME TypeInv, PoolInv, NEW o \in Owners, CallMoves(o)
    PROVE  PoolShape(o)'
<1> USE DEF TypeInv, TypeOK, PoolInv, PoolShape, PoolDrained, InPool, Submitting,
        Preparing, Goto, workers
<1>1. CASE AcquireRead(o) BY <1>1 DEF AcquireRead
<1>2. CASE AcquireWrite(o) BY <1>2 DEF AcquireWrite
<1>3. CASE MarkRunningRead(o) BY <1>3 DEF MarkRunningRead
<1>4. CASE MarkRunningWrite(o) BY <1>4 DEF MarkRunningWrite
<1>5. CASE CheckCancel(o) BY <1>5, HandedValues DEF CheckCancel, Parallel
<1>6. CASE SubmitStage(o)
  <2>1. CASE Goto(o, "invalidate") /\ UNCHANGED <<wpc, result, next, remaining>>
    BY <1>6, <2>1 DEF SubmitStage
  <2>2. CASE /\ \E label \in {"ok", "queued"} : wpc' = [wpc EXCEPT ![o][next[o]] = label]
             /\ HandedOver(o, next[o])
    BY <1>6, <2>2, PoolHandedOver DEF SubmitStage
  <2>3. QED BY <1>6, <2>1, <2>2 DEF SubmitStage
<1>7. CASE InvalidateRead(o) BY <1>7 DEF InvalidateRead
<1>8. CASE InvalidateWrite(o) BY <1>8, PoolHandedOver DEF InvalidateWrite
<1>9. CASE AwaitTick(o) BY <1>9, PoolTick
<1>10. CASE LeaseLost(o) BY <1>10 DEF LeaseLost
<1>11. CASE Drain(o) BY <1>11 DEF Drain
<1>12. CASE MarkCompleted(o) \/ MarkFailed(o) \/ MarkCancelled(o)
  BY <1>12, PoolForgotten DEF MarkCompleted, MarkFailed, MarkCancelled, MarkTerminal
<1>13. CASE ReleaseRead(o) BY <1>13, PoolForgotten DEF ReleaseRead
<1>14. CASE ReleaseWrite(o) BY <1>14 DEF ReleaseWrite
<1>15. CASE Crash(o) BY <1>15, PoolForgotten DEF Crash
<1>16. CASE MainDbError(o)
  BY <1>16 DEF MainDbError, OnDbError, MainPcs, EndedPcs, SettledPcs
<1>17. QED
  BY <1>1, <1>2, <1>3, <1>4, <1>5, <1>6, <1>7, <1>8, <1>9, <1>10, <1>11, <1>12,
     <1>13, <1>14, <1>15, <1>16
  DEF CallMoves, MainStep

LEMMA PoolStep == TypeInv /\ PoolInv /\ [Next]_vars => PoolInv'
<1> SUFFICES ASSUME TypeInv, PoolInv, [Next]_vars, NEW p \in Owners
             PROVE  PoolShape(p)'
  BY DEF PoolInv
<1>1. PoolShape(p) BY DEF PoolInv
<1>2. ASSUME NEW o \in Owners, CallMoves(o) PROVE PoolShape(p)'
  <2>1. CASE p = o BY <1>2, <2>1, PoolCall
  <2>2. CASE p # o
    BY <1>1, <1>2, <2>2, OtherCallsSame DEF SameCall, PoolShape, PoolDrained
  <2>3. QED BY <2>1, <2>2
<1>3. ASSUME NEW o \in Owners, NEW s \in Stages, WorkerMoves(o, s)
      PROVE  PoolShape(p)'
  <2>1. UNCHANGED main /\ wpc[o][s] \in Working
    BY <1>3, WorkerTouches
  <2>2. \A t \in Stages : wpc[p][t] \in SettledPcs \cup {"idle"} => wpc'[p][t] = wpc[p][t]
    BY <1>3, <2>1, WorkerTouches DEF Working
  <2>3. Handed(next[p]) \subseteq Stages
    BY HandedValues DEF Stages, TypeInv, TypeOK
  <2>4. QED
    BY <1>1, <2>1, <2>2, <2>3 DEF PoolShape, PoolDrained, main, SettledPcs
<1>4. CASE NobodyMoves
  BY <1>1, <1>4 DEF NobodyMoves, main, workers, PoolShape, PoolDrained
<1>5. QED BY <1>2, <1>3, <1>4, StepKinds
-----------------------------------------------------------------------------
(* The status of the run.                                                  *)

\* Two calls inside execute() are one and the same.
LEMMA Alone ==
    ASSUME TypeInv, HoldsLiveLease, Undisturbed,
           NEW o \in Owners, Active(o), NEW p \in Owners, Active(p)
    PROVE  o = p
BY DEF HoldsLiveLease, Granted

LEMMA ExecutingIsActive ==
    ASSUME NEW o \in Owners, pc[o] \in Executing \cup {"write_running"}
    PROVE  Active(o)
BY DEF Executing, InPool, Submitting, Active, EndedPcs

\* A worker with work to do belongs to a call inside execute().
LEMMA WorkingIsActive ==
    ASSUME PoolInv, NEW o \in Owners, NEW s \in Stages, wpc[o][s] \in Working
    PROVE  pc[o] \in InPool /\ Active(o)
BY DEF PoolInv, PoolShape, PoolDrained, Working, InPool, Submitting, Active, EndedPcs

LEMMA StatusInit == Init => StatusInv
BY DEF Init, StatusInv, Executing, InPool, Submitting

LEMMA StatusStep ==
    TypeInv /\ HoldsLiveLease /\ StatusInv /\ [Next]_vars => StatusInv'
<1> SUFFICES ASSUME TypeInv, HoldsLiveLease, StatusInv, [Next]_vars, Undisturbed',
                    NEW p \in Owners
             PROVE  /\ pc'[p] \in Executing => status' = "running"
                    /\ pc'[p] = "write_running" => ~Terminal(status')
  BY DEF StatusInv, Terminal
<1>1. Undisturbed BY DisturbanceStays
<1>2. /\ pc[p] \in Executing => status = "running"
      /\ pc[p] = "write_running" => ~Terminal(status)
  BY <1>1 DEF StatusInv
<1>3. CASE UNCHANGED <<pc, status>> BY <1>2, <1>3
<1>4. ASSUME NEW o \in Owners, CallMoves(o), p # o
      PROVE  /\ pc'[p] \in Executing => status' = "running"
             /\ pc'[p] = "write_running" => ~Terminal(status')
  <2>1. pc'[p] = pc[p] BY <1>4, OtherCallsSame DEF SameCall
  <2>2. CASE UNCHANGED status BY <1>2, <2>1, <2>2
  <2>3. CASE status' # status
    <3>1. pc[o] \in Executing \cup {"write_running"}
      BY <1>4, <2>3 DEF CallMoves, MainStep, AcquireRead, AcquireWrite, MarkRunningRead,
         MarkRunningWrite, CheckCancel, SubmitStage, InvalidateRead, InvalidateWrite,
         AwaitTick, LeaseLost, Drain, MarkCompleted, MarkFailed, MarkCancelled,
         MarkTerminal, ReleaseRead, ReleaseWrite, Crash, MainDbError, durable, Executing
    <3>2. pc[p] \notin Executing \cup {"write_running"}
      BY <1>1, <1>4, <3>1, Alone, ExecutingIsActive
    <3>3. QED BY <2>1, <3>2
  <2>4. QED BY <2>2, <2>3
<1>5. ASSUME CallMoves(p)
      PROVE  /\ pc'[p] \in Executing => status' = "running"
             /\ pc'[p] = "write_running" => ~Terminal(status')
  <2> USE DEF TypeInv, TypeOK, Executing, InPool, Submitting, Goto, durable
  <2>1. CASE AcquireRead(p) BY <2>1 DEF AcquireRead
  <2>2. CASE AcquireWrite(p) BY <2>2 DEF AcquireWrite
  <2>3. CASE MarkRunningRead(p) BY <2>3 DEF MarkRunningRead
  <2>4. CASE MarkRunningWrite(p) BY <2>4 DEF MarkRunningWrite
  <2>5. CASE CheckCancel(p) BY <1>2, <2>5 DEF CheckCancel
  <2>6. CASE SubmitStage(p) BY <1>2, <2>6 DEF SubmitStage, HandedOver
  <2>7. CASE InvalidateRead(p) BY <1>2, <2>7 DEF InvalidateRead
  <2>8. CASE InvalidateWrite(p) BY <1>2, <2>8 DEF InvalidateWrite, HandedOver
  <2>9. CASE AwaitTick(p) BY <1>2, <2>9 DEF AwaitTick
  <2>10. CASE LeaseLost(p) BY <1>2, <2>10 DEF LeaseLost
  <2>11. CASE Drain(p) BY <1>2, <2>11 DEF Drain
  <2>12. CASE MarkCompleted(p) \/ MarkFailed(p) \/ MarkCancelled(p)
    BY <2>12 DEF MarkCompleted, MarkFailed, MarkCancelled, MarkTerminal
  <2>13. CASE ReleaseRead(p) BY <2>13 DEF ReleaseRead
  <2>14. CASE ReleaseWrite(p) BY <2>14 DEF ReleaseWrite
  <2>15. CASE Crash(p) BY <2>15 DEF Crash
  <2>16. CASE MainDbError(p)
    BY <1>2, <2>16 DEF MainDbError, OnDbError, MainPcs, EndedPcs
  <2>17. QED
    BY <1>5, <2>1, <2>2, <2>3, <2>4, <2>5, <2>6, <2>7, <2>8, <2>9, <2>10, <2>11,
       <2>12, <2>13, <2>14, <2>15, <2>16
    DEF CallMoves, MainStep
<1>6. CASE \E o \in Owners, s \in Stages : WorkerMoves(o, s)
  BY <1>3, <1>6, WorkerTouches DEF main
<1>7. CASE NobodyMoves BY <1>3, <1>7 DEF NobodyMoves, main
<1>8. QED BY <1>4, <1>5, <1>6, <1>7, StepKinds

-----------------------------------------------------------------------------
(* The ledger of attempts and outcomes.                                    *)

\* A call whose futures have all settled has nothing to say about the rows
\* once it is not executing the run.
LEMMA OutsideAgrees ==
    ASSUME PoolInv, NEW o \in Owners, NEW s \in Stages, ~Active(o)
    PROVE  /\ wpc[o][s] \in SettledPcs \cup {"idle"}
           /\ pc[o] \notin Executing
<1>1. pc[o] \notin Executing BY ExecutingIsActive
<1>2. QED
  BY <1>1 DEF PoolInv, PoolShape, PoolDrained, Executing

\* The row of a stage and its worker, over a step of that worker.
LEMMA WorkerAgrees ==
    ASSUME TypeInv, NEW o \in Owners, NEW s \in Stages, WorkerMoves(o, s),
           Agrees(o, s), ops[s] <= ckpt[s].attempts,
           ~(pc[o] = "put_invalid" /\ s = next[o])
    PROVE  Agrees(o, s)' /\ ops'[s] <= ckpt'[s].attempts
<1> USE DEF TypeInv, TypeOK, Agrees, Counting, Reading, Putting, SettledPcs,
        WorkerGoto, Settle, durable, history, main
<1>1. CASE WorkerBegin(o, s) BY <1>1 DEF WorkerBegin, PersistedAttempts
<1>2. CASE WorkerLoop(o, s) BY <1>2 DEF WorkerLoop
<1>3. CASE WorkerStart(o, s)
  <2>1. ckpt'[s] = Row("running", tries[o][s] + 1, None) /\ ops' = ops
    BY <1>3 DEF WorkerStart
  <2>2. tries'[o][s] = tries[o][s] + 1 /\ wpc'[o][s] = "operate"
    BY <1>3 DEF WorkerStart
  <2>3. tries[o][s] = ckpt[s].attempts /\ tries[o][s] \in 0..MaxAttempts
    BY <1>3 DEF WorkerStart
  <2>4. UNCHANGED <<pc, next>> BY <1>3 DEF WorkerStart
  <2>5. QED BY <2>1, <2>2, <2>3, <2>4, ConstantsAssumption DEF Row
<1>4. CASE WorkerOperate(o, s)
  <2>1. ops'[s] = ops[s] + 1 /\ UNCHANGED <<ckpt, tries, pc, next, seen>>
    BY <1>4 DEF WorkerOperate
  <2>2. wpc[o][s] = "operate" /\ wpc'[o][s] \in {"returned", "failing", "retrying", "cancelling"}
    BY <1>4 DEF WorkerOperate
  <2>3. ckpt[s].attempts \in Nat /\ ops[s] \in Nat
    BY ConstantsAssumption DEF Checkpoint
  <2>4. QED BY <2>1, <2>2, <2>3
<1>5. CASE WorkerVerify(o, s) BY <1>5 DEF WorkerVerify
<1>6. CASE WorkerComplete(o, s) BY <1>6 DEF WorkerComplete, Row
<1>7. CASE WorkerReadBack(o, s) BY <1>7 DEF WorkerReadBack
<1>8. CASE WorkerPutFailed(o, s) BY <1>8 DEF WorkerPutFailed, Abandoned, Row
<1>9. CASE WorkerPutRetry(o, s) BY <1>9 DEF WorkerPutRetry, Abandoned, Row
<1>10. CASE WorkerPutCancelled(o, s) BY <1>10 DEF WorkerPutCancelled, Abandoned, Row
<1>11. CASE WorkerDbError(o, s) BY <1>11 DEF WorkerDbError
<1>12. QED
  BY <1>1, <1>2, <1>3, <1>4, <1>5, <1>6, <1>7, <1>8, <1>9, <1>10, <1>11
  DEF WorkerMoves, WorkerStep

LEMMA LedgerInit == Init => LedgerInv
BY DEF Init, LedgerInv, Agrees, Row, Counting, Reading, Putting

\* The same over a step of the main thread of the call.
LEMMA CallAgrees ==
    ASSUME TypeInv, PoolInv, NEW o \in Owners, NEW s \in Stages, CallMoves(o),
           Agrees(o, s)
    PROVE  Agrees(o, s)' /\ ckpt'[s].attempts = ckpt[s].attempts
<1> USE DEF TypeInv, TypeOK, Counting, Reading, Putting, Goto, durable, workers
<1>1. ckpt'[s].attempts = ckpt[s].attempts
  <2>1. CASE UNCHANGED ckpt BY <2>1
  <2>2. CASE InvalidateWrite(o)
    BY <2>2 DEF InvalidateWrite, Agrees, Row, SubmitsAStage
  <2>3. QED
    BY <2>1, <2>2 DEF CallMoves, MainStep, AcquireRead, AcquireWrite, MarkRunningRead,
       MarkRunningWrite, CheckCancel, SubmitStage, InvalidateRead,
       AwaitTick, LeaseLost, Drain, MarkCompleted, MarkFailed, MarkCancelled,
       MarkTerminal, ReleaseRead, ReleaseWrite, Crash, MainDbError
<1>2. ASSUME UNCHANGED <<ckpt, ops, wpc, tries, seen, result>>,
             pc'[o] # "put_invalid",
             pc'[o] \in Executing => pc[o] \in Executing \/ wpc[o][s] = "idle"
      PROVE  Agrees(o, s)'
  BY <1>2 DEF Agrees
<1>3. ASSUME UNCHANGED <<ckpt, ops>>, Forgotten(o), pc'[o] # "put_invalid"
      PROVE  Agrees(o, s)'
  BY <1>3 DEF Agrees, Forgotten
<1>4. CASE AcquireRead(o) BY <1>2, <1>4 DEF AcquireRead, history, Executing, InPool, Submitting
<1>5. CASE AcquireWrite(o) BY <1>2, <1>5 DEF AcquireWrite, Executing, InPool, Submitting
<1>6. CASE MarkRunningRead(o)
  BY <1>2, <1>6 DEF MarkRunningRead, history, Executing, InPool, Submitting
<1>7. CASE MarkRunningWrite(o)
  BY <1>2, <1>7 DEF MarkRunningWrite, history, PoolInv, PoolShape, Preparing
<1>8. CASE CheckCancel(o) BY <1>2, <1>8 DEF CheckCancel, history, Executing
<1>9. CASE SubmitStage(o)
  <2> DEFINE n == next[o]
  <2>1. n \in Stages /\ pc[o] = "submit" BY <1>9 DEF SubmitStage, SubmitsAStage
  <2>2. UNCHANGED <<ckpt, ops, tries, seen>> /\ pc'[o] # "put_invalid"
    BY <1>9 DEF SubmitStage, HandedOver, history
  <2>3. CASE UNCHANGED <<wpc, result>>
    BY <1>2, <2>1, <2>2, <2>3 DEF Executing, InPool, Submitting
  <2>4. CASE /\ wpc' = [wpc EXCEPT ![o][n] = "queued"]
             /\ UNCHANGED result
    <3>1. wpc'[o][s] = IF s = n THEN "queued" ELSE wpc[o][s]
      BY <2>1, <2>4, NestedAt
    <3>2. QED
      BY <2>1, <2>2, <2>4, <3>1 DEF Agrees, Executing, InPool, Submitting
  <2>5. CASE /\ ckpt[n].status = "completed"
             /\ wpc' = [wpc EXCEPT ![o][n] = "ok"]
             /\ result' = [result EXCEPT ![o][n] = ckpt[n].evidence]
    <3>1. wpc'[o][s] = IF s = n THEN "ok" ELSE wpc[o][s]
      BY <2>1, <2>5, NestedAt
    <3>2. result'[o][s] = IF s = n THEN ckpt[n].evidence ELSE result[o][s]
      BY <2>1, <2>5, NestedAt
    <3>3. QED
      BY <2>1, <2>2, <2>5, <3>1, <3>2 DEF Agrees, Executing, InPool, Submitting
  <2>6. QED BY <1>9, <2>3, <2>4, <2>5 DEF SubmitStage
<1>10. CASE InvalidateRead(o)
  <2>1. next[o] \in Stages /\ wpc[o][next[o]] = "idle"
    BY <1>10, HandedValues
       DEF InvalidateRead, SubmitsAStage, PoolInv, PoolShape, Submitting, Stages
  <2>2. /\ seen'[o][next[o]] = ckpt[next[o]].attempts
        /\ s # next[o] => seen'[o][s] = seen[o][s]
        /\ UNCHANGED <<ckpt, ops, next, wpc, tries, result>>
    BY <1>10, <2>1 DEF InvalidateRead, history
  <2>3. pc[o] \in Executing BY <1>10 DEF InvalidateRead, Executing, InPool, Submitting
  <2>4. QED BY <2>1, <2>2, <2>3 DEF Agrees
<1>11. CASE InvalidateWrite(o)
  <2>1. next[o] \in Stages /\ pc[o] \in Executing
    BY <1>11 DEF InvalidateWrite, SubmitsAStage, Executing, InPool, Submitting
  <2>2. /\ wpc'[o][s] = IF s = next[o] THEN "queued" ELSE wpc[o][s]
        /\ seen'[o][s] = IF s = next[o] THEN 0 ELSE seen[o][s]
    BY <1>11, <2>1, NestedAt, ConstantsAssumption DEF InvalidateWrite
  <2>3. s # next[o] => ckpt'[s] = ckpt[s] BY <1>11, <2>1 DEF InvalidateWrite
  <2>4. UNCHANGED <<ops, tries, result>> BY <1>11 DEF InvalidateWrite, history
  <2>5. pc'[o] \in {"submit", "await"} BY <1>11 DEF InvalidateWrite, HandedOver
  <2>6. QED BY <1>1, <2>1, <2>2, <2>3, <2>4, <2>5 DEF Agrees
<1>12. CASE AwaitTick(o)
  BY <1>2, <1>12 DEF AwaitTick, history, Executing, InPool, Submitting
<1>13. CASE LeaseLost(o)
  BY <1>2, <1>13 DEF LeaseLost, history, Executing, InPool, Submitting
<1>14. CASE Drain(o)
  BY <1>2, <1>14 DEF Drain, history, Executing, InPool, Submitting
<1>15. CASE MarkCompleted(o) \/ MarkFailed(o) \/ MarkCancelled(o)
  BY <1>3, <1>15 DEF MarkCompleted, MarkFailed, MarkCancelled, MarkTerminal, history
<1>16. CASE ReleaseRead(o) BY <1>3, <1>16 DEF ReleaseRead, history
<1>17. CASE ReleaseWrite(o)
  BY <1>2, <1>17 DEF ReleaseWrite, history, Executing, InPool, Submitting
<1>18. CASE Crash(o) BY <1>3, <1>18 DEF Crash
<1>19. CASE MainDbError(o)
  <2>1. /\ pc'[o] # "put_invalid"
        /\ pc'[o] \in Executing => pc[o] \in Executing
    BY <1>19 DEF MainDbError, OnDbError, MainPcs, EndedPcs, Executing, InPool, Submitting
  <2>2. QED BY <1>2, <1>19, <2>1 DEF MainDbError
<1>20. QED
  BY <1>1, <1>4, <1>5, <1>6, <1>7, <1>8, <1>9, <1>10, <1>11, <1>12, <1>13, <1>14,
     <1>15, <1>16, <1>17, <1>18, <1>19
  DEF CallMoves, MainStep

\* A step that changes the row of a stage is a step of a call that is inside
\* execute(): its worker's, or the withdrawal of evidence before it exists.
LEMMA RowWriter ==
    ASSUME TypeInv, NEW o \in Owners, CallMoves(o)
    PROVE  /\ UNCHANGED <<ops, file>>
           /\ UNCHANGED ckpt \/ pc[o] = "put_invalid"
BY DEF CallMoves, MainStep, AcquireRead, AcquireWrite, MarkRunningRead,
   MarkRunningWrite, CheckCancel, SubmitStage, InvalidateRead, InvalidateWrite,
   AwaitTick, LeaseLost, Drain, MarkCompleted, MarkFailed, MarkCancelled,
   MarkTerminal, ReleaseRead, ReleaseWrite, Crash, MainDbError, durable, history

LEMMA LedgerStep ==
    TypeInv /\ HoldsLiveLease /\ PoolInv /\ LedgerInv /\ [Next]_vars => LedgerInv'
<1> SUFFICES ASSUME TypeInv, HoldsLiveLease, PoolInv, LedgerInv, [Next]_vars,
                    Undisturbed', NEW s \in Stages
             PROVE  /\ ops'[s] <= ckpt'[s].attempts
                    /\ \A p \in Owners : Agrees(p, s)'
  BY DEF LedgerInv
<1>1. Undisturbed BY DisturbanceStays
<1>2. /\ ops[s] <= ckpt[s].attempts
      /\ \A p \in Owners : Agrees(p, s)
  BY <1>1 DEF LedgerInv
<1>3. ASSUME NEW o \in Owners, CallMoves(o)
      PROVE  /\ ops'[s] <= ckpt'[s].attempts
             /\ \A p \in Owners : Agrees(p, s)'
  <2>1. Agrees(o, s)' /\ ckpt'[s].attempts = ckpt[s].attempts /\ UNCHANGED ops
    BY <1>2, <1>3, CallAgrees, RowWriter
  <2>2. ASSUME NEW p \in Owners, p # o PROVE Agrees(p, s)'
    <3>1. SameCall(p) /\ Agrees(p, s) BY <1>2, <1>3, <2>2, OtherCallsSame
    <3>2. CASE UNCHANGED ckpt BY <2>1, <3>1, <3>2 DEF SameCall, Agrees
    <3>3. CASE pc[o] = "put_invalid"
      <4>1. Active(o)
        BY <3>3, ExecutingIsActive DEF Executing, InPool, Submitting
      <4>2. ~Active(p) BY <1>1, <2>2, <4>1, Alone
      <4>3. wpc[p][s] \in SettledPcs \cup {"idle"} /\ pc[p] \notin Executing
        BY <4>2, OutsideAgrees
      <4>4. QED
        BY <3>1, <4>3 DEF SameCall, Agrees, Counting, Reading, Putting, SettledPcs,
           Executing, InPool, Submitting
    <3>4. QED BY <1>3, <3>2, <3>3, RowWriter
  <2>3. QED BY <1>2, <2>1, <2>2
<1>4. ASSUME NEW o \in Owners, NEW t \in Stages, WorkerMoves(o, t)
      PROVE  /\ ops'[s] <= ckpt'[s].attempts
             /\ \A p \in Owners : Agrees(p, s)'
  <2>1. pc[o] \in InPool /\ Active(o) /\ wpc[o][t] \in Working
    BY <1>4, WorkerTouches, WorkingIsActive
  <2>2. UNCHANGED main BY <1>4, WorkerTouches
  <2>3. CASE s # t
    <3>1. ckpt'[s] = ckpt[s] /\ ops'[s] = ops[s] BY <1>4, <2>3, WorkerTouches
    <3>2. ASSUME NEW p \in Owners PROVE Agrees(p, s)'
      <4>1. /\ wpc'[p][s] = wpc[p][s] /\ tries'[p][s] = tries[p][s]
            /\ seen'[p][s] = seen[p][s] /\ result'[p][s] = result[p][s]
        BY <1>4, <2>3, WorkerTouches
      <4>2. QED BY <1>2, <2>2, <3>1, <4>1 DEF Agrees, main
    <3>3. QED BY <1>2, <3>1, <3>2
  <2>4. CASE s = t
    <3>1. ~(pc[o] = "put_invalid" /\ s = next[o])
      BY <2>1, <2>4, HandedValues
         DEF PoolInv, PoolShape, Submitting, Working, Stages
    <3>2. Agrees(o, s)' /\ ops'[s] <= ckpt'[s].attempts
      BY <1>2, <1>4, <2>4, <3>1, WorkerAgrees
    <3>3. ASSUME NEW p \in Owners, p # o PROVE Agrees(p, s)'
      <4>1. ~Active(p) BY <1>1, <2>1, <3>3, Alone
      <4>2. wpc[p][s] \in SettledPcs \cup {"idle"} /\ pc[p] \notin Executing
        BY <4>1, OutsideAgrees
      <4>3. wpc'[p][s] = wpc[p][s] BY <1>4, <3>3, WorkerTouches
      <4>4. QED
        BY <2>2, <4>2, <4>3 DEF main, Agrees, Counting, Reading, Putting, SettledPcs,
           Executing, InPool, Submitting
    <3>4. QED BY <3>2, <3>3
  <2>5. QED BY <2>3, <2>4
<1>5. CASE NobodyMoves
  BY <1>2, <1>5 DEF NobodyMoves, main, workers, Agrees
<1>6. QED BY <1>3, <1>4, <1>5, StepKinds

\* "Process restart cannot reset a retry budget": over all calls together the
\* operation of a stage is performed at most as often as its checkpoint
\* counts, hence at most maximum_stage_attempts times.
THEOREM AttemptsAreCounted == Spec => []RetryBudget
<1>1. LedgerInv => RetryBudget BY DEF LedgerInv, RetryBudget
<1>2. QED
  BY <1>1, TypeInit, TypeStep, HoldsInit, HoldsStep, PoolInit, PoolStep, LedgerInit,
     LedgerStep, PTL DEF Spec

-----------------------------------------------------------------------------
(* The evidence of a completed run.                                        *)

\* The checkpoints of a run change only while it is "running".
LEMMA RowsOfARunningRun ==
    ASSUME TypeInv, HoldsLiveLease, PoolInv, StatusInv, [Next]_vars, Undisturbed,
           ckpt' # ckpt
    PROVE  status = "running"
<1>1. ASSUME NEW o \in Owners, CallMoves(o) PROVE status = "running"
  <2>1. pc[o] = "put_invalid" BY <1>1, RowWriter
  <2>2. QED BY <2>1 DEF StatusInv, Executing, InPool, Submitting
<1>2. ASSUME NEW o \in Owners, NEW s \in Stages, WorkerMoves(o, s)
      PROVE  status = "running"
  <2>1. pc[o] \in InPool BY <1>2, WorkerTouches, WorkingIsActive
  <2>2. QED BY <2>1 DEF StatusInv, Executing
<1>3. QED BY <1>1, <1>2, StepKinds DEF NobodyMoves

\* Only a call whose four futures hold evidence completes the run.
LEMMA WhoCompletes ==
    ASSUME TypeInv, [Next]_vars, status' = "completed", status # "completed"
    PROVE  \E o \in Owners : MarkCompleted(o)
<1>1. ASSUME NEW o \in Owners, CallMoves(o), ~MarkCompleted(o)
      PROVE  status' # "completed"
  BY <1>1 DEF CallMoves, MainStep, AcquireRead, AcquireWrite, MarkRunningRead,
     MarkRunningWrite, CheckCancel, SubmitStage, InvalidateRead, InvalidateWrite,
     AwaitTick, LeaseLost, Drain, MarkFailed, MarkCancelled, MarkTerminal,
     ReleaseRead, ReleaseWrite, Crash, MainDbError, durable
<1>2. QED BY <1>1, StepKinds, WorkerTouches DEF NobodyMoves

LEMMA CompletedInit == Init => CompletedHasEvidence
BY DEF Init, CompletedHasEvidence

LEMMA CompletedStep ==
    /\ TypeInv /\ HoldsLiveLease /\ PoolInv /\ StatusInv /\ LedgerInv
    /\ CompletedHasEvidence /\ [Next]_vars
    => CompletedHasEvidence'
<1> SUFFICES ASSUME TypeInv, HoldsLiveLease, PoolInv, StatusInv, LedgerInv,
                    CompletedHasEvidence, [Next]_vars,
                    Undisturbed', status' = "completed", NEW s \in Stages
             PROVE  ckpt'[s].status = "completed"
  BY DEF CompletedHasEvidence
<1>1. Undisturbed BY DisturbanceStays
<1>2. CASE status = "completed"
  <2>1. UNCHANGED ckpt BY <1>1, <1>2, RowsOfARunningRun
  <2>2. QED BY <1>1, <1>2, <2>1 DEF CompletedHasEvidence
<1>3. CASE status # "completed"
  <2>1. PICK o \in Owners : MarkCompleted(o) BY <1>3, WhoCompletes
  <2>2. pc[o] = "mark_completed" /\ UNCHANGED ckpt
    BY <2>1 DEF MarkCompleted, MarkTerminal
  <2>3. wpc[o][s] = "ok" BY <2>2 DEF PoolInv, PoolShape
  <2>4. ckpt[s].status = "completed"
    BY <1>1, <2>2, <2>3 DEF LedgerInv, Agrees, Executing
  <2>5. QED BY <2>2, <2>4
<1>4. QED BY <1>2, <1>3

\* A run recorded as completed has four completed checkpoints, however many
\* calls crashed, failed or were cancelled on the way.
THEOREM CompletedRunsHaveEvidence == Spec => []CompletedHasEvidence
BY TypeInit, TypeStep, HoldsInit, HoldsStep, PoolInit, PoolStep, StatusInit,
   StatusStep, LedgerInit, LedgerStep, CompletedInit, CompletedStep, PTL DEF Spec

-----------------------------------------------------------------------------
(* Settled checkpoints.                                                    *)

\* A worker with work to do stays where it is when its call moves on.
LEMMA WorkerUndisturbed ==
    ASSUME TypeInv, PoolInv, NEW o \in Owners, CallMoves(o), ~Crash(o),
           NEW s \in Stages, wpc[o][s] \in Working
    PROVE  wpc'[o][s] = wpc[o][s]
<1>1. pc[o] \in InPool BY WorkingIsActive
<1>2. CASE pc[o] \in Submitting
  <2>1. next[o] \in Stages BY <1>2 DEF TypeInv, SubmitsAStage, Submitting
  <2>2. next[o] \notin Handed(next[o]) BY <2>1, HandedValues DEF Stages
  <2>3. wpc[o][next[o]] = "idle" BY <1>2, <2>1, <2>2 DEF PoolInv, PoolShape
  <2>4. s # next[o] BY <2>3 DEF Working
  <2>5. UNCHANGED wpc \/ \E label : wpc' = [wpc EXCEPT ![o][next[o]] = label]
    BY <1>2 DEF Submitting, CallMoves, MainStep, AcquireRead, AcquireWrite,
       MarkRunningRead, MarkRunningWrite, CheckCancel, SubmitStage, InvalidateRead,
       InvalidateWrite, AwaitTick, LeaseLost, Drain, MarkCompleted, MarkFailed,
       MarkCancelled, MarkTerminal, ReleaseRead, ReleaseWrite, MainDbError, workers
  <2>6. QED BY <2>1, <2>4, <2>5, NestedAt DEF TypeInv, TypeOK
<1>3. CASE pc[o] \in {"await", "drain"}
  BY <1>3 DEF CallMoves, MainStep, AcquireRead, AcquireWrite,
     MarkRunningRead, MarkRunningWrite, CheckCancel, SubmitStage, InvalidateRead,
     InvalidateWrite, AwaitTick, LeaseLost, Drain, MarkCompleted, MarkFailed,
     MarkCancelled, MarkTerminal, ReleaseRead, ReleaseWrite, MainDbError, workers
<1>4. QED BY <1>1, <1>2, <1>3 DEF InPool

LEMMA SettledInit == Init => SettledInv
BY DEF Init, SettledInv, Row

LEMMA SettledStep == TypeInv /\ PoolInv /\ SettledInv /\ [Next]_vars => SettledInv'
<1> SUFFICES ASSUME TypeInv, PoolInv, SettledInv, [Next]_vars,
                    Undisturbed', faults'["crash"] = 0, faults'["db"] = 0,
                    NEW s \in Stages, ckpt'[s].status = "running"
             PROVE  \E p \in Owners : wpc'[p][s] \in Attempting
  BY DEF SettledInv
<1> USE DEF Attempting, Reading, Putting
<1>1. Undisturbed /\ faults["crash"] = 0 /\ faults["db"] = 0
  BY DisturbanceStays, FaultsStay DEF Faults
<1>2. ckpt[s].status = "running" => \E p \in Owners : wpc[p][s] \in Attempting
  BY <1>1 DEF SettledInv
<1>3. Attempting \subseteq Working BY DEF Working, WorkerPcs, SettledPcs
<1>4. /\ \A o \in Owners : ~Crash(o) /\ ~MainDbError(o)
      /\ \A o \in Owners, t \in Stages : ~WorkerDbError(o, t)
  BY HappensTyped DEF Crash, MainDbError, WorkerDbError, Faults, TypeInv
<1>5. ASSUME NEW o \in Owners, CallMoves(o)
      PROVE  \E p \in Owners : wpc'[p][s] \in Attempting
  <2>1. ckpt[s].status = "running"
    <3>1. CASE UNCHANGED ckpt BY <3>1
    <3>2. CASE InvalidateWrite(o)
      <4>1. next[o] \in Stages
        BY <3>2 DEF InvalidateWrite, TypeInv, SubmitsAStage
      <4>2. QED BY <3>2, <4>1 DEF InvalidateWrite, Row, TypeInv, TypeOK
    <3>3. QED
      BY <1>4, <1>5, <3>1, <3>2, RowWriter
         DEF CallMoves, MainStep, AcquireRead, AcquireWrite, MarkRunningRead,
         MarkRunningWrite, CheckCancel, SubmitStage, InvalidateRead, AwaitTick,
         LeaseLost, Drain, MarkCompleted, MarkFailed, MarkCancelled, MarkTerminal,
         ReleaseRead, ReleaseWrite
  <2>2. PICK p \in Owners : wpc[p][s] \in Attempting BY <1>2, <2>1
  <2>3. wpc'[p][s] = wpc[p][s]
    <3>1. CASE p = o BY <1>3, <1>4, <1>5, <2>2, <3>1, WorkerUndisturbed
    <3>2. CASE p # o BY <1>5, <3>2, OtherCallsSame DEF SameCall
    <3>3. QED BY <3>1, <3>2
  <2>4. QED BY <2>2, <2>3
<1>6. ASSUME NEW o \in Owners, NEW t \in Stages, WorkerMoves(o, t), s # t
      PROVE  \E p \in Owners : wpc'[p][s] \in Attempting
  BY <1>2, <1>6, WorkerTouches
<1>7. ASSUME NEW o \in Owners, WorkerMoves(o, s)
      PROVE  \E p \in Owners : wpc'[p][s] \in Attempting
  <2> USE DEF WorkerGoto, Settle, TypeInv, TypeOK, durable
  <2>1. CASE wpc'[o][s] \in Attempting BY <2>1
  <2>2. CASE ckpt'[s] = ckpt[s] /\ wpc[o][s] \notin Attempting
    <3>1. PICK p \in Owners : wpc[p][s] \in Attempting BY <1>2, <2>2
    <3>2. wpc'[p][s] = wpc[p][s] BY <1>7, <2>2, <3>1, WorkerTouches
    <3>3. QED BY <3>1, <3>2
  <2>3. CASE WorkerBegin(o, s) BY <2>2, <2>3 DEF WorkerBegin
  <2>4. CASE WorkerLoop(o, s) BY <2>2, <2>4 DEF WorkerLoop
  <2>5. CASE WorkerStart(o, s) BY <2>1, <2>5 DEF WorkerStart
  <2>6. CASE WorkerOperate(o, s) BY <2>1, <2>6 DEF WorkerOperate
  <2>7. CASE WorkerVerify(o, s) BY <2>1, <2>7 DEF WorkerVerify
  <2>8. CASE WorkerReadBack(o, s) BY <2>1, <2>8 DEF WorkerReadBack
  <2>9. CASE WorkerComplete(o, s) BY <2>9 DEF WorkerComplete, Row
  <2>10. CASE WorkerPutFailed(o, s) BY <2>10 DEF WorkerPutFailed, Abandoned, Row
  <2>11. CASE WorkerPutRetry(o, s) BY <2>11 DEF WorkerPutRetry, Abandoned, Row
  <2>12. CASE WorkerPutCancelled(o, s)
    BY <2>12 DEF WorkerPutCancelled, Abandoned, Row
  <2>13. QED
    BY <1>4, <1>7, <2>3, <2>4, <2>5, <2>6, <2>7, <2>8, <2>9, <2>10, <2>11, <2>12
    DEF WorkerMoves, WorkerStep
<1>8. CASE NobodyMoves BY <1>2, <1>8 DEF NobodyMoves, workers
<1>9. QED BY <1>5, <1>6, <1>7, <1>8, StepKinds

\* When a run has ended no checkpoint still says "running", unless a process
\* died or the database refused an update: the pool is drained first.
THEOREM EndedRunsAreSettled == Spec => []CheckpointsSettled
<1>1. SettledInv /\ PoolInv /\ StatusInv => CheckpointsSettled
  <2> SUFFICES ASSUME SettledInv, PoolInv, StatusInv, Undisturbed,
                      faults["crash"] = 0, faults["db"] = 0,
                      NEW s \in Stages, ckpt[s].status = "running"
               PROVE  status \notin {"completed", "failed", "cancelled"}
    BY DEF CheckpointsSettled
  <2>1. PICK o \in Owners : wpc[o][s] \in Attempting BY DEF SettledInv
  <2>2. wpc[o][s] \in Working
    BY <2>1 DEF Attempting, Reading, Putting, Working, WorkerPcs, SettledPcs
  <2>3. pc[o] \in Executing BY <2>2, WorkingIsActive DEF Executing
  <2>4. QED BY <2>3 DEF StatusInv
<1>2. QED
  BY <1>1, TypeInit, TypeStep, HoldsInit, HoldsStep, PoolInit, PoolStep, StatusInit,
     StatusStep, SettledInit, SettledStep, PTL DEF Spec

-----------------------------------------------------------------------------
(* Undamaged evidence.                                                     *)

LEMMA SequencedInit == Init => Sequenced
BY DEF Init, Sequenced

LEMMA SequencedStep ==
    TypeInv /\ PoolInv /\ Sequenced /\ [Next]_vars => Sequenced'
<1> SUFFICES ASSUME TypeInv, PoolInv, Sequenced, [Next]_vars,
                    NEW p \in Owners, NEW s \in Stages \ Parallel,
                    wpc'[p][s] # "idle", NEW t \in Handed(s)
             PROVE  wpc'[p][t] = "ok"
  BY DEF Sequenced
<1>1. wpc[p][s] # "idle" => wpc[p][t] = "ok" BY DEF Sequenced
<1>2. t \in Stages /\ t # s BY HandedValues DEF Stages, Parallel
<1>3. CASE wpc'[p] = wpc[p] BY <1>1, <1>3
<1>4. ASSUME CallMoves(p) PROVE wpc'[p][t] = "ok"
  <2> USE DEF TypeInv, TypeOK
  <2>1. CASE Forgotten(p) BY <2>1 DEF Forgotten
  <2>2. ASSUME pc[p] \in Submitting,
               NEW label \in {"ok", "queued"},
               wpc' = [wpc EXCEPT ![p][next[p]] = label]
        PROVE  wpc'[p][t] = "ok"
    <3>1. next[p] \in Stages BY <2>2 DEF SubmitsAStage, Submitting
    <3>2. /\ wpc'[p][t] = IF t = next[p] THEN label ELSE wpc[p][t]
          /\ wpc'[p][s] = IF s = next[p] THEN label ELSE wpc[p][s]
      BY <1>2, <2>2, <3>1, NestedAt
    <3>3. next[p] \notin Handed(next[p]) BY <3>1, HandedValues DEF Stages
    <3>4. wpc[p][next[p]] = "idle" BY <2>2, <3>1, <3>3 DEF PoolInv, PoolShape
    <3>5. CASE s = next[p]
      BY <1>2, <2>2, <3>2, <3>5 DEF PoolInv, PoolShape
    <3>6. CASE s # next[p]
      <4>1. wpc[p][t] = "ok" BY <1>1, <3>2, <3>6
      <4>2. QED BY <3>2, <3>4, <4>1
    <3>7. QED BY <3>5, <3>6
  <2>3. CASE UNCHANGED wpc BY <1>3, <2>3
  <2>4. CASE SubmitStage(p) BY <2>2, <2>3, <2>4 DEF SubmitStage, Submitting
  <2>5. CASE InvalidateWrite(p) BY <2>2, <2>5 DEF InvalidateWrite, Submitting
  <2>6. QED
    BY <1>4, <2>1, <2>3, <2>4, <2>5
    DEF CallMoves, MainStep, AcquireRead, AcquireWrite, MarkRunningRead,
       MarkRunningWrite, CheckCancel, InvalidateRead, AwaitTick, LeaseLost, Drain,
       MarkCompleted, MarkFailed, MarkCancelled, MarkTerminal, ReleaseRead,
       ReleaseWrite, Crash, MainDbError, workers
<1>5. ASSUME NEW o \in Owners, CallMoves(o), p # o PROVE wpc'[p][t] = "ok"
  BY <1>3, <1>5, OtherCallsSame DEF SameCall
<1>6. ASSUME NEW o \in Owners, NEW u \in Stages, WorkerMoves(o, u)
      PROVE  wpc'[p][t] = "ok"
  BY <1>1, <1>2, <1>6, WorkerTouches DEF Working, WorkerPcs, SettledPcs
<1>7. CASE NobodyMoves BY <1>3, <1>7 DEF NobodyMoves, workers
<1>8. QED BY <1>4, <1>5, <1>6, <1>7, StepKinds

LEMMA EvidenceInit == Init => EvidenceInv
BY DEF Init, EvidenceInv, Stored, Unwithdrawn, Chained, HoldsOutput, Derived, Row,
   Working, Stages

\* A step of a worker whose stage is its own.
LEMMA EvidenceWorker ==
    ASSUME TypeInv, PoolInv, StatusInv, LedgerInv, Sequenced, EvidenceInv, Undamaged,
           NEW o \in Owners, NEW s \in Stages, WorkerMoves(o, s)
    PROVE  /\ HoldsOutput(o, s)'
           /\ ckpt'[s].status = "completed" =>
                /\ Verified(s, ckpt[s].evidence)'
                /\ s \notin Parallel =>
                     /\ \A t \in Handed(s) : ckpt[t].status = "completed"
                     /\ ckpt'[s].evidence = ckpt["reconstruction"].evidence
<1> USE DEF TypeInv, TypeOK, WorkerGoto, Settle, durable, history
<1>1. wpc[o][s] \in Working BY WorkerTouches
<1>2. HoldsOutput(o, s) /\ ckpt[s].status # "completed"
  BY <1>1 DEF EvidenceInv, HoldsOutput
<1>3. pc[o] \in Executing BY <1>1, WorkingIsActive DEF Executing
<1>4. s \notin Parallel =>
        /\ "reconstruction" \in Handed(s) /\ "reconstruction" # s
        /\ Handed(s) \subseteq Stages
        /\ \A t \in Handed(s) :
             /\ wpc[o][t] = "ok"
             /\ ckpt[t].status = "completed"
             /\ ckpt[t].evidence = result[o][t]
  <2>1. s \notin Parallel =>
          "reconstruction" \in Handed(s) /\ Handed(s) \subseteq Stages
    BY HandedValues DEF Stages, Parallel
  <2>2. ASSUME s \notin Parallel, NEW t \in Handed(s) PROVE wpc[o][t] = "ok"
    BY <1>1, <2>2 DEF Sequenced, Working
  <2>3. QED
    BY <1>3, <2>1, <2>2 DEF LedgerInv, Agrees, Undamaged, Parallel
<1>5. s \notin Parallel => result'[o]["reconstruction"] = result[o]["reconstruction"]
  BY WorkerTouches, <1>4
<1>6. CASE WorkerComplete(o, s)
  <2>1. /\ wpc'[o][s] = "ok"
        /\ ckpt'[s] = Row("completed", tries[o][s], result[o][s])
        /\ UNCHANGED <<file, result>>
    BY <1>6 DEF WorkerComplete
  <2>2. wpc[o][s] = "complete" BY <1>6 DEF WorkerComplete
  <2>3. Verified(s, result[o][s])
    BY <1>2, <2>2 DEF HoldsOutput
  <2>4. s \notin Parallel => result[o][s] = result[o]["reconstruction"]
    BY <1>2, <2>2 DEF HoldsOutput
  <2>5. QED
    BY <1>4, <2>1, <2>3, <2>4 DEF Row, Verified, HoldsOutput, Working, SettledPcs
<1>7. ASSUME ~WorkerComplete(o, s)
      PROVE  ckpt'[s].status # "completed"
  BY <1>2, <1>7 DEF WorkerMoves, WorkerStep, WorkerDbError, WorkerBegin, WorkerLoop,
     WorkerStart, WorkerOperate, WorkerVerify, WorkerReadBack, WorkerPutFailed,
     WorkerPutRetry, WorkerPutCancelled, Abandoned, Row
<1>8. ASSUME ~WorkerComplete(o, s)
      PROVE  /\ wpc'[o][s] = "complete" => Verified(s, result[o][s])'
             /\ wpc'[o][s] \in {"returned", "complete"} /\ s \notin Parallel =>
                  result'[o][s] = result'[o]["reconstruction"]
  <2>1. CASE WorkerOperate(o, s)
    <3>1. wpc'[o][s] \in {"returned", "failing", "retrying", "cancelling"}
      BY <2>1 DEF WorkerOperate
    <3>2. wpc'[o][s] = "returned" =>
            \E e \in Produced(o, s) : result' = [result EXCEPT ![o][s] = e]
      BY <2>1 DEF WorkerOperate
    <3>3. s \notin Parallel => Produced(o, s) = {result[o]["reconstruction"]}
      BY DEF Produced, Parallel
    <3>4. wpc'[o][s] = "returned" /\ s \notin Parallel =>
            result'[o][s] = result[o]["reconstruction"]
      BY <3>2, <3>3
    <3>5. QED BY <1>5, <3>1, <3>4
  <2>2. CASE WorkerVerify(o, s)
    <3>1. UNCHANGED <<result, file>> BY <2>2 DEF WorkerVerify
    <3>2. wpc[o][s] = "returned" /\ wpc'[o][s] = "complete" => Verified(s, result[o][s])
      BY <2>2 DEF WorkerVerify
    <3>3. wpc[o][s] = "returned" BY <2>2 DEF WorkerVerify
    <3>4. QED BY <1>2, <3>1, <3>2, <3>3 DEF Verified, HoldsOutput
  <2>3. CASE ~WorkerOperate(o, s) /\ ~WorkerVerify(o, s)
    <3>1. wpc'[o][s] \notin {"returned", "complete"}
      BY <1>8, <2>3 DEF WorkerMoves, WorkerStep, WorkerDbError, WorkerBegin, WorkerLoop,
         WorkerStart, WorkerReadBack, WorkerPutFailed, WorkerPutRetry, WorkerPutCancelled
    <3>2. QED BY <3>1
  <2>4. QED BY <2>1, <2>2, <2>3
<1>9. QED BY <1>6, <1>7, <1>8 DEF HoldsOutput

\* A step of the main thread of a call: it finds nothing to withdraw.
LEMMA EvidenceCall ==
    ASSUME TypeInv, PoolInv, EvidenceInv, Undamaged, NEW o \in Owners, CallMoves(o)
    PROVE  /\ UNCHANGED <<ckpt, file>>
           /\ pc'[o] \notin {"invalidate", "put_invalid"}
           /\ \A s \in Stages : HoldsOutput(o, s)'
<1> USE DEF TypeInv, TypeOK, Goto, durable, workers
<1>1. UNCHANGED <<ckpt, file>>
  BY RowWriter DEF EvidenceInv, Unwithdrawn
<1>2. CASE SubmitStage(o)
  <2> DEFINE n == next[o]
  <2>1. n \in Stages /\ pc[o] = "submit" BY <1>2 DEF SubmitStage, SubmitsAStage
  <2>2. ckpt[n].status = "completed" => Verified(n, ckpt[n].evidence)
    BY <2>1 DEF EvidenceInv, Stored
  <2>3. PICK label \in {"ok", "queued"} :
          /\ wpc' = [wpc EXCEPT ![o][n] = label]
          /\ label = "queued" => ckpt[n].status # "completed"
          /\ UNCHANGED result \/ \E e : result' = [result EXCEPT ![o][n] = e]
          /\ HandedOver(o, n)
    BY <1>2, <2>2 DEF SubmitStage
  <2>4. pc'[o] \in {"submit", "await"} BY <2>3 DEF HandedOver
  <2>5. \A t \in Stages \ {n} :
          wpc'[o][t] = wpc[o][t] /\ result'[o][t] = result[o][t]
    BY <2>1, <2>3, NestedAt
  <2>6. wpc'[o][n] = label BY <2>1, <2>3, NestedAt
  <2>7. ASSUME NEW s \in Stages PROVE HoldsOutput(o, s)'
    <3>1. HoldsOutput(o, s) BY DEF EvidenceInv
    <3>2. CASE s = n
      BY <1>1, <2>3, <2>6, <3>2 DEF HoldsOutput, Working, SettledPcs
    <3>3. CASE s # n
      <4>1. n = "reconstruction" => wpc[o][s] = "idle"
        BY <2>1, HandedValues DEF PoolInv, PoolShape, Submitting
      <4>2. "reconstruction" \in Stages BY DEF Stages
      <4>3. QED
        BY <1>1, <2>5, <3>1, <3>3, <4>1, <4>2 DEF HoldsOutput, Verified
    <3>4. QED BY <3>2, <3>3
  <2>8. QED BY <1>1, <2>4, <2>7
<1>3. CASE Forgotten(o) /\ pc'[o] \notin {"invalidate", "put_invalid"}
  BY <1>1, <1>3 DEF Forgotten, HoldsOutput, Working
<1>4. CASE UNCHANGED <<wpc, result>> /\ pc'[o] \notin {"invalidate", "put_invalid"}
  <2>1. \A s \in Stages : HoldsOutput(o, s) BY DEF EvidenceInv
  <2>2. QED BY <1>1, <1>4, <2>1 DEF HoldsOutput, Verified
<1>5. CASE ~SubmitStage(o)
  <2>1. pc[o] \notin {"invalidate", "put_invalid"} BY DEF EvidenceInv, Unwithdrawn
  <2>2. CASE MainDbError(o)
    BY <1>4, <2>2 DEF MainDbError, OnDbError, MainPcs, EndedPcs
  <2>3. CASE AwaitTick(o) BY <1>4, <2>3 DEF AwaitTick
  <2>4. CASE \/ MarkCompleted(o) \/ MarkFailed(o) \/ MarkCancelled(o)
             \/ ReleaseRead(o) \/ Crash(o)
    BY <1>3, <2>4 DEF MarkCompleted, MarkFailed, MarkCancelled, MarkTerminal,
       ReleaseRead, Crash
  <2>5. CASE \/ AcquireRead(o) \/ AcquireWrite(o) \/ MarkRunningRead(o)
             \/ MarkRunningWrite(o) \/ CheckCancel(o) \/ LeaseLost(o)
             \/ Drain(o) \/ ReleaseWrite(o)
    BY <1>4, <2>5 DEF AcquireRead, AcquireWrite, MarkRunningRead, MarkRunningWrite,
       CheckCancel, LeaseLost, Drain, ReleaseWrite
  <2>6. QED
    BY <1>5, <2>1, <2>2, <2>3, <2>4, <2>5
    DEF CallMoves, MainStep, InvalidateRead, InvalidateWrite
<1>6. QED BY <1>2, <1>5

\* The rows after a step that changes at most the row and the file of one stage.
LEMMA ChainKept ==
    ASSUME TypeInv, LedgerInv, EvidenceInv, Undamaged, NEW s \in Stages,
           ckpt[s].status # "completed",
           \A t \in Stages \ {s} : ckpt'[t] = ckpt[t] /\ file'[t] = file[t],
           ckpt'[s].status = "completed" =>
             /\ Verified(s, ckpt[s].evidence)'
             /\ s \notin Parallel =>
                  /\ \A t \in Handed(s) : ckpt[t].status = "completed"
                  /\ ckpt'[s].evidence = ckpt["reconstruction"].evidence
    PROVE  Stored' /\ Chained'
<1>1. Stored /\ Chained BY DEF EvidenceInv
<1>2. Stored' BY <1>1 DEF Stored, Verified
<1>3. CASE s \in Parallel
  <2>1. ckpt'["validation"] = ckpt["validation"] /\ ckpt'["publication"] = ckpt["publication"]
    BY <1>3 DEF Stages, Parallel
  <2>2. CASE s = "reconstruction"
    BY <1>1, <1>2, <2>1, <2>2 DEF Chained, Derived
  <2>3. CASE s = "inference"
    <3>1. ckpt'["reconstruction"] = ckpt["reconstruction"] BY <2>3 DEF Stages
    <3>2. QED BY <1>1, <1>2, <2>1, <3>1 DEF Chained, Derived
  <2>4. QED BY <1>3, <2>2, <2>3 DEF Parallel
<1>4. CASE s = "validation"
  <2>1. /\ ckpt'["reconstruction"] = ckpt["reconstruction"]
        /\ ckpt'["publication"] = ckpt["publication"]
    BY <1>4 DEF Stages
  <2>2. ckpt["publication"].status # "completed" BY <1>1, <1>4 DEF Chained
  <2>3. "reconstruction" \in Handed(s) /\ s \notin Parallel
    BY <1>4, HandedValues DEF Parallel
  <2>4. QED BY <1>1, <1>2, <1>4, <2>1, <2>2, <2>3 DEF Chained, Derived
<1>5. CASE s = "publication"
  <2>1. /\ ckpt'["reconstruction"] = ckpt["reconstruction"]
        /\ ckpt'["validation"] = ckpt["validation"]
    BY <1>5 DEF Stages
  <2>2. {"reconstruction", "validation"} \subseteq Handed(s) /\ s \notin Parallel
    BY <1>5, HandedValues DEF Parallel
  <2>3. QED BY <1>1, <1>2, <1>5, <2>1, <2>2 DEF Chained, Derived
<1>6. QED BY <1>2, <1>3, <1>4, <1>5 DEF Stages, Parallel

LEMMA EvidenceStep ==
    /\ TypeInv /\ HoldsLiveLease /\ PoolInv /\ StatusInv /\ LedgerInv /\ Sequenced
    /\ EvidenceInv /\ [Next]_vars
    => EvidenceInv'
<1> SUFFICES ASSUME TypeInv, HoldsLiveLease, PoolInv, StatusInv, LedgerInv, Sequenced,
                    EvidenceInv, [Next]_vars, Undamaged'
             PROVE  /\ Stored' /\ Unwithdrawn' /\ Chained'
                    /\ \A p \in Owners, t \in Stages : HoldsOutput(p, t)'
  BY DEF EvidenceInv
<1>1. Undamaged /\ Undisturbed BY DisturbanceStays DEF Undamaged
<1>2. /\ Stored /\ Unwithdrawn /\ Chained
      /\ \A p \in Owners, t \in Stages : HoldsOutput(p, t)
  BY <1>1 DEF EvidenceInv
<1>3. ASSUME NEW o \in Owners, CallMoves(o)
      PROVE  /\ Stored' /\ Unwithdrawn' /\ Chained'
             /\ \A p \in Owners, t \in Stages : HoldsOutput(p, t)'
  <2>1. /\ UNCHANGED <<ckpt, file>>
        /\ pc'[o] \notin {"invalidate", "put_invalid"}
        /\ \A t \in Stages : HoldsOutput(o, t)'
    BY <1>1, <1>3, EvidenceCall
  <2>2. ASSUME NEW p \in Owners \ {o}, NEW t \in Stages PROVE HoldsOutput(p, t)'
    BY <1>2, <1>3, <2>1, OtherCallsSame DEF SameCall, HoldsOutput, Verified
  <2>3. Unwithdrawn' BY <1>2, <1>3, <2>1, OtherCallsSame DEF Unwithdrawn, SameCall
  <2>4. Stored' /\ Chained'
    BY <1>2, <2>1 DEF Stored, Chained, Derived, Verified
  <2>5. QED BY <2>1, <2>2, <2>3, <2>4
<1>4. ASSUME NEW o \in Owners, NEW s \in Stages, WorkerMoves(o, s)
      PROVE  /\ Stored' /\ Unwithdrawn' /\ Chained'
             /\ \A p \in Owners, t \in Stages : HoldsOutput(p, t)'
  <2>1. /\ HoldsOutput(o, s)'
        /\ ckpt'[s].status = "completed" =>
             /\ Verified(s, ckpt[s].evidence)'
             /\ s \notin Parallel =>
                  /\ \A t \in Handed(s) : ckpt[t].status = "completed"
                  /\ ckpt'[s].evidence = ckpt["reconstruction"].evidence
    BY <1>1, <1>4, EvidenceWorker
  <2>2. /\ \A t \in Stages \ {s} : ckpt'[t] = ckpt[t] /\ file'[t] = file[t]
        /\ wpc[o][s] \in Working /\ UNCHANGED pc
    BY <1>4, WorkerTouches DEF main
  <2>3. ckpt[s].status # "completed" BY <1>2, <2>2 DEF HoldsOutput
  <2>4. Stored' /\ Chained' BY <1>1, <2>1, <2>2, <2>3, ChainKept
  <2>5. Unwithdrawn' BY <1>2, <2>2 DEF Unwithdrawn
  <2>6. ASSUME NEW p \in Owners, p # o, NEW t \in Stages PROVE HoldsOutput(p, t)'
    <3>1. ~Active(p) BY <1>1, <2>2, <2>6, WorkingIsActive, Alone
    <3>2. wpc[p][t] \notin Working BY <3>1, WorkingIsActive
    <3>3. wpc'[p][t] = wpc[p][t] BY <1>4, <2>6, WorkerTouches
    <3>4. wpc[p][t] \notin {"returned", "complete"}
      BY <3>2 DEF Working, WorkerPcs, SettledPcs
    <3>5. QED BY <3>2, <3>3, <3>4 DEF HoldsOutput
  <2>7. ASSUME NEW t \in Stages, t # s PROVE HoldsOutput(o, t)'
    <3>1. HoldsOutput(o, t) BY <1>2
    <3>2. wpc'[o][t] = wpc[o][t] /\ result'[o][t] = result[o][t]
      BY <1>4, <2>7, WorkerTouches
    <3>3. wpc[o][t] \in {"returned", "complete"} /\ t \notin Parallel =>
            result'[o]["reconstruction"] = result[o]["reconstruction"]
      <4>1. ASSUME wpc[o][t] \in {"returned", "complete"}, t \notin Parallel
            PROVE  s # "reconstruction"
        <5>1. "reconstruction" \in Handed(t)
          BY <4>1, HandedValues DEF Stages, Parallel
        <5>2. wpc[o]["reconstruction"] = "ok" BY <4>1, <5>1 DEF Sequenced
        <5>3. QED BY <2>2, <5>2 DEF Working, SettledPcs
      <4>2. "reconstruction" \in Stages BY DEF Stages
      <4>3. QED BY <1>4, <4>1, <4>2, WorkerTouches
    <3>4. QED BY <2>2, <2>7, <3>1, <3>2, <3>3 DEF HoldsOutput, Verified
  <2>8. QED BY <2>1, <2>4, <2>5, <2>6, <2>7
<1>5. CASE NobodyMoves /\ UNCHANGED file
  BY <1>2, <1>5 DEF NobodyMoves, main, workers, Stored, Unwithdrawn, Chained, Derived,
     HoldsOutput, Verified
<1>6. ASSUME NEW s \in Stages PROVE ~Tamper(s)
  BY HappensTyped DEF Tamper, Undamaged, Faults, TypeInv
<1>7. QED BY <1>3, <1>4, <1>5, <1>6, StepKinds

\* What is published has passed the gate while no evidence is damaged: the
\* publication is derived from the reconstruction that was validated.
THEOREM PublishedHasPassed == Spec => []PublishedPassedGate
<1>1. GateInv /\ EvidenceInv => PublishedPassedGate
  BY DEF GateInv, GatedValidation, EvidenceInv, Chained, Derived, PublishedPassedGate,
     Undamaged
<1>2. QED
  BY <1>1, TypeInit, TypeStep, GateInit, GateStep, HoldsInit, HoldsStep, PoolInit,
     PoolStep, StatusInit, StatusStep, LedgerInit, LedgerStep, SequencedInit,
     SequencedStep, EvidenceInit, EvidenceStep, PTL DEF Spec

-----------------------------------------------------------------------------
(* The contract of a run.                                                  *)

Accepted == {s \in Stages : ckpt[s].status = "completed"}

\* A step that leaves the rows as accepted as they were, and one that changes
\* the row of one stage.
LEMMA AcceptedSame ==
    ASSUME UNCHANGED ckpt
    PROVE  Accepted' = Accepted
BY DEF Accepted

LEMMA AcceptedMoves ==
    ASSUME NEW s \in Stages, \A t \in Stages \ {s} : ckpt'[t] = ckpt[t]
    PROVE  /\ ckpt'[s].status = "completed" => Accepted' = Accepted \cup {s}
           /\ ckpt'[s].status # "completed" => Accepted' = Accepted \ {s}
BY DEF Accepted

\* A stage is recorded as completed on top of the stages it depends on.
LEMMA AcceptedInOrder ==
    ASSUME TypeInv, PoolInv, LedgerInv, Sequenced, Undisturbed,
           NEW o \in Owners, NEW s \in Stages, WorkerMoves(o, s)
    PROVE  Promise!Prerequisites(s) \subseteq Accepted
<1>1. wpc[o][s] \in Working BY WorkerTouches
<1>2. pc[o] \in Executing BY <1>1, WorkingIsActive DEF Executing
<1>3. Promise!Prerequisites(s) = IF s \in Parallel THEN {} ELSE Handed(s)
  BY HandedValues DEF Promise!Prerequisites, Stages, Parallel
<1>4. ASSUME s \notin Parallel, NEW t \in Handed(s) PROVE t \in Accepted
  <2>1. wpc[o][t] = "ok" BY <1>1, <1>4 DEF Sequenced, Working
  <2>2. t \in Stages BY <1>4, HandedValues DEF Stages
  <2>3. QED
    BY <1>2, <2>1, <2>2 DEF LedgerInv, Agrees, Accepted
<1>5. QED BY <1>3, <1>4

LEMMA ContractInit == Init => Promise!Created
BY DEF Init, Promise!Created, Row

LEMMA ContractStep ==
    /\ TypeInv /\ CancelInv /\ HoldsLiveLease /\ PoolInv /\ StatusInv /\ LedgerInv
    /\ Sequenced /\ Undisturbed /\ [Next]_vars
    => [Promise!ContractNext]_(Promise!contractVars)
<1> SUFFICES ASSUME TypeInv, CancelInv, HoldsLiveLease, PoolInv, StatusInv, LedgerInv,
                    Sequenced, Undisturbed, [Next]_vars
             PROVE  Promise!ContractNext \/ UNCHANGED <<status, Accepted, cancelRequested>>
  BY DEF Promise!contractVars, Accepted
<1>1. /\ Promise!RunStages = Stages
      /\ Accepted = {s \in Stages : ckpt[s].status = "completed"}
  BY DEF Promise!RunStages, Stages, Accepted
<1>2. CASE UNCHANGED <<status, ckpt, cancelRequested>>
  BY <1>2, AcceptedSame
<1>3. ASSUME NEW o \in Owners, CallMoves(o)
      PROVE  Promise!ContractNext \/ UNCHANGED <<status, Accepted, cancelRequested>>
  <2>1. CASE MarkRunningWrite(o)
    <3>1. /\ status' = "running" /\ pc[o] = "write_running"
          /\ UNCHANGED <<ckpt, cancelRequested>>
      BY <2>1 DEF MarkRunningWrite
    <3>2. status \in {"created", "running", "failed"}
      BY <3>1 DEF StatusInv, Terminal, TypeInv, TypeOK
    <3>3. Promise!TakeUp
      BY <3>1, <3>2 DEF Promise!TakeUp
    <3>4. QED BY <3>3 DEF Promise!ContractNext
  <2>2. CASE InvalidateWrite(o)
    <3>1. pc[o] = "put_invalid" /\ next[o] \in Stages
      BY <2>2 DEF InvalidateWrite, TypeInv, SubmitsAStage
    <3>2. PICK s \in Stages : s = next[o] BY <3>1
    <3>3. ckpt'[s].status = "failed" /\ \A t \in Stages \ {s} : ckpt'[t] = ckpt[t]
      BY <2>2, <3>2 DEF InvalidateWrite, Row, TypeInv, TypeOK
    <3>4. Accepted' = Accepted \ {s} BY <3>3, AcceptedMoves
    <3>5. status = "running" BY <3>1 DEF StatusInv, Executing, InPool, Submitting
    <3>6. UNCHANGED <<status, cancelRequested>> BY <2>2 DEF InvalidateWrite
    <3>7. Promise!Withdraw(s)
      BY <3>4, <3>5, <3>6 DEF Promise!Withdraw, Accepted
    <3>8. QED BY <1>1, <3>7 DEF Promise!ContractNext
  <2>3. CASE MarkCompleted(o)
    <3>1. /\ pc[o] = "mark_completed" /\ status' = "completed"
          /\ UNCHANGED <<ckpt, cancelRequested>>
      BY <2>3 DEF MarkCompleted, MarkTerminal
    <3>2. status = "running" BY <3>1 DEF StatusInv, Executing
    <3>3. \A s \in Stages : ckpt[s].status = "completed"
      BY <3>1 DEF PoolInv, PoolShape, LedgerInv, Agrees, Executing
    <3>4. Promise!Complete
      BY <1>1, <3>1, <3>2, <3>3 DEF Promise!Complete
    <3>5. QED BY <3>4 DEF Promise!ContractNext
  <2>4. CASE MarkFailed(o)
    <3>1. /\ pc[o] = "mark_failed" /\ status' = "failed"
          /\ UNCHANGED <<ckpt, cancelRequested>>
      BY <2>4 DEF MarkFailed, MarkTerminal
    <3>2. status = "running" BY <3>1 DEF StatusInv, Executing
    <3>3. Promise!Fail BY <3>1, <3>2 DEF Promise!Fail
    <3>4. QED BY <3>3 DEF Promise!ContractNext
  <2>5. CASE MarkCancelled(o)
    <3>1. /\ pc[o] = "mark_cancelled" /\ status' = "cancelled"
          /\ UNCHANGED <<ckpt, cancelRequested>>
      BY <2>5 DEF MarkCancelled, MarkTerminal
    <3>2. status = "running" BY <3>1 DEF StatusInv, Executing
    <3>3. cancelRequested BY <3>1 DEF CancelInv, CancelHasReason
    <3>4. Promise!Cancel BY <3>1, <3>2, <3>3 DEF Promise!Cancel
    <3>5. QED BY <3>4 DEF Promise!ContractNext
  <2>6. CASE ~(\/ MarkRunningWrite(o) \/ InvalidateWrite(o) \/ MarkCompleted(o)
               \/ MarkFailed(o) \/ MarkCancelled(o))
    <3>1. UNCHANGED <<status, ckpt, cancelRequested>>
      BY <1>3, <2>6 DEF CallMoves, MainStep, AcquireRead, AcquireWrite,
         MarkRunningRead, CheckCancel, SubmitStage, InvalidateRead, AwaitTick,
         LeaseLost, Drain, ReleaseRead, ReleaseWrite, Crash, MainDbError, durable
    <3>2. QED BY <1>2, <3>1
  <2>7. QED BY <2>1, <2>2, <2>3, <2>4, <2>5, <2>6
<1>4. ASSUME NEW o \in Owners, NEW s \in Stages, WorkerMoves(o, s)
      PROVE  Promise!ContractNext
  <2>1. /\ UNCHANGED <<status, cancelRequested>>
        /\ \A t \in Stages \ {s} : ckpt'[t] = ckpt[t]
    BY <1>4, WorkerTouches
  <2>2. status = "running"
    BY <1>4, WorkerTouches, WorkingIsActive DEF StatusInv, Executing
  <2>3. CASE ckpt'[s].status = "completed"
    <3>1. Accepted' = Accepted \cup {s} BY <2>1, <2>3, AcceptedMoves
    <3>2. Promise!Prerequisites(s) \subseteq Accepted BY <1>4, AcceptedInOrder
    <3>3. Promise!Accept(s)
      BY <2>1, <2>2, <3>1, <3>2 DEF Promise!Accept, Accepted
    <3>4. QED BY <1>1, <3>3 DEF Promise!ContractNext
  <2>4. CASE ckpt'[s].status # "completed"
    <3>1. Accepted' = Accepted \ {s} BY <2>1, <2>4, AcceptedMoves
    <3>2. Promise!Withdraw(s)
      BY <2>1, <2>2, <3>1 DEF Promise!Withdraw, Accepted
    <3>3. QED BY <1>1, <3>2 DEF Promise!ContractNext
  <2>5. QED BY <2>3, <2>4
<1>5. CASE NobodyMoves
  <2>1. UNCHANGED ckpt /\ UNCHANGED status BY <1>5 DEF NobodyMoves
  <2>2. CASE UNCHANGED cancelRequested BY <1>2, <2>1, <2>2
  <2>3. CASE RequestCancel
    <3>1. Promise!Request
      BY <2>1, <2>3 DEF RequestCancel, Promise!Request
    <3>2. QED BY <3>1 DEF Promise!ContractNext
  <2>4. QED
    BY <1>3, <1>4, <2>2, <2>3
    DEF Next, Environment, AllEnded, CallMoves, WorkerMoves, LeaseExpires,
       LeaseLapses, Tamper, vars, durable
<1>6. QED BY <1>3, <1>4, <1>5, StepKinds

\* The run keeps its contract as long as no lease lapses under a live call and
\* no acquisition races another: stages are accepted in order and only while
\* the run is "running", a run is completed with all of them and cancelled on
\* request, and a completed or cancelled run stays what it is.
THEOREM RunKeepsContract == Spec /\ []Undisturbed => ImplementsContract
BY TypeInit, TypeStep, CancelInit, CancelStep, HoldsInit, HoldsStep, PoolInit, PoolStep,
   StatusInit, StatusStep, LedgerInit, LedgerStep, SequencedInit, SequencedStep,
   ContractInit, ContractStep, PTL
DEF Spec, ImplementsContract, Promise!Contract
=============================================================================
