-------------------------- MODULE MCRunOrchestration --------------------------
(***************************************************************************)
(* Instances of RunOrchestration for TLC: the budgets of faults of each    *)
(* run, and the symmetry of the interchangeable calls.                     *)
(***************************************************************************)
EXTENDS RunOrchestration, TLC

Budget(stage, crash, lapse, race, tamper, db) ==
    [f \in Faults |-> CASE f = "stage"  -> stage
                        [] f = "crash"  -> crash
                        [] f = "lapse"  -> lapse
                        [] f = "race"   -> race
                        [] f = "tamper" -> tamper
                        [] f = "db"     -> db]

RecoveryFaults == Budget(2, 1, 0, 0, 1, 1)
OverlapFaults  == Budget(0, 0, 1, 1, 0, 0)
LivenessFaults == Budget(2, 0, 0, 0, 0, 1)
TamperFaults   == Budget(1, 0, 0, 0, 1, 0)

\* Two calls come to overlap in one way or in the other; racing acquisitions
\* are not combined with a cancellation request.
OneOverlap ==
    /\ faults["lapse"] + faults["race"] <= 1
    /\ ~(faults["race"] > 0 /\ cancelRequested)

OwnerSymmetry == Permutations(Owners)
=============================================================================
