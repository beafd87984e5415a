---------------------------- MODULE DiscCalibration ----------------------------
(***************************************************************************)
(* The fixed rotation center that the neighbour joins agree on             *)
(* (reconstruction/calibration.py, from the attempts of preview_center.py  *)
(* estimate_cycle_calibration).                                            *)
(*                                                                         *)
(* The centers that joins report lie on one line, so that distances are    *)
(* whole numbers; lengths are in an even number of units.  An attempt has  *)
(* an observation, or none where the fit failed.  Angle, scale, inliers    *)
(* and residual are in bounds or not; the radial band is left out.         *)
(***************************************************************************)
EXTENDS Sorting, SequencesExt, FiniteSetsExt

CONSTANTS Attempts,          \* FRAME_COUNT, the number of joins
          MinimumAccepted,   \* MIN_ACCEPTED_PAIRS
          Tolerance,         \* 25 pixels
          MaximumDeviation   \* MAX_CENTER_DEVIATION_PX

Absolute(n) == IF n < 0 THEN -n ELSE n

(* An exception.                                                           *)
Failure == [failed |-> TRUE]

(* estimate_cycle_calibration: each join is an attempt, one that no affine *)
(* fits an attempt without an observation.                                 *)
Attempted(pair, fit) ==
    IF fit.found
    THEN [pair |-> pair, observed |-> TRUE, inBounds |-> fit.inBounds, finite |-> fit.finite, center |-> fit.center]
    ELSE [pair |-> pair, observed |-> FALSE]

(* _rejection_reason and rotation_center: an observation in bounds, of a   *)
(* transform that has a center.                                            *)
Candidate(attempt) == attempt.observed /\ attempt.inBounds /\ attempt.finite

(* robust_limit.                                                           *)
Limit(distances) == Min({MaximumDeviation, Max({Tolerance, 3 * Median(distances)})})

(* _robust_common_center, called by build_calibration with all attempts.   *)
Calibrated(attempts) ==
    LET candidates == Selected(attempts, {i \in DOMAIN attempts : Candidate(attempts[i])})
        middle == Median([i \in DOMAIN candidates |-> candidates[i].center])
        Distance(a) == Absolute(a.center - middle)
        limit == Limit([i \in DOMAIN candidates |-> Distance(candidates[i])])
        retained == Selected(candidates, {i \in DOMAIN candidates : Distance(candidates[i]) <= limit})
        center == Median([i \in DOMAIN retained |-> retained[i].center])
    IN  IF Len(attempts) # Attempts \/ Len(candidates) < MinimumAccepted THEN Failure
        ELSE IF Len(retained) < MinimumAccepted THEN Failure
        ELSE [failed |-> FALSE, center |-> center, accepted |-> ToSet(retained),
              spread |-> Max({Absolute(a.center - center) : a \in ToSet(retained)})]

-------------------------------------------------------------------------------
(* Bad joins do not decide: if most of the candidates are within the       *)
(* tolerance of each other, none of those is rejected, the center lies     *)
(* among them however far off the others are, and whatever is accepted is  *)
(* within twice the largest deviation of the center.  What was not         *)
(* measured is never accepted.                                             *)
Agreed(attempts) ==
    LET result == Calibrated(attempts)
        candidates == {a \in ToSet(attempts) : Candidate(a)}
        Near(a) == {b \in candidates : b.center \in a.center..(a.center + Tolerance)}
    IN  /\ ~result.failed =>
              /\ result.accepted \subseteq candidates
              /\ Cardinality(result.accepted) >= MinimumAccepted
              /\ result.spread <= 2 * MaximumDeviation
        /\ \A a \in candidates :
              2 * Cardinality(Near(a)) > Cardinality(candidates)
                  /\ Cardinality(Near(a)) >= MinimumAccepted /\ Len(attempts) = Attempts =>
                  /\ ~result.failed
                  /\ Near(a) \subseteq result.accepted
                  /\ result.center \in a.center..(a.center + Tolerance)
===============================================================================
