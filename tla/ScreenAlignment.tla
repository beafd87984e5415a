---------------------------- MODULE ScreenAlignment ----------------------------
(***************************************************************************)
(* plan_lower_center_completion (reconstruction/center_completion.py): the *)
(* one rotation that puts the screens of the reference image on the        *)
(* flashes found in the acquired pixels.                                   *)
(*                                                                         *)
(* Angles are whole numbers of a unit of which Circle make a turn; the     *)
(* angles of screens and flashes are even, so that the mean of two of them *)
(* is an angle again.  Scale and translation of the plan are left out.     *)
(***************************************************************************)
EXTENDS Integers, Sequences, SequencesExt, FiniteSets, FiniteSetsExt, TLC

CONSTANTS Circle,        \* 360 degrees
          Screens,       \* source_screen_angles_degrees, ascending
          MedianLimit,   \* maximum_median_angular_residual_degrees
          MaximumLimit   \* maximum_angular_residual_degrees

Count == Len(Screens)
Period == Circle \div Count    \* symmetry_period
Absolute(n) == IF n < 0 THEN -n ELSE n

(* A difference that forgets to wrap.                                      *)
Bug_CircularDifference(left, right) == left - right

(* _circular_difference: the shorter way round.                            *)
CircularDifference(left, right) ==
    ((left - right + Circle \div 2) % Circle) - (Circle \div 2)

(* statistics.median: of an even number of values the mean of the middle.  *)
Median(values) ==
    LET sorted == SortSeq(values, LAMBDA a, b : a < b)  n == Len(values)
    IN  (sorted[(n + 1) \div 2] + sorted[(n + 2) \div 2]) \div 2

(* round(n / d), a tie to the even number.                                 *)
Rounded(n, d) ==
    LET down == n \div d
        rest == 2 * (n % d)
    IN  IF rest > d \/ (rest = d /\ down % 2 = 1) THEN down + 1 ELSE down

(* _validated_angles: as many as expected, all different, in order.        *)
Valid(angles) == Cardinality({a % Circle : a \in ToSet(angles)}) = Count /\ Len(angles) = Count
Ascending(angles) == SortSeq([i \in DOMAIN angles |-> angles[i] % Circle], LAMBDA a, b : a < b)

(* Flashes from the one at a cyclic shift on.                              *)
From(flashes, shift) == [i \in 1..Count |-> flashes[((i - 1 + shift) % Count) + 1]]

(* How far the screens, turned, are from the flashes of a shift.           *)
Residuals(rotation, flashes, shift) ==
    [i \in 1..Count |-> CircularDifference(Screens[i] + rotation, From(flashes, shift)[i])]

(* A candidate: the gates are taken at one rotation, another is applied.   *)
Candidate(flashes, shift, measured, applied) ==
    LET off == [i \in 1..Count |-> Absolute(Residuals(measured, flashes, shift)[i])]
    IN  [score |-> Median(off), maximum |-> Max(ToSet(off)),
         shift |-> shift, rotation |-> applied]

(* The median rotation of a shift, moved by whole periods to the marker.   *)
Measured(flashes, shift, coarse) ==
    LET raw == Median([i \in 1..Count |->
                          CircularDifference(From(flashes, shift)[i], Screens[i])])
    IN  Candidate(flashes, shift, raw, (raw + Rounded(coarse - raw, Period) * Period) % Circle)

(* commissioned_rotation_offset_degrees: the rotation is given.            *)
Commissioned(flashes, shift, coarse, offset) ==
    Candidate(flashes, shift, (coarse + offset) % Circle, (coarse + offset) % Circle)

Better(a, b, coarse) ==
    LET Key(c) == <<c.score, c.maximum, Absolute(CircularDifference(c.rotation, coarse)), c.shift>>
    IN  \E i \in 1..4 : Key(a)[i] < Key(b)[i] /\ \A j \in 1..(i - 1) : Key(a)[j] = Key(b)[j]

Best(candidates, coarse) ==
    CHOOSE c \in candidates : \A d \in candidates \ {c} : Better(c, d, coarse)

(* The profile has no commissioned rotation offset.                        *)
Uncommissioned == Circle

(* The plan, or a refusal ("accepted" FALSE).                              *)
Plan(angles, coarse, offset) ==
    LET flashes == Ascending(angles)
        shifts == 0..(Count - 1)
        best == Best(IF offset = Uncommissioned
                     THEN {Measured(flashes, s, coarse) : s \in shifts}
                     ELSE {Commissioned(flashes, s, coarse, offset) : s \in shifts}, coarse)
    IN  IF ~Valid(angles) THEN [accepted |-> FALSE]
        ELSE [accepted |-> best.score <= MedianLimit /\ best.maximum <= MaximumLimit] @@ best

-------------------------------------------------------------------------------
(* The flashes fit the screens turned by a rotation within the limits, at  *)
(* some shift.                                                             *)
Fits(angles, rotation) ==
    \E s \in 0..(Count - 1) :
        LET off == [i \in 1..Count |-> Absolute(Residuals(rotation, Ascending(angles), s)[i])]
        IN  Median(off) <= MedianLimit /\ Max(ToSet(off)) <= MaximumLimit

(* What the gates accept is what is applied.                               *)
AppliedFits(angles, coarse, offset) ==
    LET plan == Plan(angles, coarse, offset)
    IN  plan.accepted => Fits(angles, plan.rotation)

(* The plan of flashes that are the screens turned by "turn", each off by  *)
(* at most "error": without a commissioned offset the rotation is that     *)
(* turn up to the symmetry and as close to the marker as the symmetry      *)
(* allows; with one it is the marker's plus the offset, accepted only if   *)
(* the flashes fit it.  Where a turn is counted from does not matter, and  *)
(* neither does the order of the flashes.                                  *)
Aligned(angles, turn, error, coarse, offset) ==
    LET plan == Plan(angles, coarse, offset)
        Symmetric(a) == Min({a % Period, (-a) % Period})
    IN  /\ plan = Plan(Reverse(angles), coarse, offset)
        /\ offset = Uncommissioned /\ plan.accepted =>
              /\ Symmetric(plan.rotation - turn) <= error
              /\ Absolute(CircularDifference(plan.rotation, coarse)) <= Period \div 2
        /\ offset # Uncommissioned =>
              /\ CircularDifference(plan.rotation, coarse + offset) = 0
              /\ plan.accepted <=> Fits(angles, plan.rotation)
===============================================================================
