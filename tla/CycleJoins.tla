------------------------------ MODULE CycleJoins ------------------------------
(***************************************************************************)
(* How a cycle of neighbour joins is judged: the evidence each join needs  *)
(* (reconstruction/image_evidence.py), the part of it that is held out     *)
(* (dense_evidence.py), the gates of the joint solution (projective.py)    *)
(* and the report (services/offline_reconstruction.py).                    *)
(*                                                                         *)
(* Features, optical flow and least squares are external: a join says how  *)
(* many descriptor matches and inliers were found, per channel how many    *)
(* corners, how many of them the flow retained and which correspondences   *)
(* (points <<x, y>>, all different) the last filter left, and which of     *)
(* them the solution misses by more than the limit.  The three limits of a *)
(* profile (median, 95th percentile, maximum) are equal in both profiles,  *)
(* where the maximum decides.                                              *)
(***************************************************************************)
EXTENDS Sorting, SequencesExt, FiniteSetsExt

CONSTANTS MinimumMatches,   \* minimum_initial_inliers
          MinimumCorners,   \* 40
          MinimumRetained,  \* 10, also the fewest points to split
          MinimumDense,     \* minimum_dense_inliers
          TileSize,         \* tile_size
          Stride,           \* validation_stride
          MaximumFit,       \* maximum_fit_points
          MaximumHeldOut,   \* maximum_validation_points
          MinimumFit,       \* minimum_fit_points_per_pair
          MinimumHeldOut    \* minimum_validation_points_per_pair

(* An exception instead of evidence, or of a report.                       *)
Refused == [refused |-> TRUE]

(* np.lexsort: by rows of tiles, tiles, rows and columns.                  *)
Ordered(points) ==
    LET Key(p) == <<p[2] \div TileSize, p[1] \div TileSize, p[2], p[1]>>
    IN  Sorted(points, [i \in DOMAIN points |-> Key(points[i])])

(* _bounded_indices: the first, the last and the rest evenly between them. *)
Bounded(points, maximum) ==
    IF Len(points) <= maximum THEN points
    ELSE [i \in 1..maximum |-> points[((i - 1) * (Len(points) - 1)) \div (maximum - 1) + 1]]

HeldOut(ordered) ==
    [i \in 1..((Len(ordered) + Stride - 1) \div Stride) |-> ordered[(i - 1) * Stride + 1]]

(* Fitting on everything, the held-out points included.                    *)
Bug_Fitted(ordered) == ordered

Fitted(ordered) ==
    [i \in 1..(Len(ordered) - Len(HeldOut(ordered))) |-> ordered[i + (i - 1) \div (Stride - 1) + 1]]

(* split_spatial_evidence after the sort.                                  *)
Divided(ordered) ==
    LET held == Bounded(HeldOut(ordered), MaximumHeldOut)
    IN  IF Len(held) < 2 THEN Refused
        ELSE [refused |-> FALSE, fit |-> Bounded(Fitted(ordered), MaximumFit), held |-> held]

(* split_spatial_evidence.                                                 *)
Split(points) == IF Len(points) < MinimumRetained THEN Refused ELSE Divided(Ordered(points))

(* _dense_correspondences: too few corners, or too few retained: none.     *)
Dense(channel) ==
    IF channel.corners < MinimumCorners \/ channel.retained < MinimumRetained
    THEN <<>> ELSE channel.points

(* The first of the channels with the most correspondences.                *)
Best(join) ==
    FoldLeft(LAMBDA best, c : IF Len(Dense(c)) > Len(best) THEN Dense(c) ELSE best,
             <<>>, join.channels)

(* _register_pair: the evidence of one join, or an exception.              *)
Registered(join) ==
    IF \/ join.matches < MinimumMatches
       \/ join.inliers < MinimumMatches
       \/ Len(Best(join)) < MinimumDense
    THEN Refused ELSE Split(Best(join))

(* extract_cycle_image_evidence: of all joins, or of none.                 *)
Evidence(joins) ==
    LET all == [k \in DOMAIN joins |-> Registered(joins[k])]
    IN  IF \E k \in DOMAIN joins : all[k].refused THEN Refused
        ELSE [refused |-> FALSE, of |-> all]

(* A join of the solution: enough held-out points, none over the limit.    *)
Passed(evidence, join) ==
    Len(evidence.held) >= MinimumHeldOut /\ ToSet(evidence.held) \cap join.missed = {}

(* solve_projective_reconstruction: which joins pass, whether there are    *)
(* matrices to look at, and matrices to use.                               *)
Solved(evidence, joins, solver) ==
    LET started == \A k \in DOMAIN joins : Len(evidence[k].fit) >= MinimumFit
        passed == {k \in DOMAIN joins : started /\ Passed(evidence[k], joins[k])}
    IN  [diagnostic |-> started,
         passed |-> passed,
         approved |-> started /\ solver.settled /\ solver.conditioned /\ passed = DOMAIN joins]

(* reconstruct: a report on a cycle that can be reviewed, or an exception. *)
Reported(joins, solver) ==
    LET evidence == Evidence(joins)
        solved == Solved(evidence.of, joins, solver)
    IN  IF evidence.refused THEN Refused
        ELSE IF ~solved.diagnostic THEN Refused
        ELSE [refused |-> FALSE, production_approved |-> solved.approved,
              passed_join_count |-> Cardinality(solved.passed)]

-------------------------------------------------------------------------------
Turned(channel) == [channel EXCEPT !.points = Reverse(@)]

(* The points of all channels found in the opposite order.                 *)
Reversed(join) == [join EXCEPT !.channels = [c \in DOMAIN @ |-> Turned(@[c])]]

(* The sort leaves no point out and has none twice.                        *)
Arranged(points) ==
    LET ordered == Ordered(points)
    IN  /\ ordered \in Seq(ToSet(points))
        /\ Len(ordered) = Len(points)
        /\ IsInjective(ordered)

(* The points of a join are divided so that it can be judged: none is both *)
(* fitted and held out, none is there twice, the limits hold, and the      *)
(* held-out points reach from the first one into the last stretch.         *)
FairlyDivided(ordered) ==
    LET split == Divided(ordered)
    IN  ~split.refused =>
        /\ ToSet(split.fit) \cap ToSet(split.held) = {}
        /\ ToSet(split.fit) \cup ToSet(split.held) \subseteq ToSet(ordered)
        /\ IsInjective(split.fit) /\ IsInjective(split.held)
        /\ Len(split.fit) <= MaximumFit /\ Len(split.held) <= MaximumHeldOut
        /\ Head(split.held) = Head(ordered)
        /\ \E i \in DOMAIN ordered : Last(split.held) = ordered[i] /\ i + Stride > Len(ordered)

(* An approved cycle has in every join enough points that were never       *)
(* fitted, all of them within the limit.                                   *)
ApprovedByHeldOut(joins, solver) ==
    LET report == Reported(joins, solver)
        evidence == Evidence(joins)
    IN  ~report.refused /\ report.production_approved =>
        /\ report.passed_join_count = Len(joins)
        /\ \A k \in DOMAIN joins :
              LET used == joins[k].missed \cup ToSet(evidence.of[k].fit)
              IN  Cardinality(ToSet(Best(joins[k])) \ used) >= MinimumHeldOut

(* The fitted points from one point to another.                            *)
PlaceIn(points, p) == CHOOSE i \in DOMAIN points : points[i] = p
Between(points, fit, p, q) ==
    {r \in ToSet(fit) : PlaceIn(points, r) \in PlaceIn(points, p)..PlaceIn(points, q)}

(* Divided fairly, the evidence of a join has fitted points between any    *)
(* two held-out ones, comes from the channel that found most and does not  *)
(* depend on the order in which points were found.  A cycle with an        *)
(* approved report has no failed join, one without has a reason.           *)
Judged(joins, solver) ==
    LET report == Reported(joins, solver)
        evidence == Evidence(joins)
    IN  /\ report = Reported([k \in DOMAIN joins |-> Reversed(joins[k])], solver)
        /\ \A k \in DOMAIN joins : Arranged(Best(joins[k]))
        /\ ~evidence.refused => \A k \in DOMAIN joins :
              LET points == Ordered(Best(joins[k]))
                  fit == evidence.of[k].fit
                  held == evidence.of[k].held
              IN  /\ FairlyDivided(points)
                  /\ \A i \in 1..(Len(held) - 1) :
                        Between(points, fit, held[i], held[i + 1]) # {}
                  /\ \A c \in ToSet(joins[k].channels) : Len(Dense(c)) <= Len(points)
        /\ ApprovedByHeldOut(joins, solver)
        /\ ~report.refused /\ ~report.production_approved =>
              ~solver.settled \/ ~solver.conditioned \/ report.passed_join_count < Len(joins)
===============================================================================
