---------------------------- MODULE DiscPredictions ----------------------------
(***************************************************************************)
(* Predictions of the source frames on the reconstructed disc              *)
(* (inference/projection.py): each is projected, cut to the pixels that    *)
(* were acquired, and merged with the others that show the same thing.     *)
(*                                                                         *)
(* A footprint is its set of pixels <<x, y>>.  A frame's projective        *)
(* mapping is a shift in whole pixels, so that rasterising a box is exact; *)
(* masks, polygons and the convex hull of the merged polygon are left out. *)
(***************************************************************************)
EXTENDS Sorting, SequencesExt, FiniteSetsExt

CONSTANTS MapWidth, MapHeight,    \* of the provenance map
          Shift,                  \* source_to_canvas_matrix of each frame
          DuplicateThreshold,     \* duplicate_overlap_threshold, <<n, d>>
          MaximumFootprint,       \* maximum_footprint_pixels
          MaximumTotalFootprint,  \* maximum_total_footprint_pixels
          ConfidenceScale         \* the largest confidence

ProvenanceMap == (0..(MapWidth - 1)) \X (0..(MapHeight - 1))

(* _footprint_box, with the right and bottom edges exclusive.              *)
Box(pixels) ==
    LET xs == {p[1] : p \in pixels}  ys == {p[2] : p \in pixels}
    IN  <<Min(xs), Min(ys), Max(xs) + 1, Max(ys) + 1>>

BoxExtent(pixels) == LET b == Box(pixels) IN (b[3] - b[1]) * (b[4] - b[2])

(* _rasterize_polygon: the box on the canvas.                              *)
Raster(prediction) ==
    LET d == Shift[prediction.frame]  b == prediction.box
    IN  {p \in ProvenanceMap : /\ p[1] \in (b[1] + d[1])..(b[3] + d[1] - 1)
                               /\ p[2] \in (b[2] + d[2])..(b[4] + d[2] - 1)}

Footprint(prediction, provenance) ==
    {p \in Raster(prediction) : provenance[p] = "acquired"}

(* _project_prediction, for a prediction with a footprint; "safe" is FALSE *)
(* where the code raises because an array is over its bound.               *)
Projected(prediction, provenance) ==
    [class |-> prediction.class,
     confidence |-> prediction.confidence,
     pixels |-> Footprint(prediction, provenance),
     links |-> {prediction.id},
     safe |-> BoxExtent(Raster(prediction)) <= MaximumFootprint]

(* _footprint_overlap, the larger of IoU and IoS, reaches the threshold.   *)
SamePlace(a, b) ==
    LET shared == Cardinality(a.pixels \cap b.pixels)
        Reaches(d) == shared * DuplicateThreshold[2] >= DuplicateThreshold[1] * d
    IN  /\ a.class = b.class
        /\ shared > 0
        /\ \/ Reaches(Cardinality(a.pixels \cup b.pixels))
           \/ Reaches(Min({Cardinality(a.pixels), Cardinality(b.pixels)}))

(* _merge_pair.                                                            *)
MergedPair(a, b) ==
    [class |-> a.class, confidence |-> Max({a.confidence, b.confidence}),
     pixels |-> a.pixels \cup b.pixels, links |-> a.links \cup b.links,
     safe |-> a.safe /\ b.safe /\ BoxExtent(a.pixels \cup b.pixels) <= MaximumFootprint]

Dedup == INSTANCE DuplicateMerge WITH Duplicate <- SamePlace, Join <- MergedPair

(* _deduplicate's order; the identifier, a hash of class and evidence in   *)
(* the code, is the smallest link here.                                    *)
Key(item) == <<item.class, ConfidenceScale - item.confidence>> \o Box(item.pixels) \o <<Min(item.links)>>

Deduplicated(items) ==
    ToSet(Dedup!Merged(Sorted(items, [i \in DOMAIN items |-> Key(items[i])])))

Rejection == [class |-> 0, confidence |-> 0, pixels |-> {}, links |-> {}, safe |-> FALSE]

(* The projections of the predictions with an acquired pixel.              *)
AllProjected(predictions, provenance) ==
    LET visible == Selected(predictions,
                       {i \in DOMAIN predictions : Footprint(predictions[i], provenance) # {}})
    IN  [i \in DOMAIN visible |-> Projected(visible[i], provenance)]

(* The memory that footprints take together.                               *)
Total(items) == MapThenSumSet(LAMBDA item : BoxExtent(item.pixels), items)

(* project_and_deduplicate_predictions: all of it, or an error, which      *)
(* predictions that share an identifier are too.                           *)
Repeated(predictions) ==
    \E i, j \in DOMAIN predictions : i # j /\ predictions[i].id = predictions[j].id

Results(predictions, provenance) ==
    LET items == AllProjected(predictions, provenance)
        merged == Deduplicated(items)
    IN  IF \/ Repeated(predictions)
           \/ \E i \in DOMAIN predictions :
                 Raster(predictions[i]) # {} /\ BoxExtent(Raster(predictions[i])) > MaximumFootprint
           \/ Total(ToSet(items)) > MaximumTotalFootprint
           \/ \E r \in merged : ~r.safe
        THEN {Rejection} ELSE merged

-------------------------------------------------------------------------------
(* The results carry every prediction with an acquired pixel as evidence   *)
(* in exactly one place and no other; a footprint is what its evidence     *)
(* shows of acquired pixels, never a pixel filled from the reference; a    *)
(* prediction that overlaps a result is evidence of it or of a result of   *)
(* no lower confidence; the order of the predictions does not matter; and  *)
(* where a bound is exceeded there is no partial result.                   *)
EvidenceKept(predictions, provenance) ==
    LET results == Results(predictions, provenance)
        Evidence(r) == {p \in ToSet(predictions) : p.id \in r.links}
        visible == {p \in ToSet(predictions) : \E q \in Raster(p) : provenance[q] = "acquired"}
    IN  /\ results = Results(Reverse(predictions), provenance)
        /\ results # {Rejection} =>
           /\ UNION {r.links : r \in results} = {p.id : p \in visible}
           /\ \A r, s \in results : r # s => r.links \cap s.links = {}
           /\ \A r \in results :
                 /\ r.pixels = {q \in UNION {Raster(p) : p \in Evidence(r)} :
                                   provenance[q] = "acquired"}
                 /\ \A p \in Evidence(r) : p.class = r.class /\ p.confidence <= r.confidence
                 /\ \A p \in visible :
                       SamePlace(r, Projected(p, provenance)) =>
                           \E s \in results : p.id \in s.links /\ s.confidence >= r.confidence
===============================================================================
