-------------------------------- MODULE Slices --------------------------------
(***************************************************************************)
(* Sliced inference on one source frame (inference/sahi.py): what becomes  *)
(* of the detections that come back for the windows of SliceGrid.          *)
(*                                                                         *)
(* A box is [x1, y1, x2, y2] in pixels.  Preprocessing of the pixels and   *)
(* the decoder between tensors and detections are left out.                *)
(***************************************************************************)
EXTENDS SliceGrid, Sorting

CONSTANT Threshold  \* merge_overlap_threshold, a fraction <<n, d>>

Area(d) == (d.x2 - d.x1) * (d.y2 - d.y1)
Intersection(a, b) ==
    LET x1 == Max({a.x1, b.x1})  x2 == Least(a.x2, b.x2)
        y1 == Max({a.y1, b.y1})  y2 == Least(a.y2, b.y2)
    IN  IF x2 > x1 /\ y2 > y1 THEN (x2 - x1) * (y2 - y1) ELSE 0

(* A value that is at least the threshold of the profile.                  *)
Reaches(n, d) == n * Threshold[2] >= Threshold[1] * d

(* _overlap_score, the larger of IoU and IoS, at least the threshold.      *)
Overlapping(a, b) ==
    LET shared == Intersection(a, b)
    IN  /\ shared > 0
        /\ \/ Reaches(shared, Area(a) + Area(b) - shared)
           \/ Reaches(shared, Least(Area(a), Area(b)))

SameDefect(a, b) == a.class = b.class /\ Overlapping(a, b)

Union(a, b) ==
    [class |-> a.class, confidence |-> Max({a.confidence, b.confidence}),
     x1 |-> Least(a.x1, b.x1), y1 |-> Least(a.y1, b.y1),
     x2 |-> Max({a.x2, b.x2}), y2 |-> Max({a.y2, b.y2}),
     slices |-> a.slices \cup b.slices]

Merge == INSTANCE DuplicateMerge WITH Duplicate <- SameDefect, Join <- Union

(* The order in which detections are merged, and that of the results.      *)
StrongestFirst(items, scale) ==
    LET Key(d) == <<d.class, scale - d.confidence, d.x1, d.y1, d.x2, d.y2>>
    IN  Sorted(items, [i \in DOMAIN items |-> Key(items[i])])

ByPlace(items, scale) ==
    LET Key(d) == <<d.class, d.x1, d.y1, scale - d.confidence>>
    IN  Sorted(items, [i \in DOMAIN items |-> Key(items[i])])

(* A detection in source pixels, cut to the window it was found in.        *)
Clipped(d, w) ==
    LET X(n) == w.x + Least(Max({n, 0}), w.width)
        Y(n) == w.y + Least(Max({n, 0}), w.height)
    IN  [class |-> d.class, confidence |-> d.confidence,
         x1 |-> X(d.box.x1), y1 |-> Y(d.box.y1), x2 |-> X(d.box.x2), y2 |-> Y(d.box.y2),
         slices |-> {d.slice}]

Visible(d) == d.x2 > d.x1 /\ d.y2 > d.y1

(* map_and_merge_detections up to the merge: boxes in the padding go.      *)
Mapped(windows, detections) ==
    LET clipped == [i \in DOMAIN detections |->
                       Clipped(detections[i], windows[detections[i].slice + 1])]
    IN  Selected(clipped, {i \in DOMAIN clipped : Visible(clipped[i])})

MapAndMerge(windows, detections, scale) ==
    ByPlace(Merge!Merged(StrongestFirst(Mapped(windows, detections), scale)), scale)

-------------------------------------------------------------------------------
(* The windows cover the frame, the batches the windows.                   *)
Covered(width, height, size) ==
    /\ FrameCovered(width, height)
    /\ BatchedInOrder(Windows(width, height), size)

Inside(a, b) == a.x1 >= b.x1 /\ a.y1 >= b.y1 /\ a.x2 <= b.x2 /\ a.y2 <= b.y2

(* What comes out of the merge accounts for what went in: a result is made *)
(* of detections of its class, is no larger than they need, lies in the    *)
(* frame and names their slices; every detection with a visible part is in *)
(* a result; and a detection that overlaps a result is part of it or of    *)
(* one of no lower confidence.                                             *)
DetectionsAccounted(width, height, detections, scale) ==
    LET windows == Windows(width, height)
        mapped == Mapped(windows, detections)
        results == ToSet(MapAndMerge(windows, detections, scale))
        Members(r) == {d \in ToSet(mapped) : d.class = r.class /\ Inside(d, r)
                                              /\ d.slices \subseteq r.slices}
    IN  /\ \A d \in ToSet(mapped) : \E r \in results : d \in Members(r)
        /\ \A r \in results :
              /\ r.x2 <= width /\ r.y2 <= height
              /\ r.slices = UNION {d.slices : d \in Members(r)}
              /\ r.confidence \in {d.confidence : d \in Members(r)}
              /\ r.x1 \in {d.x1 : d \in Members(r)} /\ r.x2 \in {d.x2 : d \in Members(r)}
              /\ r.y1 \in {d.y1 : d \in Members(r)} /\ r.y2 \in {d.y2 : d \in Members(r)}
        /\ \A d \in ToSet(mapped), r \in results :
              SameDefect(d, r) =>
                  \E s \in results : d \in Members(s) /\ s.confidence >= r.confidence

(* The order in which the detections came does not matter, although those  *)
(* that the sort cannot tell apart stay in it.                             *)
OrderIgnored(width, height, detections, scale) ==
    MapAndMerge(Windows(width, height), Reverse(detections), scale)
        = MapAndMerge(Windows(width, height), detections, scale)
===============================================================================
