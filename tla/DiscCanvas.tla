------------------------------ MODULE DiscCanvas ------------------------------
(***************************************************************************)
(* The native canvas that reconstruction/rendering.py fills tile by tile:  *)
(* its size, which frames a tile needs, what is counted, where each pixel  *)
(* comes from, and where a tile goes in the preview.                       *)
(*                                                                         *)
(* A frame's transform is a shift <<x, y>> in half pixels.  Colours and    *)
(* the interpolation between them are left out.                            *)
(***************************************************************************)
EXTENDS Integers, Sequences, SequencesExt, FiniteSets, FiniteSetsExt

CONSTANTS SourceWidth, SourceHeight,
          PreviewSize       \* preview_maximum_dimension

Floor(h) == h \div 2              \* of a number of halves
Ceil(h) == (h + 1) \div 2
UpTo(n) == 0..(n - 1)
Extent(axis) == IF axis = 1 THEN SourceWidth ELSE SourceHeight

(* The far corner of a frame on an axis, in halves.                        *)
Far(frame, axis) == frame[axis] + 2 * (Extent(axis) - 1)

(* _canvas_geometry: origin and size of the canvas, bounds of a frame on   *)
(* it, the far one exclusive.                                              *)
Origin(frames, axis) == Floor(Min({f[axis] : f \in ToSet(frames)}))
Size(frames, axis) == Ceil(Max({Far(f, axis) : f \in ToSet(frames)})) - Origin(frames, axis) + 1
Canvas(frames) == UpTo(Size(frames, 1)) \X UpTo(Size(frames, 2))

Bound(frame, origin, axis) ==
    <<Floor(frame[axis] - 2 * origin), Ceil(Far(frame, axis) - 2 * origin) + 1>>

(* Position in the source of a canvas coordinate, in halves.               *)
SourceAt(frame, origin, axis, n) == 2 * (n + origin) - frame[axis]

(* _warp_source_tile: the nearest source pixel exists, the centre of the   *)
(* canvas pixel being half a pixel further; and the weight, in halves.     *)
Valid(frame, origins, p) ==
    \A axis \in 1..2 : Floor(SourceAt(frame, origins[axis], axis, p[axis]) + 1) \in UpTo(Extent(axis))

Weight(frame, origins, p) ==
    Min(UNION {LET at == SourceAt(frame, origins[axis], axis, p[axis])
               IN  {at + 2, 2 * Extent(axis) - at} : axis \in 1..2})

Tiles(frames, side) ==
    LET Starts(axis) == {n \in UpTo(Size(frames, axis)) : n % side = 0}
        End(n, axis) == Min({n + side, Size(frames, axis)})
    IN  {<<x, y, End(x, 1), End(y, 2)>> : x \in Starts(1), y \in Starts(2)}

Within(tile) == (tile[1]..(tile[3] - 1)) \X (tile[2]..(tile[4] - 1))

(* A skip that takes a frame to end at its last corner.                    *)
Bug_Skipped(frame, origins, tile) ==
    \E axis \in 1..2 :
        LET bound == Bound(frame, origins[axis], axis)
        IN  bound[2] - 2 <= tile[axis] \/ bound[1] >= tile[axis + 2]

(* The frames a tile does not look at.                                     *)
Skipped(frame, origins, tile) ==
    \E axis \in 1..2 :
        LET bound == Bound(frame, origins[axis], axis)
        IN  bound[2] <= tile[axis] \/ bound[1] >= tile[axis + 2]

(* The weight of a pixel is that of all frames that show it.               *)
SummedWeight(frames, origins, p, shown) ==
    FoldSet(LAMBDA i, sum : sum + Weight(frames[i], origins, p), 0, shown)

(* One tile: coverage (at most 255), weight and provenance of each pixel.  *)
Tile(frames, origins, tile, mask) ==
    LET used == {i \in DOMAIN frames : ~Skipped(frames[i], origins, tile)}
        Pixel(p, shown) ==
            [coverage |-> Min({Cardinality(shown), 255}),
             weight |-> SummedWeight(frames, origins, p, shown),
             provenance |-> IF shown # {} THEN "acquired"
                            ELSE IF p \in mask THEN "reference fill" ELSE "no data"]
    IN  [p \in Within(tile) |-> Pixel(p, {i \in used : Valid(frames[i], origins, p)})]

(* The artifact: the maps and the two numbers of the report.               *)
Rendered(frames, side, mask) ==
    LET origins == <<Origin(frames, 1), Origin(frames, 2)>>
        tiles == {Tile(frames, origins, t, mask) : t \in Tiles(frames, side)}
        Uncovered(t) == Cardinality({p \in DOMAIN t : t[p].provenance = "no data"})
    IN  [map |-> [p \in UNION {DOMAIN t : t \in tiles} |-> (CHOOSE t \in tiles : p \in DOMAIN t)[p]],
         uncovered |-> FoldSet(LAMBDA t, sum : sum + Uncovered(t), 0, tiles),
         maximum |-> Max(UNION {{t[p].coverage : p \in DOMAIN t} : t \in tiles})]

(* round(n / d), a tie to the even number.                                 *)
Rounded(n, d) ==
    LET down == n \div d
        rest == 2 * (n % d)
    IN  IF rest > d \/ (rest = d /\ down % 2 = 1) THEN down + 1 ELSE down

(* The preview is no larger than its maximum, in proportion.               *)
PreviewExtent(frames, axis) ==
    LET longest == Max({Size(frames, 1), Size(frames, 2)})
    IN  Max({1, Rounded(Size(frames, axis) * Min({PreviewSize, longest}), longest)})

(* preview_box: where a tile is pasted.                                    *)
PreviewBox(frames, tile) ==
    LET Scaled(n, axis) == n * PreviewExtent(frames, axis)
        Up(n, d) == (n + d - 1) \div d
    IN  <<Scaled(tile[1], 1) \div Size(frames, 1), Scaled(tile[2], 2) \div Size(frames, 2),
          Up(Scaled(tile[3], 1), Size(frames, 1)), Up(Scaled(tile[4], 2), Size(frames, 2))>>

-------------------------------------------------------------------------------
(* The frames that show a pixel.                                           *)
Showing(frames, origins, p) == {i \in DOMAIN frames : Valid(frames[i], origins, p)}

(* No pixel of a frame is cropped by the canvas, or there twice.           *)
FramesFit(frames) ==
    LET origins == <<Origin(frames, 1), Origin(frames, 2)>>
    IN  \A i \in DOMAIN frames :
            Cardinality({p \in Canvas(frames) : Valid(frames[i], origins, p)})
                = SourceWidth * SourceHeight

(* Every pixel of the canvas is in one tile, and every pixel of a tile on  *)
(* the canvas.                                                             *)
TilesPartition(frames, side) ==
    /\ \A t \in Tiles(frames, side) : Within(t) \subseteq Canvas(frames)
    /\ \A p \in Canvas(frames) :
          \E t \in Tiles(frames, side) :
              p \in Within(t) /\ \A u \in Tiles(frames, side) : p \in Within(u) => u = t

(* The frames a tile does not look at make no difference to it: what is    *)
(* acquired is what any frame shows, and the reference is only where none  *)
(* does.                                                                   *)
TileExact(frames, origins, tile, mask) ==
    LET pixels == Tile(frames, origins, tile, mask)
    IN  \A p \in Within(tile) :
            LET shown == Showing(frames, origins, p)
            IN  /\ pixels[p].coverage = Min({Cardinality(shown), 255})
                /\ pixels[p].weight = SummedWeight(frames, origins, p, shown)
                /\ pixels[p].provenance = "acquired" <=> shown # {}
                /\ pixels[p].provenance = "reference fill" <=> shown = {} /\ p \in mask

(* Whatever the size of the tiles, the artifact is the same: what is       *)
(* acquired has a weight to be divided by, the numbers of the report are   *)
(* those of the maps; and the tiles cover the preview without leaving it.  *)
OneCanvas(frames, side, mask) ==
    LET artifact == Rendered(frames, side, mask)
        origins == <<Origin(frames, 1), Origin(frames, 2)>>
        Shown(p) == Showing(frames, origins, p)
        tiles == Tiles(frames, side)
        boxes == {PreviewBox(frames, t) : t \in tiles}
        preview == UpTo(PreviewExtent(frames, 1)) \X UpTo(PreviewExtent(frames, 2))
    IN  /\ FramesFit(frames)
        /\ TilesPartition(frames, side)
        /\ \A t \in tiles : TileExact(frames, origins, t, mask)
        /\ DOMAIN artifact.map = Canvas(frames)
        /\ \A p \in Canvas(frames) :
              /\ artifact.map[p].coverage = Cardinality(Shown(p))
              /\ artifact.map[p].weight > 0 <=> Shown(p) # {}
        /\ artifact.uncovered = Cardinality({p \in Canvas(frames) : Shown(p) = {} /\ p \notin mask})
        /\ artifact.maximum = Max({Cardinality(Shown(p)) : p \in Canvas(frames)})
        /\ UNION {Within(b) : b \in boxes} = preview
        /\ {} \notin {Within(b) : b \in boxes}
===============================================================================
