---------------------------- MODULE ImagingSamples ----------------------------
(***************************************************************************)
(* The algorithms around images on small instances of their constants, and *)
(* the inputs TLC takes for each of them.  They have no state: "part"      *)
(* names the algorithm, a seed the first element of an input.              *)
(***************************************************************************)
EXTENDS Integers, Sequences, SequencesExt, FiniteSets, FiniteSetsExt, TLC

Frames == INSTANCE Slices WITH SliceSize <- 4, Threshold <- <<1, 2>>
Discs == INSTANCE DiscPredictions WITH
    MapWidth <- 4, MapHeight <- 2, Shift <- <<<<0, 0>>, <<2, 0>>>>, DuplicateThreshold <- <<1, 2>>,
    MaximumFootprint <- 6, MaximumTotalFootprint <- 12, ConfidenceScale <- 2
Render == INSTANCE DiscCanvas WITH SourceWidth <- 3, SourceHeight <- 2, PreviewSize <- 4
Joins == INSTANCE CycleJoins WITH
    MinimumMatches <- 12, MinimumCorners <- 40, MinimumRetained <- 10, MinimumDense <- 20,
    TileSize <- 2, Stride <- 5, MaximumFit <- 18, MaximumHeldOut <- 6,
    MinimumFit <- 8, MinimumHeldOut <- 5
Calibration == INSTANCE DiscCalibration WITH
    Attempts <- 8, MinimumAccepted <- 5, Tolerance <- 50, MaximumDeviation <- 500
(* The ten screens of a reference image, in half degrees.                  *)
Angles == <<54, 126, 198, 270, 344, 414, 488, 560, 632, 702>>
Screens == INSTANCE ScreenAlignment WITH
    Circle <- 720, MedianLimit <- 6, MaximumLimit <- 16,
    Screens <- Angles
Center == INSTANCE CenterOpening WITH PreviewWidth <- 5, PreviewHeight <- 5
Bundles == INSTANCE ModelBundle

-------------------------------------------------------------------------------
(* A set in some order.                                                    *)
Listed(set) == FoldSet(LAMBDA x, list : Append(list, x), <<>>, set)

(* Slices: frames up to 11 by 6 pixels in batches of at most 3.            *)
Sizes == [width : 1..11, height : 1..6, size : 1..3]

(* Detections on a frame of 6 by 3 pixels: two slices, padded below.       *)
Box(k) ==
    LET x == <<<<0, 2>>, <<1, 3>>, <<2, 4>>, <<0, 4>>>>[(k % 4) + 1]
        y == <<<<0, 2>>, <<1, 4>>, <<3, 4>>>>[((k \div 4) % 3) + 1]
    IN  [x1 |-> x[1], x2 |-> x[2], y1 |-> y[1], y2 |-> y[2]]
Detection(slice, class, confidence, k) ==
    [slice |-> slice, class |-> class, confidence |-> confidence, box |-> Box(k)]
Found ==
    [k \in 1..60 |-> IF k <= 48 THEN Detection(k % 2, 1, ((k \div 2) % 2) + 1, k \div 4)
                     ELSE Detection(1, 2, 1, k)]

(* Predictions of two frames that overlap on a canvas of 4 by 2 pixels.    *)
Area(k) ==
    LET x == <<<<0, 1>>, <<0, 2>>, <<1, 3>>, <<-1, 3>>>>[(k % 4) + 1]
    IN  <<x[1], 0, x[2], ((k \div 4) % 2) + 1>>
Prediction(frame, class, confidence, k, id) ==
    [frame |-> frame, class |-> class, confidence |-> confidence, box |-> Area(k), id |-> id]
Predicted ==
    [k \in 1..40 |-> IF k <= 32 THEN Prediction((k % 2) + 1, 1, ((k \div 2) % 2) + 1, k \div 4, k)
                     ELSE Prediction(2, 2, 1, k, k)]
Provenances ==
    {[p \in Discs!ProvenanceMap |-> IF p[1] = 1 THEN gap ELSE IF p = <<2, 1>> THEN "no data" ELSE "acquired"] :
        gap \in {"acquired", "reference fill"}}

(* Frames at half-pixel shifts; a reference over the left of the canvas.   *)
Shifts == [k \in 1..20 |-> <<<<0, 1, 3, 6, 9>>[(k % 5) + 1], <<0, 1, 3, 5>>[(k % 4) + 1]>>]
Masks == {{}, (0..3) \X (0..5)}

(* Joins with 18 to 31 correspondences; one may be missed by the solution. *)
Points(n) == [i \in 1..n |-> <<(7 * i) % 11, ((7 * i) \div 11) % 5>>]
Join(n, other, miss) ==
    [matches |-> 12, inliers |-> IF other = 1 THEN 11 ELSE 12,
     channels |-> <<[corners |-> 40, retained |-> n, points |-> Points(n)],
                    [corners |-> IF other = 2 THEN 39 ELSE 40, retained |-> 25, points |-> Points(22)]>>,
     missed |-> IF miss = 0 THEN {} ELSE {Points(n)[miss]}]

(* Eight attempts: four good ones of three kinds, and any four.            *)
Centers == <<0, 10, 30, 50, 60, 140, 1000, -2000>>
Good == <<<<1, 2, 3, 4>>, <<1, 1, 4, 4>>, <<2, 3, 5, 5>>>>
Fit(at) == [found |-> at # 0, inBounds |-> at # 9, finite |-> at # 10,
            center |-> IF at \in DOMAIN Centers THEN Centers[at] ELSE 20]

(* Flashes of the ten screens turned by a multiple of 6 degrees, two of    *)
(* them off by an error in opposite directions.                            *)
Turned(turn, error, early, late) ==
    [turn |-> turn, error |-> error,
     angles |-> [i \in 1..10 |-> Angles[i] + turn + (IF i = early THEN -error ELSE IF i = late THEN error ELSE 0)]]
Flashes(turn) ==
    {Turned(turn, error, early, ((early + 3) % 10) + 1) : error \in {0, 4, 10, 18}, early \in 1..10}

(* Previews with a border that may lack a pixel, some pixels inside, none  *)
(* or one of them covered by a frame but black.                            *)
Outline == Listed(Center!Border)
Inside == Center!Pixels \ Center!Border
Preview(acquired) == [p \in Center!Pixels |-> IF p \in acquired THEN "colour" ELSE "black"]
References == {Center!Pixels, {p \in Center!Pixels : p[1] <= 2}}
Openings(outline) ==
    UNION {[preview : {Preview(c \ d) : d \in {{}, {<<1, 2>>}}}, covered : {c},
            center : {<<2, 2>>, <<1, 1>>}, reference : References] :
              c \in {outline \cup i : i \in SUBSET (Inside \ {<<2, 2>>})}}

(* Bundles of which a few things are wrong, and the batches of the model.  *)
AllFiles == Bundles!Required \cup Bundles!Vectors
Types ==
    {[element |-> x[1], prepared |-> x[2], decoded |-> x[3], inputs |-> x[4], channels |-> x[5]] :
        x \in {<<"float16", "float16", {"boxes"}, 1, 3>>, <<"float16", "float32", {"boxes"}, 1, 3>>,
               <<"float32", "float16", {"boxes"}, 1, 3>>, <<"float32", "float32", {"boxes"}, 1, 3>>,
               <<"float16", "float16", {"masks"}, 1, 3>>, <<"float16", "float16", {"boxes"}, 2, 3>>,
               <<"float16", "float16", {"boxes"}, 1, 1>>}}
OfType(type, s) ==
    [files : {AllFiles, AllFiles \ {"vector 2"}, Bundles!Required},
     listed : {AllFiles, AllFiles \ {"vector 1"}}, damaged : {{}, {"model"}},
     evidence : {{}, {"vector 1"}, Bundles!Vectors},
     element : {type.element}, prepared : {type.prepared}, outputs : {{"boxes"}},
     decoded : {type.decoded}, inputs : {type.inputs}, channels : {type.channels},
     batch : {Bundles!Dynamic, 2, 3}, validated : {{s}, {1, 2, 3}},
     overlap : {"half", "none"}, graph : {"as in the manifest", "other"}]
Bundle(s) == UNION {OfType(type, s) : type \in Types}

Seeds == 1..60

(* The inputs of a part that begin with a seed.                            *)
Inputs(p, s) ==
    CASE p = "slices" -> {x \in Sizes : s = x.width}
      [] p = "detections" -> IF s \notin DOMAIN Found THEN {}
            ELSE {<<Found[s], Found[i], Found[j]>> : i \in (s + 1)..Len(Found), j \in (s + 1)..Len(Found)}
      [] p = "discs" -> IF s \notin DOMAIN Predicted THEN {}
            ELSE [predictions : {<<Predicted[s], Predicted[i], Predicted[j]>> :
                                    i \in (s + 1)..Len(Predicted), j \in (s + 2)..Len(Predicted)},
                  provenance : Provenances]
      [] p = "canvas" -> IF s \notin DOMAIN Shifts THEN {}
            ELSE [frames : {<<Shifts[s], Shifts[i], Shifts[j]>> : i \in s..Len(Shifts), j \in {1, 7}},
                  side : 1..3, mask : Masks]
      [] p = "joins" -> IF s \notin 18..31 THEN {}
            ELSE [joins : {<<Join(s, o, m), Join(n, 0, k)>> : o \in 0..2, m \in (0..6) \cup {s}, n \in {20, 26}, k \in {0, 6}},
                  solver : {[settled |-> TRUE, conditioned |-> TRUE]}]
                 \cup [joins : {<<Join(s, 0, 0), Join(23, 0, 0)>>},
                       solver : [settled : BOOLEAN, conditioned : BOOLEAN]]
      [] p = "centers" ->
            IF s \notin DOMAIN Good THEN {}
            ELSE {[i \in 1..8 |-> Calibration!Attempted(i, Fit(IF i <= 4 THEN Good[s][i] ELSE a[i - 4]))] :
                     a \in {b \in [1..4 -> 0..10] : \A i \in 1..3 : b[i] <= b[i + 1]}}
      [] p = "screens" ->
            [flashes : Flashes(12 * s), coarse : {0, 100, -130}, offset : {Screens!Uncommissioned, -34}]
      [] p = "opening" -> IF s > Len(Outline) + 1 THEN {}
            ELSE Openings(Center!Border \ {Outline[i] : i \in {s} \cap DOMAIN Outline})
      [] p = "bundles" -> IF s \notin 2..3 THEN {} ELSE [bundle : Bundle(s), size : {s}]

Parts == {"slices", "detections", "discs", "canvas", "joins", "centers", "screens", "opening", "bundles"}

===============================================================================
