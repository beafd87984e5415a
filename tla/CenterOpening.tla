----------------------------- MODULE CenterOpening -----------------------------
(***************************************************************************)
(* apply_center_completion_to_preview (reconstruction/preview_center.py):  *)
(* which pixels of a preview are filled from the approved reference.       *)
(*                                                                         *)
(* A preview is a set of pixels <<x, y>> with a colour each; the code does *)
(* not know which pixels the frames covered, it takes every pixel that is  *)
(* not black for acquired.  The disc centre is a pixel; the reference,     *)
(* warped, is the set of pixels its circle covers.                         *)
(***************************************************************************)
EXTENDS Integers, FiniteSets, FiniteSetsExt

CONSTANTS PreviewWidth, PreviewHeight

Pixels == (0..(PreviewWidth - 1)) \X (0..(PreviewHeight - 1))

(* The opening was refused, or there is nothing to fill.                   *)
NotCompleted == [p \in Pixels |-> "refused"]

Acquired(preview) == {p \in Pixels : preview[p] # "black"}

(* connectivity=8: at a side or at a corner.                               *)
Touch(p, q) == p[1] - q[1] \in -1..1 /\ p[2] - q[2] \in -1..1

(* cv2.connectedComponents, the component of a pixel.                      *)
Component(pixel, within) ==
    LET joined[region \in SUBSET Pixels] ==
            LET grown == region \cup {p \in within : \E q \in region : Touch(p, q)}
            IN  IF grown = region THEN region ELSE joined[grown]
    IN  joined[{pixel}]

Border == {p \in Pixels : p[1] \in {0, PreviewWidth - 1} \/ p[2] \in {0, PreviewHeight - 1}}

(* The radius, squared, is between 12 and 45 hundredths of the shorter     *)
(* side.                                                                   *)
SafeRadius(opening, center) ==
    LET side == Min({PreviewWidth, PreviewHeight})
        Square(p) == (p[1] - center[1]) * (p[1] - center[1]) + (p[2] - center[2]) * (p[2] - center[2])
    IN  10000 * Max({Square(p) : p \in opening}) \in (144 * side * side)..(2025 * side * side)

(* _central_opening: the uncovered region around the centre, if it is one  *)
(* that lies inside and has a sensible size.                               *)
Opening(acquired, center) ==
    LET opening == Component(center, Pixels \ acquired)
    IN  IF center \notin Pixels \/ center \in acquired THEN {}
        ELSE IF opening \cap Border # {} \/ ~SafeRadius(opening, center) THEN {}
        ELSE opening

(* The completed preview.                                                  *)
Completed(preview, center, reference) ==
    LET acquired == Acquired(preview)
        fill == (Opening(acquired, center) \cap reference) \ acquired
    IN  IF fill = {} THEN NotCompleted
        ELSE [p \in Pixels |-> IF p \in fill THEN "reference" ELSE preview[p]]

-------------------------------------------------------------------------------
(* Of what the frames covered only black pixels are ever overwritten.  All *)
(* that is filled lies in one region around the centre that cannot be left *)
(* through uncovered pixels, across sides or corners, and so is not open   *)
(* to the outside of the disc; in it nothing the reference has is left     *)
(* out.                                                                    *)
OnlyOpeningFilled(preview, covered, center, reference) ==
    LET result == Completed(preview, center, reference)
        filled == {p \in Pixels : result[p] # preview[p]}
        uncovered == {p \in Pixels : preview[p] = "black"}
        region == Opening(Acquired(preview), center)
        Neighbours(p) == {q \in Pixels : {q[1] - p[1], q[2] - p[2]} \subseteq -1..1}
    IN  result # NotCompleted =>
        /\ filled \cap covered \subseteq uncovered
        /\ center \in region /\ region \subseteq uncovered \ Border
        /\ \A p \in region : Neighbours(p) \cap uncovered \subseteq region
        /\ filled # {} /\ filled = region \cap reference
===============================================================================
