------------------------------- MODULE SliceGrid -------------------------------
(***************************************************************************)
(* How a source frame is cut for sliced inference (inference/sahi.py): the *)
(* windows and the batches they are sent in.  Slices says what becomes of  *)
(* the detections that come back.                                          *)
(***************************************************************************)
EXTENDS Naturals, Sequences, SequencesExt, FiniteSetsExt

CONSTANT SliceSize  \* SLICE_SIZE, 1312 in the code

Least(a, b) == Min({a, b})

(* _axis_positions: half overlap, the last one anchored to the far edge.   *)
Bug_AxisPositions(length) ==
    IF length <= SliceSize THEN <<0>>
    ELSE LET stride == SliceSize \div 2
         IN  [i \in 1..((length - SliceSize) \div stride + 1) |-> (i - 1) * stride]

AxisPositions(length) ==
    IF length <= SliceSize THEN <<0>>
    ELSE LET stride == SliceSize \div 2
             final == length - SliceSize
             regular == [i \in 1..(final \div stride + 1) |-> (i - 1) * stride]
         IN  IF Last(regular) = final THEN regular ELSE Append(regular, final)

Window(index, x, y, width, height) ==
    [index |-> index, x |-> x, y |-> y,
     width |-> Least(SliceSize, width - x), height |-> Least(SliceSize, height - y)]

(* build_slice_windows: row by row, numbered from 0.                       *)
Windows(width, height) ==
    LET xs == AxisPositions(width)
        ys == AxisPositions(height)
    IN  [n \in 1..(Len(xs) * Len(ys)) |->
            Window(n - 1, xs[((n - 1) % Len(xs)) + 1], ys[((n - 1) \div Len(xs)) + 1],
                   width, height)]

(* iter_sahi_batches: runs of batch_size windows, the last one shorter.    *)
Batches(windows, size) ==
    [b \in 1..((Len(windows) + size - 1) \div size) |->
        SubSeq(windows, (b - 1) * size + 1, Least(b * size, Len(windows)))]

-------------------------------------------------------------------------------
(* Every pixel of a frame is in a window, no window leaves the frame and   *)
(* none is there twice: the far edges, frames smaller than a slice and     *)
(* frames that are a multiple of the stride included.                      *)
FrameCovered(width, height) ==
    LET windows == Windows(width, height)
    IN  /\ \A x \in 0..(width - 1), y \in 0..(height - 1) :
              \E n \in DOMAIN windows :
                  /\ x \in windows[n].x..(windows[n].x + windows[n].width - 1)
                  /\ y \in windows[n].y..(windows[n].y + windows[n].height - 1)
        /\ \A n \in DOMAIN windows :
              /\ windows[n].x + windows[n].width <= width
              /\ windows[n].y + windows[n].height <= height
        /\ \A m, n \in DOMAIN windows :
              windows[m].x = windows[n].x /\ windows[m].y = windows[n].y => m = n

(* The batches hold the windows in their order, each of them once, and     *)
(* none is empty or over the size.                                         *)
BatchedInOrder(windows, size) ==
    LET batches == Batches(windows, size)
    IN  /\ \A b \in DOMAIN batches :
              /\ Len(batches[b]) \in 1..size
              /\ \A i \in 1..Len(batches[b]) :
                    /\ (b - 1) * size + i \in DOMAIN windows
                    /\ batches[b][i] = windows[(b - 1) * size + i]
        /\ \A n \in DOMAIN windows :
              \E b \in DOMAIN batches :
                  \E i \in 1..Len(batches[b]) : n = (b - 1) * size + i
===============================================================================
