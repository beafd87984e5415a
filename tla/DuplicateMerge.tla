---------------------------- MODULE DuplicateMerge ----------------------------
(***************************************************************************)
(* The grouping loop that inference/sahi.py (_merge_source_detections) and *)
(* inference/projection.py (_deduplicate) share: the first pending item    *)
(* takes in every later one that overlaps what it has become, pass after   *)
(* pass until a pass changes nothing, and is then finished.                *)
(***************************************************************************)
EXTENDS Naturals, Sequences, SequencesExt

CONSTANTS Duplicate(_, _), \* the grown item and a candidate are duplicates
          Join(_, _)       \* what they become

(* One pass over the pending items; the item grows while it is compared.   *)
Pass(current, pending) ==
    FoldLeft(LAMBDA acc, candidate :
                 IF Duplicate(acc.current, candidate)
                 THEN [acc EXCEPT !.current = Join(acc.current, candidate)]
                 ELSE [acc EXCEPT !.retained = Append(@, candidate)],
             [current |-> current, retained |-> <<>>], pending)

(* A loop that leaves the group after its first pass.                      *)
Bug_Group(current, pending) == Pass(current, pending)

(* A pass that changes something takes an item in, so that after as many   *)
(* passes as items nothing changes any more.                               *)
Group(current, pending) ==
    FoldLeft(LAMBDA pass, item : Pass(pass.current, pass.retained),
             [current |-> current, retained |-> pending], pending)

(* The finished items, in the order in which their groups were begun.      *)
Merged(items) ==
    LET Grouped(acc) ==
            LET group == Group(Head(acc.pending), Tail(acc.pending))
            IN  [finished |-> Append(acc.finished, group.current), pending |-> group.retained]
    IN  FoldLeft(LAMBDA acc, item : IF acc.pending = <<>> THEN acc ELSE Grouped(acc),
                 [finished |-> <<>>, pending |-> items], items).finished
===============================================================================
