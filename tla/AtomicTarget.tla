----------------------------- MODULE AtomicTarget -----------------------------
(***************************************************************************)
(* What a reader of a published file or directory may rely on, whoever     *)
(* writes it: it is absent or whole, it changes from one whole content to  *)
(* another in one step, and a create-only target does not change again.    *)
(* A power failure is the exception: that a content was published does not *)
(* mean that it is there afterwards.                                       *)
(***************************************************************************)
CONSTANTS Authors, \* whose content can be there
          Absent

VARIABLES target, \* Absent, or the author of the content and its condition
          disk,   \* what a power failure may bring back
          once,   \* create-only
          safe    \* the content reaches the disk before its name does

Whole(a) == [of |-> a, state |-> "whole"]
Torn(a) == [of |-> a, state |-> "torn"]

Init ==
    /\ target \in {Absent} \cup {Whole(a) : a \in Authors}
    /\ disk = {target}
    /\ once \in BOOLEAN /\ safe \in BOOLEAN

Publish ==
    /\ once => target = Absent
    /\ \E a \in Authors :
         /\ target' = Whole(a)
         /\ disk' = disk \cup {Whole(a)} \cup (IF safe THEN {} ELSE {Torn(a)})
    /\ UNCHANGED <<once, safe>>

(* Something that was there since the last time, or before it.             *)
Revert ==
    /\ target' \in disk
    /\ disk' = {target'}
    /\ UNCHANGED <<once, safe>>

Spec == Init /\ [][Publish \/ Revert]_<<target, disk, once, safe>>
===============================================================================
