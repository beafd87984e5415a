-------------------------------- MODULE Sorting --------------------------------
(***************************************************************************)
(* Sorting as the code does it with sorted(..., key=...), np.lexsort and   *)
(* statistics.median: by keys that are tuples of numbers, stably.  A list  *)
(* comprehension with a condition is the same with equal keys.             *)
(***************************************************************************)
EXTENDS Integers, Sequences, FiniteSets

(* Tuples are compared element by element.                                 *)
Before(a, b) == \E i \in DOMAIN a : a[i] < b[i] /\ \A j \in 1..(i - 1) : a[j] = b[j]

(* Places in the order of their keys, those of equal keys as they are.     *)
Earlier(key, i, j) == Before(key[i], key[j]) \/ (key[i] = key[j] /\ i < j)

Rank(places, key, i) == Cardinality({j \in places : Earlier(key, j, i)}) + 1

Order(places, key) ==
    LET ranked == {<<Rank(places, key, i), i>> : i \in places}
    IN  [n \in 1..Cardinality(places) |-> (CHOOSE p \in ranked : p[1] = n)[2]]

(* The items in the order of their keys.                                   *)
Sorted(items, key) ==
    LET order == Order(DOMAIN items, key)
    IN  [n \in 1..Len(items) |-> items[order[n]]]

(* The items at some places.                                               *)
Selected(items, places) ==
    LET order == Order(places, [i \in places |-> <<i>>])
    IN  [n \in 1..Cardinality(places) |-> items[order[n]]]

(* statistics.median: of an even number of values the mean of the middle.  *)
Median(values) ==
    LET sorted == Sorted(values, [i \in DOMAIN values |-> <<values[i]>>])
        n == Len(values)
    IN  (sorted[(n + 1) \div 2] + sorted[(n + 2) \div 2]) \div 2
===============================================================================
