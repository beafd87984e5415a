------------------------------ MODULE MergeProofs ------------------------------
(***************************************************************************)
(* Theorems about the grouping loop of DuplicateMerge, for any Duplicate   *)
(* and Join and any number of items: the results account for the items,    *)
(* and do not tell items apart that Duplicate and Join do not.             *)
(* ImagingProofs takes it to the detections of slices and to the           *)
(* predictions on the disc.                                                *)
(*                                                                         *)
(* The loop is a fold, and a fold is a recursive function over the subsets *)
(* of the places of its list.  Each fold is first unrolled into the values *)
(* h[0], h[1], ... it takes, of which an invariant is then proved.         *)
(***************************************************************************)
EXTENDS DuplicateMerge, FiniteSets, FiniteSetTheorems, SequenceTheorems,
        WellFoundedInduction, TLAPS

-----------------------------------------------------------------------------
(* Induction, in a form that needs no operator.                            *)

LEMMA LeastNumber ==
    ASSUME NEW T, T \subseteq Nat, T # {}
    PROVE  \E m \in T : \A k \in T : m <= k
<1>1. PICK m \in T : \A k \in T : ~ (<<k, m>> \in OpToRel(<, Nat))
  BY WFMin, NatLessThanWellFounded
<1>2. \A k \in T : ~ (k < m) BY <1>1 DEF OpToRel
<1>3. QED BY <1>2

LEMMA UpTo ==
    ASSUME NEW n \in Nat, NEW T, 0 \in T, \A k \in 0 .. n - 1 : k \in T => k + 1 \in T
    PROVE  0 .. n \subseteq T
<1>1. PICK missing : missing = {k \in 0 .. n : k \notin T} OBVIOUS
<1>2. ASSUME missing # {} PROVE FALSE
  <2>1. missing \subseteq Nat BY <1>1
  <2>2. PICK k \in missing : \A j \in missing : k <= j BY <1>2, <2>1, LeastNumber
  <2>3. k \in 1 .. n BY <1>1, <2>2
  <2>4. k - 1 \in 0 .. n - 1 /\ k = (k - 1) + 1 /\ ~ (k <= k - 1) BY <2>3
  <2>5. k - 1 \in T BY <1>1, <2>2, <2>4
  <2>6. k \in T BY <2>4, <2>5
  <2>7. QED BY <1>1, <2>2, <2>6
<1>3. QED BY <1>1, <1>2

\* Of some places the last one is one of them.
LEMMA LastPlace ==
    ASSUME NEW n \in Nat, NEW t \in SUBSET (1 .. n), t # {}
    PROVE  Max(t) \in t
<1>1. PICK U : U = {n - i : i \in t} OBVIOUS
<1>2. U \subseteq Nat /\ U # {}
  <2>1. \A i \in t : n - i \in Nat OBVIOUS
  <2>2. QED BY <1>1, <2>1
<1>3. PICK m \in U : \A k \in U : m <= k BY <1>2, LeastNumber
<1>4. PICK x \in t : m = n - x BY <1>1, <1>3
<1>5. ASSUME NEW y \in t PROVE x >= y
  <2>1. n - y \in U BY <1>1
  <2>2. n - x <= n - y BY <1>3, <1>4, <2>1
  <2>3. QED BY <2>2
<1>6. QED BY <1>5 DEF Max

IsFold(g, S, base, F, chosen) ==
    \A t \in SUBSET S :
        g[t] = IF t = {} THEN base ELSE F[<<g[t \ {chosen[t]}], chosen[t]>>]

\* Whatever is chosen first, a fold over a finite set has a value for each of
\* its subsets.
LEMMA FoldExists ==
    ASSUME NEW S, IsFiniteSet(S), NEW V, NEW base \in V, NEW chosen, NEW F,
           \A t \in SUBSET S : t # {} => chosen[t] \in t,
           F \in [V \X S -> V]
    PROVE  \E g \in [SUBSET S -> V] : IsFold(g, S, base, F, chosen)
<1> DEFINE Small(k) == {t \in SUBSET S : Cardinality(t) <= k}
           Value(g, t) == IF t = {} THEN base ELSE F[<<g[t \ {chosen[t]}], chosen[t]>>]
           Folds(g, k) == \A t \in Small(k) : g[t] = Value(g, t)
           T == {k \in 0 .. Cardinality(S) : \E g \in [Small(k) -> V] : Folds(g, k)}
<1>1. /\ Cardinality(S) \in Nat
      /\ \A t \in SUBSET S : Cardinality(t) \in 0 .. Cardinality(S) /\ IsFiniteSet(t)
  BY FS_Subset, FS_CardinalityType
<1>2. \A t \in SUBSET S : Cardinality(t) = 0 <=> t = {} BY <1>1, FS_EmptySet
<1>3. \A t \in SUBSET S :
         t # {} => /\ t \ {chosen[t]} \in SUBSET S
                   /\ Cardinality(t \ {chosen[t]}) = Cardinality(t) - 1
  BY <1>1, FS_RemoveElement
<1>4. 0 \in T
  <2>1. PICK g : g = [t \in Small(0) |-> base] OBVIOUS
  <2>2. \A t \in Small(0) : t = {} BY <1>1, <1>2
  <2>3. g \in [Small(0) -> V] /\ Folds(g, 0) BY <2>1, <2>2
  <2>4. 0 \in 0 .. Cardinality(S) BY <1>1
  <2> HIDE DEF Folds, Small
  <2>5. QED BY <2>3, <2>4
<1>5. ASSUME NEW k \in 0 .. Cardinality(S) - 1, k \in T PROVE k + 1 \in T
  <2>1. PICK g \in [Small(k) -> V] : Folds(g, k) BY <1>5
  <2> DEFINE h == [t \in Small(k + 1) |-> Value(g, t)]
  <2>2. ASSUME NEW t \in Small(k + 1), t # {}
        PROVE  t \ {chosen[t]} \in Small(k) /\ chosen[t] \in S
    BY <1>1, <1>3, <2>2
  <2>3. \A t \in Small(k + 1) : Value(g, t) \in V BY <2>2
  <2>4. h \in [Small(k + 1) -> V] BY <2>3
  <2>5. \A t \in Small(k) : t \in Small(k + 1) /\ h[t] = g[t] BY <1>1, <2>1
  <2>6. ASSUME NEW t \in Small(k + 1) PROVE h[t] = Value(h, t)
    <3>1. h[t] = Value(g, t) OBVIOUS
    <3> HIDE DEF h
    <3>2. CASE t = {} BY <3>1, <3>2
    <3>3. CASE t # {} BY <2>2, <2>5, <3>1, <3>3
    <3>4. QED BY <3>2, <3>3
  <2> HIDE DEF h
  <2>7. Folds(h, k + 1) BY <2>6
  <2>8. k + 1 \in 0 .. Cardinality(S) BY <1>1
  <2>9. QED BY <2>4, <2>7, <2>8
<1>6. Cardinality(S) \in T
  <2> HIDE DEF T
  <2>1. 0 .. Cardinality(S) \subseteq T BY <1>1, <1>4, <1>5, UpTo
  <2>2. QED BY <1>1, <2>1
<1>7. PICK g \in [Small(Cardinality(S)) -> V] : Folds(g, Cardinality(S)) BY <1>6
<1>8. Small(Cardinality(S)) = SUBSET S BY <1>1
<1>9. QED BY <1>7, <1>8 DEF IsFold

IsListFold(g, n, base, F, s) ==
    \A t \in SUBSET (1 .. n) :
        g[t] = IF t = {} THEN base ELSE F[<<g[t \ {Max(t)}], s[Max(t)]>>]

\* The fold of a list takes its elements from the last one on.
LEMMA ListFold ==
    ASSUME NEW n \in Nat, NEW s, NEW E, \A k \in 1 .. n : s[k] \in E,
           NEW V, NEW base \in V, NEW F, \A v \in V, e \in E : F[<<v, e>>] \in V
    PROVE  \E g \in [SUBSET (1 .. n) -> V] : IsListFold(g, n, base, F, s)
<1>1. PICK places : places = 1 .. n OBVIOUS
<1>2. \A t \in SUBSET places : t # {} => Max(t) \in t BY <1>1, LastPlace
<1>3. PICK chosen : chosen = [t \in SUBSET places |-> Max(t)] OBVIOUS
<1>4. \A t \in SUBSET places : t # {} => chosen[t] \in t BY <1>2, <1>3
<1>5. PICK G : G = [p \in V \X places |-> F[<<p[1], s[p[2]]>>]] OBVIOUS
<1>6. \A v \in V, k \in places : G[<<v, k>>] = F[<<v, s[k]>>] BY <1>5
<1>7. G \in [V \X places -> V] BY <1>1, <1>5
<1>8. IsFiniteSet(places) BY <1>1, FS_Interval
<1>9. PICK g \in [SUBSET places -> V] : IsFold(g, places, base, G, chosen)
  BY <1>4, <1>7, <1>8, FoldExists
<1>10. ASSUME NEW t \in SUBSET places
       PROVE  g[t] = IF t = {} THEN base ELSE F[<<g[t \ {Max(t)}], s[Max(t)]>>]
  <2>1. CASE t = {} BY <1>9, <2>1 DEF IsFold
  <2>2. CASE t # {}
    <3>1. chosen[t] = Max(t) /\ Max(t) \in places /\ t \ {Max(t)} \in SUBSET places
      BY <1>2, <1>3, <2>2
    <3>2. g[t \ {Max(t)}] \in V BY <3>1
    <3>3. g[t] = G[<<g[t \ {Max(t)}], Max(t)>>] BY <1>9, <2>2, <3>1 DEF IsFold
    <3>4. QED BY <1>6, <2>2, <3>1, <3>2, <3>3
  <2>3. QED BY <2>1, <2>2
<1>11. QED BY <1>1, <1>9, <1>10 DEF IsListFold

\* The last of the first k places is the place k.
LEMMA FirstPlaces ==
    ASSUME NEW n \in Nat, NEW k \in 1 .. n
    PROVE  /\ 1 .. k \in SUBSET (1 .. n) /\ 1 .. k # {}
           /\ Max(1 .. k) = k /\ (1 .. k) \ {Max(1 .. k)} = 1 .. k - 1
<1>1. k \in 1 .. k /\ \A y \in 1 .. k : k >= y OBVIOUS
<1>2. \A x \in 1 .. k : (\A y \in 1 .. k : x >= y) => x = k OBVIOUS
<1>3. Max(1 .. k) = k BY <1>1, <1>2 DEF Max
<1>4. QED BY <1>3

-----------------------------------------------------------------------------
(* The folds of the loop.                                                  *)

Took(acc, candidate) ==
    IF Duplicate(acc.current, candidate)
    THEN [acc EXCEPT !.current = Join(acc.current, candidate)]
    ELSE [acc EXCEPT !.retained = Append(@, candidate)]

\* What has grown from some candidates is closed under what a pass does.
Grows(W, E) == E \subseteq W /\ \A w \in W, e \in E : Duplicate(w, e) => Join(w, e) \in W

LEMMA PassTrace ==
    ASSUME NEW W, NEW E, Grows(W, E), NEW current \in W, NEW pending \in Seq(E)
    PROVE  \E h : /\ h[0] = [current |-> current, retained |-> <<>>]
                  /\ \A k \in 1 .. Len(pending) : h[k] = Took(h[k - 1], pending[k])
                  /\ Pass(current, pending) = h[Len(pending)]
<1> DEFINE V == [current : W, retained : Seq(E)]
           base == [current |-> current, retained |-> <<>>]
           Folded(it) ==
               it = [t \in SUBSET DOMAIN pending |->
                        IF t = {} THEN base
                        ELSE IF Duplicate(it[t \ {Max(t)}].current, pending[Max(t)])
                             THEN [it[t \ {Max(t)}] EXCEPT
                                      !.current = Join(it[t \ {Max(t)}].current, pending[Max(t)])]
                             ELSE [it[t \ {Max(t)}] EXCEPT !.retained = Append(@, pending[Max(t)])]]
           it == CHOOSE it : Folded(it)
<1>1. Pass(current, pending) = it[DOMAIN pending]
  BY DEF Pass, FoldLeft, MapThenFoldSet
<1>2. PICK n \in Nat : n = Len(pending) /\ DOMAIN pending = 1 .. n BY LenProperties
<1>3. \A k \in 1 .. n : pending[k] \in E BY <1>2, ElementOfSeq
<1>4. base \in V OBVIOUS
<1>5. ASSUME NEW v \in V, NEW e \in E PROVE Took(v, e) \in V
  <2>1. v.current \in W /\ v.retained \in Seq(E) /\ v = [current |-> v.current, retained |-> v.retained]
    OBVIOUS
  <2>2. CASE Duplicate(v.current, e)
    <3>1. Join(v.current, e) \in W BY <2>1, <2>2 DEF Grows
    <3>2. Took(v, e) = [v EXCEPT !.current = Join(v.current, e)] BY <2>2 DEF Took
    <3>3. QED BY <3>1, <3>2
  <2>3. CASE ~Duplicate(v.current, e)
    <3>1. PICK longer \in Seq(E) : longer = Append(v.retained, e) BY <2>1, AppendProperties
    <3>2. Took(v, e) = [v EXCEPT !.retained = longer] BY <2>3, <3>1 DEF Took
    <3>3. QED BY <3>2
  <2>4. QED BY <2>2, <2>3
<1>6. PICK F : F = [p \in V \X E |-> Took(p[1], p[2])] OBVIOUS
<1> HIDE DEF V
<1>7. \A v \in V, e \in E : F[<<v, e>>] = Took(v, e) BY <1>6
<1>8. \A v \in V, e \in E : F[<<v, e>>] \in V BY <1>5, <1>7
<1> HIDE DEF base
<1>9. PICK g \in [SUBSET (1 .. n) -> V] : IsListFold(g, n, base, F, pending)
  BY <1>3, <1>4, <1>8, ListFold
<1>10. \A t \in SUBSET (1 .. n) :
          g[t] = IF t = {} THEN base ELSE Took(g[t \ {Max(t)}], pending[Max(t)])
  <2>1. SUFFICES ASSUME NEW t \in SUBSET (1 .. n), t # {}
                 PROVE  g[t] = Took(g[t \ {Max(t)}], pending[Max(t)])
    BY <1>9 DEF IsListFold
  <2>2. Max(t) \in 1 .. n BY <2>1, LastPlace
  <2>3. g[t \ {Max(t)}] \in V OBVIOUS
  <2>4. pending[Max(t)] \in E BY <1>3, <2>2
  <2>5. QED BY <1>7, <1>9, <2>1, <2>3, <2>4 DEF IsListFold
<1>11. Folded(g) BY <1>2, <1>10 DEF Took
<1>12. Folded(it)
  <2> HIDE DEF Folded
  <2>1. QED BY <1>11
<1> HIDE DEF it
<1>13. \A t \in SUBSET (1 .. n) :
          it[t] = IF t = {} THEN base ELSE Took(it[t \ {Max(t)}], pending[Max(t)])
  BY <1>2, <1>12 DEF Took
<1> HIDE DEF Folded
<1>14. PICK h : h = [k \in 0 .. n |-> it[1 .. k]] OBVIOUS
<1>15. h[0] = base
  <2>1. h[0] = it[1 .. 0] /\ 1 .. 0 = {} BY <1>14
  <2>2. QED BY <1>13, <2>1
<1>16. ASSUME NEW k \in 1 .. n PROVE h[k] = Took(h[k - 1], pending[k])
  <2>1. h[k] = it[1 .. k] /\ h[k - 1] = it[1 .. k - 1] BY <1>14
  <2>2. QED BY <1>13, <2>1, FirstPlaces
<1>17. h[n] = it[1 .. n] BY <1>14
<1>18. QED BY <1>1, <1>2, <1>15, <1>16, <1>17 DEF base

-----------------------------------------------------------------------------
(* What a pass, a group and the loop account for.                          *)

\* Results with what they are made of: each item by itself, and whatever comes
\* of taking in a duplicate.
Makes(M, E) ==
    /\ \A e \in E : <<e, {e}>> \in M
    /\ \A m \in M : m = <<m[1], m[2]>>
    /\ \A m \in M, e \in E : Duplicate(m[1], e) => <<Join(m[1], e), m[2] \cup {e}>> \in M

InOrder(list, R) == \A i, j \in 1 .. Len(list) : i < j => <<list[i], list[j]>> \in R

Apart(A, B, R) == \A a \in A, b \in B : <<a, b>> \in R \/ <<b, a>> \in R

\* What was taken in and what was left, of some items.
Divided(D, retained, pending, E, R) ==
    /\ retained \in Seq(E) /\ InOrder(retained, R)
    /\ Len(retained) <= Len(pending)
    /\ D \cup ToSet(retained) = ToSet(pending)
    /\ Apart(D, ToSet(retained), R)

Foreign(w, items) == \A e \in items : ~Duplicate(w, e)

LEMMA MakesGrows ==
    ASSUME NEW E, NEW M, Makes(M, E)
    PROVE  /\ Grows({m[1] : m \in M}, E)
           /\ \A w, D : <<w, D>> \in M => w \in {m[1] : m \in M}
<1>1. \A w, D : <<w, D>> \in M => w \in {m[1] : m \in M} OBVIOUS
<1>2. \A e \in E : <<e, {e}>> \in M BY DEF Makes
<1>3. \A m \in M, e \in E : Duplicate(m[1], e) => <<Join(m[1], e), m[2] \cup {e}>> \in M
  BY DEF Makes
<1>4. QED BY <1>1, <1>2, <1>3 DEF Grows

LEMMA AppendAt ==
    ASSUME NEW E, NEW s \in Seq(E), NEW e \in E
    PROVE  /\ Append(s, e) \in Seq(E)
           /\ Len(Append(s, e)) = Len(s) + 1
           /\ \A i \in 1 .. Len(s) : Append(s, e)[i] = s[i]
           /\ Append(s, e)[Len(s) + 1] = e
           /\ ToSet(Append(s, e)) = ToSet(s) \cup {e}
<1>1. /\ Append(s, e) \in Seq(E) /\ Len(Append(s, e)) = Len(s) + 1
      /\ \A i \in 1 .. Len(s) : Append(s, e)[i] = s[i]
      /\ Append(s, e)[Len(s) + 1] = e
  BY AppendProperties
<1>2. Len(s) \in Nat /\ DOMAIN s = 1 .. Len(s) /\ DOMAIN Append(s, e) = 1 .. Len(s) + 1
  BY <1>1, LenProperties
<1>3. QED BY <1>1, <1>2 DEF ToSet

\* A pass: what it takes in and what it leaves are all there was; when it
\* leaves all of it, nothing was a duplicate.
LEMMA PassAccounts ==
    ASSUME NEW E, NEW M, Makes(M, E), NEW R,
           NEW current, NEW G, <<current, G>> \in M, NEW pending \in Seq(E), InOrder(pending, R)
    PROVE  LET pass == Pass(current, pending)
           IN  /\ pass = [current |-> pass.current, retained |-> pass.retained]
               /\ \E D : /\ <<pass.current, G \cup D>> \in M
                         /\ Divided(D, pass.retained, pending, E, R)
               /\ Len(pass.retained) = Len(pending) =>
                     /\ pass.current = current /\ pass.retained = pending
                     /\ Foreign(current, ToSet(pending))
               /\ Foreign(current, ToSet(pending)) => Len(pass.retained) = Len(pending)
<1> DEFINE Seen(k) == {pending[j] : j \in 1 .. k}
           Parted(a, D, k) ==
               /\ <<a.current, G \cup D>> \in M
               /\ D \cup ToSet(a.retained) = Seen(k)
               /\ Apart(D, ToSet(a.retained), R)
           Listed(a, k) ==
               /\ a = [current |-> a.current, retained |-> a.retained]
               /\ a.retained \in Seq(E) /\ InOrder(a.retained, R) /\ Len(a.retained) <= k
           Same(a, k) ==
               Len(a.retained) = k =>
                  /\ a.current = current
                  /\ \A j \in 1 .. k : a.retained[j] = pending[j] /\ ~Duplicate(current, pending[j])
           Left(a, k) == Foreign(current, ToSet(pending)) => Len(a.retained) = k
           Inv(a, k) == Listed(a, k) /\ Same(a, k) /\ Left(a, k) /\ \E D : Parted(a, D, k)
<1>1. PICK n \in Nat : n = Len(pending) /\ DOMAIN pending = 1 .. n BY LenProperties
<1>2. \A k \in 1 .. n : pending[k] \in E BY <1>1, ElementOfSeq
<1>3. PICK h : /\ h[0] = [current |-> current, retained |-> <<>>]
               /\ \A k \in 1 .. n : h[k] = Took(h[k - 1], pending[k])
               /\ Pass(current, pending) = h[n]
  <2>1. PICK W : W = {m[1] : m \in M} OBVIOUS
  <2>2. Grows(W, E) /\ current \in W BY <2>1, MakesGrows
  <2>3. QED BY <1>1, <2>2, PassTrace
<1> DEFINE T == {k \in 0 .. n : Inv(h[k], k)}
<1>4. 0 \in T
  <2>1. PICK a : a = [current |-> current, retained |-> <<>>] OBVIOUS
  <2>2. a.current = current /\ a.retained = <<>> /\ Len(a.retained) = 0 BY <2>1
  <2>3. ToSet(a.retained) = {} BY <2>2 DEF ToSet
  <2>4. Parted(a, {}, 0)
    <3>1. <<a.current, G \cup {}>> \in M /\ {} \cup ToSet(a.retained) = Seen(0)
      BY <2>2, <2>3
    <3>2. Apart({}, ToSet(a.retained), R) BY DEF Apart
    <3>3. QED BY <3>1, <3>2
  <2>5. Listed(a, 0)
    <3>1. InOrder(a.retained, R) BY <2>2 DEF InOrder
    <3>2. a.retained \in Seq(E) BY <2>2
    <3>3. QED BY <2>1, <2>2, <3>1, <3>2
  <2>6. Same(a, 0) /\ Left(a, 0) BY <2>2
  <2> HIDE DEF Parted, Listed, Same, Left
  <2>7. Inv(h[0], 0) BY <1>3, <2>1, <2>4, <2>5, <2>6
  <2>8. QED BY <2>7
<1>5. ASSUME NEW l \in 0 .. n - 1, l \in T PROVE l + 1 \in T
  <2>1. PICK k \in 1 .. n : k = l + 1 /\ l = k - 1 OBVIOUS
  <2>2. PICK a, e : a = h[l] /\ e = pending[k] /\ e \in E BY <1>2
  <2>3. Inv(a, l) BY <1>5, <2>2
  <2>4. PICK D : Parted(a, D, l)
    <3> HIDE DEF Parted, Listed, Same, Left
    <3>1. QED BY <2>3
  <2>5. Seen(k) = Seen(l) \cup {e}
    <3>1. 1 .. k = (1 .. l) \cup {k} BY <2>1
    <3>2. QED BY <2>2, <3>1
  <2>6. ASSUME NEW x \in Seen(l) PROVE <<x, e>> \in R
    BY <1>1, <2>1, <2>2 DEF InOrder
  <2>7. PICK b : b = Took(a, e) OBVIOUS
  <2>8. CASE Duplicate(a.current, e)
    <3>1. b.current = Join(a.current, e) /\ b.retained = a.retained
          /\ b = [current |-> b.current, retained |-> b.retained]
      BY <2>3, <2>7, <2>8 DEF Took
    <3>2. <<b.current, G \cup (D \cup {e})>> \in M
      <4>1. <<Join(a.current, e), (G \cup D) \cup {e}>> \in M
        <5>1. PICK m \in M : m = <<a.current, G \cup D>> BY <2>4
        <5>2. m[1] = a.current /\ m[2] = G \cup D BY <5>1
        <5>3. QED BY <2>2, <2>8, <5>2 DEF Makes
      <4>2. QED BY <3>1, <4>1
    <3>3. (D \cup {e}) \cup ToSet(b.retained) = Seen(k) BY <2>4, <2>5, <3>1
    <3>4. Apart(D \cup {e}, ToSet(b.retained), R)
      <4>1. \A x \in ToSet(b.retained) : <<x, e>> \in R BY <2>4, <2>6, <3>1
      <4>2. QED BY <2>4, <3>1, <4>1 DEF Apart
    <3>5. Len(b.retained) \in Nat /\ Len(b.retained) <= l BY <2>3, <3>1, LenProperties
    <3>6. Parted(b, D \cup {e}, k) BY <3>2, <3>3, <3>4
    <3>9. Listed(b, k) BY <2>1, <2>3, <3>1, <3>5
    <3>10. Same(b, k) BY <2>1, <3>5
    <3>11. Left(b, k)
      <4>1. e \in ToSet(pending) BY <1>1, <2>2 DEF ToSet
      <4>2. SUFFICES ASSUME Foreign(current, ToSet(pending)) PROVE FALSE
        OBVIOUS
      <4>3. Len(a.retained) = l BY <2>3, <4>2
      <4>4. a.current = current BY <2>3, <4>3
      <4>5. QED BY <2>8, <4>1, <4>2, <4>4 DEF Foreign
    <3> HIDE DEF Parted, Listed, Same, Left
    <3>7. h[k] = b BY <1>3, <2>1, <2>2, <2>7
    <3>8. QED BY <2>1, <3>6, <3>7, <3>9, <3>10, <3>11
  <2>9. CASE ~Duplicate(a.current, e)
    <3>1. b.current = a.current /\ b.retained = Append(a.retained, e)
          /\ b = [current |-> b.current, retained |-> b.retained]
      BY <2>3, <2>7, <2>9 DEF Took
    <3>2. /\ b.retained \in Seq(E) /\ Len(b.retained) = Len(a.retained) + 1
          /\ \A i \in 1 .. Len(a.retained) : b.retained[i] = a.retained[i]
          /\ b.retained[Len(a.retained) + 1] = e
          /\ ToSet(b.retained) = ToSet(a.retained) \cup {e}
      BY <2>2, <2>3, <3>1, AppendAt
    <3>3. <<b.current, G \cup D>> \in M /\ D \cup ToSet(b.retained) = Seen(k)
      BY <2>4, <2>5, <3>1, <3>2
    <3>4. Apart(D, ToSet(b.retained), R)
      <4>1. \A x \in D : <<x, e>> \in R BY <2>4, <2>6
      <4>2. QED BY <2>4, <3>2, <4>1 DEF Apart
    <3>5. Len(a.retained) \in Nat /\ Len(a.retained) <= l BY <2>3, LenProperties
    <3>6. InOrder(b.retained, R)
      <4>1. ASSUME NEW i \in 1 .. Len(b.retained), NEW j \in 1 .. Len(b.retained), i < j
            PROVE  <<b.retained[i], b.retained[j]>> \in R
        <5>1. i \in 1 .. Len(a.retained) BY <3>2, <3>5, <4>1
        <5>2. CASE j \in 1 .. Len(a.retained)
          BY <2>3, <3>2, <4>1, <5>1, <5>2 DEF InOrder
        <5>3. CASE j = Len(a.retained) + 1
          <6>1. a.retained[i] \in ToSet(a.retained)
            <7>1. DOMAIN a.retained = 1 .. Len(a.retained) BY <2>3, LenProperties
            <7>2. QED BY <5>1, <7>1 DEF ToSet
          <6>2. <<a.retained[i], e>> \in R BY <2>4, <2>6, <6>1
          <6>3. QED BY <3>2, <5>1, <5>3, <6>2
        <5>4. QED BY <3>2, <3>5, <5>2, <5>3
      <4>2. QED BY <4>1 DEF InOrder
    <3>7. Len(b.retained) = k =>
             /\ b.current = current
             /\ \A j \in 1 .. k : b.retained[j] = pending[j] /\ ~Duplicate(current, pending[j])
      <4>1. SUFFICES ASSUME Len(b.retained) = k
                     PROVE  /\ b.current = current
                            /\ \A j \in 1 .. k : /\ b.retained[j] = pending[j]
                                                 /\ ~Duplicate(current, pending[j])
        OBVIOUS
      <4>2. Len(a.retained) = l BY <2>1, <3>2, <3>5, <4>1
      <4>3. /\ a.current = current
            /\ \A j \in 1 .. l : a.retained[j] = pending[j] /\ ~Duplicate(current, pending[j])
        BY <2>3, <4>2
      <4>4. ASSUME NEW j \in 1 .. k PROVE b.retained[j] = pending[j] /\ ~Duplicate(current, pending[j])
        <5>1. CASE j \in 1 .. l BY <3>2, <4>2, <4>3, <5>1
        <5>2. CASE j = k BY <2>1, <2>2, <2>9, <3>2, <4>2, <4>3, <5>2
        <5>3. QED BY <2>1, <5>1, <5>2
      <4>5. QED BY <3>1, <4>3, <4>4
    <3>8. Len(b.retained) <= k BY <2>1, <3>2, <3>5
    <3>9. Parted(b, D, k) BY <3>3, <3>4
    <3>12. Listed(b, k) BY <3>1, <3>2, <3>6, <3>8
    <3>13. Same(b, k) BY <3>7
    <3>14. Left(b, k) BY <2>1, <2>3, <3>2
    <3> HIDE DEF Parted, Listed, Same, Left
    <3>10. h[k] = b BY <1>3, <2>1, <2>2, <2>7
    <3>11. QED BY <2>1, <3>9, <3>10, <3>12, <3>13, <3>14
  <2>10. QED BY <2>8, <2>9
<1>6. Inv(h[n], n)
  <2> HIDE DEF Inv
  <2>1. \A k \in T : Inv(h[k], k) OBVIOUS
  <2> HIDE DEF T
  <2>2. 0 .. n \subseteq T BY <1>4, <1>5, UpTo
  <2>3. QED BY <2>1, <2>2
<1>7. PICK pass : pass = h[n] OBVIOUS
<1>8. Seen(n) = ToSet(pending) BY <1>1 DEF ToSet
<1>9. Inv(pass, n) BY <1>6, <1>7
<1>10. Len(pass.retained) = n => pass.retained = pending
  <2>1. SUFFICES ASSUME Len(pass.retained) = n PROVE pass.retained = pending
    OBVIOUS
  <2>2. \A j \in 1 .. n : pass.retained[j] = pending[j] BY <1>9, <2>1
  <2>3. QED BY <1>1, <1>9, <2>1, <2>2, SeqEqual
<1>11. Len(pass.retained) = n => pass.current = current /\ Foreign(current, ToSet(pending))
  BY <1>8, <1>9 DEF Foreign
<1>12. \E D : /\ <<pass.current, G \cup D>> \in M
              /\ Divided(D, pass.retained, pending, E, R)
  BY <1>1, <1>8, <1>9 DEF Divided
<1>13. Foreign(current, ToSet(pending)) => Len(pass.retained) = Len(pending) BY <1>1, <1>9
<1>14. QED BY <1>1, <1>3, <1>7, <1>9, <1>10, <1>11, <1>12, <1>13

LEMMA PassTyped ==
    ASSUME NEW E, NEW M, Makes(M, E), NEW current \in {m[1] : m \in M}, NEW pending \in Seq(E)
    PROVE  Pass(current, pending) \in [current : {m[1] : m \in M}, retained : Seq(E)]
<1>1. PICK m \in M : current = m[1] OBVIOUS
<1>2. <<current, m[2]>> \in M BY <1>1 DEF Makes
<1>3. PICK R : R = E \X E OBVIOUS
<1>4. InOrder(pending, R)
  <2>1. \A i \in 1 .. Len(pending) : pending[i] \in E BY ElementOfSeq
  <2>2. QED BY <1>3, <2>1 DEF InOrder
<1>5. PICK pass : pass = Pass(current, pending) OBVIOUS
<1>6. pass = [current |-> pass.current, retained |-> pass.retained]
  BY <1>2, <1>4, <1>5, PassAccounts
<1>7. PICK D : /\ <<pass.current, m[2] \cup D>> \in M
               /\ Divided(D, pass.retained, pending, E, R)
  BY <1>2, <1>4, <1>5, PassAccounts
<1>8. pass.retained \in Seq(E) BY <1>7 DEF Divided
<1>9. pass.current \in {n[1] : n \in M} BY <1>7, MakesGrows
<1>10. QED BY <1>5, <1>6, <1>8, <1>9

LEMMA GroupTrace ==
    ASSUME NEW E, NEW M, Makes(M, E), NEW current \in {m[1] : m \in M}, NEW pending \in Seq(E)
    PROVE  \E h : /\ h[0] = [current |-> current, retained |-> pending]
                  /\ \A k \in 1 .. Len(pending) : h[k] = Pass(h[k - 1].current, h[k - 1].retained)
                  /\ Group(current, pending) = h[Len(pending)]
<1> DEFINE V == [current : {m[1] : m \in M}, retained : Seq(E)]
           base == [current |-> current, retained |-> pending]
           Folded(it) ==
               it = [t \in SUBSET DOMAIN pending |->
                        IF t = {} THEN base
                        ELSE Pass(it[t \ {Max(t)}].current, it[t \ {Max(t)}].retained)]
           it == CHOOSE it : Folded(it)
<1>1. Group(current, pending) = it[DOMAIN pending]
  BY DEF Group, FoldLeft, MapThenFoldSet
<1>2. PICK n \in Nat : n = Len(pending) /\ DOMAIN pending = 1 .. n BY LenProperties
<1>3. \A k \in 1 .. n : pending[k] \in E BY <1>2, ElementOfSeq
<1>4. base \in V OBVIOUS
<1>5. \A v \in V : Pass(v.current, v.retained) \in V
  <2>1. SUFFICES ASSUME NEW v \in V PROVE Pass(v.current, v.retained) \in V
    OBVIOUS
  <2>2. v.current \in {m[1] : m \in M} /\ v.retained \in Seq(E) OBVIOUS
  <2>3. QED BY <2>2, PassTyped
<1>6. PICK F : F = [p \in V \X E |-> Pass(p[1].current, p[1].retained)] OBVIOUS
<1> HIDE DEF V
<1>7. \A v \in V, e \in E : F[<<v, e>>] = Pass(v.current, v.retained) BY <1>6
<1>8. \A v \in V, e \in E : F[<<v, e>>] \in V BY <1>5, <1>7
<1> HIDE DEF base
<1>9. PICK g \in [SUBSET (1 .. n) -> V] : IsListFold(g, n, base, F, pending)
  BY <1>3, <1>4, <1>8, ListFold
<1>10. \A t \in SUBSET (1 .. n) :
          g[t] = IF t = {} THEN base ELSE Pass(g[t \ {Max(t)}].current, g[t \ {Max(t)}].retained)
  <2>1. SUFFICES ASSUME NEW t \in SUBSET (1 .. n), t # {}
                 PROVE  g[t] = Pass(g[t \ {Max(t)}].current, g[t \ {Max(t)}].retained)
    BY <1>9 DEF IsListFold
  <2>2. Max(t) \in 1 .. n BY <2>1, LastPlace
  <2>3. g[t \ {Max(t)}] \in V OBVIOUS
  <2>4. pending[Max(t)] \in E BY <1>3, <2>2
  <2>5. QED BY <1>7, <1>9, <2>1, <2>3, <2>4 DEF IsListFold
<1>11. Folded(g) BY <1>2, <1>10
<1>12. Folded(it)
  <2> HIDE DEF Folded
  <2>1. QED BY <1>11
<1> HIDE DEF it
<1>13. \A t \in SUBSET (1 .. n) :
          it[t] = IF t = {} THEN base ELSE Pass(it[t \ {Max(t)}].current, it[t \ {Max(t)}].retained)
  BY <1>2, <1>12
<1> HIDE DEF Folded
<1>14. PICK h : h = [k \in 0 .. n |-> it[1 .. k]] OBVIOUS
<1>15. h[0] = base
  <2>1. h[0] = it[1 .. 0] /\ 1 .. 0 = {} BY <1>14
  <2>2. QED BY <1>13, <2>1
<1>16. ASSUME NEW k \in 1 .. n PROVE h[k] = Pass(h[k - 1].current, h[k - 1].retained)
  <2>1. h[k] = it[1 .. k] /\ h[k - 1] = it[1 .. k - 1] BY <1>14
  <2>2. QED BY <1>13, <2>1, FirstPlaces
<1>17. h[n] = it[1 .. n] BY <1>14
<1>18. QED BY <1>1, <1>2, <1>15, <1>16, <1>17 DEF base

\* A group: after as many passes as there were items none of what is left is a
\* duplicate of what has grown.
LEMMA GroupAccounts ==
    ASSUME NEW E, NEW M, Makes(M, E), NEW R,
           NEW current, NEW G, <<current, G>> \in M, NEW pending \in Seq(E), InOrder(pending, R)
    PROVE  LET group == Group(current, pending)
           IN  /\ group = [current |-> group.current, retained |-> group.retained]
               /\ \E D : /\ <<group.current, G \cup D>> \in M
                         /\ Divided(D, group.retained, pending, E, R)
               /\ Foreign(group.current, ToSet(group.retained))
<1> DEFINE Parted(a, D) ==
               <<a.current, G \cup D>> \in M /\ Divided(D, a.retained, pending, E, R)
           Typed(a) == a = [current |-> a.current, retained |-> a.retained]
           Done(a, k) == Len(a.retained) <= Len(pending) - k \/ Foreign(a.current, ToSet(a.retained))
           Inv(a, k) == Typed(a) /\ Done(a, k) /\ \E D : Parted(a, D)
<1>1. PICK n \in Nat : n = Len(pending) /\ DOMAIN pending = 1 .. n BY LenProperties
<1>2. PICK h : /\ h[0] = [current |-> current, retained |-> pending]
               /\ \A k \in 1 .. n : h[k] = Pass(h[k - 1].current, h[k - 1].retained)
               /\ Group(current, pending) = h[n]
  BY <1>1, MakesGrows, GroupTrace
<1> DEFINE T == {k \in 0 .. n : Inv(h[k], k)}
<1>3. 0 \in T
  <2>1. PICK a : a = [current |-> current, retained |-> pending] OBVIOUS
  <2>2. a.current = current /\ a.retained = pending BY <2>1
  <2>3. Parted(a, {})
    <3>1. <<a.current, G \cup {}>> \in M BY <2>2
    <3>2. Apart({}, ToSet(a.retained), R) BY DEF Apart
    <3>3. QED BY <1>1, <2>2, <3>1, <3>2 DEF Divided
  <2>4. Typed(a) /\ Done(a, 0) BY <1>1, <2>1, <2>2
  <2> HIDE DEF Parted, Typed, Done
  <2>5. Inv(h[0], 0) BY <1>2, <2>1, <2>3, <2>4
  <2>6. QED BY <2>5
<1>4. ASSUME NEW l \in 0 .. n - 1, l \in T PROVE l + 1 \in T
  <2>1. PICK k \in 1 .. n : k = l + 1 /\ l = k - 1 OBVIOUS
  <2>2. PICK a : a = h[l] OBVIOUS
  <2>3. Inv(a, l) BY <1>4, <2>2
  <2>4. PICK D : Parted(a, D)
    <3> HIDE DEF Parted, Typed, Done
    <3>1. QED BY <2>3
  <2>5. a.retained \in Seq(E) /\ InOrder(a.retained, R) /\ Len(a.retained) <= n
        /\ <<a.current, G \cup D>> \in M
    BY <1>1, <2>4 DEF Divided
  <2>6. PICK b : b = Pass(a.current, a.retained) OBVIOUS
  <2>7. Typed(b) BY <2>5, <2>6, PassAccounts
  <2>8. PICK C : /\ <<b.current, (G \cup D) \cup C>> \in M
                 /\ Divided(C, b.retained, a.retained, E, R)
    BY <2>5, <2>6, PassAccounts
  <2>9. Len(b.retained) = Len(a.retained) =>
           /\ b.current = a.current /\ b.retained = a.retained
           /\ Foreign(a.current, ToSet(a.retained))
    BY <2>5, <2>6, PassAccounts
  <2>10. Parted(b, D \cup C)
    <3>1. <<b.current, G \cup (D \cup C)>> \in M
      <4>1. (G \cup D) \cup C = G \cup (D \cup C) OBVIOUS
      <4>2. QED BY <2>8, <4>1
    <3>2. /\ b.retained \in Seq(E) /\ InOrder(b.retained, R)
          /\ Len(b.retained) <= Len(a.retained) /\ Len(a.retained) <= Len(pending)
          /\ C \cup ToSet(b.retained) = ToSet(a.retained)
          /\ D \cup ToSet(a.retained) = ToSet(pending)
          /\ Apart(C, ToSet(b.retained), R) /\ Apart(D, ToSet(a.retained), R)
      BY <2>4, <2>8 DEF Divided
    <3>3. Len(b.retained) <= Len(pending) BY <1>1, <2>5, <3>2, LenProperties
    <3>4. Apart(D \cup C, ToSet(b.retained), R) BY <3>2 DEF Apart
    <3>5. QED BY <3>1, <3>2, <3>3, <3>4 DEF Divided
  <2>11. Done(b, k)
    <3>1. Len(b.retained) \in Nat /\ Len(a.retained) \in Nat /\ Len(b.retained) <= Len(a.retained)
      BY <2>5, <2>8, LenProperties DEF Divided
    <3>2. Foreign(a.current, ToSet(a.retained)) => Len(b.retained) = Len(a.retained)
      BY <2>5, <2>6, PassAccounts
    <3>3. QED BY <1>1, <2>1, <2>3, <2>9, <3>1, <3>2
  <2> HIDE DEF Parted, Typed, Done
  <2>12. h[k] = b BY <1>2, <2>1, <2>2, <2>6
  <2>13. QED BY <2>1, <2>7, <2>10, <2>11, <2>12
<1>5. Inv(h[n], n)
  <2> HIDE DEF Inv
  <2>1. \A k \in T : Inv(h[k], k) OBVIOUS
  <2> HIDE DEF T
  <2>2. 0 .. n \subseteq T BY <1>3, <1>4, UpTo
  <2>3. QED BY <2>1, <2>2
<1>6. PICK group : group = h[n] OBVIOUS
<1>7. Foreign(group.current, ToSet(group.retained))
  <2>1. group.retained \in Seq(E) BY <1>5, <1>6 DEF Divided
  <2>2. CASE Len(group.retained) <= Len(pending) - n
    <3>1. Len(group.retained) = 0 BY <1>1, <2>1, <2>2, LenProperties
    <3>2. group.retained = <<>> BY <2>1, <3>1, EmptySeq
    <3>3. ToSet(group.retained) = {} BY <3>2 DEF ToSet
    <3>4. QED BY <3>3 DEF Foreign
  <2>3. QED BY <1>5, <1>6, <2>2
<1>8. QED BY <1>1, <1>2, <1>5, <1>6, <1>7

Finished(acc) ==
    IF acc.pending = <<>> THEN acc
    ELSE [finished |-> Append(acc.finished, Group(Head(acc.pending), Tail(acc.pending)).current),
          pending |-> Group(Head(acc.pending), Tail(acc.pending)).retained]

LEMMA HeadAndTail ==
    ASSUME NEW E, NEW s \in Seq(E), s # <<>>
    PROVE  /\ Head(s) \in E /\ Tail(s) \in Seq(E) /\ Len(Tail(s)) = Len(s) - 1
           /\ ToSet(s) = {Head(s)} \cup ToSet(Tail(s))
           /\ \A R : InOrder(s, R) => /\ InOrder(Tail(s), R)
                                      /\ \A e \in ToSet(Tail(s)) : <<Head(s), e>> \in R
<1>1. /\ Len(s) \in Nat \ {0} /\ DOMAIN s = 1 .. Len(s)
      /\ \A i \in 1 .. Len(s) : s[i] \in E
  BY LenProperties, EmptySeq, ElementOfSeq
<1>2. Head(s) = s[1] /\ Head(s) \in E BY <1>1
<1>3. /\ Tail(s) \in Seq(E) /\ Len(Tail(s)) = Len(s) - 1
      /\ \A i \in 1 .. Len(s) - 1 : Tail(s)[i] = s[i + 1]
  BY HeadTailProperties
<1>4. DOMAIN Tail(s) = 1 .. Len(s) - 1 BY <1>1, <1>3, LenProperties
<1>5. ToSet(Tail(s)) = {s[i] : i \in 2 .. Len(s)}
  <2>1. PICK t, n : t = Tail(s) /\ n = Len(s) - 1 OBVIOUS
  <2>8. n \in Nat BY <1>1, <2>1
  <2>2. \A i \in 1 .. n : i + 1 \in 2 .. n + 1 /\ t[i] = s[i + 1] BY <1>3, <2>1, <2>8
  <2>3. \A i \in 2 .. n + 1 : i - 1 \in 1 .. n /\ s[i] = t[i - 1] BY <1>3, <2>1, <2>8
  <2>4. {t[i] : i \in 1 .. n} = {s[i] : i \in 2 .. n + 1} BY <2>2, <2>3
  <2>5. ToSet(t) = {t[i] : i \in 1 .. n} BY <1>4, <2>1 DEF ToSet
  <2>6. n + 1 = Len(s) BY <1>1, <2>1
  <2>7. QED BY <2>1, <2>4, <2>5, <2>6
<1>6. ToSet(s) = {Head(s)} \cup ToSet(Tail(s))
  <2>1. 1 .. Len(s) = {1} \cup (2 .. Len(s)) BY <1>1
  <2>2. QED BY <1>1, <1>2, <1>5, <2>1 DEF ToSet
<1>7. ASSUME NEW R, InOrder(s, R)
      PROVE  InOrder(Tail(s), R) /\ \A e \in ToSet(Tail(s)) : <<Head(s), e>> \in R
  <2>1. InOrder(Tail(s), R)
    <3>1. ASSUME NEW i \in 1 .. Len(s) - 1, NEW j \in 1 .. Len(s) - 1, i < j
          PROVE  <<Tail(s)[i], Tail(s)[j]>> \in R
      <4>1. i + 1 \in 1 .. Len(s) /\ j + 1 \in 1 .. Len(s) /\ i + 1 < j + 1 BY <1>1, <3>1
      <4>2. QED BY <1>3, <1>7, <4>1 DEF InOrder
    <3>2. QED BY <1>3, <3>1 DEF InOrder
  <2>2. \A i \in 2 .. Len(s) : <<s[1], s[i]>> \in R BY <1>1, <1>7 DEF InOrder
  <2>3. QED BY <1>2, <1>5, <2>1, <2>2
<1>8. QED BY <1>2, <1>3, <1>6, <1>7

LEMMA FinishedTyped ==
    ASSUME NEW E, NEW M, Makes(M, E),
           NEW acc \in [finished : Seq({m[1] : m \in M}), pending : Seq(E)]
    PROVE  Finished(acc) \in [finished : Seq({m[1] : m \in M}), pending : Seq(E)]
<1>1. PICK W : W = {m[1] : m \in M} OBVIOUS
<1>2. acc.finished \in Seq(W) /\ acc.pending \in Seq(E) BY <1>1
<1>3. CASE acc.pending = <<>> BY <1>3 DEF Finished
<1>4. CASE acc.pending # <<>>
  <2>1. PICK head, tail : head = Head(acc.pending) /\ tail = Tail(acc.pending) OBVIOUS
  <2>2. head \in E /\ tail \in Seq(E) BY <1>2, <1>4, <2>1, HeadAndTail
  <2>3. <<head, {head}>> \in M BY <2>2 DEF Makes
  <2>4. PICK R : R = E \X E OBVIOUS
  <2>5. InOrder(tail, R)
    <3>1. \A i \in 1 .. Len(tail) : tail[i] \in E BY <2>2, ElementOfSeq
    <3>2. QED BY <2>4, <3>1 DEF InOrder
  <2>6. PICK group : group = Group(head, tail) OBVIOUS
  <2>7. PICK D : /\ <<group.current, {head} \cup D>> \in M
                 /\ Divided(D, group.retained, tail, E, R)
    BY <2>2, <2>3, <2>5, <2>6, GroupAccounts
  <2>8. group.current \in W BY <1>1, <2>7, MakesGrows
  <2>9. group.retained \in Seq(E) BY <2>7 DEF Divided
  <2>10. Append(acc.finished, group.current) \in Seq(W) BY <1>2, <2>8, AppendProperties
  <2>11. Finished(acc) = [finished |-> Append(acc.finished, group.current),
                          pending |-> group.retained]
    BY <1>4, <2>1, <2>6 DEF Finished
  <2>12. QED BY <1>1, <2>9, <2>10, <2>11
<1>5. QED BY <1>3, <1>4

LEMMA MergedTrace ==
    ASSUME NEW E, NEW M, Makes(M, E), NEW items \in Seq(E)
    PROVE  \E h : /\ h[0] = [finished |-> <<>>, pending |-> items]
                  /\ \A k \in 1 .. Len(items) : h[k] = Finished(h[k - 1])
                  /\ Merged(items) = h[Len(items)].finished
<1> DEFINE V == [finished : Seq({m[1] : m \in M}), pending : Seq(E)]
           base == [finished |-> <<>>, pending |-> items]
           Next(acc) ==
               IF acc.pending = <<>> THEN acc
               ELSE [finished |->
                        Append(acc.finished, Group(Head(acc.pending), Tail(acc.pending)).current),
                     pending |-> Group(Head(acc.pending), Tail(acc.pending)).retained]
           Folded(it) ==
               it = [t \in SUBSET DOMAIN items |-> IF t = {} THEN base ELSE Next(it[t \ {Max(t)}])]
           it == CHOOSE it : Folded(it)
<1>1. Merged(items) = it[DOMAIN items].finished
  BY DEF Merged, FoldLeft, MapThenFoldSet
<1>2. PICK n \in Nat : n = Len(items) /\ DOMAIN items = 1 .. n BY LenProperties
<1>3. \A k \in 1 .. n : items[k] \in E BY <1>2, ElementOfSeq
<1>4. base \in V BY EmptySeq
<1>5. \A v \in V : Finished(v) \in V BY FinishedTyped
<1>6. PICK F : F = [p \in V \X E |-> Finished(p[1])] OBVIOUS
<1> HIDE DEF V
<1>7. \A v \in V, e \in E : F[<<v, e>>] = Finished(v) BY <1>6
<1>8. \A v \in V, e \in E : F[<<v, e>>] \in V BY <1>5, <1>7
<1> HIDE DEF base
<1>9. PICK g \in [SUBSET (1 .. n) -> V] : IsListFold(g, n, base, F, items)
  BY <1>3, <1>4, <1>8, ListFold
<1>10. \A t \in SUBSET (1 .. n) :
          g[t] = IF t = {} THEN base ELSE Finished(g[t \ {Max(t)}])
  <2>1. SUFFICES ASSUME NEW t \in SUBSET (1 .. n), t # {}
                 PROVE  g[t] = Finished(g[t \ {Max(t)}])
    BY <1>9 DEF IsListFold
  <2>2. Max(t) \in 1 .. n BY <2>1, LastPlace
  <2>3. g[t \ {Max(t)}] \in V OBVIOUS
  <2>4. items[Max(t)] \in E BY <1>3, <2>2
  <2>5. QED BY <1>7, <1>9, <2>1, <2>3, <2>4 DEF IsListFold
<1>11. Folded(g) BY <1>2, <1>10 DEF Finished
<1>12. Folded(it)
  <2> HIDE DEF Folded
  <2>1. QED BY <1>11
<1> HIDE DEF it
<1>13. \A t \in SUBSET (1 .. n) :
          it[t] = IF t = {} THEN base ELSE Finished(it[t \ {Max(t)}])
  BY <1>2, <1>12 DEF Finished
<1> HIDE DEF Folded
<1>14. PICK h : h = [k \in 0 .. n |-> it[1 .. k]] OBVIOUS
<1>15. h[0] = base
  <2>1. h[0] = it[1 .. 0] /\ 1 .. 0 = {} BY <1>14
  <2>2. QED BY <1>13, <2>1
<1>16. ASSUME NEW k \in 1 .. n PROVE h[k] = Finished(h[k - 1])
  <2>1. h[k] = it[1 .. k] /\ h[k - 1] = it[1 .. k - 1] BY <1>14
  <2>2. QED BY <1>13, <2>1, FirstPlaces
<1>17. h[n] = it[1 .. n] BY <1>14
<1>18. QED BY <1>1, <1>2, <1>15, <1>16, <1>17 DEF base

\* The results, with the groups they are made of and the items these began with.
Accounted(finished, groups, heads, items, M, R) ==
    LET n == Len(finished)
    IN  /\ \A i \in 1 .. n :
              /\ <<finished[i], groups[i]>> \in M
              /\ heads[i] \in groups[i] /\ groups[i] \subseteq items
              /\ \A e \in groups[i] : e = heads[i] \/ <<heads[i], e>> \in R
        /\ \A i, j \in 1 .. n :
              i < j => /\ Foreign(finished[i], groups[j])
                       /\ \A e \in groups[j] : <<heads[i], e>> \in R
                       /\ Apart(groups[i], groups[j], R)

Remains(finished, groups, heads, pending, R) ==
    \A i \in 1 .. Len(finished) :
        /\ Foreign(finished[i], pending)
        /\ \A e \in pending : <<heads[i], e>> \in R
        /\ Apart(groups[i], pending, R)

InGroups(finished, groups) == UNION {groups[i] : i \in 1 .. Len(finished)}

\* The loop: every item is in a group, and a result never is a duplicate of an
\* item that a later group took.
THEOREM GroupsAccount ==
    ASSUME NEW E, NEW M, Makes(M, E), NEW R, NEW items \in Seq(E), InOrder(items, R)
    PROVE  /\ Merged(items) \in Seq({m[1] : m \in M})
           /\ \E groups, heads :
                 /\ Accounted(Merged(items), groups, heads, ToSet(items), M, R)
                 /\ InGroups(Merged(items), groups) = ToSet(items)
<1> DEFINE Grouped(a, groups, heads) ==
               /\ Accounted(a.finished, groups, heads, ToSet(items), M, R)
               /\ Remains(a.finished, groups, heads, ToSet(a.pending), R)
               /\ InGroups(a.finished, groups) \cup ToSet(a.pending) = ToSet(items)
           Listed(a, k) ==
               /\ a.finished \in Seq({m[1] : m \in M}) /\ a.pending \in Seq(E)
               /\ InOrder(a.pending, R) /\ Len(a.pending) <= Len(items) - k
           Inv(a, k) == Listed(a, k) /\ \E groups, heads : Grouped(a, groups, heads)
<1>1. PICK n \in Nat : n = Len(items) /\ DOMAIN items = 1 .. n BY LenProperties
<1>2. PICK h : /\ h[0] = [finished |-> <<>>, pending |-> items]
               /\ \A k \in 1 .. n : h[k] = Finished(h[k - 1])
               /\ Merged(items) = h[n].finished
  BY <1>1, MergedTrace
<1> DEFINE T == {k \in 0 .. n : Inv(h[k], k)}
<1>3. 0 \in T
  <2>1. PICK a : a = [finished |-> <<>>, pending |-> items] OBVIOUS
  <2>2. a.finished = <<>> /\ Len(a.finished) = 0 /\ a.pending = items BY <2>1
  <2>3. Listed(a, 0) BY <1>1, <2>2, EmptySeq
  <2>4. Grouped(a, <<>>, <<>>)
    <3>1. Accounted(a.finished, <<>>, <<>>, ToSet(items), M, R) BY <2>2 DEF Accounted
    <3>2. Remains(a.finished, <<>>, <<>>, ToSet(a.pending), R) BY <2>2 DEF Remains
    <3>3. InGroups(a.finished, <<>>) = {} BY <2>2 DEF InGroups
    <3>4. QED BY <2>2, <3>1, <3>2, <3>3
  <2> HIDE DEF Listed, Grouped
  <2>5. Inv(h[0], 0) BY <1>2, <2>1, <2>3, <2>4
  <2>6. QED BY <2>5
<1>4. ASSUME NEW l \in 0 .. n - 1, l \in T PROVE l + 1 \in T
  <2>1. PICK k \in 1 .. n : k = l + 1 /\ l = k - 1 OBVIOUS
  <2>2. PICK a : a = h[l] OBVIOUS
  <2>3. Inv(a, l) BY <1>4, <2>2
  <2>4. PICK groups, heads : Grouped(a, groups, heads)
    <3> HIDE DEF Listed, Grouped
    <3>1. QED BY <2>3
  <2>5. a.finished \in Seq({m[1] : m \in M}) /\ a.pending \in Seq(E) /\ InOrder(a.pending, R)
        /\ Len(a.pending) <= n - l
    BY <1>1, <2>3
  <2>6. h[k] = Finished(a) BY <1>2, <2>1, <2>2
  <2>7. CASE a.pending = <<>>
    <3>1. Finished(a) = a BY <2>7 DEF Finished
    <3>2. Listed(a, k) BY <1>1, <2>1, <2>5, <2>7
    <3> HIDE DEF Listed, Grouped
    <3>3. Inv(h[k], k) BY <2>4, <2>6, <3>1, <3>2
    <3>4. QED BY <2>1, <3>3
  <2>8. CASE a.pending # <<>>
    <3>1. PICK head, tail : head = Head(a.pending) /\ tail = Tail(a.pending) OBVIOUS
    <3>2. /\ head \in E /\ tail \in Seq(E) /\ Len(tail) = Len(a.pending) - 1
          /\ ToSet(a.pending) = {head} \cup ToSet(tail)
          /\ InOrder(tail, R) /\ \A e \in ToSet(tail) : <<head, e>> \in R
      BY <2>5, <2>8, <3>1, HeadAndTail
    <3>3. <<head, {head}>> \in M BY <3>2 DEF Makes
    <3>4. PICK group : group = Group(head, tail) OBVIOUS
    <3>5. PICK D : /\ <<group.current, {head} \cup D>> \in M
                   /\ Divided(D, group.retained, tail, E, R)
      BY <3>2, <3>3, <3>4, GroupAccounts
    <3>6. Foreign(group.current, ToSet(group.retained)) BY <3>2, <3>3, <3>4, GroupAccounts
    <3>7. PICK G : G = {head} \cup D OBVIOUS
    <3>8. PICK b : b = [finished |-> Append(a.finished, group.current), pending |-> group.retained]
      OBVIOUS
    <3>9. h[k] = b BY <2>6, <2>8, <3>1, <3>4, <3>8 DEF Finished
    <3>10. b.finished = Append(a.finished, group.current) /\ b.pending = group.retained BY <3>8
    <3>11. PICK N \in Nat : N = Len(a.finished) BY <2>5, LenProperties
    <3>12. /\ b.finished \in Seq({m[1] : m \in M}) /\ Len(b.finished) = N + 1
           /\ \A i \in 1 .. N : b.finished[i] = a.finished[i]
           /\ b.finished[N + 1] = group.current
      <4>1. group.current \in {m[1] : m \in M} BY <3>5, MakesGrows
      <4>2. PICK W : W = {m[1] : m \in M} OBVIOUS
      <4>3. a.finished \in Seq(W) /\ group.current \in W BY <2>5, <4>1, <4>2
      <4>4. QED BY <3>10, <3>11, <4>2, <4>3, AppendAt
    <3>13. /\ b.pending \in Seq(E) /\ InOrder(b.pending, R) /\ Len(b.pending) <= Len(tail)
           /\ D \cup ToSet(b.pending) = ToSet(tail) /\ Apart(D, ToSet(b.pending), R)
      BY <3>5, <3>10 DEF Divided
    <3>14. Listed(b, k)
      <4>1. Len(b.pending) \in Nat /\ Len(tail) \in Nat /\ Len(a.pending) \in Nat
        BY <2>5, <3>2, <3>13, LenProperties
      <4>2. QED BY <1>1, <2>1, <2>5, <3>2, <3>12, <3>13, <4>1
    <3>15. PICK gs, hs : /\ gs = [i \in 1 .. N + 1 |-> IF i = N + 1 THEN G ELSE groups[i]]
                         /\ hs = [i \in 1 .. N + 1 |-> IF i = N + 1 THEN head ELSE heads[i]]
      OBVIOUS
    <3>16. /\ gs[N + 1] = G /\ hs[N + 1] = head
           /\ \A i \in 1 .. N : gs[i] = groups[i] /\ hs[i] = heads[i]
      BY <3>15
    <3>17. G \subseteq ToSet(a.pending) /\ ToSet(b.pending) \subseteq ToSet(a.pending)
           /\ G \cup ToSet(b.pending) = ToSet(a.pending)
      BY <3>2, <3>7, <3>13
    <3>18. /\ \A i \in 1 .. N :
                 /\ <<a.finished[i], groups[i]>> \in M
                 /\ heads[i] \in groups[i] /\ groups[i] \subseteq ToSet(items)
                 /\ \A e \in groups[i] : e = heads[i] \/ <<heads[i], e>> \in R
           /\ \A i, j \in 1 .. N :
                 i < j => /\ Foreign(a.finished[i], groups[j])
                          /\ \A e \in groups[j] : <<heads[i], e>> \in R
                          /\ Apart(groups[i], groups[j], R)
      BY <2>4, <3>11 DEF Accounted
    <3>19. \A i \in 1 .. N :
              /\ Foreign(a.finished[i], ToSet(a.pending))
              /\ \A e \in ToSet(a.pending) : <<heads[i], e>> \in R
              /\ Apart(groups[i], ToSet(a.pending), R)
      BY <2>4, <3>11 DEF Remains
    <3>20. Accounted(b.finished, gs, hs, ToSet(items), M, R)
      <4>1. ASSUME NEW i \in 1 .. N + 1
            PROVE  /\ <<b.finished[i], gs[i]>> \in M
                   /\ hs[i] \in gs[i] /\ gs[i] \subseteq ToSet(items)
                   /\ \A e \in gs[i] : e = hs[i] \/ <<hs[i], e>> \in R
        <5>1. CASE i \in 1 .. N BY <3>12, <3>16, <3>18, <5>1
        <5>2. CASE i = N + 1
          <6>1. ToSet(a.pending) \subseteq ToSet(items) BY <2>4
          <6>2. D \subseteq ToSet(tail) BY <3>13
          <6>3. \A e \in G : e = head \/ <<head, e>> \in R BY <3>2, <3>7, <6>2
          <6>4. <<group.current, G>> \in M BY <3>5, <3>7
          <6>5. QED BY <3>7, <3>12, <3>16, <3>17, <5>2, <6>1, <6>3, <6>4
        <5>3. QED BY <5>1, <5>2
      <4>2. ASSUME NEW i \in 1 .. N + 1, NEW j \in 1 .. N + 1, i < j
            PROVE  /\ Foreign(b.finished[i], gs[j])
                   /\ \A e \in gs[j] : <<hs[i], e>> \in R
                   /\ Apart(gs[i], gs[j], R)
        <5>1. i \in 1 .. N BY <4>2
        <5>2. CASE j \in 1 .. N BY <3>12, <3>16, <3>18, <4>2, <5>1, <5>2
        <5>3. CASE j = N + 1
          <6>1. Foreign(a.finished[i], G) BY <3>17, <3>19, <5>1 DEF Foreign
          <6>2. Apart(groups[i], G, R) BY <3>17, <3>19, <5>1 DEF Apart
          <6>3. \A e \in G : <<heads[i], e>> \in R BY <3>17, <3>19, <5>1
          <6>4. QED BY <3>12, <3>16, <5>1, <5>3, <6>1, <6>2, <6>3
        <5>4. QED BY <5>2, <5>3
      <4>3. QED BY <3>12, <4>1, <4>2 DEF Accounted
    <3>21. Remains(b.finished, gs, hs, ToSet(b.pending), R)
      <4>1. ASSUME NEW i \in 1 .. N + 1
            PROVE  /\ Foreign(b.finished[i], ToSet(b.pending))
                   /\ \A e \in ToSet(b.pending) : <<hs[i], e>> \in R
                   /\ Apart(gs[i], ToSet(b.pending), R)
        <5>1. CASE i \in 1 .. N
          <6>1. Foreign(a.finished[i], ToSet(b.pending)) BY <3>17, <3>19, <5>1 DEF Foreign
          <6>2. Apart(groups[i], ToSet(b.pending), R) BY <3>17, <3>19, <5>1 DEF Apart
          <6>3. \A e \in ToSet(b.pending) : <<heads[i], e>> \in R BY <3>17, <3>19, <5>1
          <6>4. QED BY <3>12, <3>16, <5>1, <6>1, <6>2, <6>3
        <5>2. CASE i = N + 1
          <6>1. Foreign(group.current, ToSet(b.pending)) BY <3>6, <3>10
          <6>2. \A e \in ToSet(b.pending) : <<head, e>> \in R BY <3>2, <3>13
          <6>3. Apart(G, ToSet(b.pending), R) BY <3>7, <3>13, <6>2 DEF Apart
          <6>4. QED BY <3>12, <3>16, <5>2, <6>1, <6>2, <6>3
        <5>3. QED BY <5>1, <5>2
      <4>2. QED BY <3>12, <4>1 DEF Remains
    <3>22. InGroups(b.finished, gs) \cup ToSet(b.pending) = ToSet(items)
      <4>1. InGroups(a.finished, groups) = UNION {groups[i] : i \in 1 .. N} BY <3>11 DEF InGroups
      <4>2. InGroups(b.finished, gs) = UNION {gs[i] : i \in 1 .. N + 1} BY <3>12 DEF InGroups
      <4>3. 1 .. N + 1 = (1 .. N) \cup {N + 1} OBVIOUS
      <4>4. UNION {gs[i] : i \in 1 .. N + 1} = (UNION {groups[i] : i \in 1 .. N}) \cup G
        BY <3>16, <4>3
      <4>5. QED BY <2>4, <3>17, <4>1, <4>2, <4>4
    <3>23. Grouped(b, gs, hs) BY <3>20, <3>21, <3>22
    <3> HIDE DEF Listed, Grouped
    <3>24. Inv(h[k], k) BY <3>9, <3>14, <3>23
    <3>25. QED BY <2>1, <3>24
  <2>9. QED BY <2>7, <2>8
<1>5. Inv(h[n], n)
  <2> HIDE DEF Inv
  <2>1. \A k \in T : Inv(h[k], k) OBVIOUS
  <2> HIDE DEF T
  <2>2. 0 .. n \subseteq T BY <1>3, <1>4, UpTo
  <2>3. QED BY <2>1, <2>2
<1>6. PICK last : last = h[n] OBVIOUS
<1>7. Listed(last, n) BY <1>5, <1>6
<1>8. PICK groups, heads : Grouped(last, groups, heads)
  <2> HIDE DEF Listed, Grouped
  <2>1. QED BY <1>5, <1>6
<1>9. ToSet(last.pending) = {}
  <2>1. Len(last.pending) = 0 BY <1>1, <1>7, LenProperties
  <2>2. last.pending = <<>> BY <1>7, <2>1, EmptySeq
  <2>3. QED BY <2>2 DEF ToSet
<1>10. QED BY <1>2, <1>6, <1>7, <1>8, <1>9

-----------------------------------------------------------------------------
(* Items that are alike for the loop make results that are alike.          *)

Listwise(L, s, t) == Len(s) = Len(t) /\ \A i \in 1 .. Len(s) : <<s[i], t[i]>> \in L

\* Duplicate and Join cannot tell alike results, and alike items, apart.
Respected(L, W, E) ==
    \A v, w \in W, d, e \in E :
        <<v, w>> \in L /\ <<d, e>> \in L =>
            /\ Duplicate(v, d) <=> Duplicate(w, e)
            /\ Duplicate(v, d) => <<Join(v, d), Join(w, e)>> \in L

AlikePasses(L, a, b) == <<a.current, b.current>> \in L /\ Listwise(L, a.retained, b.retained)

LEMMA AppendAlike ==
    ASSUME NEW L, NEW E, NEW s \in Seq(E), NEW t \in Seq(E), Listwise(L, s, t),
           NEW d \in E, NEW e \in E, <<d, e>> \in L
    PROVE  Listwise(L, Append(s, d), Append(t, e))
<1>1. PICK n \in Nat : n = Len(s) /\ n = Len(t) BY LenProperties DEF Listwise
<1>2. /\ Len(Append(s, d)) = n + 1 /\ Len(Append(t, e)) = n + 1
      /\ Append(s, d)[n + 1] = d /\ Append(t, e)[n + 1] = e
      /\ \A i \in 1 .. n : Append(s, d)[i] = s[i] /\ Append(t, e)[i] = t[i]
  <2>1. /\ Len(Append(s, d)) = Len(s) + 1 /\ Append(s, d)[Len(s) + 1] = d
        /\ \A i \in 1 .. Len(s) : Append(s, d)[i] = s[i]
    BY AppendAt
  <2>2. /\ Len(Append(t, e)) = Len(t) + 1 /\ Append(t, e)[Len(t) + 1] = e
        /\ \A i \in 1 .. Len(t) : Append(t, e)[i] = t[i]
    BY AppendAt
  <2>3. QED BY <1>1, <2>1, <2>2
<1>3. ASSUME NEW i \in 1 .. n + 1 PROVE <<Append(s, d)[i], Append(t, e)[i]>> \in L
  <2>1. CASE i \in 1 .. n
    <3>1. <<s[i], t[i]>> \in L BY <1>1, <2>1 DEF Listwise
    <3>2. Append(s, d)[i] = s[i] /\ Append(t, e)[i] = t[i] BY <1>2, <2>1
    <3>3. QED BY <3>1, <3>2
  <2>2. CASE i = n + 1 BY <1>2, <2>2
  <2>3. i \in 1 .. n \/ i = n + 1 OBVIOUS
  <2>4. QED BY <2>1, <2>2, <2>3
<1>4. QED BY <1>2, <1>3 DEF Listwise

LEMMA TookAlike ==
    ASSUME NEW W, NEW E, Grows(W, E), NEW L, Respected(L, W, E),
           NEW a \in [current : W, retained : Seq(E)], NEW b \in [current : W, retained : Seq(E)],
           AlikePasses(L, a, b), NEW d \in E, NEW e \in E, <<d, e>> \in L
    PROVE  /\ Took(a, d) \in [current : W, retained : Seq(E)]
           /\ Took(b, e) \in [current : W, retained : Seq(E)]
           /\ AlikePasses(L, Took(a, d), Took(b, e))
<1>1. ASSUME NEW v \in [current : W, retained : Seq(E)], NEW x \in E
      PROVE  /\ Took(v, x) \in [current : W, retained : Seq(E)]
             /\ Duplicate(v.current, x) => /\ Took(v, x).current = Join(v.current, x)
                                           /\ Took(v, x).retained = v.retained
             /\ ~Duplicate(v.current, x) => /\ Took(v, x).current = v.current
                                            /\ Took(v, x).retained = Append(v.retained, x)
  <2>1. PICK c \in W, r \in Seq(E) : c = v.current /\ r = v.retained
                                     /\ v = [current |-> c, retained |-> r]
    OBVIOUS
  <2>2. CASE Duplicate(c, x)
    <3>1. Join(c, x) \in W BY <2>2 DEF Grows
    <3>2. Took(v, x) = [current |-> Join(c, x), retained |-> r] BY <2>1, <2>2 DEF Took
    <3>3. QED BY <2>1, <2>2, <3>1, <3>2
  <2>3. CASE ~Duplicate(c, x)
    <3>1. PICK longer \in Seq(E) : longer = Append(r, x) BY AppendProperties
    <3>2. Took(v, x) = [current |-> c, retained |-> longer] BY <2>1, <2>3, <3>1 DEF Took
    <3>3. PICK y : y = Took(v, x) OBVIOUS
    <3>4. y.current = c /\ y.retained = longer /\ y \in [current : W, retained : Seq(E)]
      BY <3>2, <3>3
    <3>5. longer = Append(v.retained, x) BY <2>1, <3>1
    <3>6. QED BY <2>1, <2>3, <3>3, <3>4, <3>5
  <2>4. QED BY <2>2, <2>3
<1>2. /\ a.current \in W /\ b.current \in W /\ a.retained \in Seq(E) /\ b.retained \in Seq(E)
      /\ <<a.current, b.current>> \in L /\ Listwise(L, a.retained, b.retained)
  BY DEF AlikePasses
<1>3. /\ Duplicate(a.current, d) <=> Duplicate(b.current, e)
      /\ Duplicate(a.current, d) => <<Join(a.current, d), Join(b.current, e)>> \in L
  BY <1>2 DEF Respected
<1>4. CASE Duplicate(a.current, d) BY <1>1, <1>2, <1>3, <1>4 DEF AlikePasses
<1>5. CASE ~Duplicate(a.current, d)
  <2>1. Listwise(L, Append(a.retained, d), Append(b.retained, e)) BY <1>2, AppendAlike
  <2>2. QED BY <1>1, <1>2, <1>3, <1>5, <2>1 DEF AlikePasses
<1>6. QED BY <1>1, <1>4, <1>5

LEMMA PassesAlike ==
    ASSUME NEW W, NEW E, Grows(W, E), NEW L, Respected(L, W, E),
           NEW v \in W, NEW w \in W, <<v, w>> \in L,
           NEW s \in Seq(E), NEW t \in Seq(E), Listwise(L, s, t)
    PROVE  AlikePasses(L, Pass(v, s), Pass(w, t))
<1> DEFINE V == [current : W, retained : Seq(E)]
<1>1. PICK n \in Nat : n = Len(s) /\ n = Len(t) BY LenProperties DEF Listwise
<1>2. PICK g : /\ g[0] = [current |-> v, retained |-> <<>>]
               /\ \A k \in 1 .. n : g[k] = Took(g[k - 1], s[k])
               /\ Pass(v, s) = g[n]
  <2>1. \E h : /\ h[0] = [current |-> v, retained |-> <<>>]
               /\ \A k \in 1 .. Len(s) : h[k] = Took(h[k - 1], s[k])
               /\ Pass(v, s) = h[Len(s)]
    BY PassTrace
  <2>2. QED BY <1>1, <2>1
<1>3. PICK h : /\ h[0] = [current |-> w, retained |-> <<>>]
               /\ \A k \in 1 .. n : h[k] = Took(h[k - 1], t[k])
               /\ Pass(w, t) = h[n]
  <2>1. \E f : /\ f[0] = [current |-> w, retained |-> <<>>]
               /\ \A k \in 1 .. Len(t) : f[k] = Took(f[k - 1], t[k])
               /\ Pass(w, t) = f[Len(t)]
    BY PassTrace
  <2>2. QED BY <1>1, <2>1
<1>4. PICK T : T = {k \in 0 .. n : g[k] \in V /\ h[k] \in V /\ AlikePasses(L, g[k], h[k])} OBVIOUS
<1>5. 0 \in T
  <2>1. PICK a, b : a = g[0] /\ b = h[0] OBVIOUS
  <2>2. /\ a.current = v /\ b.current = w /\ a.retained = <<>> /\ b.retained = <<>>
        /\ a \in V /\ b \in V
    BY <1>2, <1>3, <2>1
  <2>3. Listwise(L, <<>>, <<>>) BY DEF Listwise
  <2>4. AlikePasses(L, a, b) BY <2>2, <2>3 DEF AlikePasses
  <2>5. QED BY <1>4, <2>1, <2>2, <2>4
<1>6. ASSUME NEW l \in 0 .. n - 1, l \in T PROVE l + 1 \in T
  <2>1. PICK k \in 1 .. n : k = l + 1 /\ l = k - 1 OBVIOUS
  <2>2. PICK a \in V, b \in V : a = g[l] /\ b = h[l] /\ AlikePasses(L, a, b) BY <1>4, <1>6
  <2>3. PICK d \in E, e \in E : d = s[k] /\ e = t[k] BY <1>1, ElementOfSeq
  <2>4. <<d, e>> \in L BY <1>1, <2>3 DEF Listwise
  <2>5. Took(a, d) \in V /\ Took(b, e) \in V /\ AlikePasses(L, Took(a, d), Took(b, e))
    BY <2>2, <2>4, TookAlike
  <2>6. g[k] = Took(a, d) /\ h[k] = Took(b, e) BY <1>2, <1>3, <2>1, <2>2, <2>3
  <2>7. QED BY <1>4, <2>1, <2>5, <2>6
<1>7. n \in T
  <2>1. 0 .. n \subseteq T BY <1>5, <1>6, UpTo
  <2>2. QED BY <2>1
<1>8. QED BY <1>2, <1>3, <1>4, <1>7

LEMMA GroupsAlike ==
    ASSUME NEW E, NEW M, Makes(M, E), NEW L, Respected(L, {m[1] : m \in M}, E),
           NEW v \in {m[1] : m \in M}, NEW w \in {m[1] : m \in M}, <<v, w>> \in L,
           NEW s \in Seq(E), NEW t \in Seq(E), Listwise(L, s, t)
    PROVE  AlikePasses(L, Group(v, s), Group(w, t))
<1>1. PICK W : W = {m[1] : m \in M} OBVIOUS
<1>2. PICK V : V = [current : W, retained : Seq(E)] OBVIOUS
<1>3. Grows(W, E) BY <1>1, MakesGrows
<1>4. PICK n \in Nat : n = Len(s) /\ n = Len(t) BY LenProperties DEF Listwise
<1>5. PICK g : /\ g[0] = [current |-> v, retained |-> s]
               /\ \A k \in 1 .. n : g[k] = Pass(g[k - 1].current, g[k - 1].retained)
               /\ Group(v, s) = g[n]
  <2>1. \E f : /\ f[0] = [current |-> v, retained |-> s]
               /\ \A k \in 1 .. Len(s) : f[k] = Pass(f[k - 1].current, f[k - 1].retained)
               /\ Group(v, s) = f[Len(s)]
    BY GroupTrace
  <2>2. QED BY <1>4, <2>1
<1>6. PICK h : /\ h[0] = [current |-> w, retained |-> t]
               /\ \A k \in 1 .. n : h[k] = Pass(h[k - 1].current, h[k - 1].retained)
               /\ Group(w, t) = h[n]
  <2>1. \E f : /\ f[0] = [current |-> w, retained |-> t]
               /\ \A k \in 1 .. Len(t) : f[k] = Pass(f[k - 1].current, f[k - 1].retained)
               /\ Group(w, t) = f[Len(t)]
    BY GroupTrace
  <2>2. QED BY <1>4, <2>1
<1>7. PICK T : T = {k \in 0 .. n : g[k] \in V /\ h[k] \in V /\ AlikePasses(L, g[k], h[k])} OBVIOUS
<1>8. 0 \in T
  <2>1. PICK a, b : a = g[0] /\ b = h[0] OBVIOUS
  <2>2. /\ a.current = v /\ b.current = w /\ a.retained = s /\ b.retained = t
        /\ a \in V /\ b \in V
    BY <1>1, <1>2, <1>5, <1>6, <2>1
  <2>3. AlikePasses(L, a, b) BY <2>2 DEF AlikePasses
  <2>4. QED BY <1>7, <2>1, <2>2, <2>3
<1>9. ASSUME NEW l \in 0 .. n - 1, l \in T PROVE l + 1 \in T
  <2>1. PICK k \in 1 .. n : k = l + 1 /\ l = k - 1 OBVIOUS
  <2>2. PICK a \in V, b \in V : a = g[l] /\ b = h[l] /\ AlikePasses(L, a, b) BY <1>7, <1>9
  <2>3. /\ a.current \in W /\ a.retained \in Seq(E) /\ b.current \in W /\ b.retained \in Seq(E)
        /\ <<a.current, b.current>> \in L /\ Listwise(L, a.retained, b.retained)
    BY <1>2, <2>2 DEF AlikePasses
  <2>4. g[k] = Pass(a.current, a.retained) /\ h[k] = Pass(b.current, b.retained)
    BY <1>5, <1>6, <2>1, <2>2
  <2>5. g[k] \in V /\ h[k] \in V
    <3>1. ASSUME NEW x \in W, NEW p \in Seq(E) PROVE Pass(x, p) \in V
      BY <1>1, <1>2, PassTyped
    <3>2. QED BY <2>3, <2>4, <3>1
  <2>6. AlikePasses(L, g[k], h[k]) BY <1>1, <1>3, <2>3, <2>4, PassesAlike
  <2>7. QED BY <1>7, <2>1, <2>5, <2>6
<1>10. n \in T
  <2>1. 0 .. n \subseteq T BY <1>8, <1>9, UpTo
  <2>2. QED BY <2>1
<1>11. QED BY <1>5, <1>6, <1>7, <1>10

\* A group is of the results, and leaves items.
LEMMA GroupTyped ==
    ASSUME NEW E, NEW M, Makes(M, E), NEW current \in {m[1] : m \in M}, NEW pending \in Seq(E)
    PROVE  Group(current, pending).current \in {m[1] : m \in M}
<1>1. PICK m \in M : current = m[1] OBVIOUS
<1>2. <<current, m[2]>> \in M BY <1>1 DEF Makes
<1>3. PICK R : R = E \X E OBVIOUS
<1>4. InOrder(pending, R)
  <2>1. \A i \in 1 .. Len(pending) : pending[i] \in E BY ElementOfSeq
  <2>2. QED BY <1>3, <2>1 DEF InOrder
<1>5. \E D : <<Group(current, pending).current, m[2] \cup D>> \in M
  BY <1>2, <1>4, GroupAccounts
<1>6. QED BY <1>5, MakesGrows

LEMMA EmptyAlike ==
    ASSUME NEW E, NEW L, NEW s \in Seq(E), NEW t \in Seq(E), Listwise(L, s, t)
    PROVE  s = <<>> <=> t = <<>>
<1>1. PICK n \in Nat : n = Len(s) /\ n = Len(t) BY LenProperties DEF Listwise
<1>2. QED BY <1>1, EmptySeq

LEMMA TailsAlike ==
    ASSUME NEW E, NEW L, NEW s \in Seq(E), NEW t \in Seq(E), Listwise(L, s, t)
    PROVE  s # <<>> => <<Head(s), Head(t)>> \in L /\ Listwise(L, Tail(s), Tail(t))
<1>1. PICK n \in Nat : n = Len(s) /\ n = Len(t) BY LenProperties DEF Listwise
<1>2. s = <<>> <=> t = <<>> BY EmptyAlike
<1>3. ASSUME s # <<>>
      PROVE  <<Head(s), Head(t)>> \in L /\ Listwise(L, Tail(s), Tail(t))
  <2>1. n # 0
    <3>1. Len(s) = 0 => s = <<>> BY EmptySeq
    <3>2. QED BY <1>1, <1>3, <3>1
  <2>2. ASSUME NEW list \in Seq(E), Len(list) = n, list # <<>>
        PROVE  /\ Head(list) = list[1] /\ Len(Tail(list)) = n - 1
               /\ \A i \in 1 .. n - 1 : Tail(list)[i] = list[i + 1]
    BY <2>2, HeadTailProperties
  <2>3. 1 \in 1 .. n /\ \A i \in 1 .. n - 1 : i + 1 \in 1 .. n BY <1>1, <2>1
  <2>4. \A i \in 1 .. n : <<s[i], t[i]>> \in L BY <1>1 DEF Listwise
  <2>5. <<Head(s), Head(t)>> \in L BY <1>1, <1>2, <1>3, <2>2, <2>3, <2>4
  <2>6. \A i \in 1 .. n - 1 : <<Tail(s)[i], Tail(t)[i]>> \in L
    BY <1>1, <1>2, <1>3, <2>2, <2>3, <2>4
  <2>7. Len(Tail(s)) = n - 1 /\ Len(Tail(t)) = n - 1 BY <1>1, <1>2, <1>3, <2>2
  <2>8. QED BY <2>5, <2>6, <2>7 DEF Listwise
<1>4. QED BY <1>3

\* The loop that sahi.py and projection.py share: from two lists whose items are
\* alike, place by place, come results that are alike, place by place.
THEOREM AlikeAreMergedAlike ==
    ASSUME NEW E, NEW M, Makes(M, E), NEW L, Respected(L, {m[1] : m \in M}, E),
           NEW s \in Seq(E), NEW t \in Seq(E), Listwise(L, s, t)
    PROVE  Listwise(L, Merged(s), Merged(t))
<1>1. PICK W : W = {m[1] : m \in M} OBVIOUS
<1>2. PICK V : V = [finished : Seq(W), pending : Seq(E)] OBVIOUS
<1> DEFINE Alike(a, b) == Listwise(L, a.finished, b.finished) /\ Listwise(L, a.pending, b.pending)
<1>3. PICK n \in Nat : n = Len(s) /\ n = Len(t) BY LenProperties DEF Listwise
<1>4. PICK g : /\ g[0] = [finished |-> <<>>, pending |-> s]
               /\ \A k \in 1 .. n : g[k] = Finished(g[k - 1])
               /\ Merged(s) = g[n].finished
  <2>1. \E f : /\ f[0] = [finished |-> <<>>, pending |-> s]
               /\ \A k \in 1 .. Len(s) : f[k] = Finished(f[k - 1])
               /\ Merged(s) = f[Len(s)].finished
    BY MergedTrace
  <2>2. QED BY <1>3, <2>1
<1>5. PICK h : /\ h[0] = [finished |-> <<>>, pending |-> t]
               /\ \A k \in 1 .. n : h[k] = Finished(h[k - 1])
               /\ Merged(t) = h[n].finished
  <2>1. \E f : /\ f[0] = [finished |-> <<>>, pending |-> t]
               /\ \A k \in 1 .. Len(t) : f[k] = Finished(f[k - 1])
               /\ Merged(t) = f[Len(t)].finished
    BY MergedTrace
  <2>2. QED BY <1>3, <2>1
<1>6. PICK T : T = {k \in 0 .. n : g[k] \in V /\ h[k] \in V /\ Alike(g[k], h[k])} OBVIOUS
<1>7. 0 \in T
  <2>1. PICK a, b : a = g[0] /\ b = h[0] OBVIOUS
  <2>2. /\ a.finished = <<>> /\ b.finished = <<>> /\ a.pending = s /\ b.pending = t
    BY <1>4, <1>5, <2>1
  <2>3. <<>> \in Seq(W) BY EmptySeq
  <2>4. a \in V /\ b \in V BY <1>2, <1>4, <1>5, <2>1, <2>3
  <2>5. Listwise(L, <<>>, <<>>) BY DEF Listwise
  <2>6. Alike(a, b) BY <2>2, <2>5
  <2> HIDE DEF Alike
  <2>7. QED BY <1>6, <2>1, <2>4, <2>6
<1>8. ASSUME NEW l \in 0 .. n - 1, l \in T PROVE l + 1 \in T
  <2>1. PICK k \in 1 .. n : k = l + 1 /\ l = k - 1 OBVIOUS
  <2>2. PICK a \in V, b \in V : a = g[l] /\ b = h[l] /\ Alike(a, b) 
    <3> HIDE DEF Alike
    <3>1. QED BY <1>6, <1>8
  <2>3. /\ a.finished \in Seq(W) /\ b.finished \in Seq(W)
        /\ a.pending \in Seq(E) /\ b.pending \in Seq(E)
        /\ Listwise(L, a.finished, b.finished) /\ Listwise(L, a.pending, b.pending)
    BY <1>2, <2>2
  <2>4. g[k] = Finished(a) /\ h[k] = Finished(b) BY <1>4, <1>5, <2>1, <2>2
  <2>5. g[k] \in V /\ h[k] \in V BY <1>1, <1>2, <2>2, <2>4, FinishedTyped
  <2>6. CASE a.pending = <<>>
    <3>1. b.pending = <<>>
      <4>1. PICK p \in Seq(E), q \in Seq(E) :
               p = a.pending /\ q = b.pending /\ Listwise(L, p, q)
        BY <2>3
      <4>2. p = <<>> <=> q = <<>> BY <4>1, EmptyAlike
      <4>3. QED BY <2>6, <4>1, <4>2
    <3>2. Finished(a) = a /\ Finished(b) = b BY <2>6, <3>1 DEF Finished
    <3> HIDE DEF Alike
    <3>3. QED BY <1>6, <2>1, <2>2, <2>4, <2>5, <3>2
  <2>7. CASE a.pending # <<>>
    <3>1. PICK c, d, p, q :
             c = Head(a.pending) /\ d = Head(b.pending) /\ p = Tail(a.pending) /\ q = Tail(b.pending)
      OBVIOUS
    <3>2. b.pending # <<>> /\ <<c, d>> \in L /\ Listwise(L, p, q)
      <4>1. PICK x \in Seq(E), y \in Seq(E) :
               x = a.pending /\ y = b.pending /\ Listwise(L, x, y)
        BY <2>3
      <4>2. x = <<>> <=> y = <<>> BY <4>1, EmptyAlike
      <4>3. x # <<>> => <<Head(x), Head(y)>> \in L /\ Listwise(L, Tail(x), Tail(y))
        BY <4>1, TailsAlike
      <4>4. QED BY <2>7, <3>1, <4>1, <4>2, <4>3
    <3>3. c \in E /\ d \in E /\ p \in Seq(E) /\ q \in Seq(E)
      BY <2>3, <2>7, <3>1, <3>2, HeadAndTail
    <3>4. c \in W /\ d \in W
      <4>1. Grows(W, E) BY <1>1, MakesGrows
      <4>2. QED BY <3>3, <4>1 DEF Grows
    <3>5. PICK x, y : x = Group(c, p) /\ y = Group(d, q) OBVIOUS
    <3>6. AlikePasses(L, x, y) BY <1>1, <3>2, <3>3, <3>4, <3>5, GroupsAlike
    <3>7. /\ Finished(a) = [finished |-> Append(a.finished, x.current), pending |-> x.retained]
          /\ Finished(b) = [finished |-> Append(b.finished, y.current), pending |-> y.retained]
      BY <2>7, <3>1, <3>2, <3>5 DEF Finished
    <3>8. x.current \in W /\ y.current \in W BY <1>1, <3>3, <3>4, <3>5, GroupTyped
    <3>9. Listwise(L, Append(a.finished, x.current), Append(b.finished, y.current))
      BY <2>3, <3>6, <3>8, AppendAlike DEF AlikePasses
    <3>10. Alike(g[k], h[k]) BY <2>4, <3>6, <3>7, <3>9 DEF AlikePasses
    <3> HIDE DEF Alike
    <3>11. QED BY <1>6, <2>1, <2>5, <3>10
  <2>8. QED BY <2>6, <2>7
<1>9. n \in T
  <2>1. 0 .. n \subseteq T BY <1>7, <1>8, UpTo
  <2>2. QED BY <2>1
<1>10. Alike(g[n], h[n])
  <2> HIDE DEF Alike
  <2>1. QED BY <1>6, <1>9
<1>11. QED BY <1>4, <1>5, <1>10
===============================================================================
