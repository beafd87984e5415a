------------------------------ MODULE ImagingProofs ------------------------------
(***************************************************************************)
(* Theorems about the algorithms around images, for every size of frame,   *)
(* slice, tile and batch and every number of frames, joins, detections and *)
(* predictions.  Each states a definition of the module it is about, which *)
(* ArtifactProofs then takes to the instances of the run.                  *)
(***************************************************************************)
EXTENDS ModelBundle, Slices, DiscPredictions, CycleJoins, DiscCalibration, DiscCanvas,
        CenterOpening, FiniteSetTheorems, SequenceTheorems, WellFoundedInduction, TLAPS

-----------------------------------------------------------------------------
(* Quotients and remainders.                                               *)

LEMMA Division ==
    ASSUME NEW a \in Nat, NEW b \in Nat \ {0}
    PROVE  /\ a \div b \in Nat /\ a % b \in 0 .. b - 1
           /\ a = b * (a \div b) + (a % b)
OBVIOUS

LEMMA DivisionUnique ==
    ASSUME NEW a \in Nat, NEW b \in Nat \ {0}, NEW q \in Nat, NEW r \in 0 .. b - 1,
           a = b * q + r
    PROVE  a \div b = q /\ a % b = r
OBVIOUS

LEMMA ProductsOrdered ==
    ASSUME NEW a \in Nat, NEW b \in Nat, NEW c \in Nat, a <= b
    PROVE  a * c <= b * c
OBVIOUS

LEMMA BatchCount ==
    ASSUME NEW n \in Nat, NEW size \in Nat \ {0}
    PROVE  (n + size - 1) \div size \in Nat
<1>1. n + size - 1 \in Nat OBVIOUS
<1>2. QED BY <1>1, Division

\* The windows are enough for the batches before the one with number b, and
\* something is left for it.
LEMMA BatchesNeeded ==
    ASSUME NEW n \in Nat, NEW size \in Nat \ {0},
           NEW b \in 1 .. (n + size - 1) \div size
    PROVE  (b - 1) * size < n
<1> DEFINE q == (n + size - 1) \div size
<1>1. q \in Nat /\ q * size <= n + size - 1 BY Division
<1>2. b * size <= q * size BY <1>1, ProductsOrdered
<1>3. b * size = (b - 1) * size + size OBVIOUS
<1>4. QED BY <1>1, <1>2, <1>3

-----------------------------------------------------------------------------
(* The batches of a bundle.                                                *)

\* A batch that is not full is the last one and has what is left.
LEMMA ShortBatch ==
    ASSUME NEW n \in Nat, NEW size \in Nat \ {0},
           NEW b \in 1 .. (n + size - 1) \div size, b * size > n
    PROVE  b = n \div size + 1 /\ n % size \in 1 .. size - 1
<1>1. (b - 1) * size < n BY BatchesNeeded
<1>2. b * size = (b - 1) * size + size OBVIOUS
<1>3. b \in Nat \ {0} /\ (b - 1) * size \in Nat BY BatchCount
<1>4. PICK r \in 1 .. size - 1 : n = (b - 1) * size + r
  BY <1>1, <1>2, <1>3
<1>5. n \div size = b - 1 /\ n % size = r BY <1>3, <1>4, DivisionUnique
<1>6. QED BY <1>3, <1>4, <1>5

\* import, OnnxWorkerConfiguration and SahiExecutionConfiguration check a
\* bundle in three places.  Of one that was imported they ask the same, but for
\* the overlap and the batch dimension, and _validate_input then refuses no
\* batch of a frame but a short last one, when the batch dimension is fixed:
\* for any number of windows and any batch size.
THEOREM ImportedBundlesRun ==
    ASSUME NEW bundle, bundle.batch \in Nat,
           NEW size \in Nat \ {0}, NEW windows \in Nat
    PROVE  Runs(bundle, size, windows)
<1> DEFINE sizes == BatchSizes(windows, size)
           refused == {i \in DOMAIN sizes : ~AcceptsBatch(bundle, size, sizes[i])}
           short == {i \in DOMAIN sizes : bundle.batch # Dynamic /\ i * size > windows}
           worker == WorkerConfigured(bundle, size)
<1> SUFFICES ASSUME Imported(bundle)
             PROVE  /\ worker /\ bundle.overlap = "half" => SlicingConfigured(bundle, size)
                    /\ SlicingConfigured(bundle, size) /\ bundle.inputs = 1 /\ bundle.channels = 3
                          => (worker <=> bundle.batch \in {Dynamic, size})
                    /\ worker => refused = short /\ Cardinality(refused) <= 1
  BY DEF Runs
<1>1. bundle.prepared = bundle.element BY DEF Imported, Consistent
<1>2. worker /\ bundle.overlap = "half" => SlicingConfigured(bundle, size)
  BY <1>1 DEF WorkerConfigured, SlicingConfigured
<1>3. SlicingConfigured(bundle, size) /\ bundle.inputs = 1 /\ bundle.channels = 3
         => (worker <=> bundle.batch \in {Dynamic, size})
  BY <1>1 DEF WorkerConfigured, SlicingConfigured
<1>4. DOMAIN sizes = 1 .. (windows + size - 1) \div size BY DEF BatchSizes
<1>5. (windows + size - 1) \div size \in Nat BY BatchCount
<1>6. ASSUME worker PROVE refused = short
  <2>1. ASSUME NEW i \in DOMAIN sizes
        PROVE  AcceptsBatch(bundle, size, sizes[i])
                  <=> bundle.batch = Dynamic \/ i * size <= windows
    <3>1. i \in 1 .. (windows + size - 1) \div size BY <1>4
    <3>2. bundle.batch # Dynamic => bundle.batch = size BY <1>6 DEF WorkerConfigured
    <3>3. CASE i * size <= windows
      <4>1. sizes[i] = size BY <3>1, <3>3 DEF BatchSizes
      <4>2. QED BY <3>2, <3>3, <4>1 DEF AcceptsBatch
    <3>4. CASE i * size > windows
      <4>1. sizes[i] = windows % size BY <1>5, <3>1, <3>4 DEF BatchSizes
      <4>2. windows % size \in 1 .. size - 1 BY <3>1, <3>4, ShortBatch
      <4>3. ~(i * size <= windows) BY <1>5, <3>1, <3>4
      <4>4. QED BY <3>2, <4>1, <4>2, <4>3 DEF AcceptsBatch
    <3>5. QED BY <1>5, <3>1, <3>3, <3>4
  <2>2. \A i \in DOMAIN sizes : ~(i * size <= windows) <=> i * size > windows
    BY <1>4, <1>5
  <2>3. QED BY <2>1, <2>2
<1>7. ASSUME worker PROVE Cardinality(refused) <= 1
  <2>1. refused \subseteq {windows \div size + 1}
    BY <1>4, <1>6, <1>7, ShortBatch
  <2>2. IsFiniteSet({windows \div size + 1}) /\ Cardinality({windows \div size + 1}) = 1
    BY FS_Singleton
  <2>3. Cardinality(refused) <= Cardinality({windows \div size + 1})
    BY <2>1, <2>2, FS_Subset
  <2>4. QED BY <2>2, <2>3
<1>8. QED BY <1>2, <1>3, <1>6, <1>7

-----------------------------------------------------------------------------
(* The positions along one axis.                                           *)

LEMMA LeastOfTwo ==
    ASSUME NEW a \in Int, NEW b \in Int
    PROVE  Least(a, b) = IF a <= b THEN a ELSE b
<1>1. ASSUME NEW c \in {a, b}, \A x \in {a, b} : c <= x
      PROVE  c = IF a <= b THEN a ELSE b
  BY <1>1
<1>2. \E c \in {a, b} : \A x \in {a, b} : c <= x OBVIOUS
<1>3. QED BY <1>1, <1>2 DEF Least, Min

\* Pixel x is in the slice at position p of an axis.
InSlice(x, p, length) == x \in p .. p + Least(SliceSize, length - p) - 1

LEMMA InSliceIs ==
    ASSUME SliceSize \in Nat, NEW length \in Nat, NEW p \in Nat, NEW x \in 0 .. length - 1,
           p <= x, x < p + SliceSize
    PROVE  InSlice(x, p, length)
<1>1. Least(SliceSize, length - p) = IF SliceSize <= length - p THEN SliceSize ELSE length - p
  BY LeastOfTwo
<1>2. QED BY <1>1 DEF InSlice

\* Positions that cover an axis of a length, all of them on it and different.
CoversAxis(ps, length) ==
    /\ ps \in Seq(Nat) /\ ps # <<>>
    /\ \A x \in 0 .. length - 1 : \E i \in 1 .. Len(ps) : InSlice(x, ps[i], length)
    /\ \A i \in 1 .. Len(ps) : ps[i] < length
    /\ \A i, j \in 1 .. Len(ps) : ps[i] = ps[j] => i = j

\* Every regular position is there, and the last one ends at the far edge.
LEMMA AxisCovered ==
    ASSUME SliceSize \in Nat \ {0, 1}, NEW length \in Nat \ {0}
    PROVE  CoversAxis(AxisPositions(length), length)
<1>1. CASE length <= SliceSize
  <2>1. AxisPositions(length) = <<0>> BY <1>1 DEF AxisPositions
  <2>2. \A x \in 0 .. length - 1 : InSlice(x, 0, length) BY <1>1, InSliceIs
  <2>3. QED BY <2>1, <2>2 DEF CoversAxis
<1>2. CASE length > SliceSize
  <2> DEFINE s == SliceSize \div 2
             final == length - SliceSize
             q == final \div s
             regular == [i \in 1 .. q + 1 |-> (i - 1) * s]
             ps == AxisPositions(length)
  <2>1. /\ s \in Nat \ {0} /\ s <= SliceSize
        /\ final \in Nat \ {0}
    BY <1>2
  <2>2. q \in Nat /\ q * s <= final /\ final < (q + 1) * s
    <3>1. q \in Nat /\ final % s \in 0 .. s - 1 /\ final = s * q + (final % s)
      BY <2>1, Division
    <3>2. s * q = q * s /\ (q + 1) * s = q * s + s /\ q * s \in Nat BY <2>1, <3>1
    <3>3. QED BY <2>1, <3>1, <3>2
  <2> HIDE DEF s, q
  <2>3. ASSUME NEW k \in 0 .. q PROVE k * s \in Nat /\ k * s <= final
    <3>1. k * s <= q * s BY <2>1, <2>2, <2>3, ProductsOrdered
    <3>2. k * s \in Nat /\ q * s \in Nat BY <2>1, <2>2, <2>3
    <3>3. QED BY <2>1, <2>2, <3>1, <3>2
  <2>4. ASSUME NEW k \in 0 .. q, NEW m \in 0 .. q, k * s = m * s PROVE k = m
    BY <2>1, <2>2, <2>4
  <2>5. regular \in Seq(Nat) /\ Len(regular) = q + 1
    <3>1. \A i \in 1 .. q + 1 : i - 1 \in 0 .. q BY <2>2
    <3>2. regular \in [1 .. q + 1 -> Nat] BY <2>3, <3>1
    <3>3. QED BY <2>2, <3>2, SeqDef, LenProperties
  <2>6. Last(regular) = q * s BY <2>2, <2>5 DEF Last
  <2>7. /\ ps \in Seq(Nat)
        /\ q + 1 <= Len(ps) /\ Len(ps) \in Nat
        /\ \A i \in 1 .. q + 1 : ps[i] = (i - 1) * s
        /\ ps[Len(ps)] = final
        /\ Len(ps) # q + 1 => Len(ps) = q + 2 /\ q * s # final
    <3>1. CASE q * s = final
      <4>1. ps = regular BY <1>2, <2>6, <3>1 DEF AxisPositions, s, q
      <4>2. QED BY <2>2, <2>5, <3>1, <4>1
    <3>2. CASE q * s # final
      <4>1. ps = Append(regular, final) BY <1>2, <2>6, <3>2 DEF AxisPositions, s, q
      <4>2. QED BY <2>1, <2>2, <2>5, <3>2, <4>1, AppendProperties
    <3>3. QED BY <3>1, <3>2
  <2> HIDE DEF regular, ps
  <2>8. ASSUME NEW x \in 0 .. length - 1
        PROVE  \E i \in 1 .. Len(ps) : InSlice(x, ps[i], length)
    <3> DEFINE k == x \div s
    <3>1. k \in Nat /\ k * s <= x /\ x < k * s + s
      <4>1. k \in Nat /\ x % s \in 0 .. s - 1 /\ x = s * k + (x % s)
        <5>1. x \in Nat OBVIOUS
        <5>2. QED BY <2>1, <5>1, Division
      <4>2. s * k = k * s /\ k * s \in Nat BY <2>1, <4>1
      <4>3. QED BY <2>1, <4>1, <4>2
    <3> HIDE DEF k
    <3>2. CASE k <= q
      <4>1. k + 1 \in 1 .. Len(ps) /\ ps[k + 1] = k * s BY <2>2, <2>7, <3>1, <3>2
      <4>2. k * s \in Nat BY <2>3, <3>1, <3>2
      <4>3. InSlice(x, k * s, length) BY <2>1, <3>1, <4>2, InSliceIs
      <4>4. QED BY <4>1, <4>3
    <3>3. CASE k > q
      <4>1. (q + 1) * s <= k * s BY <2>1, <2>2, <3>1, <3>3, ProductsOrdered
      <4>2. (q + 1) * s \in Nat /\ k * s \in Nat BY <2>1, <2>2, <3>1
      <4>3. final <= x BY <2>1, <2>2, <3>1, <4>1, <4>2
      <4>4. InSlice(x, final, length) BY <2>1, <4>3, InSliceIs
      <4>5. QED BY <2>2, <2>7, <4>4
    <3>4. QED BY <2>2, <3>1, <3>2, <3>3
  <2>9. ASSUME NEW i \in 1 .. Len(ps) PROVE ps[i] <= final
    <3>1. CASE i <= q + 1
      <4>1. i - 1 \in 0 .. q /\ ps[i] = (i - 1) * s BY <2>2, <2>7, <3>1
      <4>2. QED BY <2>3, <4>1
    <3>2. CASE i > q + 1 BY <2>1, <2>2, <2>7, <3>2
    <3>3. QED BY <2>2, <3>1, <3>2
  <2>10. ASSUME NEW i \in 1 .. Len(ps), NEW j \in 1 .. Len(ps), ps[i] = ps[j], i < j
         PROVE  FALSE
    <3>1. i <= q + 1 BY <2>2, <2>7, <2>10
    <3>2. i - 1 \in 0 .. q /\ ps[i] = (i - 1) * s BY <2>2, <2>7, <3>1
    <3>3. CASE j <= q + 1
      <4>1. j - 1 \in 0 .. q /\ ps[j] = (j - 1) * s BY <2>2, <2>7, <3>3
      <4>2. i - 1 = j - 1 BY <2>4, <2>10, <3>2, <4>1
      <4>3. QED BY <2>7, <2>10, <4>2
    <3>4. CASE j > q + 1
      <4>1. ps[j] = final /\ q * s # final BY <2>2, <2>7, <3>4
      <4>2. (i - 1) * s <= q * s BY <2>1, <2>2, <3>2, ProductsOrdered
      <4>3. PICK a \in Nat : a = (i - 1) * s BY <2>1, <2>2, <3>2
      <4>4. PICK b \in Nat : b = q * s BY <2>1, <2>2
      <4>5. a = final /\ a <= b /\ b <= final /\ b # final
        BY <2>2, <2>10, <3>2, <4>1, <4>2, <4>3, <4>4
      <4>6. QED BY <2>1, <4>5
    <3>5. QED BY <2>2, <3>3, <3>4
  <2>11. \A i, j \in 1 .. Len(ps) : ps[i] = ps[j] => i = j BY <2>7, <2>10
  <2>12. ps # <<>> BY <2>2, <2>7
  <2>13. \A i \in 1 .. Len(ps) : ps[i] < length BY <2>1, <2>7, <2>9
  <2>14. QED BY <2>7, <2>8, <2>11, <2>12, <2>13 DEF CoversAxis, ps
<1>3. QED BY <1>1, <1>2

-----------------------------------------------------------------------------
(* The windows of a frame and their batches.                               *)

\* Counting row by row, column i of row j has a number.
Numbered(i, j, c, r) ==
    \E n \in 1 .. c * r : ((n - 1) % c) + 1 = i /\ ((n - 1) \div c) + 1 = j

\* Every number is that of one column and row ...
LEMMA PlaceOfNumber ==
    ASSUME NEW c \in Nat \ {0}, NEW r \in Nat, NEW n \in 1 .. c * r
    PROVE  /\ ((n - 1) % c) + 1 \in 1 .. c
           /\ ((n - 1) \div c) + 1 \in 1 .. r
           /\ n = (((n - 1) \div c) * c) + ((n - 1) % c) + 1
<1>1. n \in Nat \ {0} /\ n - 1 \in Nat /\ n <= c * r OBVIOUS
<1>2. PICK q \in Nat : q = (n - 1) \div c BY <1>1, Division
<1>3. PICK m \in 0 .. c - 1 : m = (n - 1) % c BY <1>1, Division
<1>4. n - 1 = (c * q) + m BY <1>1, <1>2, <1>3, Division
<1>5. c * q = q * c /\ q * c \in Nat /\ r * c = c * r OBVIOUS
<1>6. q < r
  <2>1. CASE r <= q
    <3>1. r * c <= q * c BY <2>1, ProductsOrdered
    <3>2. QED BY <1>1, <1>3, <1>4, <1>5, <3>1
  <2>2. QED BY <2>1
<1>7. n = (q * c) + m + 1 BY <1>1, <1>3, <1>4, <1>5
<1>8. QED BY <1>2, <1>3, <1>6, <1>7

\* ... and every column and row have a number.
LEMMA PlacesAreNumbered ==
    ASSUME NEW c \in Nat \ {0}, NEW r \in Nat, NEW i \in 1 .. c, NEW j \in 1 .. r
    PROVE  Numbered(i, j, c, r)
<1>1. PICK k \in Nat : k = c * (j - 1) OBVIOUS
<1>2. PICK n \in Nat : n = k + i BY <1>1
<1>3. n \in 1 .. c * r
  <2>1. j * c <= r * c BY ProductsOrdered
  <2>2. j * c = k + c BY <1>1
  <2>3. r * c = c * r /\ r * c \in Nat OBVIOUS
  <2>4. QED BY <1>2, <2>1, <2>2, <2>3
<1>4. n - 1 = (c * (j - 1)) + (i - 1) BY <1>1, <1>2
<1>5. (n - 1) \div c = j - 1 /\ (n - 1) % c = i - 1
  <2>1. n - 1 \in Nat /\ j - 1 \in Nat /\ i - 1 \in 0 .. c - 1 BY <1>1, <1>2
  <2>2. QED BY <1>4, <2>1, DivisionUnique
<1>6. ((n - 1) % c) + 1 = i /\ ((n - 1) \div c) + 1 = j BY <1>5
<1>7. QED BY <1>3, <1>6 DEF Numbered

LEMMA PlacesAreNumbers ==
    ASSUME NEW ps, NEW length, CoversAxis(ps, length)
    PROVE  Len(ps) \in Nat \ {0} /\ \A i \in 1 .. Len(ps) : ps[i] \in Nat
<1>1. ps \in Seq(Nat) /\ ps # <<>> BY DEF CoversAxis
<1>2. Len(ps) \in Nat /\ \A i \in 1 .. Len(ps) : ps[i] \in Nat BY <1>1, LenProperties
<1>3. Len(ps) # 0 BY <1>1, EmptySeq
<1>4. QED BY <1>2, <1>3

\* The half overlap, the anchored last position and the numbering row by row
\* leave no pixel of any frame out, whatever its size and that of the slices.
THEOREM FramesAreCovered ==
    ASSUME SliceSize \in Nat \ {0, 1}, NEW width \in Nat \ {0}, NEW height \in Nat \ {0}
    PROVE  FrameCovered(width, height)
<1> DEFINE xs == AxisPositions(width)
           ys == AxisPositions(height)
           windows == Windows(width, height)
           Column(n) == ((n - 1) % Len(xs)) + 1
           Row(n) == ((n - 1) \div Len(xs)) + 1
<1>1. CoversAxis(xs, width) /\ CoversAxis(ys, height) BY AxisCovered
<1>2. /\ Len(xs) \in Nat \ {0} /\ Len(ys) \in Nat \ {0}
      /\ \A i \in 1 .. Len(xs) : xs[i] \in Nat
      /\ \A j \in 1 .. Len(ys) : ys[j] \in Nat
  BY <1>1, PlacesAreNumbers
<1>3. windows = [n \in 1 .. Len(xs) * Len(ys) |->
                    Window(n - 1, xs[Column(n)], ys[Row(n)], width, height)]
  BY DEF Windows
<1> HIDE DEF xs, ys, windows
<1>4. ASSUME NEW n \in DOMAIN windows
      PROVE  /\ Column(n) \in 1 .. Len(xs) /\ Row(n) \in 1 .. Len(ys)
             /\ n = ((Row(n) - 1) * Len(xs)) + Column(n)
             /\ windows[n].x = xs[Column(n)]
             /\ windows[n].y = ys[Row(n)]
             /\ windows[n].width = Least(SliceSize, width - xs[Column(n)])
             /\ windows[n].height = Least(SliceSize, height - ys[Row(n)])
  <2>1. n \in 1 .. Len(xs) * Len(ys) BY <1>3
  <2>2. /\ Column(n) \in 1 .. Len(xs) /\ Row(n) \in 1 .. Len(ys)
        /\ n = (((n - 1) \div Len(xs)) * Len(xs)) + ((n - 1) % Len(xs)) + 1
    BY <1>2, <2>1, PlaceOfNumber
  <2>3. n = ((Row(n) - 1) * Len(xs)) + Column(n)
    <3>1. PICK c \in Nat \ {0} : c = Len(xs) BY <1>2
    <3>2. PICK a \in Nat : a = n - 1
      <4>1. PICK area \in Int : area = Len(xs) * Len(ys) BY <1>2
      <4>2. n \in 1 .. area BY <2>1, <4>1
      <4>3. QED BY <4>2
    <3>3. a \div c \in Nat /\ a % c \in 0 .. c - 1 BY Division
    <3>4. PICK q \in Nat : q = (n - 1) \div Len(xs) BY <3>1, <3>2, <3>3
    <3>5. PICK m \in Nat : m = (n - 1) % Len(xs) BY <3>1, <3>2, <3>3
    <3>6. Row(n) - 1 = q /\ Column(n) = m + 1 BY <3>4, <3>5
    <3>7. q * Len(xs) \in Nat BY <1>2
    <3>8. QED BY <2>2, <3>4, <3>5, <3>6, <3>7
  <2>4. windows[n] = Window(n - 1, xs[Column(n)], ys[Row(n)], width, height)
    BY <1>3, <2>1
  <2>5. QED BY <2>2, <2>3, <2>4 DEF Window
<1> HIDE DEF Column, Row
<1>5. ASSUME NEW x \in 0 .. width - 1, NEW y \in 0 .. height - 1
      PROVE  \E n \in DOMAIN windows :
                /\ x \in windows[n].x .. windows[n].x + windows[n].width - 1
                /\ y \in windows[n].y .. windows[n].y + windows[n].height - 1
  <2>1. PICK i \in 1 .. Len(xs) : InSlice(x, xs[i], width) BY <1>1 DEF CoversAxis
  <2>2. PICK j \in 1 .. Len(ys) : InSlice(y, ys[j], height) BY <1>1 DEF CoversAxis
  <2>3. PICK n \in 1 .. Len(xs) * Len(ys) :
           ((n - 1) % Len(xs)) + 1 = i /\ ((n - 1) \div Len(xs)) + 1 = j
    <3>1. Numbered(i, j, Len(xs), Len(ys)) BY <1>2, PlacesAreNumbered
    <3>2. QED BY <3>1 DEF Numbered
  <2>4. n \in DOMAIN windows BY <1>3
  <2>5. Column(n) = i /\ Row(n) = j BY <2>3 DEF Column, Row
  <2>6. QED BY <1>4, <2>1, <2>2, <2>4, <2>5 DEF InSlice
<1>6. ASSUME NEW n \in DOMAIN windows
      PROVE  /\ windows[n].x + windows[n].width <= width
             /\ windows[n].y + windows[n].height <= height
  <2>1. PICK p \in Nat : p = xs[Column(n)] BY <1>2, <1>4
  <2>2. PICK s \in Nat : s = ys[Row(n)] BY <1>2, <1>4
  <2>3. Least(SliceSize, width - p) <= width - p /\ Least(SliceSize, height - s) <= height - s
    BY LeastOfTwo
  <2>4. Least(SliceSize, width - p) \in Int /\ Least(SliceSize, height - s) \in Int
    BY LeastOfTwo
  <2>5. /\ windows[n].x = p /\ windows[n].width = Least(SliceSize, width - p)
        /\ windows[n].y = s /\ windows[n].height = Least(SliceSize, height - s)
    BY <1>4, <2>1, <2>2
  <2>6. QED BY <2>3, <2>4, <2>5
<1>7. ASSUME NEW m \in DOMAIN windows, NEW n \in DOMAIN windows,
             windows[m].x = windows[n].x, windows[m].y = windows[n].y
      PROVE  m = n
  <2>1. xs[Column(m)] = xs[Column(n)] /\ ys[Row(m)] = ys[Row(n)] BY <1>4, <1>7
  <2>2. Column(m) = Column(n) /\ Row(m) = Row(n) BY <1>1, <1>4, <2>1 DEF CoversAxis
  <2>3. QED BY <1>4, <2>2
<1>8. QED BY <1>5, <1>6, <1>7 DEF FrameCovered, windows

\* A batch holds the windows after the first k, one at the least, and stops
\* short of its size only at the end of them.
HoldsAfter(k, batch, windows, size) ==
    /\ Len(batch) \in 1 .. size
    /\ k + Len(batch) = Len(windows) \/ Len(batch) = size
    /\ \A i \in 1 .. Len(batch) :
          k + i \in DOMAIN windows /\ batch[i] = windows[k + i]

LEMMA BatchHolds ==
    ASSUME NEW S, NEW windows \in Seq(S), NEW size \in Nat \ {0}, NEW k \in Nat,
           NEW last \in Nat, last = Least(k + size, Len(windows)), k < Len(windows),
           NEW batch, batch = SubSeq(windows, k + 1, last)
    PROVE  HoldsAfter(k, batch, windows, size)
<1>1. Len(windows) \in Nat /\ DOMAIN windows = 1 .. Len(windows)
      /\ \A n \in 1 .. Len(windows) : windows[n] \in S
  BY LenProperties
<1>2. last = IF k + size <= Len(windows) THEN k + size ELSE Len(windows)
  BY <1>1, LeastOfTwo
<1>3. k + 1 \in Int /\ last \in Int /\ k + 1 <= last /\ last <= Len(windows) BY <1>1, <1>2
<1>4. \A n \in k + 1 .. last : windows[n] \in S BY <1>1, <1>3
<1>5. /\ Len(SubSeq(windows, k + 1, last)) = last - k
      /\ \A i \in 1 .. last - k : SubSeq(windows, k + 1, last)[i] = windows[k + i]
  BY <1>3, <1>4, SubSeqProperties
<1>6. Len(batch) = last - k BY <1>5
<1>7. /\ Len(batch) \in 1 .. size
      /\ k + Len(batch) = Len(windows) \/ Len(batch) = size
  <2>1. Len(windows) \in Nat BY <1>1
  <2>2. CASE k + size <= Len(windows)
    <3>1. last = k + size BY <1>2, <2>2
    <3>2. last - k = size BY <3>1
    <3>3. QED BY <1>6, <3>2
  <2>3. CASE ~(k + size <= Len(windows))
    <3>1. last = Len(windows) BY <1>2, <2>3
    <3>2. last - k \in 1 .. size /\ k + (last - k) = Len(windows) BY <2>1, <2>3, <3>1
    <3>3. QED BY <1>6, <3>2
  <2>4. QED BY <2>2, <2>3
<1>8. ASSUME NEW i \in 1 .. Len(batch)
      PROVE  k + i \in DOMAIN windows /\ batch[i] = windows[k + i]
  <2>1. i \in 1 .. last - k BY <1>6
  <2>2. batch[i] = windows[k + i] BY <1>5, <2>1
  <2>3. k + i \in 1 .. Len(windows) BY <1>1, <1>3, <2>1
  <2>4. QED BY <1>1, <2>2, <2>3
<1>9. QED BY <1>7, <1>8 DEF HoldsAfter

\* For any windows and any batch size, the batches hold the windows in their
\* order, each of them once, and none is empty or over the size.
THEOREM BatchesKeepOrder ==
    ASSUME NEW S, NEW windows \in Seq(S), NEW size \in Nat \ {0}
    PROVE  BatchedInOrder(windows, size)
<1> DEFINE total == Len(windows)
           count == (total + size - 1) \div size
           batches == Batches(windows, size)
<1>1. total \in Nat /\ DOMAIN windows = 1 .. total BY LenProperties
<1>2. DOMAIN batches = 1 .. count BY DEF Batches
<1>3. count \in Nat BY <1>1, BatchCount
<1> HIDE DEF total
<1>4. ASSUME NEW b \in 1 .. count, NEW k \in Nat, k = (b - 1) * size
      PROVE  HoldsAfter(k, batches[b], windows, size)
  <2>1. k < total BY <1>1, <1>4, BatchesNeeded
  <2>2. b * size = k + size BY <1>3, <1>4
  <2>3. PICK last \in Nat : last = Least(k + size, total)
    BY <1>1, LeastOfTwo
  <2>4. batches[b] = SubSeq(windows, k + 1, last) BY <1>4, <2>2, <2>3 DEF Batches, total
  <2> HIDE DEF batches
  <2>5. QED BY <2>1, <2>3, <2>4, BatchHolds DEF total
<1>5. ASSUME NEW n \in 1 .. total
      PROVE  \E b \in 1 .. count : \E i \in 1 .. Len(batches[b]) : n = (b - 1) * size + i
  <2>1. n - 1 \in Nat BY <1>1
  <2>2. PICK q \in Nat : q = (n - 1) \div size BY <2>1, Division
  <2>3. PICK m \in 0 .. size - 1 : m = (n - 1) % size BY <2>1, Division
  <2>4. n - 1 = (size * q) + m BY <2>1, <2>2, <2>3, Division
  <2>5. PICK k \in Nat : k = ((q + 1) - 1) * size OBVIOUS
  <2>6. n = k + (m + 1) /\ (q + 1) * size = k + size BY <1>1, <2>3, <2>4, <2>5
  <2>7. q + 1 \in 1 .. count
    <3>1. CASE count < q + 1
      <4>1. (count + 1) * size <= (q + 1) * size BY <1>3, <3>1, ProductsOrdered
      <4>2. total + size - 1 < (count + 1) * size
        <5>1. PICK a \in Nat : a = total + size - 1 BY <1>1
        <5>2. PICK r \in 0 .. size - 1 : a = (size * (a \div size)) + r BY <5>1, Division
        <5>3. a \div size = count BY <5>1
        <5> HIDE DEF count
        <5>4. (count + 1) * size = (size * count) + size /\ size * count \in Nat BY <1>3
        <5>5. QED BY <5>1, <5>2, <5>3, <5>4
      <4>3. (count + 1) * size \in Nat BY <1>3
      <4>4. QED BY <1>1, <2>3, <2>6, <4>1, <4>2, <4>3
    <3>2. QED BY <1>3, <3>1
  <2>8. m + 1 \in 1 .. Len(batches[q + 1])
    <3>1. Len(batches[q + 1]) \in 1 .. size
          /\ (k + Len(batches[q + 1]) = total \/ Len(batches[q + 1]) = size)
      BY <1>4, <2>5, <2>7 DEF HoldsAfter, total
    <3>2. QED BY <1>1, <2>3, <2>6, <3>1
  <2>9. n = ((q + 1) - 1) * size + (m + 1) BY <2>5, <2>6
  <2>10. QED BY <2>7, <2>8, <2>9
<1>6. ASSUME NEW b \in 1 .. count
      PROVE  /\ Len(batches[b]) \in 1 .. size
             /\ \A i \in 1 .. Len(batches[b]) :
                   /\ (b - 1) * size + i \in DOMAIN windows
                   /\ batches[b][i] = windows[(b - 1) * size + i]
  <2>1. PICK k \in Nat : k = (b - 1) * size BY <1>3
  <2>2. HoldsAfter(k, batches[b], windows, size) BY <1>4, <2>1
  <2>3. QED BY <2>1, <2>2 DEF HoldsAfter
<1> HIDE DEF batches, count
<1>7. QED BY <1>1, <1>2, <1>5, <1>6 DEF BatchedInOrder, batches

-----------------------------------------------------------------------------
(* Quotients, and functions that are sequences.                            *)

\* Quotients of numbers that are a divisor apart are different.
LEMMA QuotientGrows ==
    ASSUME NEW a \in Nat, NEW b \in Nat, NEW d \in Nat \ {0}, a + d <= b
    PROVE  (a \div d) + 1 <= b \div d
<1>1. PICK qa \in Nat : qa = a \div d BY Division
<1>2. PICK qb \in Nat : qb = b \div d BY Division
<1>3. PICK ra \in 0 .. d - 1 : a = (d * qa) + ra BY <1>1, Division
<1>4. PICK rb \in 0 .. d - 1 : b = (d * qb) + rb BY <1>2, Division
<1>5. CASE qb < qa + 1
  <2>1. qb * d <= qa * d BY <1>5, ProductsOrdered
  <2>2. qb * d = d * qb /\ qa * d = d * qa /\ d * qa \in Nat /\ d * qb \in Nat OBVIOUS
  <2>3. QED BY <1>3, <1>4, <2>1, <2>2
<1>6. QED BY <1>1, <1>2, <1>5

LEMMA Listing ==
    ASSUME NEW n \in Nat, NEW f, f = [i \in 1 .. n |-> f[i]]
    PROVE  Len(f) = n
<1>1. f \in [1 .. n -> {f[i] : i \in 1 .. n}] OBVIOUS
<1>2. f \in Seq({f[i] : i \in 1 .. n}) BY <1>1, SeqDef
<1>3. QED BY <1>1, <1>2, LenProperties

\* A listing of chosen places of a sequence.
LEMMA Chosen ==
    ASSUME NEW S, NEW s \in Seq(S), NEW n \in Nat, NEW f, f = [i \in 1 .. n |-> f[i]],
           \A i \in 1 .. n : \E k \in 1 .. Len(s) : f[i] = s[k]
    PROVE  f \in Seq(S) /\ Len(f) = n /\ DOMAIN f = 1 .. n /\ ToSet(f) \subseteq ToSet(s)
<1>1. Len(s) \in Nat /\ DOMAIN s = 1 .. Len(s) /\ \A k \in 1 .. Len(s) : s[k] \in S
  BY LenProperties
<1>2. \A i \in 1 .. n : f[i] \in S BY <1>1
<1>3. f \in [1 .. n -> S] BY <1>2
<1>4. f \in Seq(S) BY <1>3, SeqDef
<1>5. DOMAIN f = 1 .. n BY <1>3
<1>6. Len(f) = n BY <1>4, <1>5, LenProperties
<1>7. ToSet(f) \subseteq ToSet(s) BY <1>1, <1>5 DEF ToSet
<1>8. QED BY <1>4, <1>5, <1>6, <1>7
-----------------------------------------------------------------------------
(* How the evidence of a join is divided.                                  *)

\* The limits leave the first and the last place, and none twice.
LEMMA PlacesSpread ==
    ASSUME NEW length \in Nat, NEW maximum \in Nat \ {0, 1}, maximum < length,
           NEW i \in 1 .. maximum, NEW k, k = ((i - 1) * (length - 1)) \div (maximum - 1) + 1
    PROVE  /\ k \in 1 .. length
           /\ i = 1 => k = 1
           /\ i = maximum => k = length
           /\ \A j \in 1 .. maximum :
                j > i => k < ((j - 1) * (length - 1)) \div (maximum - 1) + 1
<1> DEFINE L == length - 1
           m == maximum - 1
           a == (i - 1) * L
<1>1. L \in Nat /\ m \in Nat \ {0} /\ m < L /\ a \in Nat OBVIOUS
<1>2. ASSUME NEW j \in 1 .. maximum, j > i
      PROVE  k < ((j - 1) * L) \div m + 1
  <2>1. i * L <= (j - 1) * L BY <1>1, <1>2, ProductsOrdered
  <2>2. i * L = a + L BY <1>1
  <2>3. (j - 1) * L \in Nat /\ a + m <= (j - 1) * L BY <1>1, <1>2, <2>1, <2>2
  <2>4. a \div m + 1 <= ((j - 1) * L) \div m BY <1>1, <2>3, QuotientGrows
  <2>5. a \div m \in Nat /\ ((j - 1) * L) \div m \in Nat BY <1>1, <2>3, Division
  <2>6. QED BY <2>4, <2>5
<1>3. i = 1 => k = 1
  <2>1. 0 = m * 0 + 0 /\ 0 \in 0 .. m - 1 BY <1>1
  <2>2. 0 \div m = 0 BY <1>1, <2>1, DivisionUnique
  <2>3. i = 1 => a = 0 BY <1>1
  <2>4. QED BY <2>2, <2>3
<1>4. (m * L) \div m = L
  <2>1. m * L \in Nat /\ m * L = m * L + 0 /\ 0 \in 0 .. m - 1 BY <1>1
  <2>2. QED BY <1>1, <2>1, DivisionUnique
<1>5. i = maximum => k = length BY <1>1, <1>4
<1>6. k \in 1 .. length
  <2>1. a \div m \in Nat BY <1>1, Division
  <2>2. CASE i = maximum BY <1>5, <2>2
  <2>3. CASE i < maximum
    <3>1. k < ((maximum - 1) * L) \div m + 1 BY <1>2, <2>3
    <3>2. k < L + 1 BY <1>4, <3>1
    <3>3. QED BY <1>1, <2>1, <3>2
  <2>4. QED BY <2>2, <2>3
<1>7. QED BY <1>2, <1>3, <1>5, <1>6


\* What the limits keep of a sequence: some of it, from the first to the last.
LEMMA BoundedIs ==
    ASSUME NEW S, NEW s \in Seq(S), IsInjective(s), NEW maximum \in Nat \ {0, 1}
    PROVE  LET kept == Bounded(s, maximum)
           IN  /\ kept \in Seq(S) /\ IsInjective(kept) /\ ToSet(kept) \subseteq ToSet(s)
               /\ Len(kept) = IF Len(s) <= maximum THEN Len(s) ELSE maximum
               /\ Len(s) > 0 => kept[1] = s[1] /\ kept[Len(kept)] = s[Len(s)]
<1>1. Len(s) \in Nat /\ DOMAIN s = 1 .. Len(s) BY LenProperties
<1>2. CASE Len(s) <= maximum BY <1>2 DEF Bounded
<1>3. CASE Len(s) > maximum
  <2> DEFINE Place(i) == ((i - 1) * (Len(s) - 1)) \div (maximum - 1) + 1
  <2>1. PICK kept : kept = [i \in 1 .. maximum |-> s[Place(i)]] OBVIOUS
  <2>2. Bounded(s, maximum) = kept BY <1>1, <1>3, <2>1 DEF Bounded
  <2>3. ASSUME NEW i \in 1 .. maximum
        PROVE  /\ Place(i) \in 1 .. Len(s)
               /\ i = 1 => Place(i) = 1
               /\ i = maximum => Place(i) = Len(s)
               /\ \A j \in 1 .. maximum : j > i => Place(i) < Place(j)
    <3>1. Len(s) \in Nat /\ maximum < Len(s) BY <1>1, <1>3
    <3>2. PICK k : k = Place(i) OBVIOUS
    <3>3. /\ k \in 1 .. Len(s) /\ (i = 1 => k = 1) /\ (i = maximum => k = Len(s))
          /\ \A j \in 1 .. maximum : j > i => k < Place(j)
      BY <3>1, <3>2, PlacesSpread
    <3> HIDE DEF Place
    <3>4. QED BY <3>2, <3>3
  <2> HIDE DEF Place
  <2>4. kept = [i \in 1 .. maximum |-> kept[i]] BY <2>1
  <2>5. \A i \in 1 .. maximum : \E k \in 1 .. Len(s) : kept[i] = s[k]
    BY <2>1, <2>3
  <2>6. /\ kept \in Seq(S) /\ Len(kept) = maximum /\ DOMAIN kept = 1 .. maximum
        /\ ToSet(kept) \subseteq ToSet(s)
    BY <2>4, <2>5, Chosen
  <2>7. IsInjective(kept)
    <3> SUFFICES ASSUME NEW i \in 1 .. maximum, NEW j \in 1 .. maximum, kept[i] = kept[j]
                 PROVE  i = j
      BY <2>6 DEF IsInjective
    <3>1. s[Place(i)] = s[Place(j)] BY <2>1
    <3>2. Place(i) = Place(j) BY <1>1, <2>3, <3>1 DEF IsInjective
    <3>3. ~ (i < j) /\ ~ (j < i) BY <1>1, <2>3, <3>2
    <3>4. QED BY <3>3
  <2>8. kept[1] = s[1] /\ kept[maximum] = s[Len(s)] BY <2>1, <2>3
  <2>9. QED BY <1>3, <2>2, <2>6, <2>7, <2>8
<1>4. QED BY <1>1, <1>2, <1>3

\* A limit of one point leaves no evidence, wherever that point is.
LEMMA BoundedByOne ==
    ASSUME NEW S, NEW s \in Seq(S)
    PROVE  Len(Bounded(s, 1)) < 2
<1>1. Len(s) \in Nat BY LenProperties
<1>2. CASE Len(s) <= 1 BY <1>1, <1>2 DEF Bounded
<1>3. CASE ~(Len(s) <= 1)
  <2>1. PICK n \in Nat : n = 1 OBVIOUS
  <2>2. PICK x : x = s[((1 - 1) * (Len(s) - 1)) \div (1 - 1) + 1] OBVIOUS
  <2>3. PICK one : one = [i \in 1 .. n |-> x] OBVIOUS
  <2>4. Bounded(s, 1) = [i \in 1 .. 1 |-> s[((i - 1) * (Len(s) - 1)) \div (1 - 1) + 1]]
    BY <1>3 DEF Bounded
  <2>5. Bounded(s, 1) = one BY <2>1, <2>2, <2>3, <2>4
  <2>6. one \in [1 .. n -> {x}] BY <2>3
  <2>7. one \in Seq({x}) BY <2>6, SeqDef
  <2>8. Len(one) = n BY <2>6, <2>7, LenProperties
  <2>9. Len(one) < 2 BY <2>1, <2>8
  <2>10. QED BY <2>5, <2>9
<1>4. QED BY <1>2, <1>3

\* Every Stride-th place is held out, the last one in the last stretch.
LEMMA HeldOutIs ==
    ASSUME Stride \in Nat \ {0, 1}, NEW S, NEW s \in Seq(S), IsInjective(s)
    PROVE  LET held == HeldOut(s)
           IN  /\ held \in Seq(S) /\ IsInjective(held) /\ ToSet(held) \subseteq ToSet(s)
               /\ \A x \in ToSet(held) :
                    \E i \in Nat \ {0} : (i - 1) * Stride + 1 \in 1 .. Len(s)
                                         /\ x = s[(i - 1) * Stride + 1]
               /\ Len(s) > 0 =>
                    /\ Len(held) > 0
                    /\ held[1] = s[1]
                    /\ \E k \in 1 .. Len(s) : held[Len(held)] = s[k] /\ k + Stride > Len(s)
<1> DEFINE n == (Len(s) + Stride - 1) \div Stride
           Place(i) == (i - 1) * Stride + 1
<1>1. Len(s) \in Nat /\ DOMAIN s = 1 .. Len(s) BY LenProperties
<1>2. PICK held : held = [i \in 1 .. n |-> s[Place(i)]] OBVIOUS
<1>3. HeldOut(s) = held BY <1>2 DEF HeldOut
<1>4. /\ n \in Nat /\ n * Stride <= Len(s) + Stride - 1
      /\ Len(s) <= n * Stride
  <2>1. PICK a \in Nat : a = Len(s) + Stride - 1 BY <1>1
  <2>2. PICK q \in Nat : q = a \div Stride BY <2>1, Division
  <2>3. PICK r \in 0 .. Stride - 1 : a = Stride * q + r BY <2>1, <2>2, Division
  <2>4. Stride * q = q * Stride /\ q * Stride \in Nat BY <2>2
  <2>5. QED BY <1>1, <2>1, <2>2, <2>3, <2>4
<1> HIDE DEF n
<1>5. ASSUME NEW i \in 1 .. n PROVE Place(i) \in 1 .. Len(s)
  <2>1. i * Stride <= n * Stride BY <1>4, ProductsOrdered
  <2>2. i * Stride = (i - 1) * Stride + Stride /\ (i - 1) * Stride \in Nat BY <1>4
  <2>3. QED BY <1>1, <1>4, <2>1, <2>2
<1>6. held = [i \in 1 .. n |-> held[i]] BY <1>2
<1>7. \A i \in 1 .. n : \E k \in 1 .. Len(s) : held[i] = s[k] BY <1>2, <1>5
<1>8. /\ held \in Seq(S) /\ Len(held) = n /\ DOMAIN held = 1 .. n
      /\ ToSet(held) \subseteq ToSet(s)
  BY <1>4, <1>6, <1>7, Chosen
<1>9. IsInjective(held)
  <2> SUFFICES ASSUME NEW i \in 1 .. n, NEW j \in 1 .. n, held[i] = held[j]
               PROVE  i = j
    BY <1>8 DEF IsInjective
  <2>1. s[Place(i)] = s[Place(j)] BY <1>2
  <2>2. Place(i) = Place(j) BY <1>1, <1>5, <2>1 DEF IsInjective
  <2>3. (i - 1) * Stride = (j - 1) * Stride BY <1>4, <2>2
  <2>4. QED BY <1>4, <2>3
<1>10. ASSUME NEW x \in ToSet(held)
       PROVE  \E i \in Nat \ {0} : Place(i) \in 1 .. Len(s) /\ x = s[Place(i)]
  <2>1. PICK i \in 1 .. n : x = held[i] BY <1>8 DEF ToSet
  <2>2. i \in Nat \ {0} /\ x = s[Place(i)] /\ Place(i) \in 1 .. Len(s)
    BY <1>2, <1>4, <1>5, <2>1
  <2>3. QED BY <2>2
<1>11. ASSUME Len(s) > 0
       PROVE  /\ n > 0 /\ held[1] = s[1]
              /\ held[n] = s[Place(n)] /\ Place(n) + Stride > Len(s)
  <2>1. n > 0 BY <1>1, <1>4, <1>11
  <2>2. Place(1) = 1 OBVIOUS
  <2>3. n * Stride = (n - 1) * Stride + Stride /\ (n - 1) * Stride \in Nat BY <1>4, <2>1
  <2>4. QED BY <1>1, <1>2, <1>4, <2>1, <2>2, <2>3
<1>12. QED
  <2>1. ASSUME Len(s) > 0
        PROVE  \E k \in 1 .. Len(s) : held[Len(held)] = s[k] /\ k + Stride > Len(s)
    <3>1. n \in 1 .. n BY <1>4, <1>11, <2>1
    <3>2. QED BY <1>5, <1>8, <1>11, <2>1, <3>1
  <2>2. QED BY <1>3, <1>8, <1>9, <1>10, <1>11, <2>1

\* The places between: the one with number i lies in a stretch after its first
\* place, and inside the sequence.
LEMMA FittedPlace ==
    ASSUME Stride \in Nat \ {0, 1}, NEW length \in Nat, NEW n \in Nat,
           n = (length + Stride - 1) \div Stride,
           NEW i \in 1 .. length - n, NEW k, k = i + (i - 1) \div (Stride - 1) + 1
    PROVE  /\ k \in 1 .. length
           /\ \A h \in Nat \ {0} : k # (h - 1) * Stride + 1
           /\ \A j \in 1 .. length - n : j > i => k < j + (j - 1) \div (Stride - 1) + 1
<1>1. PICK q \in Nat, r \in 0 .. Stride - 2 :
         q = (i - 1) \div (Stride - 1) /\ i - 1 = (Stride - 1) * q + r
  <2>1. i - 1 \in Nat /\ Stride - 1 \in Nat \ {0} OBVIOUS
  <2>2. PICK q \in Nat : q = (i - 1) \div (Stride - 1) BY <2>1, Division
  <2>3. PICK r \in 0 .. (Stride - 1) - 1 : i - 1 = (Stride - 1) * q + r
    BY <2>1, <2>2, Division
  <2>4. QED BY <2>2, <2>3
<1>2. PICK p \in Nat : p = q * Stride OBVIOUS
<1>3. (Stride - 1) * q = p - q BY <1>2
<1>4. i = p - q + r + 1 /\ k = p + r + 2 BY <1>1, <1>3
<1>5. k <= length
  <2>1. PICK s \in 0 .. Stride - 1 : length + Stride - 1 = n * Stride + s
    <3>1. length + Stride - 1 \in Nat OBVIOUS
    <3>2. PICK s \in 0 .. Stride - 1 : length + Stride - 1 = Stride * n + s
      BY <3>1, Division
    <3>3. QED BY <3>2
  <2>2. CASE n <= q
    <3>1. n * Stride <= q * Stride BY <2>2, ProductsOrdered
    <3>2. n * Stride \in Nat OBVIOUS
    <3>3. length <= n * Stride BY <2>1, <3>2
    <3>4. PICK d \in Nat : d = q - n BY <2>2
    <3>5. d * Stride \in Nat /\ d <= d * Stride
      <4>1. d * 1 <= d * Stride OBVIOUS
      <4>2. QED BY <4>1
    <3>6. p = n * Stride + d * Stride
      <4>1. q = n + d BY <3>4
      <4>2. QED BY <1>2, <4>1
    <3>7. QED BY <1>4, <3>3, <3>4, <3>5, <3>6
  <2>3. CASE n = q + 1 BY <1>4, <2>3
  <2>4. CASE n > q + 1
    <3>1. (q + 2) * Stride <= n * Stride BY <2>4, ProductsOrdered
    <3>2. (q + 2) * Stride = p + Stride + Stride BY <1>2
    <3>3. n * Stride \in Nat OBVIOUS
    <3>4. QED BY <1>4, <2>1, <3>1, <3>2, <3>3
  <2>5. QED BY <2>2, <2>3, <2>4
<1>6. ASSUME NEW h \in Nat \ {0}, k = (h - 1) * Stride + 1 PROVE FALSE
  <2>1. PICK g \in Nat : g = h - 1 OBVIOUS
  <2>2. g * Stride = p + r + 1 BY <1>4, <1>6, <2>1
  <2>3. CASE g <= q
    <3>1. g * Stride <= q * Stride BY <2>3, ProductsOrdered
    <3>2. QED BY <1>2, <2>2, <3>1
  <2>4. CASE g > q
    <3>1. (q + 1) * Stride <= g * Stride BY <2>4, ProductsOrdered
    <3>2. (q + 1) * Stride = p + Stride BY <1>2
    <3>3. QED BY <2>2, <3>1, <3>2
  <2>5. QED BY <2>3, <2>4
<1>7. ASSUME NEW j \in 1 .. length - n, j > i
      PROVE  k < j + (j - 1) \div (Stride - 1) + 1
  <2>1. PICK e \in Nat : e = (j - 1) \div (Stride - 1)
    <3>1. j - 1 \in Nat /\ Stride - 1 \in Nat \ {0} OBVIOUS
    <3>2. QED BY <3>1, Division
  <2>2. q <= e
    <3>1. PICK c \in Nat \ {0} : c = Stride - 1 OBVIOUS
    <3>2. PICK t \in 0 .. c - 1 : j - 1 = c * e + t
      <4>1. PICK b \in Nat : b = j - 1 OBVIOUS
      <4>2. e = b \div c BY <2>1, <3>1, <4>1
      <4>3. PICK t \in 0 .. c - 1 : b = c * e + t BY <4>2, Division
      <4>4. QED BY <4>1, <4>3
    <3>3. i - 1 = c * q + r BY <1>1, <3>1
    <3>4. CASE e + 1 <= q
      <4>1. (e + 1) * c <= q * c BY <3>4, ProductsOrdered
      <4>2. (e + 1) * c = c * e + c /\ q * c = c * q /\ c * e \in Nat OBVIOUS
      <4>3. QED BY <1>7, <3>2, <3>3, <4>1, <4>2
    <3>5. QED BY <3>4
  <2>3. QED BY <1>1, <1>7, <2>1, <2>2
<1>8. k \in 1 .. length BY <1>4, <1>5
<1>9. QED BY <1>6, <1>7, <1>8
\* What is fitted lies between the places that are held out.
LEMMA FittedIs ==
    ASSUME Stride \in Nat \ {0, 1}, NEW S, NEW s \in Seq(S), IsInjective(s)
    PROVE  LET fit == Fitted(s)
           IN  /\ fit \in Seq(S) /\ IsInjective(fit) /\ ToSet(fit) \subseteq ToSet(s)
               /\ ToSet(fit) \cap ToSet(HeldOut(s)) = {}
<1> DEFINE n == (Len(s) + Stride - 1) \div Stride
           Place(i) == i + (i - 1) \div (Stride - 1) + 1
<1>1. Len(s) \in Nat /\ DOMAIN s = 1 .. Len(s) BY LenProperties
<1>2. n \in Nat /\ n <= Len(s)
  <2>1. PICK a \in Nat : a = Len(s) + Stride - 1 BY <1>1
  <2>2. PICK q \in Nat : q = a \div Stride BY <2>1, Division
  <2>3. PICK r \in 0 .. Stride - 1 : a = Stride * q + r BY <2>1, <2>2, Division
  <2>4. CASE q > Len(s)
    <3>1. (Len(s) + 1) * Stride <= q * Stride BY <1>1, <2>4, ProductsOrdered
    <3>2. (Len(s) + 1) * Stride = Len(s) * Stride + Stride /\ q * Stride = Stride * q
          /\ Len(s) * 1 <= Len(s) * Stride /\ Len(s) * Stride \in Nat
      BY <1>1
    <3>3. QED BY <1>1, <2>1, <2>3, <3>1, <3>2
  <2>5. QED BY <1>1, <2>1, <2>2, <2>4
<1>3. Len(HeldOut(s)) = n
  <2>1. PICK held : held = [i \in 1 .. n |-> s[(i - 1) * Stride + 1]] OBVIOUS
  <2>2. held = [i \in 1 .. n |-> held[i]] BY <2>1
  <2>3. HeldOut(s) = held BY <2>1 DEF HeldOut
  <2>4. QED BY <1>2, <2>2, <2>3, Listing
<1> HIDE DEF n
<1>4. PICK fit : fit = [i \in 1 .. Len(s) - n |-> s[Place(i)]] OBVIOUS
<1>5. Fitted(s) = fit BY <1>3, <1>4 DEF Fitted
<1>6. ASSUME NEW i \in 1 .. Len(s) - n
      PROVE  /\ Place(i) \in 1 .. Len(s)
             /\ \A h \in Nat \ {0} : Place(i) # (h - 1) * Stride + 1
             /\ \A j \in 1 .. Len(s) - n : j > i => Place(i) < Place(j)
  <2>1. n = (Len(s) + Stride - 1) \div Stride BY DEF n
  <2>2. PICK length \in Nat : length = Len(s) BY <1>1
  <2>3. PICK k : k = Place(i) OBVIOUS
  <2>4. /\ k \in 1 .. length
        /\ \A h \in Nat \ {0} : k # (h - 1) * Stride + 1
        /\ \A j \in 1 .. length - n : j > i => k < Place(j)
    BY <1>2, <2>1, <2>2, <2>3, FittedPlace
  <2> HIDE DEF Place
  <2>5. QED BY <2>2, <2>3, <2>4
<1> HIDE DEF Place
<1>7. fit = [i \in 1 .. Len(s) - n |-> fit[i]] BY <1>4
<1>8. \A i \in 1 .. Len(s) - n : \E k \in 1 .. Len(s) : fit[i] = s[k] BY <1>4, <1>6
<1>9. /\ fit \in Seq(S) /\ DOMAIN fit = 1 .. Len(s) - n
      /\ ToSet(fit) \subseteq ToSet(s)
  <2>1. Len(s) - n \in Nat BY <1>1, <1>2
  <2>2. PICK m \in Nat : m = Len(s) - n BY <2>1
  <2>3. QED BY <1>7, <1>8, <2>2, Chosen
<1>10. IsInjective(fit)
  <2> SUFFICES ASSUME NEW i \in 1 .. Len(s) - n, NEW j \in 1 .. Len(s) - n, fit[i] = fit[j]
               PROVE  i = j
    BY <1>9 DEF IsInjective
  <2>1. s[Place(i)] = s[Place(j)] BY <1>4
  <2>2. Place(i) = Place(j) BY <1>1, <1>6, <2>1 DEF IsInjective
  <2>3. ~ (i < j) /\ ~ (j < i) BY <1>1, <1>6, <2>2
  <2>4. QED BY <1>1, <1>2, <2>3
<1>11. ASSUME NEW x \in ToSet(fit), x \in ToSet(HeldOut(s)) PROVE FALSE
  <2>1. PICK i \in 1 .. Len(s) - n : x = fit[i] BY <1>9 DEF ToSet
  <2>2. PICK h \in Nat \ {0} :
           (h - 1) * Stride + 1 \in 1 .. Len(s) /\ x = s[(h - 1) * Stride + 1]
    BY <1>11, HeldOutIs
  <2>3. s[Place(i)] = s[(h - 1) * Stride + 1] BY <1>4, <2>1, <2>2
  <2>4. Place(i) = (h - 1) * Stride + 1 BY <1>1, <1>6, <2>2, <2>3 DEF IsInjective
  <2>5. QED BY <1>6, <2>4
<1>12. QED BY <1>5, <1>9, <1>10, <1>11

\* split_spatial_evidence (reconstruction/dense_evidence.py): however many
\* correspondences a join has and whatever the limits, none of them is both
\* fitted and held out, none is there twice, and the ones that are held out
\* reach from the first to the last stretch.
THEOREM EvidenceIsDivided ==
    ASSUME Stride \in Nat \ {0, 1}, MaximumFit \in Nat \ {0, 1}, MaximumHeldOut \in Nat \ {0},
           NEW S, NEW ordered \in Seq(S), IsInjective(ordered)
    PROVE  FairlyDivided(ordered)
<1>1. PICK fitted \in Seq(S) : fitted = Fitted(ordered) BY FittedIs
<1>2. PICK heldOut \in Seq(S) : heldOut = HeldOut(ordered) BY HeldOutIs
<1>3. PICK fit : fit = Bounded(fitted, MaximumFit) OBVIOUS
<1>4. PICK held : held = Bounded(heldOut, MaximumHeldOut) OBVIOUS
<1>5. Len(ordered) \in Nat /\ DOMAIN ordered = 1 .. Len(ordered) BY LenProperties
<1>6. /\ IsInjective(fitted) /\ ToSet(fitted) \subseteq ToSet(ordered)
      /\ ToSet(fitted) \cap ToSet(heldOut) = {}
  BY <1>1, <1>2, FittedIs
<1>7. /\ IsInjective(heldOut) /\ ToSet(heldOut) \subseteq ToSet(ordered)
      /\ Len(ordered) > 0 =>
            /\ Len(heldOut) > 0 /\ heldOut[1] = ordered[1]
            /\ \E k \in 1 .. Len(ordered) :
                  heldOut[Len(heldOut)] = ordered[k] /\ k + Stride > Len(ordered)
  BY <1>2, HeldOutIs
<1> SUFFICES ASSUME Len(held) >= 2
             PROVE  /\ ToSet(fit) \cap ToSet(held) = {}
                    /\ ToSet(fit) \cup ToSet(held) \subseteq ToSet(ordered)
                    /\ IsInjective(fit) /\ IsInjective(held)
                    /\ Len(fit) <= MaximumFit /\ Len(held) <= MaximumHeldOut
                    /\ Head(held) = Head(ordered)
                    /\ \E i \in DOMAIN ordered :
                          Last(held) = ordered[i] /\ i + Stride > Len(ordered)
  BY <1>1, <1>2, <1>3, <1>4 DEF FairlyDivided, Divided, Refused
<1>8. /\ fit \in Seq(S) /\ IsInjective(fit) /\ ToSet(fit) \subseteq ToSet(fitted)
      /\ Len(fit) <= MaximumFit
  <2>1. Len(fitted) \in Nat BY LenProperties
  <2>2. QED BY <1>3, <1>6, <2>1, BoundedIs
<1>9. MaximumHeldOut # 1 BY <1>4, BoundedByOne, LenProperties
<1>10. /\ held \in Seq(S) /\ IsInjective(held) /\ ToSet(held) \subseteq ToSet(heldOut)
       /\ Len(held) <= MaximumHeldOut /\ Len(heldOut) > 0
       /\ held[1] = heldOut[1] /\ held[Len(held)] = heldOut[Len(heldOut)]
  <2>1. Len(heldOut) \in Nat BY LenProperties
  <2>2. /\ held \in Seq(S) /\ IsInjective(held) /\ ToSet(held) \subseteq ToSet(heldOut)
        /\ Len(held) = IF Len(heldOut) <= MaximumHeldOut THEN Len(heldOut) ELSE MaximumHeldOut
        /\ Len(heldOut) > 0 =>
              held[1] = heldOut[1] /\ held[Len(held)] = heldOut[Len(heldOut)]
    BY <1>4, <1>7, <1>9, BoundedIs
  <2>3. QED BY <2>1, <2>2
<1>11. Len(ordered) > 0
  <2>1. PICK k \in DOMAIN heldOut : TRUE BY <1>10, LenProperties
  <2>2. heldOut[k] \in ToSet(ordered) BY <1>7 DEF ToSet
  <2>3. QED BY <1>5, <2>2 DEF ToSet
<1>12. Head(held) = held[1] /\ Last(held) = held[Len(held)] BY <1>10 DEF Last
<1>13. Head(ordered) = ordered[1] BY <1>11
<1>14. QED BY <1>5, <1>6, <1>7, <1>8, <1>10, <1>11, <1>12, <1>13

LEMMA Elements ==
    ASSUME NEW S, NEW s \in Seq(S)
    PROVE  /\ IsFiniteSet(ToSet(s))
           /\ IsInjective(s) => Cardinality(ToSet(s)) = Len(s)
<1>1. Len(s) \in Nat /\ DOMAIN s = 1 .. Len(s) BY LenProperties
<1>2. s \in Surjection(1 .. Len(s), ToSet(s)) BY <1>1 DEF Surjection, ToSet
<1>3. IsFiniteSet(1 .. Len(s)) /\ Cardinality(1 .. Len(s)) = Len(s)
  BY <1>1, FS_Interval
<1>4. /\ IsFiniteSet(ToSet(s))
      /\ Cardinality(ToSet(s)) = Cardinality(1 .. Len(s)) <=> s \in Injection(1 .. Len(s), ToSet(s))
  BY <1>2, <1>3, FS_Surjection
<1>5. IsInjective(s) => s \in Injection(1 .. Len(s), ToSet(s))
  BY <1>1 DEF Injection, ToSet
<1>6. QED BY <1>3, <1>4, <1>5

\* production_approved (offline_reconstruction.py): a cycle is approved only by
\* correspondences that no fit has seen, in every join, whatever the joins found
\* and whatever the solver made of them.
THEOREM ApprovalIsHeldOut ==
    ASSUME Stride \in Nat \ {0, 1}, MaximumFit \in Nat \ {0, 1}, MaximumHeldOut \in Nat \ {0},
           MinimumHeldOut \in Nat,
           NEW solver, NEW S, NEW joins, Len(joins) \in Nat, DOMAIN joins = 1 .. Len(joins),
           \A k \in DOMAIN joins : Best(joins[k]) \in Seq(S) /\ Arranged(Best(joins[k]))
    PROVE  ApprovedByHeldOut(joins, solver)
<1> DEFINE evidence == Evidence(joins)
           report == Reported(joins, solver)
<1> SUFFICES ASSUME ~report.refused, report.production_approved
             PROVE  /\ report.passed_join_count = Len(joins)
                    /\ \A k \in DOMAIN joins :
                          LET used == joins[k].missed \cup ToSet(evidence.of[k].fit)
                          IN  Cardinality(ToSet(Best(joins[k])) \ used) >= MinimumHeldOut
  BY DEF ApprovedByHeldOut
<1>1. PICK of : of = [k \in DOMAIN joins |-> Registered(joins[k])] OBVIOUS
<1>2. evidence = IF \E k \in DOMAIN joins : of[k].refused THEN Refused
                 ELSE [refused |-> FALSE, of |-> of]
  BY <1>1 DEF Evidence
<1>3. PICK solved : solved = Solved(evidence.of, joins, solver) OBVIOUS
<1>4. /\ ~evidence.refused
      /\ report.production_approved = solved.approved
      /\ report.passed_join_count = Cardinality(solved.passed)
  BY <1>3 DEF Reported, Refused
<1>5. (\A k \in DOMAIN joins : ~of[k].refused) /\ evidence.of = of BY <1>2, <1>4 DEF Refused
<1>6. /\ solved.passed = DOMAIN joins
      /\ \A k \in DOMAIN joins : Passed(of[k], joins[k])
  BY <1>3, <1>4, <1>5 DEF Solved
<1>7. report.passed_join_count = Len(joins)
  <2>1. Cardinality(1 .. Len(joins)) = Len(joins) BY FS_Interval
  <2>2. QED BY <1>4, <1>6, <2>1
<1>8. ASSUME NEW k \in DOMAIN joins
      PROVE  Cardinality(ToSet(Best(joins[k])) \ (joins[k].missed \cup ToSet(of[k].fit)))
                 >= MinimumHeldOut
  <2>1. PICK points \in Seq(S) : points = Best(joins[k]) /\ Arranged(points) OBVIOUS
  <2>2. PICK ordered \in Seq(ToSet(points)) : ordered = Ordered(points) /\ IsInjective(ordered)
    BY <2>1 DEF Arranged
  <2>3. of[k] = Divided(ordered)
    <3>1. of[k] = Registered(joins[k]) /\ ~of[k].refused BY <1>1, <1>5
    <3>2. of[k] = Split(points) BY <2>1, <3>1 DEF Registered, Refused
    <3>3. QED BY <2>2, <3>1, <3>2 DEF Split, Refused
  <2>4. FairlyDivided(ordered) BY <2>2, EvidenceIsDivided
  <2>5. PICK held : held = of[k].held OBVIOUS
  <2>6. /\ ToSet(of[k].fit) \cap ToSet(held) = {} /\ ToSet(held) \subseteq ToSet(ordered)
        /\ IsInjective(held)
    BY <1>5, <2>3, <2>4, <2>5 DEF FairlyDivided
  <2>7. held \in Seq(ToSet(points))
    <3>1. held = Bounded(HeldOut(ordered), MaximumHeldOut)
          /\ ~(Len(Bounded(HeldOut(ordered), MaximumHeldOut)) < 2)
      BY <1>5, <2>3, <2>5 DEF Divided, Refused
    <3>2. HeldOut(ordered) \in Seq(ToSet(points)) /\ IsInjective(HeldOut(ordered))
      BY <2>2, HeldOutIs
    <3>3. MaximumHeldOut # 1 BY <3>1, <3>2, BoundedByOne
    <3>4. QED BY <3>1, <3>2, <3>3, BoundedIs
  <2>8. Len(held) >= MinimumHeldOut /\ ToSet(held) \cap joins[k].missed = {}
    BY <1>6, <2>5 DEF Passed
  <2>9. ToSet(ordered) \subseteq ToSet(points)
    <3>1. \A i \in DOMAIN ordered : ordered[i] \in ToSet(points) BY LenProperties
    <3>2. QED BY <3>1 DEF ToSet
  <2>10. ToSet(held) \subseteq ToSet(points) \ (joins[k].missed \cup ToSet(of[k].fit))
    BY <2>6, <2>8, <2>9
  <2>11. IsFiniteSet(ToSet(points) \ (joins[k].missed \cup ToSet(of[k].fit)))
    BY Elements, FS_Subset
  <2>12. Cardinality(ToSet(held)) = Len(held) /\ Len(held) \in Nat
    BY <2>6, <2>7, Elements, LenProperties
  <2>13. QED
    <3>1. PICK T : T = ToSet(points) \ (joins[k].missed \cup ToSet(of[k].fit)) OBVIOUS
    <3>2. Cardinality(ToSet(held)) <= Cardinality(T) /\ Cardinality(T) \in Nat
      BY <2>10, <2>11, <3>1, FS_Subset, FS_CardinalityType
    <3>3. QED BY <2>1, <2>8, <2>12, <3>1, <3>2
<1>9. QED BY <1>5, <1>7, <1>8

-----------------------------------------------------------------------------
(* How tiles make a canvas.                                                *)

Sources == SourceWidth \in Nat \ {0} /\ SourceHeight \in Nat \ {0}

\* The place of a canvas coordinate in a frame that is shifted by half pixels.
LEMMA Halves ==
    ASSUME NEW x \in Int
    PROVE  /\ x \div 2 \in Int
           /\ x = 2 * (x \div 2) \/ x = 2 * (x \div 2) + 1
OBVIOUS

\* On an axis, a frame shows as many coordinates as it has, from the one that
\* lies in its first pixel.
LEMMA ShownOnAxis ==
    ASSUME Sources, NEW axis \in 1 .. 2, NEW frame, frame[axis] \in Int,
           NEW origin \in Int, NEW n \in Int
    PROVE  LET first == Floor(frame[axis]) - origin
           IN  Floor(SourceAt(frame, origin, axis, n) + 1) \in UpTo(Extent(axis))
                   <=> n \in first .. first + Extent(axis) - 1
<1>1. PICK f \in Int : f = frame[axis] OBVIOUS
<1>2. PICK e \in Nat \ {0} : e = Extent(axis) BY DEF Extent, Sources
<1>3. PICK h \in Int : h = f \div 2 /\ (f = 2 * h \/ f = 2 * h + 1) BY Halves
<1>4. PICK a \in Int : a = 2 * (n + origin) - f + 1 OBVIOUS
<1>5. a \div 2 = n + origin - h
  <2>1. PICK g \in Int : g = a \div 2 /\ (a = 2 * g \/ a = 2 * g + 1) BY Halves
  <2>2. QED BY <1>3, <1>4, <2>1
<1>6. QED BY <1>1, <1>2, <1>3, <1>4, <1>5 DEF Floor, SourceAt, UpTo

\* A frame that a tile does not look at shows no coordinate of it.
LEMMA SkippedOnAxis ==
    ASSUME Sources, NEW axis \in 1 .. 2, NEW frame, frame[axis] \in Int,
           NEW origin \in Int, NEW lo \in Int, NEW hi \in Int, NEW n \in lo .. hi - 1,
           \/ Bound(frame, origin, axis)[2] <= lo
           \/ Bound(frame, origin, axis)[1] >= hi
    PROVE  Floor(SourceAt(frame, origin, axis, n) + 1) \notin UpTo(Extent(axis))
<1>1. PICK f \in Int : f = frame[axis] OBVIOUS
<1>2. PICK e \in Nat \ {0} : e = Extent(axis) BY DEF Extent, Sources
<1>3. PICK h \in Int : h = f \div 2 /\ (f = 2 * h \/ f = 2 * h + 1) BY Halves
<1>4. (f - 2 * origin) \div 2 = h - origin
  <2>1. PICK a \in Int : a = f - 2 * origin OBVIOUS
  <2>2. PICK g \in Int : g = a \div 2 /\ (a = 2 * g \/ a = 2 * g + 1) BY Halves
  <2>3. QED BY <1>3, <2>1, <2>2
<1>5. (f + 2 * (e - 1) - 2 * origin + 1) \div 2 >= h + e - 1 - origin
  <2>1. PICK a \in Int : a = f + 2 * (e - 1) - 2 * origin + 1 OBVIOUS
  <2>2. PICK g \in Int : g = a \div 2 /\ (a = 2 * g \/ a = 2 * g + 1) BY Halves
  <2>3. QED BY <1>3, <2>1, <2>2
<1>6. n \notin h - origin .. h - origin + e - 1
  <2>1. Bound(frame, origin, axis)
          = <<(f - 2 * origin) \div 2, (f + 2 * (e - 1) - 2 * origin + 1) \div 2 + 1>>
    BY <1>1, <1>2 DEF Bound, Floor, Ceil, Far
  <2>2. QED BY <1>4, <1>5, <2>1
<1>7. QED BY <1>1, <1>2, <1>3, <1>6, ShownOnAxis DEF Floor

\* What a tile leaves out makes no difference: coverage, weight and provenance
\* of its pixels are those that all frames give, for every number, shift and
\* size of frames and every tile.
THEOREM TilesLoseNothing ==
    ASSUME Sources, NEW frames, \A i \in DOMAIN frames : frames[i] \in Int \X Int,
           NEW origins \in Int \X Int, NEW tile \in Int \X Int \X Int \X Int, NEW mask
    PROVE  TileExact(frames, origins, tile, mask)
<1> DEFINE used == {i \in DOMAIN frames : ~Skipped(frames[i], origins, tile)}
           shownBy(p) == {i \in used : Valid(frames[i], origins, p)}
<1> SUFFICES ASSUME NEW p \in Within(tile)
             PROVE  LET pixel == Tile(frames, origins, tile, mask)[p]
                        shown == Showing(frames, origins, p)
                    IN  /\ pixel.coverage = Min({Cardinality(shown), 255})
                        /\ pixel.weight = SummedWeight(frames, origins, p, shown)
                        /\ pixel.provenance = "acquired" <=> shown # {}
                        /\ pixel.provenance = "reference fill" <=> shown = {} /\ p \in mask
  BY DEF TileExact
<1>1. p[1] \in tile[1] .. tile[3] - 1 /\ p[2] \in tile[2] .. tile[4] - 1
  BY DEF Within
<1>2. ASSUME NEW i \in DOMAIN frames, Skipped(frames[i], origins, tile)
      PROVE  ~Valid(frames[i], origins, p)
  <2>1. PICK frame \in Int \X Int : frame = frames[i] OBVIOUS
  <2>2. PICK axis \in 1 .. 2 :
           \/ Bound(frame, origins[axis], axis)[2] <= tile[axis]
           \/ Bound(frame, origins[axis], axis)[1] >= tile[axis + 2]
    BY <1>2, <2>1 DEF Skipped
  <2>3. /\ frame[axis] \in Int /\ origins[axis] \in Int
        /\ tile[axis] \in Int /\ tile[axis + 2] \in Int
        /\ p[axis] \in tile[axis] .. tile[axis + 2] - 1
    <3>1. CASE axis = 1 BY <1>1, <3>1
    <3>2. CASE axis = 2 BY <1>1, <3>2
    <3>3. QED BY <3>1, <3>2
  <2>4. Floor(SourceAt(frame, origins[axis], axis, p[axis]) + 1) \notin UpTo(Extent(axis))
    BY <2>2, <2>3, SkippedOnAxis
  <2>5. QED BY <2>1, <2>4 DEF Valid
<1>3. shownBy(p) = Showing(frames, origins, p) BY <1>2 DEF Showing
<1>4. PICK shown : shown = Showing(frames, origins, p) OBVIOUS
<1>5. PICK pixel : pixel = Tile(frames, origins, tile, mask)[p] OBVIOUS
<1>6. pixel = [coverage |-> Min({Cardinality(shown), 255}),
               weight |-> SummedWeight(frames, origins, p, shown),
               provenance |-> IF shown # {} THEN "acquired"
                              ELSE IF p \in mask THEN "reference fill" ELSE "no data"]
  BY <1>3, <1>4, <1>5 DEF Tile
<1>7. /\ pixel.coverage = Min({Cardinality(shown), 255})
      /\ pixel.weight = SummedWeight(frames, origins, p, shown)
      /\ pixel.provenance = "acquired" <=> shown # {}
      /\ pixel.provenance = "reference fill" <=> shown = {} /\ p \in mask
  BY <1>6
<1>8. QED BY <1>4, <1>5, <1>7

\* The least and the greatest of some numbers.
LEMMA LeastNumber ==
    ASSUME NEW T, T \subseteq Nat, T # {}
    PROVE  \E m \in T : \A k \in T : m <= k
<1>1. PICK m \in T : \A k \in T : ~ (<<k, m>> \in OpToRel(<, Nat))
  BY WFMin, NatLessThanWellFounded
<1>2. \A k \in T : ~ (k < m) BY <1>1 DEF OpToRel
<1>3. QED BY <1>2

LEMMA SomeLeast ==
    ASSUME NEW n \in Nat \ {0}, NEW f \in [1 .. n -> Int]
    PROVE  \E m \in 1 .. n : \A i \in 1 .. n : f[m] <= f[i]
<1> DEFINE Lowest(k) == \E m \in 1 .. k : \A i \in 1 .. k : f[m] <= f[i]
           T == {k \in 1 .. n : ~Lowest(k)}
<1>1. ASSUME T # {} PROVE FALSE
  <2>1. PICK k \in T : \A j \in T : k <= j
    <3>1. T \subseteq Nat OBVIOUS
    <3> HIDE DEF T
    <3>2. QED BY <1>1, <3>1, LeastNumber
  <2>2. k \in 1 .. n /\ ~Lowest(k) OBVIOUS
  <2>3. ASSUME NEW j \in 1 .. n, j < k PROVE Lowest(j)
    <3>1. j \in Nat /\ ~(k <= j) BY <2>2, <2>3
    <3>2. j \notin T BY <2>1, <3>1
    <3> HIDE DEF Lowest
    <3>3. QED BY <3>2
  <2>4. CASE k = 1
    <3>1. Lowest(1) OBVIOUS
    <3>2. QED BY <2>2, <2>4, <3>1
  <2>5. CASE k # 1
    <3>1. PICK l \in 1 .. n : l = k - 1 BY <2>2, <2>5
    <3>2. PICK m \in 1 .. l : \A i \in 1 .. l : f[m] <= f[i]
      <4>1. l < k BY <2>2, <3>1
      <4>2. Lowest(l) BY <2>3, <4>1
      <4>3. QED BY <4>2
    <3>3. f[m] \in Int /\ f[k] \in Int /\ m \in 1 .. k /\ k \in 1 .. k BY <2>2, <3>1
    <3>4. CASE f[m] <= f[k]
      <4>1. \A i \in 1 .. k : f[m] <= f[i] BY <2>2, <3>1, <3>2, <3>4
      <4>2. QED BY <2>2, <3>3, <4>1
    <3>5. CASE f[k] < f[m]
      <4>1. ASSUME NEW i \in 1 .. k PROVE f[k] <= f[i]
        <5>1. CASE i = k BY <3>3, <5>1
        <5>2. CASE i # k
          <6>1. i \in 1 .. l /\ f[i] \in Int BY <2>2, <3>1, <5>2
          <6>2. QED BY <3>2, <3>3, <3>5, <6>1
        <5>3. QED BY <5>1, <5>2
      <4>2. QED BY <2>2, <3>3, <4>1
    <3>6. QED BY <3>3, <3>4, <3>5
  <2>6. QED BY <2>4, <2>5
<1>2. Lowest(n)
  <2>1. n \in 1 .. n OBVIOUS
  <2> HIDE DEF Lowest
  <2>2. QED BY <1>1, <2>1
<1>3. QED BY <1>2

LEMMA MinMax ==
    ASSUME NEW n \in Nat \ {0}, NEW f \in [1 .. n -> Int]
    PROVE  LET V == {f[i] : i \in 1 .. n}
           IN  /\ Min(V) \in Int /\ Max(V) \in Int
               /\ \A i \in 1 .. n : Min(V) <= f[i] /\ f[i] <= Max(V)
<1> DEFINE V == {f[i] : i \in 1 .. n}
<1>1. PICK x \in V : \A y \in V : x <= y BY SomeLeast
<1>2. PICK g \in [1 .. n -> Int] : g = [i \in 1 .. n |-> -f[i]]
  <2>1. [i \in 1 .. n |-> -f[i]] \in [1 .. n -> Int] OBVIOUS
  <2>2. QED BY <2>1
<1>3. PICK m \in 1 .. n : \A i \in 1 .. n : g[m] <= g[i] BY SomeLeast
<1>4. \A i \in 1 .. n : f[m] >= f[i] BY <1>2, <1>3
<1>5. f[m] \in V /\ \A y \in V : f[m] >= y BY <1>4
<1>6. Min(V) \in V /\ \A y \in V : Min(V) <= y BY <1>1 DEF Min
<1>7. Max(V) \in V /\ \A y \in V : Max(V) >= y BY <1>5 DEF Max
<1>8. V \subseteq Int OBVIOUS
<1>9. QED BY <1>6, <1>7, <1>8

\* The canvas reaches, on each axis, from the first to the last pixel of any
\* frame.
LEMMA CanvasHolds ==
    ASSUME Sources, NEW frames \in Seq(Int \X Int), frames # <<>>, NEW axis \in 1 .. 2
    PROVE  /\ Origin(frames, axis) \in Int /\ Size(frames, axis) \in Nat \ {0}
           /\ \A i \in DOMAIN frames :
                 LET first == Floor(frames[i][axis]) - Origin(frames, axis)
                 IN  /\ frames[i][axis] \in Int
                     /\ first \in Nat /\ first + Extent(axis) <= Size(frames, axis)
<1>1. PICK n \in Nat \ {0} : n = Len(frames) /\ DOMAIN frames = 1 .. n
  BY LenProperties, EmptySeq
<1>2. PICK e \in Nat \ {0} : e = Extent(axis) BY DEF Extent, Sources
<1>3. ASSUME NEW i \in 1 .. n PROVE frames[i][axis] \in Int
  <2>1. frames[i] \in Int \X Int BY <1>1
  <2>2. CASE axis = 1 BY <2>1, <2>2
  <2>3. CASE axis = 2 BY <2>1, <2>3
  <2>4. QED BY <2>2, <2>3
<1>4. PICK near \in [1 .. n -> Int] : near = [i \in 1 .. n |-> frames[i][axis]]
  BY <1>3
<1>5. PICK far \in [1 .. n -> Int] : far = [i \in 1 .. n |-> Far(frames[i], axis)]
  <2>1. \A i \in 1 .. n : Far(frames[i], axis) = near[i] + 2 * (e - 1)
    BY <1>2, <1>4 DEF Far
  <2>2. ASSUME NEW i \in 1 .. n PROVE Far(frames[i], axis) \in Int
    <3>1. near[i] \in Int OBVIOUS
    <3>2. near[i] + 2 * (e - 1) \in Int BY <3>1
    <3>3. QED BY <2>1, <3>2
  <2>3. QED BY <2>2
<1>6. PICK lo : lo = Min({near[i] : i \in 1 .. n}) OBVIOUS
<1>7. PICK hi : hi = Max({far[i] : i \in 1 .. n}) OBVIOUS
<1>8. lo \in Int /\ hi \in Int /\ \A i \in 1 .. n : lo <= near[i] /\ far[i] <= hi
  BY <1>6, <1>7, MinMax
<1>9. Origin(frames, axis) = lo \div 2
  <2>1. {f[axis] : f \in ToSet(frames)} = {near[i] : i \in 1 .. n}
    BY <1>1, <1>4 DEF ToSet
  <2>2. QED BY <1>6, <2>1 DEF Origin, Floor
<1>10. Size(frames, axis) = (hi + 1) \div 2 - (lo \div 2) + 1
  <2>1. {Far(f, axis) : f \in ToSet(frames)} = {far[i] : i \in 1 .. n}
    BY <1>1, <1>5 DEF ToSet
  <2>2. QED BY <1>7, <1>9, <2>1 DEF Size, Ceil
<1>11. PICK l \in Int : l = lo \div 2 /\ (lo = 2 * l \/ lo = 2 * l + 1) BY <1>8, Halves
<1>12. PICK h \in Int : h = (hi + 1) \div 2 /\ (hi + 1 = 2 * h \/ hi + 1 = 2 * h + 1)
  BY <1>8, Halves
<1>13. ASSUME NEW i \in 1 .. n
       PROVE  Floor(frames[i][axis]) - l \in Nat
              /\ Floor(frames[i][axis]) - l + e <= h - l + 1
  <2>1. PICK f \in Int : f = frames[i][axis] BY <1>3
  <2>2. lo <= f /\ f + 2 * (e - 1) <= hi
    BY <1>2, <1>4, <1>5, <1>8, <2>1 DEF Far
  <2>3. PICK g \in Int : g = f \div 2 /\ (f = 2 * g \/ f = 2 * g + 1) BY Halves
  <2>4. l <= g BY <1>8, <1>11, <2>2, <2>3
  <2>5. g + e - 1 <= h BY <1>8, <1>12, <2>2, <2>3
  <2>6. Floor(frames[i][axis]) = g BY <2>1, <2>3 DEF Floor
  <2>7. QED BY <2>4, <2>5, <2>6
<1>14. h - l + 1 \in Nat \ {0}
  <2>1. 1 \in 1 .. n OBVIOUS
  <2>2. PICK g \in Nat : g = Floor(frames[1][axis]) - l /\ g + e <= h - l + 1
    BY <1>13, <2>1
  <2>3. QED BY <2>2
<1>15. Origin(frames, axis) = l /\ Size(frames, axis) = h - l + 1
  BY <1>9, <1>10, <1>11, <1>12
<1>16. QED BY <1>1, <1>2, <1>3, <1>13, <1>14, <1>15

\* The canvas crops no frame and shows no pixel of it twice: of every frame
\* exactly its own number of pixels are on the canvas.
THEOREM FramesAreWhole ==
    ASSUME Sources, NEW frames \in Seq(Int \X Int), frames # <<>>
    PROVE  FramesFit(frames)
<1> DEFINE origins == <<Origin(frames, 1), Origin(frames, 2)>>
<1> SUFFICES ASSUME NEW i \in DOMAIN frames
             PROVE  Cardinality({p \in Canvas(frames) : Valid(frames[i], origins, p)})
                        = SourceWidth * SourceHeight
  BY DEF FramesFit
<1>1. PICK frame : frame = frames[i] OBVIOUS
<1>2. ASSUME NEW axis \in 1 .. 2
      PROVE  \E first \in Nat :
                /\ first + Extent(axis) <= Size(frames, axis)
                /\ \A n \in UpTo(Size(frames, axis)) :
                      Floor(SourceAt(frame, origins[axis], axis, n) + 1) \in UpTo(Extent(axis))
                          <=> n \in first .. first + Extent(axis) - 1
  <2>1. /\ Origin(frames, axis) \in Int /\ frame[axis] \in Int
        /\ Floor(frame[axis]) - Origin(frames, axis) \in Nat
        /\ Floor(frame[axis]) - Origin(frames, axis) + Extent(axis) <= Size(frames, axis)
        /\ Size(frames, axis) \in Nat
    BY <1>1, CanvasHolds
  <2>2. origins[axis] = Origin(frames, axis)
    <3>1. CASE axis = 1 BY <3>1
    <3>2. CASE axis = 2 BY <3>2
    <3>3. QED BY <3>1, <3>2
  <2>3. PICK first \in Nat : first = Floor(frame[axis]) - Origin(frames, axis) BY <2>1
  <2>4. ASSUME NEW n \in UpTo(Size(frames, axis))
        PROVE  Floor(SourceAt(frame, origins[axis], axis, n) + 1) \in UpTo(Extent(axis))
                   <=> n \in first .. first + Extent(axis) - 1
    <3>1. n \in Int BY <2>1 DEF UpTo
    <3>2. PICK origin \in Int : origin = Origin(frames, axis) BY <2>1
    <3>3. Floor(SourceAt(frame, origin, axis, n) + 1) \in UpTo(Extent(axis))
            <=> n \in Floor(frame[axis]) - origin .. Floor(frame[axis]) - origin + Extent(axis) - 1
      BY <2>1, <3>1, ShownOnAxis
    <3>4. QED BY <2>2, <2>3, <3>2, <3>3
  <2>5. QED BY <2>1, <2>3, <2>4
<1>3. PICK x \in Nat :
         /\ x + SourceWidth <= Size(frames, 1)
         /\ \A n \in UpTo(Size(frames, 1)) :
               Floor(SourceAt(frame, origins[1], 1, n) + 1) \in UpTo(Extent(1))
                   <=> n \in x .. x + SourceWidth - 1
  BY <1>2 DEF Extent
<1>4. PICK y \in Nat :
         /\ y + SourceHeight <= Size(frames, 2)
         /\ \A n \in UpTo(Size(frames, 2)) :
               Floor(SourceAt(frame, origins[2], 2, n) + 1) \in UpTo(Extent(2))
                   <=> n \in y .. y + SourceHeight - 1
  <2>1. Extent(2) = SourceHeight BY DEF Extent
  <2>2. QED BY <1>2, <2>1
<1>5. Size(frames, 1) \in Nat /\ Size(frames, 2) \in Nat BY CanvasHolds
<1>6. PICK xs : xs = x .. x + SourceWidth - 1 OBVIOUS
<1>7. PICK ys : ys = y .. y + SourceHeight - 1 OBVIOUS
<1>8. xs \subseteq UpTo(Size(frames, 1)) /\ ys \subseteq UpTo(Size(frames, 2))
  <2>1. PICK w \in Nat, h \in Nat : w = Size(frames, 1) /\ h = Size(frames, 2) BY <1>5
  <2>2. x + SourceWidth <= w /\ y + SourceHeight <= h BY <1>3, <1>4, <2>1
  <2>3. xs \subseteq 0 .. w - 1 BY <1>6, <2>2 DEF Sources
  <2>4. ys \subseteq 0 .. h - 1 BY <1>7, <2>2 DEF Sources
  <2>5. QED BY <2>1, <2>3, <2>4 DEF UpTo
<1>9. {p \in Canvas(frames) : Valid(frames[i], origins, p)} = xs \X ys
  <2>1. ASSUME NEW p \in Canvas(frames)
        PROVE  Valid(frames[i], origins, p) <=> p[1] \in xs /\ p[2] \in ys
    <3>1. p[1] \in UpTo(Size(frames, 1)) /\ p[2] \in UpTo(Size(frames, 2))
      BY DEF Canvas
    <3>2. Valid(frames[i], origins, p) <=>
            /\ Floor(SourceAt(frame, origins[1], 1, p[1]) + 1) \in UpTo(Extent(1))
            /\ Floor(SourceAt(frame, origins[2], 2, p[2]) + 1) \in UpTo(Extent(2))
      <4>1. 1 .. 2 = {1, 2} OBVIOUS
      <4>2. QED BY <1>1, <4>1 DEF Valid
    <3>3. QED BY <1>3, <1>4, <1>6, <1>7, <3>1, <3>2
  <2>2. QED BY <1>8, <2>1 DEF Canvas
<1>10. /\ IsFiniteSet(xs) /\ Cardinality(xs) = SourceWidth
       /\ IsFiniteSet(ys) /\ Cardinality(ys) = SourceHeight
  <2>1. SourceWidth \in Nat \ {0} /\ SourceHeight \in Nat \ {0} BY DEF Sources
  <2>2. IsFiniteSet(xs) /\ Cardinality(xs) = SourceWidth BY <1>6, <2>1, FS_Interval
  <2>3. IsFiniteSet(ys) /\ Cardinality(ys) = SourceHeight BY <1>7, <2>1, FS_Interval
  <2>4. QED BY <2>2, <2>3
<1>11. QED BY <1>9, <1>10, FS_Product

LEMMA MinOfTwo ==
    ASSUME NEW a \in Int, NEW b \in Int
    PROVE  Min({a, b}) = IF a <= b THEN a ELSE b
<1>1. PICK m \in {a, b} : m = IF a <= b THEN a ELSE b OBVIOUS
<1>2. \A x \in {a, b} : m <= x BY <1>1
<1>3. \A c \in {a, b} : (\A x \in {a, b} : c <= x) => c = m BY <1>1
<1>4. Min({a, b}) \in {a, b} /\ \A x \in {a, b} : Min({a, b}) <= x BY <1>2 DEF Min
<1>5. QED BY <1>1, <1>3, <1>4

\* A coordinate lies in one tile of its axis.
LEMMA TileOnAxis ==
    ASSUME NEW side \in Nat \ {0}, NEW w \in Nat, NEW n \in 0 .. w - 1
    PROVE  \E x \in 0 .. w - 1 :
              /\ x % side = 0 /\ n \in x .. Min({x + side, w}) - 1
              /\ \A z \in 0 .. w - 1 :
                    z % side = 0 /\ n \in z .. Min({z + side, w}) - 1 => z = x
<1>1. PICK q \in Nat, r \in 0 .. side - 1 : q = n \div side /\ n = side * q + r
  <2>1. PICK k \in Nat : k = n OBVIOUS
  <2>2. PICK q \in Nat : q = k \div side BY Division
  <2>3. PICK r \in 0 .. side - 1 : k = side * q + r BY <2>2, Division
  <2>4. QED BY <2>1, <2>2, <2>3
<1>2. PICK x \in Nat : x = side * q OBVIOUS
<1>3. x \in 0 .. w - 1 /\ n \in x .. x + side - 1 BY <1>1, <1>2
<1>4. x % side = 0
  <2>1. x = side * q + 0 /\ 0 \in 0 .. side - 1 BY <1>2
  <2>2. x \div side = q BY <2>1, DivisionUnique
  <2>3. x % side \in 0 .. side - 1 /\ x = side * q + (x % side) BY <2>2, Division
  <2>4. side * q \in Nat OBVIOUS
  <2>5. QED BY <1>2, <2>3, <2>4
<1>5. ASSUME NEW z \in 0 .. w - 1, n \in 0 .. w - 1
      PROVE  n \in z .. Min({z + side, w}) - 1 <=> n \in z .. z + side - 1
  <2>1. Min({z + side, w}) = IF z + side <= w THEN z + side ELSE w BY MinOfTwo
  <2>2. QED BY <2>1
<1>6. ASSUME NEW z \in 0 .. w - 1, z % side = 0, n \in z .. z + side - 1 PROVE z = x
  <2>1. PICK p \in Nat : p = z \div side BY Division
  <2>2. z = side * p
    <3>1. z = side * p + (z % side) BY <2>1, Division
    <3>2. side * p \in Nat OBVIOUS
    <3>3. QED BY <1>6, <3>1, <3>2
  <2>3. PICK s \in 0 .. side - 1 : n = side * p + s
    <3>1. side * p \in Nat OBVIOUS
    <3>2. n - z \in 0 .. side - 1 BY <1>6
    <3>3. n = side * p + (n - z) BY <2>2, <3>1
    <3>4. QED BY <3>2, <3>3
  <2>4. n \div side = p BY <2>3, DivisionUnique
  <2>5. QED BY <1>1, <1>2, <2>2, <2>4
<1>7. QED BY <1>3, <1>4, <1>5, <1>6

\* Whatever the size of the tiles and of the canvas, every pixel is rendered in
\* exactly one tile, and no tile leaves the canvas.
THEOREM TilesMakeCanvas ==
    ASSUME Sources, NEW frames \in Seq(Int \X Int), frames # <<>>, NEW side \in Nat \ {0}
    PROVE  TilesPartition(frames, side)
<1> DEFINE End(n, axis) == Min({n + side, Size(frames, axis)})
           Starts(axis) == {n \in UpTo(Size(frames, axis)) : n % side = 0}
           TileAt(x, y) == <<x, y, End(x, 1), End(y, 2)>>
           Reach(n, m) == n .. Min({n + side, m}) - 1
<1>1. PICK w \in Nat : w = Size(frames, 1) BY CanvasHolds
<1>2. PICK h \in Nat : h = Size(frames, 2) BY CanvasHolds
<1>3. Canvas(frames) = (0 .. w - 1) \X (0 .. h - 1) BY <1>1, <1>2 DEF Canvas, UpTo
<1>4. Tiles(frames, side) = {TileAt(x, y) : x \in Starts(1), y \in Starts(2)} BY DEF Tiles
<1>5. /\ Starts(1) = {n \in 0 .. w - 1 : n % side = 0}
      /\ Starts(2) = {n \in 0 .. h - 1 : n % side = 0}
  BY <1>1, <1>2 DEF UpTo
<1>6. \A x, y : Within(TileAt(x, y)) = Reach(x, w) \X Reach(y, h)
  BY <1>1, <1>2 DEF Within
<1> HIDE DEF Starts, TileAt
<1>7. ASSUME NEW n \in Nat, NEW m \in Nat PROVE Reach(n, m) \subseteq 0 .. m - 1
  <2>1. PICK e \in Int : e = Min({n + side, m}) /\ e <= m
    <3>1. Min({n + side, m}) = IF n + side <= m THEN n + side ELSE m BY MinOfTwo
    <3>2. QED BY <3>1
  <2>2. n .. e - 1 \subseteq 0 .. m - 1
    <3>1. \A i \in n .. e - 1 : i \in 0 .. m - 1 BY <2>1
    <3>2. QED BY <3>1
  <2>3. QED BY <2>1, <2>2
<1>8. ASSUME NEW t \in Tiles(frames, side) PROVE Within(t) \subseteq Canvas(frames)
  <2>1. PICK x \in Starts(1), y \in Starts(2) : t = TileAt(x, y) BY <1>4
  <2>2. x \in Nat /\ y \in Nat BY <1>5
  <2>3. Reach(x, w) \subseteq 0 .. w - 1 /\ Reach(y, h) \subseteq 0 .. h - 1 BY <1>7, <2>2
  <2> HIDE DEF Reach
  <2>4. QED BY <1>3, <1>6, <2>1, <2>3
<1>9. ASSUME NEW p \in Canvas(frames)
      PROVE  \E t \in Tiles(frames, side) :
                p \in Within(t) /\ \A u \in Tiles(frames, side) : p \in Within(u) => u = t
  <2>1. p = <<p[1], p[2]>> /\ p[1] \in 0 .. w - 1 /\ p[2] \in 0 .. h - 1 BY <1>3
  <2>2. PICK x \in 0 .. w - 1 :
           /\ x % side = 0 /\ p[1] \in Reach(x, w)
           /\ \A z \in 0 .. w - 1 :
                 z % side = 0 /\ p[1] \in Reach(z, w) => z = x
    BY <2>1, TileOnAxis
  <2>3. PICK y \in 0 .. h - 1 :
           /\ y % side = 0 /\ p[2] \in Reach(y, h)
           /\ \A z \in 0 .. h - 1 :
                 z % side = 0 /\ p[2] \in Reach(z, h) => z = y
    BY <2>1, TileOnAxis
  <2> HIDE DEF Reach
  <2>4. TileAt(x, y) \in Tiles(frames, side) BY <1>4, <1>5, <2>2, <2>3
  <2>5. p \in Within(TileAt(x, y)) BY <1>6, <2>1, <2>2, <2>3
  <2>6. ASSUME NEW u \in Tiles(frames, side), p \in Within(u) PROVE u = TileAt(x, y)
    <3>1. PICK a \in Starts(1), b \in Starts(2) : u = TileAt(a, b) BY <1>4
    <3>2. p[1] \in Reach(a, w) /\ p[2] \in Reach(b, h)
      BY <1>6, <2>6, <3>1
    <3>3. a = x /\ b = y BY <1>5, <2>2, <2>3, <3>2
    <3>4. QED BY <3>1, <3>3
  <2>7. QED BY <2>4, <2>5, <2>6
<1>10. QED BY <1>8, <1>9 DEF TilesPartition


-----------------------------------------------------------------------------
(* What is filled of a preview.                                            *)

Grown(region, within) == region \cup {p \in within : \E q \in region : Touch(p, q)}

Closed(region, within) == Grown(region, within) = region

\* The component of a pixel, which the code has from a library, grows until
\* nothing touches it any more: the recursion ends, on any finite preview.
LEMMA ComponentIs ==
    ASSUME PreviewWidth \in Nat, PreviewHeight \in Nat,
           NEW within \in SUBSET Pixels, NEW pixel \in within
    PROVE  /\ pixel \in Component(pixel, within)
           /\ Component(pixel, within) \subseteq within
           /\ Closed(Component(pixel, within), within)
<1> DEFINE Joined(j) ==
               j = [region \in SUBSET Pixels |->
                       IF Grown(region, within) = region THEN region ELSE j[Grown(region, within)]]
           joined == CHOOSE j : Joined(j)
           Closure(region) ==
               {p \in Pixels : \A c \in SUBSET Pixels :
                                  region \subseteq c /\ Closed(c, within) => p \in c}
           closure == [region \in SUBSET Pixels |-> Closure(region)]
           Missing(region) == Cardinality(Pixels \ region)
           Right(region) ==
               /\ region \subseteq joined[region]
               /\ joined[region] \subseteq region \cup within
               /\ Closed(joined[region], within)
<1>1. Component(pixel, within) = joined[{pixel}] BY DEF Component, Grown
<1>2. \A region \in SUBSET Pixels :
         Grown(region, within) \in SUBSET Pixels /\ region \subseteq Grown(region, within)
  BY DEF Grown
<1>3. \A r, c \in SUBSET Pixels : r \subseteq c => Grown(r, within) \subseteq Grown(c, within)
  BY DEF Grown
<1>4. ASSUME NEW region \in SUBSET Pixels, Grown(region, within) = region
      PROVE  Closure(region) = region
  BY <1>4 DEF Closed
<1>5. ASSUME NEW region \in SUBSET Pixels
      PROVE  Closure(Grown(region, within)) = Closure(region)
  <2>1. \A c \in SUBSET Pixels :
           Closed(c, within) => (region \subseteq c <=> Grown(region, within) \subseteq c)
    BY <1>2, <1>3 DEF Closed
  <2>2. QED BY <2>1
<1>6. Joined(closure)
  <2> HIDE DEF Closure
  <2>1. \A region \in SUBSET Pixels :
           closure[region] = IF Grown(region, within) = region THEN region
                             ELSE closure[Grown(region, within)]
    BY <1>2, <1>4, <1>5
  <2>2. QED BY <2>1
<1>7. Joined(joined)
  <2> HIDE DEF Joined
  <2>1. QED BY <1>6
<1> HIDE DEF joined, closure, Closure
<1>8. \A region \in SUBSET Pixels :
         joined[region] = IF Grown(region, within) = region THEN region
                          ELSE joined[Grown(region, within)]
  BY <1>7
<1> HIDE DEF Joined
<1>9. IsFiniteSet(Pixels)
  <2>1. IsFiniteSet(0 .. PreviewWidth - 1) /\ IsFiniteSet(0 .. PreviewHeight - 1) BY FS_Interval
  <2>2. QED BY <2>1, FS_Product DEF Pixels
<1>10. \A region \in SUBSET Pixels : Missing(region) \in Nat
  BY <1>9, FS_Subset, FS_CardinalityType
<1>11. ASSUME NEW region \in SUBSET Pixels,
              \A r \in SUBSET Pixels : Missing(r) < Missing(region) => Right(r)
       PROVE  Right(region)
  <2>1. CASE Grown(region, within) = region
    <3>1. joined[region] = region BY <1>8, <2>1
    <3>2. QED BY <2>1, <3>1 DEF Closed
  <2>2. CASE Grown(region, within) # region
    <3>1. PICK grown \in SUBSET Pixels : grown = Grown(region, within) BY <1>2
    <3>2. region \subseteq grown /\ grown # region /\ grown \subseteq region \cup within
      BY <2>2, <3>1 DEF Grown
    <3>3. Missing(grown) < Missing(region)
      <4>1. PICK few, many : few = Pixels \ grown /\ many = Pixels \ region OBVIOUS
      <4>2. few \in SUBSET many /\ few # many /\ IsFiniteSet(many)
        BY <1>9, <3>2, <4>1, FS_Subset
      <4>3. Cardinality(few) \in Nat /\ Cardinality(many) \in Nat BY <4>2, FS_Subset, FS_CardinalityType
      <4>4. Cardinality(few) <= Cardinality(many) /\ Cardinality(few) # Cardinality(many)
        BY <4>2, FS_Subset
      <4>5. Cardinality(few) < Cardinality(many) BY <4>3, <4>4
      <4>6. QED BY <4>1, <4>5
    <3>4. joined[region] = joined[grown] BY <1>8, <2>2, <3>1
    <3>5. Right(grown) BY <1>11, <3>3
    <3>6. QED BY <3>2, <3>4, <3>5
  <2>3. QED BY <2>1, <2>2
<1>12. \A region \in SUBSET Pixels : Right(region)
  <2> DEFINE wrong == {Missing(region) : region \in {r \in SUBSET Pixels : ~Right(r)}}
  <2> HIDE DEF Right
  <2>1. CASE wrong = {} BY <2>1
  <2>2. CASE wrong # {}
    <3>1. wrong \subseteq Nat BY <1>10
    <3> HIDE DEF Missing
    <3>2. PICK least \in wrong : \A k \in wrong : least <= k BY <2>2, <3>1, LeastNumber
    <3>3. PICK region \in SUBSET Pixels : ~Right(region) /\ Missing(region) = least BY <3>2
    <3>4. \A r \in SUBSET Pixels : Missing(r) < Missing(region) => Right(r) BY <1>10, <3>2, <3>3
    <3>5. QED BY <1>11, <3>3, <3>4
  <2>3. QED BY <2>1, <2>2
<1>13. {pixel} \in SUBSET Pixels OBVIOUS
<1>14. Right({pixel}) BY <1>12, <1>13
<1>15. QED BY <1>1, <1>14

\* _central_opening and its caller (reconstruction/preview_center.py): whatever was
\* acquired and whatever the reference covers, only the opening around the
\* center is filled, and all of it that the reference has.
THEOREM OnlyOpeningIsFilled ==
    ASSUME PreviewWidth \in Nat, PreviewHeight \in Nat,
           NEW preview, DOMAIN preview = Pixels, \A p \in Pixels : preview[p] # "reference",
           NEW covered, NEW center, NEW reference
    PROVE  OnlyOpeningFilled(preview, covered, center, reference)
<1> DEFINE result == Completed(preview, center, reference)
           filled == {p \in Pixels : result[p] # preview[p]}
           uncovered == {p \in Pixels : preview[p] = "black"}
           region == Opening(Acquired(preview), center)
           Neighbours(p) == {q \in Pixels : {q[1] - p[1], q[2] - p[2]} \subseteq -1 .. 1}
           fill == (region \cap reference) \ Acquired(preview)
<1> SUFFICES ASSUME result # NotCompleted
             PROVE  /\ filled \cap covered \subseteq uncovered
                    /\ center \in region /\ region \subseteq uncovered \ Border
                    /\ \A p \in region : Neighbours(p) \cap uncovered \subseteq region
                    /\ filled # {} /\ filled = region \cap reference
  BY DEF OnlyOpeningFilled
<1>1. /\ fill # {}
      /\ result = [p \in Pixels |-> IF p \in fill THEN "reference" ELSE preview[p]]
  BY DEF Completed
<1>2. uncovered = Pixels \ Acquired(preview) BY DEF Acquired
<1>3. PICK opening : opening = Component(center, uncovered) OBVIOUS
<1>4. /\ center \in Pixels \ Acquired(preview) /\ region = opening
      /\ opening \cap Border = {}
  <2>1. region # {} BY <1>1
  <2> HIDE DEF uncovered
  <2>2. QED BY <1>2, <1>3, <2>1 DEF Opening
<1>5. center \in opening /\ opening \subseteq uncovered /\ Closed(opening, uncovered)
  <2>1. uncovered \in SUBSET Pixels /\ center \in uncovered BY <1>2, <1>4
  <2>2. QED BY <1>3, <2>1, ComponentIs
<1>6. ASSUME NEW p \in region, NEW q \in Neighbours(p) \cap uncovered
      PROVE  q \in region
  <2>1. Touch(q, p) BY DEF Touch
  <2>2. QED BY <1>4, <1>5, <2>1 DEF Closed, Grown
<1>7. filled = region \cap reference
  <2>1. region \subseteq Pixels /\ region \cap Acquired(preview) = {} BY <1>2, <1>4, <1>5
  <2> HIDE DEF region, uncovered
  <2>2. fill = region \cap reference BY <2>1
  <2>3. fill \subseteq Pixels BY <2>1
  <2> HIDE DEF fill
  <2>4. filled = fill BY <1>1, <2>3
  <2>5. QED BY <2>2, <2>4
<1>8. filled \subseteq uncovered BY <1>4, <1>5, <1>7
<1>9. QED BY <1>1, <1>4, <1>5, <1>6, <1>7, <1>8

-----------------------------------------------------------------------------
(* Sorting.                                                                *)

\* Tuples of the same length are in a strict order.
LEMMA TuplesInOrder ==
    ASSUME NEW w \in Nat, NEW a \in Seq(Int), NEW b \in Seq(Int), NEW c \in Seq(Int),
           Len(a) = w, Len(b) = w, Len(c) = w
    PROVE  /\ ~Before(a, a)
           /\ a # b => Before(a, b) \/ Before(b, a)
           /\ Before(a, b) /\ Before(b, c) => Before(a, c)
<1>1. /\ DOMAIN a = 1 .. w /\ DOMAIN b = 1 .. w /\ DOMAIN c = 1 .. w
      /\ \A i \in 1 .. w : a[i] \in Int /\ b[i] \in Int /\ c[i] \in Int
  BY LenProperties, ElementOfSeq
<1>2. ~Before(a, a) BY <1>1 DEF Before
<1>3. ASSUME a # b PROVE Before(a, b) \/ Before(b, a)
  <2>1. PICK T : T = {i \in 1 .. w : a[i] # b[i]} OBVIOUS
  <2>2. T \subseteq Nat /\ T # {}
    <3>1. ASSUME T = {} PROVE FALSE
      <4>1. \A i \in 1 .. Len(a) : a[i] = b[i] BY <2>1, <3>1
      <4>2. a = b BY <4>1, SeqEqual
      <4>3. QED BY <1>3, <4>2
    <3>2. QED BY <2>1, <3>1
  <2>3. PICK i \in T : \A j \in T : i <= j BY <2>2, LeastNumber
  <2>4. i \in 1 .. w /\ a[i] # b[i] BY <2>1, <2>3
  <2>5. \A j \in 1 .. (i - 1) : a[j] = b[j]
    <3>1. SUFFICES ASSUME NEW j \in 1 .. (i - 1), a[j] # b[j] PROVE FALSE
      OBVIOUS
    <3>2. j \in T /\ ~ (i <= j) BY <2>1, <2>4, <3>1
    <3>3. QED BY <2>3, <3>2
  <2>6. a[i] < b[i] \/ b[i] < a[i] BY <1>1, <2>4
  <2>7. QED BY <1>1, <2>4, <2>5, <2>6 DEF Before
<1>4. ASSUME Before(a, b), Before(b, c) PROVE Before(a, c)
  <2>1. PICK i \in 1 .. w : a[i] < b[i] /\ \A k \in 1 .. (i - 1) : a[k] = b[k]
    BY <1>1, <1>4 DEF Before
  <2>2. PICK j \in 1 .. w : b[j] < c[j] /\ \A k \in 1 .. (j - 1) : b[k] = c[k]
    BY <1>1, <1>4 DEF Before
  <2>3. CASE i <= j
    <3>1. a[i] < c[i]
      <4>1. CASE i = j BY <1>1, <2>1, <2>2, <4>1
      <4>2. CASE i < j
        <5>1. b[i] = c[i] BY <2>2, <4>2
        <5>2. QED BY <2>1, <5>1
      <4>3. QED BY <2>3, <4>1, <4>2
    <3>2. \A k \in 1 .. (i - 1) : a[k] = c[k] BY <2>1, <2>2, <2>3
    <3>3. QED BY <1>1, <3>1, <3>2 DEF Before
  <2>4. CASE j < i
    <3>1. a[j] = b[j] BY <2>1, <2>4
    <3>2. a[j] < c[j] BY <2>2, <3>1
    <3>3. \A k \in 1 .. (j - 1) : a[k] = c[k] BY <2>1, <2>2, <2>4
    <3>4. QED BY <1>1, <3>2, <3>3 DEF Before
  <2>5. QED BY <2>3, <2>4
<1>5. QED BY <1>2, <1>3, <1>4

Keyed(key, places, w) == \A i \in places : key[i] \in Seq(Int) /\ Len(key[i]) = w

LEMMA PlacesInOrder ==
    ASSUME NEW places \in SUBSET Int, NEW w \in Nat, NEW key, Keyed(key, places, w),
           NEW i \in places, NEW j \in places, NEW k \in places
    PROVE  /\ ~Earlier(key, i, i)
           /\ i # j => Earlier(key, i, j) \/ Earlier(key, j, i)
           /\ Earlier(key, i, j) /\ Earlier(key, j, k) => Earlier(key, i, k)
<1>1. /\ key[i] \in Seq(Int) /\ key[j] \in Seq(Int) /\ key[k] \in Seq(Int)
      /\ Len(key[i]) = w /\ Len(key[j]) = w /\ Len(key[k]) = w
  BY DEF Keyed
<1>2. /\ ~Before(key[i], key[i])
      /\ key[i] # key[j] => Before(key[i], key[j]) \/ Before(key[j], key[i])
      /\ Before(key[i], key[j]) /\ Before(key[j], key[k]) => Before(key[i], key[k])
  BY <1>1, TuplesInOrder
<1>3. i \in Int /\ j \in Int /\ k \in Int OBVIOUS
<1>4. QED BY <1>2, <1>3 DEF Earlier

\* The ranks of some places are the numbers from one on.
LEMMA Ranks ==
    ASSUME NEW places \in SUBSET Int, IsFiniteSet(places), NEW w \in Nat, NEW key,
           Keyed(key, places, w)
    PROVE  /\ \A i \in places : Rank(places, key, i) \in 1 .. Cardinality(places)
           /\ \A i, j \in places :
                 /\ Earlier(key, i, j) => Rank(places, key, i) < Rank(places, key, j)
                 /\ Rank(places, key, i) = Rank(places, key, j) => i = j
           /\ \A n \in 1 .. Cardinality(places) : \E i \in places : Rank(places, key, i) = n
<1> DEFINE Ahead(i) == {j \in places : Earlier(key, j, i)}
           rank == [i \in places |-> Rank(places, key, i)]
           ranks == {Rank(places, key, i) : i \in places}
<1>1. PICK n \in Nat : n = Cardinality(places) BY FS_CardinalityType
<1>2. ASSUME NEW i \in places
      PROVE  /\ Ahead(i) \in SUBSET (places \ {i}) /\ IsFiniteSet(Ahead(i))
             /\ Rank(places, key, i) = Cardinality(Ahead(i)) + 1
             /\ Cardinality(Ahead(i)) \in 0 .. n - 1
  <2>1. Ahead(i) \in SUBSET (places \ {i}) BY PlacesInOrder
  <2>2. IsFiniteSet(places \ {i}) /\ Cardinality(places \ {i}) = n - 1
    BY <1>1, FS_RemoveElement
  <2> HIDE DEF Ahead
  <2>3. IsFiniteSet(Ahead(i)) /\ Cardinality(Ahead(i)) <= n - 1 BY <2>1, <2>2, FS_Subset
  <2>4. Cardinality(Ahead(i)) \in Nat BY <2>3, FS_CardinalityType
  <2>5. Rank(places, key, i) = Cardinality(Ahead(i)) + 1 BY DEF Rank, Ahead
  <2>6. Cardinality(Ahead(i)) \in 0 .. n - 1 BY <2>3, <2>4
  <2>7. QED BY <2>1, <2>3, <2>5, <2>6
<1>3. ASSUME NEW i \in places PROVE Rank(places, key, i) \in 1 .. n
  <2>1. PICK c : c = Cardinality(Ahead(i)) OBVIOUS
  <2>2. c \in 0 .. n - 1 /\ Rank(places, key, i) = c + 1 BY <1>2, <2>1
  <2>3. QED BY <2>2
<1>4. ASSUME NEW i \in places, NEW j \in places, Earlier(key, i, j)
      PROVE  Rank(places, key, i) < Rank(places, key, j)
  <2>1. PICK few, many : few = Ahead(i) /\ many = Ahead(j) OBVIOUS
  <2>2. few \subseteq many /\ i \in many /\ i \notin few BY <1>2, <1>4, <2>1, PlacesInOrder
  <2>3. IsFiniteSet(many) /\ IsFiniteSet(few) BY <1>2, <2>1
  <2>4. Cardinality(few) <= Cardinality(many) /\ Cardinality(few) # Cardinality(many)
    BY <2>2, <2>3, FS_Subset
  <2>5. Cardinality(few) \in Nat /\ Cardinality(many) \in Nat BY <2>3, FS_CardinalityType
  <2>6. Cardinality(few) < Cardinality(many) BY <2>4, <2>5
  <2>7. /\ Rank(places, key, i) = Cardinality(few) + 1
        /\ Rank(places, key, j) = Cardinality(many) + 1
    BY <1>2, <2>1
  <2>8. QED BY <2>5, <2>6, <2>7
<1>5. ASSUME NEW i \in places, NEW j \in places, Rank(places, key, i) = Rank(places, key, j)
      PROVE  i = j
  <2>1. ~Earlier(key, i, j) /\ ~Earlier(key, j, i) BY <1>1, <1>3, <1>4, <1>5
  <2>2. QED BY <2>1, PlacesInOrder
<1>6. ranks = 1 .. n
  <2>1. rank \in Surjection(places, ranks) BY DEF Surjection
  <2>7. \A i, j \in places : rank[i] = rank[j] => i = j BY <1>5
  <2>8. rank \in [places -> ranks] BY DEF ranks
  <2> HIDE DEF rank
  <2>2. rank \in Injection(places, ranks) BY <2>7, <2>8 DEF Injection, IsInjective
  <2>3. IsFiniteSet(ranks) /\ Cardinality(ranks) = n BY <1>1, <2>1, <2>2, FS_Surjection
  <2>4. ranks \in SUBSET (1 .. n) BY <1>3
  <2>5. IsFiniteSet(1 .. n) /\ Cardinality(1 .. n) = n BY FS_Interval
  <2> HIDE DEF ranks
  <2>6. QED BY <2>3, <2>4, <2>5, FS_Subset
<1>7. \A m \in 1 .. n : m \in ranks BY <1>6
<1>8. QED BY <1>1, <1>3, <1>4, <1>5, <1>7

\* The order names each place once, those of lesser keys first.
LEMMA OrderIs ==
    ASSUME NEW places \in SUBSET Int, IsFiniteSet(places), NEW w \in Nat, NEW key,
           Keyed(key, places, w)
    PROVE  LET order == Order(places, key)
           IN  /\ Cardinality(places) \in Nat
               /\ order \in [1 .. Cardinality(places) -> places]
               /\ \A i \in places : \E n \in 1 .. Cardinality(places) : order[n] = i
               /\ \A m, n \in 1 .. Cardinality(places) :
                     m < n => Earlier(key, order[m], order[n]) /\ order[m] # order[n]
<1> DEFINE order == Order(places, key)
           ranked == {<<Rank(places, key, i), i>> : i \in places}
<1>1. PICK n \in Nat : n = Cardinality(places) BY FS_CardinalityType
<1>2. order = [k \in 1 .. n |-> (CHOOSE p \in ranked : p[1] = k)[2]] BY <1>1 DEF Order
<1>8. /\ \A i \in places : Rank(places, key, i) \in 1 .. n
      /\ \A i, j \in places :
            /\ Earlier(key, i, j) => Rank(places, key, i) < Rank(places, key, j)
            /\ Rank(places, key, i) = Rank(places, key, j) => i = j
      /\ \A k \in 1 .. n : \E i \in places : Rank(places, key, i) = k
  BY <1>1, Ranks
<1>3. ASSUME NEW k \in 1 .. n
      PROVE  order[k] \in places /\ Rank(places, key, order[k]) = k
  <2>1. PICK i \in places : Rank(places, key, i) = k BY <1>8
  <2>2. <<k, i>> \in ranked /\ <<k, i>>[1] = k BY <2>1
  <2>3. PICK p : p = CHOOSE q \in ranked : q[1] = k OBVIOUS
  <2>4. p \in ranked /\ p[1] = k BY <2>2, <2>3
  <2>5. PICK j \in places : p = <<Rank(places, key, j), j>> BY <2>4
  <2>6. order[k] = p[2] BY <1>2, <2>3
  <2>7. QED BY <2>4, <2>5, <2>6
<1> HIDE DEF order
<1>4. ASSUME NEW i \in places PROVE \E k \in 1 .. n : order[k] = i
  <2>1. PICK k \in 1 .. n : k = Rank(places, key, i) BY <1>8
  <2>2. order[k] = i BY <1>3, <1>8, <2>1
  <2>3. QED BY <2>2
<1>5. ASSUME NEW k \in 1 .. n, NEW l \in 1 .. n, k < l
      PROVE  Earlier(key, order[k], order[l]) /\ order[k] # order[l]
  <2>1. order[k] \in places /\ order[l] \in places BY <1>3
  <2>2. order[k] # order[l] BY <1>3, <1>5
  <2>3. ~Earlier(key, order[l], order[k])
    <3>1. Earlier(key, order[l], order[k]) =>
             Rank(places, key, order[l]) < Rank(places, key, order[k])
      BY <1>8, <2>1
    <3>2. QED BY <1>3, <1>5, <3>1
  <2>4. QED BY <2>1, <2>2, <2>3, PlacesInOrder
<1>6. order \in [1 .. n -> places] BY <1>2, <1>3
<1>7. QED BY <1>1, <1>4, <1>5, <1>6 DEF order

\* A result has the items at some places, each once, in an order of its own.
Arranges(order, result, items, places) ==
    LET n == Len(result)
    IN  /\ order \in [1 .. n -> places]
        /\ \A k \in 1 .. n : result[k] = items[order[k]]
        /\ \A k, l \in 1 .. n : k < l => order[k] # order[l]
        /\ \A i \in places : \E k \in 1 .. n : order[k] = i

ArrangesBy(order, result, items, key) ==
    /\ Arranges(order, result, items, 1 .. Len(items))
    /\ \A k, l \in 1 .. Len(items) : k < l => Earlier(key, order[k], order[l])

\* Sorting rearranges, and puts lesser keys first.
LEMMA SortedIs ==
    ASSUME NEW E, NEW items \in Seq(E), NEW w \in Nat, NEW key, Keyed(key, DOMAIN items, w)
    PROVE  /\ Sorted(items, key) \in Seq(E) /\ Len(Sorted(items, key)) = Len(items)
           /\ ToSet(Sorted(items, key)) = ToSet(items)
           /\ \E order : ArrangesBy(order, Sorted(items, key), items, key)
<1> DEFINE n == Len(items)
<1>1. n \in Nat /\ DOMAIN items = 1 .. n BY LenProperties
<1> HIDE DEF n
<1>2. \A i \in 1 .. n : items[i] \in E BY ElementOfSeq DEF n
<1>3. PICK places : places = 1 .. n OBVIOUS
<1>4. places \in SUBSET Int /\ IsFiniteSet(places) /\ Cardinality(places) = n
  BY <1>1, <1>3, FS_Interval
<1>5. Keyed(key, places, w) BY <1>1, <1>3
<1>6. PICK order : order = Order(places, key) OBVIOUS
<1>7. /\ order \in [1 .. n -> places]
      /\ \A i \in places : \E k \in 1 .. n : order[k] = i
      /\ \A k, l \in 1 .. n : k < l => Earlier(key, order[k], order[l]) /\ order[k] # order[l]
  BY <1>4, <1>5, <1>6, OrderIs
<1>8. PICK sorted : sorted = Sorted(items, key) OBVIOUS
<1>9. sorted = [k \in 1 .. n |-> items[order[k]]] BY <1>1, <1>3, <1>6, <1>8 DEF Sorted, n
<1>10. \A k \in 1 .. n : order[k] \in 1 .. n BY <1>3, <1>7
<1>11. sorted \in Seq(E) /\ Len(sorted) = n /\ DOMAIN sorted = 1 .. n
  BY <1>1, <1>2, <1>9, <1>10, IsASeq
<1>12. \A k \in 1 .. n : sorted[k] = items[order[k]] BY <1>9
<1>13. ToSet(sorted) = ToSet(items)
  <2>1. ToSet(sorted) = {sorted[k] : k \in 1 .. n} BY <1>11 DEF ToSet
  <2>2. ToSet(items) = {items[k] : k \in 1 .. n} BY <1>1 DEF ToSet
  <2>3. \A i \in places : \E k \in 1 .. n : sorted[k] = items[i] BY <1>7, <1>12
  <2>4. \A i \in 1 .. n : \E k \in 1 .. n : sorted[k] = items[i] BY <1>3, <2>3
  <2>5. \A k \in 1 .. n : \E i \in 1 .. n : sorted[k] = items[i] BY <1>10, <1>12
  <2>6. QED BY <2>1, <2>2, <2>4, <2>5
<1>14. order \in [1 .. n -> 1 .. n]
  <2>1. order = [k \in 1 .. n |-> order[k]] BY <1>7
  <2>2. QED BY <1>10, <2>1
<1>15. \A i \in 1 .. n : \E k \in 1 .. n : order[k] = i BY <1>3, <1>7
<1>16. \A k, l \in 1 .. n : k < l => order[k] # order[l] /\ Earlier(key, order[k], order[l])
  BY <1>7
<1>17. ArrangesBy(order, sorted, items, key)
  <2>1. Arranges(order, sorted, items, 1 .. n)
    BY <1>11, <1>12, <1>14, <1>15, <1>16 DEF Arranges
  <2>2. QED BY <1>16, <2>1 DEF ArrangesBy, n
<1>18. QED BY <1>8, <1>11, <1>13, <1>17 DEF n

\* Selecting keeps the items at the places, in their order.
LEMMA SelectedIs ==
    ASSUME NEW E, NEW items \in Seq(E), NEW places \in SUBSET DOMAIN items
    PROVE  /\ Selected(items, places) \in Seq(E)
           /\ Len(Selected(items, places)) = Cardinality(places)
           /\ ToSet(Selected(items, places)) = {items[i] : i \in places}
           /\ \E order :
                 /\ Arranges(order, Selected(items, places), items, places)
                 /\ \A m, n \in 1 .. Cardinality(places) : m < n => order[m] < order[n]
<1>1. PICK len \in Nat : len = Len(items) /\ DOMAIN items = 1 .. len BY LenProperties
<1>2. \A i \in 1 .. len : items[i] \in E BY <1>1, ElementOfSeq
<1>3. places \in SUBSET Int /\ IsFiniteSet(places)
  <2>1. IsFiniteSet(1 .. len) BY FS_Interval
  <2>2. QED BY <1>1, <2>1, FS_Subset
<1>4. PICK n \in Nat : n = Cardinality(places) BY <1>3, FS_CardinalityType
<1>5. PICK key : key = [i \in places |-> <<i>>] OBVIOUS
<1>6. Keyed(key, places, 1) BY <1>3, <1>5 DEF Keyed
<1>7. PICK order : order = Order(places, key) OBVIOUS
<1>8. /\ order \in [1 .. n -> places]
      /\ \A i \in places : \E k \in 1 .. n : order[k] = i
      /\ \A k, l \in 1 .. n : k < l => Earlier(key, order[k], order[l]) /\ order[k] # order[l]
  BY <1>3, <1>4, <1>6, <1>7, OrderIs
<1>9. ASSUME NEW k \in 1 .. n, NEW l \in 1 .. n, k < l PROVE order[k] < order[l]
  <2>1. PICK i \in places, j \in places : i = order[k] /\ j = order[l] BY <1>8
  <2>2. i \in Int /\ j \in Int /\ i # j BY <1>3, <1>8, <1>9, <2>1
  <2>3. Before(<<i>>, <<j>>)
    <3>1. key[i] = <<i>> /\ key[j] = <<j>> /\ <<i>> # <<j>> BY <1>5, <2>2
    <3>2. Earlier(key, i, j) BY <1>8, <1>9, <2>1
    <3>3. QED BY <3>1, <3>2 DEF Earlier
  <2>4. i < j BY <2>2, <2>3 DEF Before
  <2>5. QED BY <2>1, <2>4
<1>10. PICK selected : selected = Selected(items, places) OBVIOUS
<1>11. selected = [k \in 1 .. n |-> items[order[k]]] BY <1>4, <1>5, <1>7, <1>10 DEF Selected
<1>12. \A k \in 1 .. n : items[order[k]] \in E BY <1>1, <1>2, <1>8
<1>13. selected \in Seq(E) /\ Len(selected) = n /\ DOMAIN selected = 1 .. n
  BY <1>11, <1>12, IsASeq
<1>14. \A k \in 1 .. n : selected[k] = items[order[k]] BY <1>11
<1>15. ToSet(selected) = {items[i] : i \in places}
  <2>1. ToSet(selected) = {selected[k] : k \in 1 .. n} BY <1>13 DEF ToSet
  <2>2. \A i \in places : \E k \in 1 .. n : selected[k] = items[i] BY <1>8, <1>14
  <2>3. \A k \in 1 .. n : order[k] \in places BY <1>8
  <2>4. QED BY <1>14, <2>1, <2>2, <2>3
<1>16. Arranges(order, selected, items, places) BY <1>8, <1>13, <1>14 DEF Arranges
<1>17. QED BY <1>4, <1>9, <1>10, <1>13, <1>15, <1>16

\* There is one order of the same items by keys that are all different.
SameInOrder(n, R, a, b) ==
    /\ \A i, j \in 1 .. n : i < j => <<a[i], a[j]>> \in R /\ <<b[i], b[j]>> \in R
    /\ \A x, y : <<x, y>> \in R => <<y, x>> \notin R
    /\ \A i \in 1 .. n : \E j \in 1 .. n : a[i] = b[j]
    /\ \A i \in 1 .. n : \E j \in 1 .. n : b[i] = a[j]

LEMMA OneOrder ==
    ASSUME NEW n \in Nat, NEW R, NEW a, NEW b, SameInOrder(n, R, a, b)
    PROVE  \A i \in 1 .. n : a[i] = b[i]
<1> USE DEF SameInOrder
<1>1. PICK T : T = {i \in 1 .. n : a[i] # b[i]} OBVIOUS
<1>2. ASSUME T # {} PROVE FALSE
  <2>1. T \subseteq Nat BY <1>1
  <2>2. PICK i \in T : \A j \in T : i <= j BY <1>2, <2>1, LeastNumber
  <2>3. i \in 1 .. n /\ a[i] # b[i] /\ \A j \in 1 .. n : j < i => a[j] = b[j]
    BY <1>1, <2>2
  <2>4. PICK j \in 1 .. n : a[i] = b[j] BY <2>3
  <2>5. PICK k \in 1 .. n : b[i] = a[k] BY <2>3
  <2>6. i < j
    <3>1. i # j BY <2>3, <2>4
    <3>2. ASSUME j < i PROVE FALSE
      <4>1. a[j] = b[j] BY <2>3, <3>2
      <4>2. a[j] = a[i] BY <2>4, <4>1
      <4>3. <<a[j], a[i]>> \in R BY <2>3, <3>2
      <4>4. QED BY <4>2, <4>3
    <3>3. QED BY <2>3, <3>1, <3>2
  <2>7. i < k
    <3>1. i # k BY <2>3, <2>5
    <3>2. ASSUME k < i PROVE FALSE
      <4>1. a[k] = b[k] BY <2>3, <3>2
      <4>2. b[k] = b[i] BY <2>5, <4>1
      <4>3. <<b[k], b[i]>> \in R BY <2>3, <3>2
      <4>4. QED BY <4>2, <4>3
    <3>3. QED BY <2>3, <3>1, <3>2
  <2>8. <<b[i], b[j]>> \in R /\ <<a[i], a[k]>> \in R BY <2>3, <2>6, <2>7
  <2>9. <<b[i], a[i]>> \in R /\ <<a[i], b[i]>> \in R BY <2>4, <2>5, <2>8
  <2>10. QED BY <2>9
<1>3. QED BY <1>1, <1>2

-----------------------------------------------------------------------------
(* The detections of slices, merged.                                       *)

SliceMerge == INSTANCE MergeProofs WITH Duplicate <- SameDefect, Join <- Union

\* The definitions of the instances are the same.
LEMMA SameMerge ==
    /\ \A items : Merge!Merged(items) = SliceMerge!Merged(items)
    /\ \A list : SliceMerge!ToSet(list) = ToSet(list)
<1>1. \A c, p : Merge!Pass(c, p) = SliceMerge!Pass(c, p)
  BY DEF Merge!Pass, SliceMerge!Pass, Merge!FoldLeft, SliceMerge!FoldLeft,
     Merge!MapThenFoldSet, SliceMerge!MapThenFoldSet, Merge!Max, SliceMerge!Max
<1>2. \A c, p : Merge!Group(c, p) = SliceMerge!Group(c, p)
  BY DEF Merge!Group, SliceMerge!Group, Merge!Pass, SliceMerge!Pass, Merge!FoldLeft, SliceMerge!FoldLeft,
     Merge!MapThenFoldSet, SliceMerge!MapThenFoldSet, Merge!Max, SliceMerge!Max
<1>3. \A items : Merge!Merged(items) = SliceMerge!Merged(items)
  BY DEF Merge!Merged, SliceMerge!Merged, Merge!Group, SliceMerge!Group, Merge!Pass, SliceMerge!Pass,
     Merge!FoldLeft, SliceMerge!FoldLeft,
     Merge!MapThenFoldSet, SliceMerge!MapThenFoldSet, Merge!Max, SliceMerge!Max
<1>4. \A list : SliceMerge!ToSet(list) = ToSet(list) BY DEF SliceMerge!ToSet, ToSet
<1>5. QED BY <1>3, <1>4

\* Windows lie on the frame.
LEMMA WindowsOnFrame ==
    ASSUME SliceSize \in Nat \ {0, 1}, NEW width \in Nat \ {0}, NEW height \in Nat \ {0},
           NEW n \in DOMAIN Windows(width, height)
    PROVE  LET w == Windows(width, height)[n]
           IN  /\ w.x \in Nat /\ w.y \in Nat /\ w.width \in Int /\ w.height \in Int
               /\ w.x + w.width <= width /\ w.y + w.height <= height
<1>1. FrameCovered(width, height) BY FramesAreCovered
<1>2. PICK xs, ys : xs = AxisPositions(width) /\ ys = AxisPositions(height) OBVIOUS
<1>3. CoversAxis(xs, width) /\ CoversAxis(ys, height) BY <1>2, AxisCovered
<1>4. /\ Len(xs) \in Nat \ {0} /\ Len(ys) \in Nat \ {0}
      /\ \A i \in 1 .. Len(xs) : xs[i] \in Nat
      /\ \A j \in 1 .. Len(ys) : ys[j] \in Nat
  BY <1>3, PlacesAreNumbers
<1>5. PICK w : w = Windows(width, height)[n] OBVIOUS
<1>6. /\ n \in 1 .. Len(xs) * Len(ys)
      /\ w = Window(n - 1, xs[((n - 1) % Len(xs)) + 1], ys[((n - 1) \div Len(xs)) + 1],
                    width, height)
  BY <1>2, <1>5 DEF Windows
<1>7. PICK p \in Nat : p = xs[((n - 1) % Len(xs)) + 1]
  <2>1. ((n - 1) % Len(xs)) + 1 \in 1 .. Len(xs) BY <1>4, <1>6, PlaceOfNumber
  <2>2. QED BY <1>4, <2>1
<1>8. PICK q \in Nat : q = ys[((n - 1) \div Len(xs)) + 1]
  <2>1. ((n - 1) \div Len(xs)) + 1 \in 1 .. Len(ys) BY <1>4, <1>6, PlaceOfNumber
  <2>2. QED BY <1>4, <2>1
<1>9. /\ w.x = p /\ w.y = q /\ w.width = Least(SliceSize, width - p)
      /\ w.height = Least(SliceSize, height - q)
  BY <1>6, <1>7, <1>8 DEF Window
<1>10. w.width \in Int /\ w.height \in Int BY <1>9, LeastOfTwo
<1>11. w.x + w.width <= width /\ w.y + w.height <= height BY <1>1, <1>5 DEF FrameCovered
<1>12. QED BY <1>5, <1>7, <1>8, <1>9, <1>10, <1>11

LEMMA MaxOfTwo ==
    ASSUME NEW a \in Int, NEW b \in Int
    PROVE  Max({a, b}) = IF a >= b THEN a ELSE b
<1>1. PICK m \in {a, b} : m = IF a >= b THEN a ELSE b OBVIOUS
<1>2. \A x \in {a, b} : m >= x BY <1>1
<1>3. \A c \in {a, b} : (\A x \in {a, b} : c >= x) => c = m BY <1>1
<1>4. Max({a, b}) \in {a, b} /\ \A x \in {a, b} : Max({a, b}) >= x BY <1>2 DEF Max
<1>5. QED BY <1>1, <1>3, <1>4

Mappings ==
    [class : Int, confidence : Int, x1 : Int, y1 : Int, x2 : Int, y2 : Int, slices : SUBSET Int]

LEMMA DefectsAreSame ==
    ASSUME NEW a \in Mappings, NEW b \in Mappings, SameDefect(a, b)
    PROVE  SameDefect(b, a)
<1>1. /\ {a.x1, b.x1} = {b.x1, a.x1} /\ {a.x2, b.x2} = {b.x2, a.x2}
      /\ {a.y1, b.y1} = {b.y1, a.y1} /\ {a.y2, b.y2} = {b.y2, a.y2}
  OBVIOUS
<1>2. Intersection(a, b) = Intersection(b, a) BY <1>1 DEF Intersection, Least
<1>3. {Area(a), Area(b)} = {Area(b), Area(a)} OBVIOUS
<1>4. Least(Area(a), Area(b)) = Least(Area(b), Area(a)) BY <1>3 DEF Least
<1>5. PICK m, n : m = Area(a) /\ n = Area(b) OBVIOUS
<1>6. m \in Int /\ n \in Int BY <1>5 DEF Area, Mappings
<1>8. PICK shared : shared = Intersection(a, b) /\ shared = Intersection(b, a) BY <1>2
<1>9. PICK least : least = Least(Area(a), Area(b)) /\ least = Least(Area(b), Area(a)) BY <1>4
<1>10. shared > 0 /\ (Reaches(shared, m + n - shared) \/ Reaches(shared, least))
  <2>1. Overlapping(a, b) BY DEF SameDefect
  <2>2. QED BY <1>5, <1>8, <1>9, <2>1 DEF Overlapping
<1>11. m + n - shared = n + m - shared
  <2>1. ASSUME NEW k \in Int, NEW l \in Int
        PROVE  Least(k, l) \in Int /\ Max({k, l}) \in Int
    BY LeastOfTwo, MaxOfTwo
  <2>2. /\ Max({a.x1, b.x1}) \in Int /\ Least(a.x2, b.x2) \in Int
        /\ Max({a.y1, b.y1}) \in Int /\ Least(a.y2, b.y2) \in Int
    BY <2>1 DEF Mappings
  <2>3. shared \in Int BY <1>8, <2>2 DEF Intersection
  <2>4. QED BY <1>6, <2>3
<1>12. Reaches(shared, n + m - shared) \/ Reaches(shared, least) BY <1>10, <1>11
<1>13. Overlapping(b, a) BY <1>5, <1>8, <1>9, <1>10, <1>12 DEF Overlapping
<1>14. QED BY <1>13 DEF SameDefect

\* A result is what some detections need, of the confidence of the strongest.
Faithful(r, S) ==
    /\ \A d \in S : /\ d.class = r.class /\ Inside(d, r) /\ d.slices \subseteq r.slices
                    /\ d.confidence <= r.confidence
    /\ r.slices \subseteq UNION {d.slices : d \in S}
    /\ \E d \in S : d.confidence = r.confidence
    /\ \E d \in S : d.x1 = r.x1
    /\ \E d \in S : d.y1 = r.y1
    /\ \E d \in S : d.x2 = r.x2
    /\ \E d \in S : d.y2 = r.y2

FaithfulResults(E) == {m \in Mappings \X SUBSET E : Faithful(m[1], m[2])}

LEMMA UnionsAreFaithful ==
    ASSUME NEW E \in SUBSET Mappings, NEW r \in Mappings, NEW S \in SUBSET E, NEW d \in E,
           Faithful(r, S), SameDefect(r, d)
    PROVE  Union(r, d) \in Mappings /\ Faithful(Union(r, d), S \cup {d})
<1>1. PICK u : u = Union(r, d) OBVIOUS
<1>2. /\ d \in Mappings /\ d.class = r.class
      /\ r.confidence \in Int /\ d.confidence \in Int
      /\ r.x1 \in Int /\ r.y1 \in Int /\ r.x2 \in Int /\ r.y2 \in Int
      /\ d.x1 \in Int /\ d.y1 \in Int /\ d.x2 \in Int /\ d.y2 \in Int
  BY DEF SameDefect, Mappings
<1>3. /\ u.class = r.class /\ u.slices = r.slices \cup d.slices
      /\ u.confidence = IF r.confidence >= d.confidence THEN r.confidence ELSE d.confidence
      /\ u.x1 = IF r.x1 <= d.x1 THEN r.x1 ELSE d.x1
      /\ u.y1 = IF r.y1 <= d.y1 THEN r.y1 ELSE d.y1
      /\ u.x2 = IF r.x2 >= d.x2 THEN r.x2 ELSE d.x2
      /\ u.y2 = IF r.y2 >= d.y2 THEN r.y2 ELSE d.y2
  BY <1>1, <1>2, LeastOfTwo, MaxOfTwo DEF Union
<1>4. u \in Mappings
  <2>1. /\ u.class \in Int /\ u.slices \in SUBSET Int /\ u.confidence \in Int
        /\ u.x1 \in Int /\ u.y1 \in Int /\ u.x2 \in Int /\ u.y2 \in Int
    BY <1>2, <1>3 DEF Mappings
  <2>2. u = [class |-> u.class, confidence |-> u.confidence, x1 |-> u.x1, y1 |-> u.y1,
             x2 |-> u.x2, y2 |-> u.y2, slices |-> u.slices]
    BY <1>1 DEF Union
  <2>3. QED BY <2>1, <2>2 DEF Mappings
<1>5. ASSUME NEW e \in S \cup {d}
      PROVE  /\ e.class = u.class /\ Inside(e, u) /\ e.slices \subseteq u.slices
             /\ e.confidence <= u.confidence
  <2>1. /\ e.confidence \in Int /\ e.x1 \in Int /\ e.y1 \in Int /\ e.x2 \in Int /\ e.y2 \in Int
    BY DEF Mappings
  <2>2. CASE e = d BY <1>2, <1>3, <2>2 DEF Inside
  <2>3. CASE e \in S
    <3>1. /\ e.class = r.class /\ Inside(e, r) /\ e.slices \subseteq r.slices
          /\ e.confidence <= r.confidence
      BY <2>3 DEF Faithful
    <3>2. QED BY <1>2, <1>3, <2>1, <3>1 DEF Inside
  <2>4. QED BY <2>2, <2>3
<1>6. u.slices \subseteq UNION {e.slices : e \in S \cup {d}} BY <1>3 DEF Faithful
<1>7. /\ \E e \in S \cup {d} : e.confidence = u.confidence
      /\ \E e \in S \cup {d} : e.x1 = u.x1
      /\ \E e \in S \cup {d} : e.y1 = u.y1
      /\ \E e \in S \cup {d} : e.x2 = u.x2
      /\ \E e \in S \cup {d} : e.y2 = u.y2
  BY <1>3 DEF Faithful
<1>8. Faithful(u, S \cup {d}) BY <1>5, <1>6, <1>7 DEF Faithful
<1>9. QED BY <1>1, <1>4, <1>8

LEMMA DetectionsMake ==
    ASSUME NEW E \in SUBSET Mappings
    PROVE  SliceMerge!Makes(FaithfulResults(E), E)
<1>1. ASSUME NEW d \in E PROVE <<d, {d}>> \in FaithfulResults(E)
  <2>1. d \in Mappings /\ {d} \in SUBSET E OBVIOUS
  <2>2. /\ d.confidence \in Int /\ d.x1 \in Int /\ d.y1 \in Int /\ d.x2 \in Int /\ d.y2 \in Int
    BY <2>1 DEF Mappings
  <2>3. Faithful(d, {d}) BY <2>2 DEF Faithful, Inside
  <2>4. QED BY <2>1, <2>3 DEF FaithfulResults
<1>2. ASSUME NEW m \in FaithfulResults(E) PROVE m = <<m[1], m[2]>>
  BY DEF FaithfulResults
<1>3. ASSUME NEW m \in FaithfulResults(E), NEW d \in E, SameDefect(m[1], d)
      PROVE  <<Union(m[1], d), m[2] \cup {d}>> \in FaithfulResults(E)
  <2>1. PICK r \in Mappings, S \in SUBSET E : m[1] = r /\ m[2] = S /\ Faithful(r, S)
    BY DEF FaithfulResults
  <2>2. Union(r, d) \in Mappings /\ Faithful(Union(r, d), S \cup {d})
    BY <1>3, <2>1, UnionsAreFaithful
  <2>3. S \cup {d} \in SUBSET E OBVIOUS
  <2>4. QED BY <2>1, <2>2, <2>3 DEF FaithfulResults
<1>4. QED BY <1>1, <1>2, <1>3 DEF SliceMerge!Makes

Detections == [slice : Int, class : Int, confidence : Int, box : [x1 : Int, x2 : Int, y1 : Int, y2 : Int]]

\* What is mapped lies in the frame and has an area.
LEMMA MappedIs ==
    ASSUME SliceSize \in Nat \ {0, 1}, NEW width \in Nat \ {0}, NEW height \in Nat \ {0},
           NEW detections \in Seq(Detections),
           \A i \in 1 .. Len(detections) :
               detections[i].slice + 1 \in DOMAIN Windows(width, height)
    PROVE  LET mapped == Mapped(Windows(width, height), detections)
           IN  /\ mapped \in Seq(Mappings)
               /\ \A d \in ToSet(mapped) : d.x2 <= width /\ d.y2 <= height /\ Visible(d)
<1> DEFINE windows == Windows(width, height)
           clipped == [i \in DOMAIN detections |->
                          Clipped(detections[i], windows[detections[i].slice + 1])]
           shown == {i \in DOMAIN clipped : Visible(clipped[i])}
<1>1. PICK n \in Nat : n = Len(detections) /\ DOMAIN detections = 1 .. n BY LenProperties
<1>2. ASSUME NEW i \in 1 .. n
      PROVE  clipped[i] \in Mappings /\ clipped[i].x2 <= width /\ clipped[i].y2 <= height
  <2>1. PICK d \in Detections : d = detections[i] BY <1>1, ElementOfSeq
  <2>2. PICK w : w = windows[d.slice + 1] OBVIOUS
  <2>3. /\ w.x \in Nat /\ w.y \in Nat /\ w.width \in Int /\ w.height \in Int
        /\ w.x + w.width <= width /\ w.y + w.height <= height
    BY <1>1, <2>1, <2>2, WindowsOnFrame
  <2>4. PICK c : c = Clipped(d, w) OBVIOUS
  <2>5. clipped[i] = c BY <1>1, <2>1, <2>2, <2>4
  <2>6. /\ d.slice \in Int /\ d.class \in Int /\ d.confidence \in Int
        /\ d.box.x1 \in Int /\ d.box.y1 \in Int /\ d.box.x2 \in Int /\ d.box.y2 \in Int
    BY DEF Detections
  <2>7. ASSUME NEW k \in Int, NEW size \in Int
        PROVE  Least(Max({k, 0}), size) \in Int /\ Least(Max({k, 0}), size) <= size
    <3>1. Max({k, 0}) \in Int BY MaxOfTwo
    <3>2. QED BY <3>1, LeastOfTwo
  <2>8. /\ c.class = d.class /\ c.confidence = d.confidence /\ c.slices = {d.slice}
        /\ c.x1 = w.x + Least(Max({d.box.x1, 0}), w.width)
        /\ c.y1 = w.y + Least(Max({d.box.y1, 0}), w.height)
        /\ c.x2 = w.x + Least(Max({d.box.x2, 0}), w.width)
        /\ c.y2 = w.y + Least(Max({d.box.y2, 0}), w.height)
        /\ c = [class |-> c.class, confidence |-> c.confidence, x1 |-> c.x1, y1 |-> c.y1,
                x2 |-> c.x2, y2 |-> c.y2, slices |-> c.slices]
    BY <2>4 DEF Clipped
  <2>9. /\ c.x1 \in Int /\ c.y1 \in Int /\ c.x2 \in Int /\ c.y2 \in Int
        /\ c.x2 <= width /\ c.y2 <= height
    <3>1. PICK x1 \in Int : x1 = Least(Max({d.box.x1, 0}), w.width) BY <2>3, <2>6, <2>7
    <3>2. PICK y1 \in Int : y1 = Least(Max({d.box.y1, 0}), w.height) BY <2>3, <2>6, <2>7
    <3>3. PICK x2 \in Int : x2 = Least(Max({d.box.x2, 0}), w.width) /\ x2 <= w.width
      BY <2>3, <2>6, <2>7
    <3>4. PICK y2 \in Int : y2 = Least(Max({d.box.y2, 0}), w.height) /\ y2 <= w.height
      BY <2>3, <2>6, <2>7
    <3>5. c.x1 = w.x + x1 /\ c.y1 = w.y + y1 /\ c.x2 = w.x + x2 /\ c.y2 = w.y + y2
      BY <2>8, <3>1, <3>2, <3>3, <3>4
    <3>6. c.x2 <= w.x + w.width /\ c.y2 <= w.y + w.height BY <2>3, <3>3, <3>4, <3>5
    <3>7. x1 \in Int /\ y1 \in Int /\ x2 \in Int /\ y2 \in Int BY <3>1, <3>2, <3>3, <3>4
    <3>8. c.x1 \in Int /\ c.y1 \in Int /\ c.x2 \in Int /\ c.y2 \in Int 
      <4>1. \A p \in Nat, k \in Int : p + k \in Int OBVIOUS
      <4>2. QED BY <2>3, <3>5, <3>7, <4>1, Zenon
    <3>9. c.x2 <= width /\ c.y2 <= height BY <2>3, <3>6, <3>8
    <3>10. QED BY <3>8, <3>9
  <2>10. c \in Mappings BY <2>6, <2>8, <2>9 DEF Mappings
  <2>11. QED BY <2>5, <2>9, <2>10
<1>3. clipped \in Seq(Mappings) /\ DOMAIN clipped = 1 .. n
  <2>1. clipped = [i \in 1 .. n |-> clipped[i]] BY <1>1
  <2> HIDE DEF clipped
  <2>2. QED BY <1>2, <2>1, IsASeq
<1>4. shown \in SUBSET DOMAIN clipped /\ \A i \in shown : Visible(clipped[i]) OBVIOUS
<1>5. Mapped(windows, detections) = Selected(clipped, shown) BY DEF Mapped
<1> HIDE DEF clipped, shown
<1>6. /\ Selected(clipped, shown) \in Seq(Mappings)
      /\ ToSet(Selected(clipped, shown)) = {clipped[i] : i \in shown}
  BY <1>3, <1>4, SelectedIs
<1>7. QED BY <1>2, <1>3, <1>4, <1>5, <1>6

\* Places are sorted by what the results of the merge need.
LEMMA KeysAreNumbers ==
    ASSUME NEW items \in Seq(Mappings), NEW scale \in Int
    PROVE  LET First(d) == <<d.class, scale - d.confidence, d.x1, d.y1, d.x2, d.y2>>
               Place(d) == <<d.class, d.x1, d.y1, scale - d.confidence>>
           IN  /\ Keyed([i \in DOMAIN items |-> First(items[i])], DOMAIN items, 6)
               /\ Keyed([i \in DOMAIN items |-> Place(items[i])], DOMAIN items, 4)
<1>1. ASSUME NEW i \in DOMAIN items
      PROVE  LET d == items[i]
             IN  /\ d.class \in Int /\ d.confidence \in Int /\ scale - d.confidence \in Int
                 /\ d.x1 \in Int /\ d.y1 \in Int /\ d.x2 \in Int /\ d.y2 \in Int
  <2>1. DOMAIN items = 1 .. Len(items) BY LenProperties
  <2>2. PICK d \in Mappings : d = items[i] BY <2>1, ElementOfSeq
  <2>3. d.class \in Int /\ d.confidence \in Int
        /\ d.x1 \in Int /\ d.y1 \in Int /\ d.x2 \in Int /\ d.y2 \in Int
    BY DEF Mappings
  <2>4. QED BY <2>2, <2>3
<1>2. ASSUME NEW a \in Int, NEW b \in Int, NEW c \in Int, NEW d \in Int, NEW e \in Int, NEW f \in Int
      PROVE  /\ <<a, b, c, d, e, f>> \in Seq(Int) /\ Len(<<a, b, c, d, e, f>>) = 6
             /\ <<a, b, c, d>> \in Seq(Int) /\ Len(<<a, b, c, d>>) = 4
  OBVIOUS
<1>3. QED BY <1>1, <1>2 DEF Keyed

\* Of one class, the stronger is no later.
Stronger(E) ==
    {pair \in E \X E : pair[1].class = pair[2].class => pair[1].confidence >= pair[2].confidence}

LEMMA StrongestAreFirst ==
    ASSUME NEW items \in Seq(Mappings), NEW scale \in Int
    PROVE  LET sorted == StrongestFirst(items, scale)
           IN  /\ sorted \in Seq(ToSet(items)) /\ ToSet(sorted) = ToSet(items)
               /\ SliceMerge!InOrder(sorted, Stronger(ToSet(items)))
<1> DEFINE First(d) == <<d.class, scale - d.confidence, d.x1, d.y1, d.x2, d.y2>>
           key == [i \in DOMAIN items |-> First(items[i])]
<1>1. PICK E : E = ToSet(items) OBVIOUS
<1>2. /\ DOMAIN items = 1 .. Len(items) /\ Len(items) \in Nat
      /\ \A i \in 1 .. Len(items) : items[i] \in Mappings
  BY LenProperties, ElementOfSeq
<1>3. items \in Seq(E)
  <2>1. \A i \in 1 .. Len(items) : items[i] \in E BY <1>1, <1>2 DEF ToSet
  <2>2. QED BY <1>2, <2>1
<1>4. E \in SUBSET Mappings BY <1>1, <1>2 DEF ToSet
<1>5. Keyed(key, DOMAIN items, 6) BY KeysAreNumbers
<1>6. StrongestFirst(items, scale) = Sorted(items, key) BY DEF StrongestFirst
<1>7. ASSUME NEW i \in DOMAIN items, NEW j \in DOMAIN items, Earlier(key, i, j)
      PROVE  <<items[i], items[j]>> \in Stronger(E)
  <2>1. PICK a \in E, b \in E : a = items[i] /\ b = items[j] BY <1>1 DEF ToSet
  <2>2. key[i] = First(a) /\ key[j] = First(b) BY <2>1
  <2>3. Before(First(a), First(b)) \/ First(a) = First(b) BY <1>7, <2>2 DEF Earlier
  <2>4. a.confidence \in Int /\ b.confidence \in Int BY <1>4 DEF Mappings
  <2>5. ASSUME a.class = b.class PROVE a.confidence >= b.confidence
    <3>1. CASE First(a) = First(b)
      <4>1. scale - a.confidence = scale - b.confidence BY <3>1
      <4>2. QED BY <2>4, <4>1
    <3>2. CASE Before(First(a), First(b))
      <4>1. PICK k \in 1 .. 6 : /\ First(a)[k] < First(b)[k]
                                /\ \A l \in 1 .. k - 1 : First(a)[l] = First(b)[l]
        BY <3>2 DEF Before
      <4>2. First(a)[1] = a.class /\ First(b)[1] = b.class
            /\ First(a)[2] = scale - a.confidence /\ First(b)[2] = scale - b.confidence
        OBVIOUS
      <4>3. CASE k = 1 
        <5>1. a.class \in Int BY <1>4 DEF Mappings
        <5>2. QED BY <2>5, <4>1, <4>2, <4>3, <5>1
      <4>4. CASE k = 2 BY <2>4, <4>1, <4>2, <4>4
      <4>5. CASE k \in 3 .. 6 BY <2>4, <4>1, <4>2, <4>5
      <4>6. QED BY <4>3, <4>4, <4>5
    <3>3. QED BY <2>3, <3>1, <3>2
  <2>6. QED BY <2>1, <2>5 DEF Stronger
<1>8. PICK sorted : sorted = Sorted(items, key) OBVIOUS
<1> HIDE DEF key
<1>9. /\ sorted \in Seq(E) /\ Len(sorted) = Len(items) /\ ToSet(sorted) = ToSet(items)
      /\ \E order : ArrangesBy(order, sorted, items, key)
  BY <1>3, <1>5, <1>8, SortedIs
<1>10. PICK order \in [1 .. Len(items) -> 1 .. Len(items)] :
          /\ \A n \in 1 .. Len(items) : sorted[n] = items[order[n]]
          /\ \A m, n \in 1 .. Len(items) : m < n => Earlier(key, order[m], order[n])
  <2>1. PICK order : ArrangesBy(order, sorted, items, key) BY <1>9
  <2>2. QED BY <1>9, <2>1 DEF ArrangesBy, Arranges
<1>11. SliceMerge!InOrder(sorted, Stronger(E))
  <2> SUFFICES ASSUME NEW m \in 1 .. Len(sorted), NEW n \in 1 .. Len(sorted), m < n
               PROVE  <<sorted[m], sorted[n]>> \in Stronger(E)
    BY DEF SliceMerge!InOrder
  <2>1. m \in 1 .. Len(items) /\ n \in 1 .. Len(items) BY <1>8, <1>9
  <2>2. PICK i, j : i = order[m] /\ j = order[n] OBVIOUS
  <2>3. i \in DOMAIN items /\ j \in DOMAIN items BY <1>2, <2>1, <2>2
  <2>4. Earlier(key, i, j) BY <1>10, <2>1, <2>2
  <2>5. sorted[m] = items[i] /\ sorted[n] = items[j] BY <1>10, <2>1, <2>2
  <2>6. QED BY <1>7, <2>3, <2>4, <2>5
<1>12. QED BY <1>1, <1>6, <1>8, <1>9, <1>11

\* map_and_merge_detections (inference/sahi.py) accounts for what it is given:
\* on a frame of any size and for any threshold, every detection with a visible
\* part is in a result of its class, a result is no larger than its members
\* need and names their slices, and a detection that overlaps a result is part
\* of it or of one of no lower confidence.
THEOREM DetectionsAreAccounted ==
    ASSUME SliceSize \in Nat \ {0, 1}, NEW width \in Nat \ {0}, NEW height \in Nat \ {0},
           NEW scale \in Int, NEW detections \in Seq(Detections),
           \A i \in 1 .. Len(detections) :
               detections[i].slice + 1 \in DOMAIN Windows(width, height)
    PROVE  DetectionsAccounted(width, height, detections, scale)
<1>1. PICK mapped : mapped = Mapped(Windows(width, height), detections) OBVIOUS
<1>2. PICK E : E = ToSet(mapped) OBVIOUS
<1>3. mapped \in Seq(Mappings) /\ \A d \in E : d.x2 <= width /\ d.y2 <= height
  BY <1>1, <1>2, MappedIs
<1>4. E \in SUBSET Mappings
  <2>1. DOMAIN mapped = 1 .. Len(mapped) /\ \A i \in 1 .. Len(mapped) : mapped[i] \in Mappings
    BY <1>3, LenProperties, ElementOfSeq
  <2>2. QED BY <1>2, <2>1 DEF ToSet
<1>5. PICK M, R : M = FaithfulResults(E) /\ R = Stronger(E) OBVIOUS
<1>6. PICK sorted : sorted = StrongestFirst(mapped, scale) OBVIOUS
<1>7. sorted \in Seq(E) /\ ToSet(sorted) = E /\ SliceMerge!InOrder(sorted, R)
  BY <1>2, <1>3, <1>5, <1>6, StrongestAreFirst
<1>8. SliceMerge!Makes(M, E) BY <1>4, <1>5, DetectionsMake
<1>9. PICK found : found = Merge!Merged(sorted) /\ found = SliceMerge!Merged(sorted) BY SameMerge
<1>10. /\ found \in Seq({m[1] : m \in M})
       /\ \E groups, heads :
             /\ SliceMerge!Accounted(found, groups, heads, SliceMerge!ToSet(sorted), M, R)
             /\ SliceMerge!InGroups(found, groups) = SliceMerge!ToSet(sorted)
  BY <1>7, <1>8, <1>9, SliceMerge!GroupsAccount
<1>11. PICK groups, heads :
          /\ SliceMerge!Accounted(found, groups, heads, E, M, R)
          /\ SliceMerge!InGroups(found, groups) = E
  BY <1>7, <1>10, SameMerge
<1>12. PICK n : n = Len(found) OBVIOUS
<1>13. /\ n \in Nat /\ DOMAIN found = 1 .. n /\ ToSet(found) = {found[i] : i \in 1 .. n}
       /\ found \in Seq(Mappings)
  <2>1. {m[1] : m \in M} \subseteq Mappings BY <1>5 DEF FaithfulResults
  <2>2. found \in Seq(Mappings)
    <3>1. \A i \in 1 .. Len(found) : found[i] \in Mappings BY <1>10, <2>1, ElementOfSeq
    <3>2. QED BY <1>10, <3>1, LenProperties
  <2>3. QED BY <1>12, <2>2, LenProperties DEF ToSet
<1>14. PICK results : results = ToSet(MapAndMerge(Windows(width, height), detections, scale))
  OBVIOUS
<1>15. results = {found[i] : i \in 1 .. n}
  <2> DEFINE Place(d) == <<d.class, d.x1, d.y1, scale - d.confidence>>
             key == [i \in DOMAIN found |-> Place(found[i])]
  <2>1. Keyed(key, DOMAIN found, 4) BY <1>13, KeysAreNumbers
  <2>2. ByPlace(found, scale) = Sorted(found, key) BY DEF ByPlace
  <2>3. MapAndMerge(Windows(width, height), detections, scale) = ByPlace(found, scale)
    BY <1>1, <1>6, <1>9 DEF MapAndMerge
  <2> HIDE DEF key
  <2>4. ToSet(Sorted(found, key)) = ToSet(found) BY <1>13, <2>1, SortedIs
  <2>5. QED BY <1>13, <1>14, <2>2, <2>3, <2>4
<1>16. ASSUME NEW i \in 1 .. n
       PROVE  /\ found[i] \in Mappings /\ groups[i] \subseteq E
              /\ Faithful(found[i], groups[i]) /\ heads[i] \in groups[i]
  <2>1. <<found[i], groups[i]>> \in M /\ heads[i] \in groups[i]
    BY <1>11, <1>12 DEF SliceMerge!Accounted
  <2>2. QED BY <1>5, <2>1 DEF FaithfulResults
<1>17. \A d \in E : \E i \in 1 .. n : d \in groups[i]
  BY <1>11, <1>12 DEF SliceMerge!InGroups
<1>18. \A i, j \in 1 .. n :
          i < j => /\ \A e \in groups[j] : ~SameDefect(found[i], e)
                   /\ \A e \in groups[j] : <<heads[i], e>> \in R
  BY <1>11, <1>12 DEF SliceMerge!Accounted, SliceMerge!Foreign
<1> DEFINE Members(r) == {d \in E : d.class = r.class /\ Inside(d, r) /\ d.slices \subseteq r.slices}
<1>19. \A i \in 1 .. n : groups[i] \subseteq Members(found[i]) BY <1>16 DEF Faithful
<1>20. \A d \in E : \E r \in results : d \in Members(r)
  <2> SUFFICES ASSUME NEW d \in E PROVE \E r \in results : d \in Members(r) OBVIOUS
  <2>1. PICK i \in 1 .. n : d \in groups[i] BY <1>17
  <2>2. found[i] \in results /\ d \in Members(found[i]) BY <1>15, <1>19, <2>1
  <2> HIDE DEF Members
  <2>3. QED BY <2>2
<1>21. ASSUME NEW r \in results
       PROVE  /\ r.x2 <= width /\ r.y2 <= height
              /\ r.slices = UNION {d.slices : d \in Members(r)}
              /\ r.confidence \in {d.confidence : d \in Members(r)}
              /\ r.x1 \in {d.x1 : d \in Members(r)} /\ r.x2 \in {d.x2 : d \in Members(r)}
              /\ r.y1 \in {d.y1 : d \in Members(r)} /\ r.y2 \in {d.y2 : d \in Members(r)}
  <2>1. PICK i \in 1 .. n : r = found[i] BY <1>15
  <2>2. PICK G : G = groups[i] OBVIOUS
  <2>3. G \subseteq E /\ Faithful(r, G) /\ G \subseteq Members(r) BY <1>16, <1>19, <2>1, <2>2
  <2>4. \A d \in Members(r) : d.slices \subseteq r.slices OBVIOUS
  <2>5. r.slices \subseteq UNION {d.slices : d \in G} BY <2>3 DEF Faithful
  <2> HIDE DEF Members
  <2>6. r.slices = UNION {d.slices : d \in Members(r)} BY <2>3, <2>4, <2>5
  <2>7. /\ \E d \in G : d.confidence = r.confidence
        /\ \E d \in G : d.x1 = r.x1
        /\ \E d \in G : d.y1 = r.y1
        /\ \E d \in G : d.x2 = r.x2
        /\ \E d \in G : d.y2 = r.y2
    BY <2>3 DEF Faithful
  <2>8. r.x2 <= width /\ r.y2 <= height BY <1>3, <2>3, <2>7
  <2>9. QED BY <2>3, <2>6, <2>7, <2>8
<1>22. ASSUME NEW d \in E, NEW r \in results, SameDefect(d, r)
       PROVE  \E s \in results : d \in Members(s) /\ s.confidence >= r.confidence
  <2>1. PICK i \in 1 .. n : r = found[i] BY <1>15
  <2>2. PICK j \in 1 .. n : d \in groups[j] BY <1>17
  <2>3. PICK s : s = found[j] OBVIOUS
  <2>4. s \in results /\ d \in Members(s) BY <1>15, <1>19, <2>2, <2>3
  <2>5. s.confidence >= r.confidence
    <3>1. r \in Mappings /\ s \in Mappings /\ r.confidence \in Int /\ s.confidence \in Int
      BY <1>16, <2>1, <2>3 DEF Mappings
    <3>2. CASE j = i BY <2>1, <2>3, <3>1, <3>2
    <3>3. CASE j < i
      <4>1. PICK e \in groups[i] : e.confidence = r.confidence BY <1>16, <2>1 DEF Faithful
      <4>2. PICK head : head = heads[j] OBVIOUS
      <4>3. head \in groups[j] /\ <<head, e>> \in R BY <1>16, <1>18, <3>3, <4>1, <4>2
      <4>4. e.class = r.class /\ d.class = s.class /\ head.class = s.class
            /\ head.confidence <= s.confidence /\ head \in E /\ e \in E
        BY <1>16, <2>1, <2>2, <2>3, <4>1, <4>3 DEF Faithful
      <4>5. d.class = r.class BY <1>22 DEF SameDefect
      <4>6. head.confidence >= e.confidence BY <1>5, <4>3, <4>4, <4>5 DEF Stronger
      <4>7. head.confidence \in Int BY <1>4, <4>4 DEF Mappings
      <4>8. QED BY <3>1, <4>1, <4>4, <4>6, <4>7
    <3>4. CASE i < j
      <4>1. ~SameDefect(r, d) BY <1>18, <2>1, <2>2, <3>4
      <4>2. d \in Mappings BY <1>4
      <4>3. SameDefect(r, d) BY <1>22, <3>1, <4>2, DefectsAreSame
      <4>4. QED BY <4>1, <4>3
    <3>5. QED BY <1>13, <3>2, <3>3, <3>4
  <2> HIDE DEF Members
  <2>6. QED BY <2>4, <2>5
<1>23. QED BY <1>1, <1>2, <1>14, <1>20, <1>21, <1>22 DEF DetectionsAccounted

\* build_slice_windows and iter_sahi_batches (inference/sahi.py): the slices of a
\* frame of any size cover it, and its batches hold them in order, each once.
THEOREM FramesAreSliced ==
    ASSUME SliceSize \in Nat \ {0, 1}, NEW width \in Nat \ {0}, NEW height \in Nat \ {0},
           NEW size \in Nat \ {0}
    PROVE  Covered(width, height, size)
<1>1. PICK xs, ys : xs = AxisPositions(width) /\ ys = AxisPositions(height) OBVIOUS
<1>2. Len(xs) \in Nat /\ Len(ys) \in Nat BY <1>1, AxisCovered, PlacesAreNumbers
<1>3. PICK n \in Nat : n = Len(xs) * Len(ys) BY <1>2
<1>4. PICK windows : windows = Windows(width, height) OBVIOUS
<1>5. DOMAIN windows = 1 .. n /\ windows = [i \in 1 .. n |-> windows[i]]
  BY <1>1, <1>3, <1>4 DEF Windows
<1>6. windows \in Seq(ToSet(windows))
  <2>1. \A i \in 1 .. n : windows[i] \in ToSet(windows) BY <1>5 DEF ToSet
  <2>2. QED BY <1>5, <2>1, IsASeq
<1>7. BatchedInOrder(windows, size) BY <1>6, BatchesKeepOrder
<1>8. QED BY <1>4, <1>7, FramesAreCovered DEF Covered

-----------------------------------------------------------------------------
(* Predictions on the disc, merged.                                        *)

DiscMerge == INSTANCE MergeProofs WITH Duplicate <- SamePlace, Join <- MergedPair

LEMMA SameDedup ==
    /\ \A items : Dedup!Merged(items) = DiscMerge!Merged(items)
    /\ \A list : DiscMerge!ToSet(list) = ToSet(list)
<1>1. \A items : Dedup!Merged(items) = DiscMerge!Merged(items)
  BY DEF Dedup!Merged, DiscMerge!Merged, Dedup!Group, DiscMerge!Group, Dedup!Pass, DiscMerge!Pass,
     Dedup!FoldLeft, DiscMerge!FoldLeft,
     Dedup!MapThenFoldSet, DiscMerge!MapThenFoldSet, Dedup!Max, DiscMerge!Max
<1>2. \A list : DiscMerge!ToSet(list) = ToSet(list) BY DEF DiscMerge!ToSet, ToSet
<1>3. QED BY <1>1, <1>2

Predictions ==
    [frame : Int, class : Int, confidence : Int, box : Int \X Int \X Int \X Int, id : Int]

Projections ==
    [class : Int, confidence : Int, pixels : SUBSET ProvenanceMap, links : SUBSET Int, safe : BOOLEAN]

\* The projection of one prediction that shows something.
Shown == {d \in Projections : d.pixels # {} /\ \E id \in Int : d.links = {id}}

LEMMA ProjectedIs ==
    ASSUME NEW p \in Predictions, NEW provenance, Footprint(p, provenance) # {}
    PROVE  Projected(p, provenance) \in Shown
<1>1. PICK d : d = Projected(p, provenance) OBVIOUS
<1>2. PICK safe \in BOOLEAN : safe = (BoxExtent(Raster(p)) <= MaximumFootprint)
  <2>1. (BoxExtent(Raster(p)) <= MaximumFootprint) \in BOOLEAN OBVIOUS
  <2>2. QED BY <2>1, Zenon
<1>3. d = [class |-> p.class, confidence |-> p.confidence, pixels |-> Footprint(p, provenance),
           links |-> {p.id}, safe |-> safe]
  BY <1>1, <1>2 DEF Projected
<1>4. Footprint(p, provenance) \in SUBSET ProvenanceMap BY DEF Footprint, Raster
<1>5. p.class \in Int /\ p.confidence \in Int /\ p.id \in Int BY DEF Predictions
<1>6. d \in Projections BY <1>3, <1>4, <1>5 DEF Projections
<1>7. QED BY <1>1, <1>3, <1>5, <1>6 DEF Shown

\* Some of finitely many numbers is the least, and one the greatest.
LEMMA BoundsOf ==
    ASSUME NEW n \in Nat, NEW S \in SUBSET (0 .. n), S # {}
    PROVE  Min(S) \in 0 .. n /\ Max(S) \in 0 .. n
<1>1. S \in SUBSET Nat OBVIOUS
<1>2. PICK m \in S : \A k \in S : m <= k BY <1>1, LeastNumber
<1>3. Min(S) \in S BY <1>2 DEF Min
<1>4. PICK T : T = {n - k : k \in S} OBVIOUS
<1>5. T \in SUBSET Nat /\ T # {}
  <2>1. \A k \in S : n - k \in Nat OBVIOUS
  <2>2. QED BY <1>4, <2>1
<1>6. PICK l \in T : \A k \in T : l <= k BY <1>5, LeastNumber
<1>7. PICK x \in S : l = n - x BY <1>4, <1>6
<1>8. \A k \in S : x >= k
  <2>1. ASSUME NEW k \in S PROVE x >= k
    <3>1. n - k \in T BY <1>4
    <3>2. n - x <= n - k BY <1>6, <1>7, <3>1
    <3>3. QED BY <3>2
  <2>2. QED BY <2>1
<1>9. Max(S) \in S BY <1>8 DEF Max
<1>10. QED BY <1>3, <1>9

LEMMA BoxIs ==
    ASSUME MapWidth \in Nat, MapHeight \in Nat,
           NEW pixels \in SUBSET ProvenanceMap, pixels # {}
    PROVE  \E a, b, c, d \in Int : Box(pixels) = <<a, b, c, d>>
<1>1. PICK xs, ys : xs = {p[1] : p \in pixels} /\ ys = {p[2] : p \in pixels} OBVIOUS
<1>2. /\ xs \in SUBSET (0 .. MapWidth - 1) /\ ys \in SUBSET (0 .. MapHeight - 1)
      /\ xs # {} /\ ys # {}
  BY <1>1 DEF ProvenanceMap
<1>3. MapWidth - 1 \in Nat /\ MapHeight - 1 \in Nat
  <2>1. PICK x \in 0 .. MapWidth - 1, y \in 0 .. MapHeight - 1 : x \in xs /\ y \in ys BY <1>2
  <2>2. QED BY <2>1
<1>4. /\ Min(xs) \in 0 .. MapWidth - 1 /\ Max(xs) \in 0 .. MapWidth - 1
      /\ Min(ys) \in 0 .. MapHeight - 1 /\ Max(ys) \in 0 .. MapHeight - 1
  BY <1>2, <1>3, BoundsOf
<1>5. Box(pixels) = <<Min(xs), Min(ys), Max(xs) + 1, Max(ys) + 1>> BY <1>1 DEF Box
<1>6. QED BY <1>4, <1>5

\* The key of a projection: its class, its confidence, a box, an identifier.
LEMMA KeyIs ==
    ASSUME MapWidth \in Nat, MapHeight \in Nat, ConfidenceScale \in Int, NEW d \in Shown
    PROVE  /\ Key(d) \in Seq(Int) /\ Len(Key(d)) = 7
           /\ Key(d)[1] = d.class /\ Key(d)[2] = ConfidenceScale - d.confidence
           /\ d.links = {Key(d)[7]}
<1>1. d.class \in Int /\ d.confidence \in Int /\ d.pixels \in SUBSET ProvenanceMap /\ d.pixels # {}
  BY DEF Shown, Projections
<1>2. PICK x1 \in Int, y1 \in Int, x2 \in Int, y2 \in Int : Box(d.pixels) = <<x1, y1, x2, y2>>
  BY <1>1, BoxIs
<1>3. PICK id \in Int : d.links = {id} BY DEF Shown
<1>4. Min({id}) = id BY DEF Min
<1>5. PICK a \in Int, b \in Int : a = d.class /\ b = ConfidenceScale - d.confidence BY <1>1
<1>6. Key(d) = <<a, b>> \o <<x1, y1, x2, y2>> \o <<id>> BY <1>2, <1>3, <1>4, <1>5 DEF Key
<1>7. PICK s, t, u : s = <<a, b>> /\ t = <<x1, y1, x2, y2>> /\ u = <<id>> OBVIOUS
<1>8. /\ s \in Seq(Int) /\ t \in Seq(Int) /\ u \in Seq(Int)
      /\ Len(s) = 2 /\ Len(t) = 4 /\ Len(u) = 1 /\ s[1] = a /\ s[2] = b /\ u[1] = id
  BY <1>7
<1>9. PICK st, key : st = s \o t /\ key = st \o u OBVIOUS
<1>10. key \in Seq(Int) /\ Len(key) = 7 /\ key[1] = a /\ key[2] = b /\ key[7] = id
  <2>1. st \in Seq(Int) /\ Len(st) = Len(s) + Len(t) BY <1>8, <1>9, ConcatProperties
  <2>2. \A i \in 1 .. Len(s) + Len(t) : st[i] = IF i <= Len(s) THEN s[i] ELSE t[i - Len(s)]
    BY <1>8, <1>9, ConcatProperties
  <2>3. Len(st) = 6 /\ st[1] = a /\ st[2] = b BY <1>8, <2>1, <2>2
  <2>4. st \in Seq(Int) /\ u \in Seq(Int) /\ key = st \o u BY <1>8, <1>9, <2>1
  <2>5. /\ key \in Seq(Int) /\ Len(key) = Len(st) + Len(u)
        /\ \A i \in 1 .. Len(st) + Len(u) :
              key[i] = IF i <= Len(st) THEN st[i] ELSE u[i - Len(st)]
    BY <2>4, ConcatProperties
  <2>6. \A i \in 1 .. 7 : key[i] = IF i <= 6 THEN st[i] ELSE u[i - 6] BY <1>8, <2>3, <2>5
  <2>7. key[1] = a /\ key[2] = b BY <2>3, <2>6
  <2>8. key[7] = id BY <1>8, <2>6
  <2>9. QED BY <1>8, <2>3, <2>5, <2>7, <2>8
<1>11. Key(d) = key BY <1>6, <1>7, <1>9
<1>12. QED BY <1>3, <1>5, <1>10, <1>11

\* A result is all that its evidence shows, of the confidence of the strongest.
Evident(r, S) ==
    /\ \A d \in S : d.class = r.class /\ d.confidence <= r.confidence
    /\ \E d \in S : d.confidence = r.confidence
    /\ r.pixels = UNION {d.pixels : d \in S}
    /\ r.links = UNION {d.links : d \in S}

EvidentResults(E) == {m \in Projections \X SUBSET E : Evident(m[1], m[2])}

LEMMA PairsAreEvident ==
    ASSUME NEW E \in SUBSET Shown, NEW r \in Projections, NEW S \in SUBSET E, NEW d \in E,
           Evident(r, S), SamePlace(r, d)
    PROVE  MergedPair(r, d) \in Projections /\ Evident(MergedPair(r, d), S \cup {d})
<1>1. PICK u : u = MergedPair(r, d) OBVIOUS
<1>2. d \in Projections /\ d.class = r.class BY DEF Shown, SamePlace
<1>3. /\ r.confidence \in Int /\ d.confidence \in Int /\ r.class \in Int
      /\ r.pixels \in SUBSET ProvenanceMap /\ d.pixels \in SUBSET ProvenanceMap
      /\ r.links \in SUBSET Int /\ d.links \in SUBSET Int
  BY <1>2 DEF Projections
<1>4. /\ u.class = r.class /\ u.pixels = r.pixels \cup d.pixels /\ u.links = r.links \cup d.links
      /\ u.confidence = IF r.confidence >= d.confidence THEN r.confidence ELSE d.confidence
  BY <1>1, <1>3, MaxOfTwo DEF MergedPair
<1>5. u \in Projections
  <2>1. PICK safe \in BOOLEAN :
           safe = (r.safe /\ d.safe /\ BoxExtent(r.pixels \cup d.pixels) <= MaximumFootprint)
    <3>1. (r.safe /\ d.safe /\ BoxExtent(r.pixels \cup d.pixels) <= MaximumFootprint) \in BOOLEAN
      OBVIOUS
    <3>2. QED BY <3>1, Zenon
  <2>2. u = [class |-> u.class, confidence |-> u.confidence, pixels |-> u.pixels,
             links |-> u.links, safe |-> safe]
    BY <1>1, <2>1 DEF MergedPair
  <2>3. u.confidence \in Int BY <1>3, <1>4
  <2>4. u.class \in Int /\ u.pixels \in SUBSET ProvenanceMap /\ u.links \in SUBSET Int
    BY <1>3, <1>4
  <2>5. QED BY <2>2, <2>3, <2>4 DEF Projections
<1>6. ASSUME NEW e \in S \cup {d} PROVE e.class = u.class /\ e.confidence <= u.confidence
  <2>1. CASE e = d BY <1>2, <1>3, <1>4, <2>1
  <2>2. CASE e \in S
    <3>1. e.confidence \in Int BY <2>2 DEF Shown, Projections
    <3>2. e.class = r.class /\ e.confidence <= r.confidence BY <2>2 DEF Evident
    <3>3. QED BY <1>3, <1>4, <3>1, <3>2
  <2>3. QED BY <2>1, <2>2
<1>7. /\ u.pixels = UNION {e.pixels : e \in S \cup {d}}
      /\ u.links = UNION {e.links : e \in S \cup {d}}
  BY <1>4 DEF Evident
<1>8. \E e \in S \cup {d} : e.confidence = u.confidence BY <1>4 DEF Evident
<1>9. Evident(u, S \cup {d}) BY <1>6, <1>7, <1>8 DEF Evident
<1>10. QED BY <1>1, <1>5, <1>9

LEMMA ProjectionsMake ==
    ASSUME NEW E \in SUBSET Shown
    PROVE  DiscMerge!Makes(EvidentResults(E), E)
<1>1. ASSUME NEW d \in E PROVE <<d, {d}>> \in EvidentResults(E)
  <2>1. d \in Projections /\ {d} \in SUBSET E BY DEF Shown
  <2>2. d.confidence \in Int BY <2>1 DEF Projections
  <2>3. Evident(d, {d}) BY <2>2 DEF Evident
  <2>4. QED BY <2>1, <2>3 DEF EvidentResults
<1>2. ASSUME NEW m \in EvidentResults(E) PROVE m = <<m[1], m[2]>> BY DEF EvidentResults
<1>3. ASSUME NEW m \in EvidentResults(E), NEW d \in E, SamePlace(m[1], d)
      PROVE  <<MergedPair(m[1], d), m[2] \cup {d}>> \in EvidentResults(E)
  <2>1. PICK r \in Projections, S \in SUBSET E : m[1] = r /\ m[2] = S /\ Evident(r, S)
    BY DEF EvidentResults
  <2>2. MergedPair(r, d) \in Projections /\ Evident(MergedPair(r, d), S \cup {d})
    BY <1>3, <2>1, PairsAreEvident
  <2>3. S \cup {d} \in SUBSET E OBVIOUS
  <2>4. QED BY <2>1, <2>2, <2>3 DEF EvidentResults
<1>4. QED BY <1>1, <1>2, <1>3 DEF DiscMerge!Makes

\* Projections with identifiers of their own, in a list.
Distinct(items) ==
    /\ items \in Seq(Shown)
    /\ \A i, j \in 1 .. Len(items) : i # j => items[i].links # items[j].links

Keys(items) == [i \in DOMAIN items |-> Key(items[i])]

\* One projection comes before another in the order of the code.
KeyOrder == {pair \in Shown \X Shown : Before(Key(pair[1]), Key(pair[2]))}

LEMMA KeyOrderIs ==
    ASSUME MapWidth \in Nat, MapHeight \in Nat, ConfidenceScale \in Int
    PROVE  /\ \A x, y : <<x, y>> \in KeyOrder => <<y, x>> \notin KeyOrder
           /\ \A x, y : <<x, y>> \in KeyOrder =>
                 /\ x # y /\ x \in Shown /\ y \in Shown
                 /\ x.class = y.class => x.confidence >= y.confidence
<1>1. ASSUME NEW x \in Shown, NEW y \in Shown, Before(Key(x), Key(y))
      PROVE  /\ ~Before(Key(y), Key(x)) /\ x # y
             /\ x.class = y.class => x.confidence >= y.confidence
  <2>1. PICK a, b : a = Key(x) /\ b = Key(y) OBVIOUS
  <2>2. /\ a \in Seq(Int) /\ Len(a) = 7 /\ b \in Seq(Int) /\ Len(b) = 7
        /\ a[1] = x.class /\ a[2] = ConfidenceScale - x.confidence
        /\ b[1] = y.class /\ b[2] = ConfidenceScale - y.confidence
    BY <2>1, KeyIs
  <2>3. 7 \in Nat OBVIOUS
  <2>4. ~Before(a, a) /\ (Before(a, b) /\ Before(b, a) => Before(a, a))
    BY <2>2, <2>3, TuplesInOrder
  <2>5. ASSUME x.class = y.class PROVE x.confidence >= y.confidence
    <3>1. DOMAIN a = 1 .. 7 BY <2>2, LenProperties
    <3>2. PICK k \in 1 .. 7 : a[k] < b[k] /\ \A l \in 1 .. k - 1 : a[l] = b[l]
      BY <1>1, <2>1, <3>1 DEF Before
    <3>3. x.class \in Int /\ x.confidence \in Int /\ y.confidence \in Int
      BY DEF Shown, Projections
    <3>4. CASE k = 1 BY <2>2, <2>5, <3>2, <3>3, <3>4
    <3>5. CASE k = 2 BY <2>2, <3>2, <3>3, <3>5
    <3>6. CASE k \in 3 .. 7 BY <2>2, <3>2, <3>3, <3>6
    <3>7. QED BY <3>4, <3>5, <3>6
  <2>6. QED BY <1>1, <2>1, <2>4, <2>5
<1>2. QED BY <1>1 DEF KeyOrder

\* Sorting lists the projections in that order.
LEMMA SortedProjections ==
    ASSUME MapWidth \in Nat, MapHeight \in Nat, ConfidenceScale \in Int, NEW items, Distinct(items)
    PROVE  LET sorted == Sorted(items, Keys(items))
           IN  /\ sorted \in Seq(ToSet(items)) /\ ToSet(sorted) = ToSet(items)
               /\ DiscMerge!InOrder(sorted, KeyOrder)
<1>1. PICK E : E = ToSet(items) OBVIOUS
<1>2. /\ DOMAIN items = 1 .. Len(items) /\ Len(items) \in Nat
      /\ \A i \in 1 .. Len(items) : items[i] \in Shown
  BY LenProperties, ElementOfSeq DEF Distinct
<1>3. items \in Seq(E)
  <2>1. \A i \in 1 .. Len(items) : items[i] \in E BY <1>1, <1>2 DEF ToSet
  <2>2. items \in Seq(Shown) BY DEF Distinct
  <2>3. QED BY <2>1, <2>2, LenProperties
<1>4. PICK key : key = Keys(items) OBVIOUS
<1>5. \A i \in DOMAIN items : key[i] = Key(items[i]) BY <1>4 DEF Keys
<1>6. Keyed(key, DOMAIN items, 7) BY <1>2, <1>5, KeyIs DEF Keyed
<1>7. PICK sorted : sorted = Sorted(items, key) OBVIOUS
<1>8. /\ sorted \in Seq(E) /\ Len(sorted) = Len(items) /\ ToSet(sorted) = ToSet(items)
      /\ \E order : ArrangesBy(order, sorted, items, key)
  BY <1>3, <1>6, <1>7, SortedIs
<1>9. PICK order \in [1 .. Len(items) -> 1 .. Len(items)] :
         /\ \A n \in 1 .. Len(items) : sorted[n] = items[order[n]]
         /\ \A m, n \in 1 .. Len(items) : m < n => order[m] # order[n]
         /\ \A m, n \in 1 .. Len(items) : m < n => Earlier(key, order[m], order[n])
  <2>1. PICK order : ArrangesBy(order, sorted, items, key) BY <1>8
  <2>2. Arranges(order, sorted, items, 1 .. Len(items)) BY <2>1 DEF ArrangesBy
  <2>3. /\ order \in [1 .. Len(items) -> 1 .. Len(items)]
        /\ \A n \in 1 .. Len(items) : sorted[n] = items[order[n]]
        /\ \A m, n \in 1 .. Len(items) : m < n => order[m] # order[n]
    BY <1>8, <2>2 DEF Arranges
  <2>4. \A m, n \in 1 .. Len(items) : m < n => Earlier(key, order[m], order[n])
    BY <2>1 DEF ArrangesBy
  <2>5. QED BY <2>3, <2>4
<1>10. DiscMerge!InOrder(sorted, KeyOrder)
  <2> SUFFICES ASSUME NEW m \in 1 .. Len(sorted), NEW n \in 1 .. Len(sorted), m < n
               PROVE  <<sorted[m], sorted[n]>> \in KeyOrder
    BY DEF DiscMerge!InOrder
  <2>1. m \in 1 .. Len(items) /\ n \in 1 .. Len(items) BY <1>8
  <2>2. PICK i, j : i = order[m] /\ j = order[n] OBVIOUS
  <2>3. i \in DOMAIN items /\ j \in DOMAIN items /\ i # j BY <1>2, <1>9, <2>1, <2>2
  <2>4. Earlier(key, i, j) BY <1>9, <2>1, <2>2
  <2>5. sorted[m] = items[i] /\ sorted[n] = items[j] BY <1>9, <2>1, <2>2
  <2>6. items[i] \in Shown /\ items[j] \in Shown /\ items[i].links # items[j].links
    BY <1>2, <2>3 DEF Distinct
  <2>7. Key(items[i]) # Key(items[j])
    <3>1. items[i].links = {Key(items[i])[7]} /\ items[j].links = {Key(items[j])[7]}
      BY <2>6, KeyIs
    <3>2. QED BY <2>6, <3>1
  <2>8. Before(Key(items[i]), Key(items[j])) BY <1>5, <2>3, <2>4, <2>7 DEF Earlier
  <2>9. QED BY <2>5, <2>6, <2>8 DEF KeyOrder
<1>11. QED BY <1>1, <1>4, <1>7, <1>8, <1>10

LEMMA SameSortedProjections ==
    ASSUME MapWidth \in Nat, MapHeight \in Nat, ConfidenceScale \in Int,
           NEW a, Distinct(a), NEW b, Distinct(b), ToSet(a) = ToSet(b)
    PROVE  Sorted(a, Keys(a)) = Sorted(b, Keys(b))
<1>1. PICK s, t : s = Sorted(a, Keys(a)) /\ t = Sorted(b, Keys(b)) OBVIOUS
<1>2. PICK E : E = ToSet(a) OBVIOUS
<1>3. /\ s \in Seq(E) /\ ToSet(s) = E /\ DiscMerge!InOrder(s, KeyOrder)
      /\ t \in Seq(E) /\ ToSet(t) = E /\ DiscMerge!InOrder(t, KeyOrder)
  BY <1>1, <1>2, SortedProjections
<1>4. ASSUME NEW list \in Seq(E), DiscMerge!InOrder(list, KeyOrder), ToSet(list) = E
      PROVE  Len(list) = Cardinality(E)
  <2>1. Len(list) \in Nat /\ DOMAIN list = 1 .. Len(list) BY LenProperties
  <2>2. \A i, j \in 1 .. Len(list) : i < j => list[i] # list[j]
    BY <1>4, KeyOrderIs DEF DiscMerge!InOrder
  <2>3. \A i, j \in 1 .. Len(list) : list[i] = list[j] => i = j BY <2>1, <2>2
  <2>4. IsInjective(list) BY <2>1, <2>3 DEF IsInjective
  <2>5. QED BY <1>4, <2>4, Elements
<1>5. PICK n \in Nat : n = Len(s) /\ DOMAIN s = 1 .. n BY <1>3, LenProperties
<1>6. Len(t) = n /\ DOMAIN t = 1 .. n BY <1>3, <1>4, <1>5, LenProperties
<1>7. \A i, j \in 1 .. n : i < j => <<s[i], s[j]>> \in KeyOrder /\ <<t[i], t[j]>> \in KeyOrder
  BY <1>3, <1>5, <1>6 DEF DiscMerge!InOrder
<1>8. /\ \A i \in 1 .. n : \E j \in 1 .. n : s[i] = t[j]
      /\ \A i \in 1 .. n : \E j \in 1 .. n : t[i] = s[j]
  BY <1>3, <1>5, <1>6 DEF ToSet
<1>9. \A i \in 1 .. n : s[i] = t[i]
  <2>1. PICK R : R = KeyOrder OBVIOUS
  <2>2. \A x, y : <<x, y>> \in R => <<y, x>> \notin R BY <2>1, KeyOrderIs
  <2>3. \A i, j \in 1 .. n : i < j => <<s[i], s[j]>> \in R /\ <<t[i], t[j]>> \in R
    BY <1>7, <2>1
  <2>4. n \in Nat BY <1>5
  <2>5. SameInOrder(n, R, s, t) BY <1>8, <2>2, <2>3 DEF SameInOrder
  <2>6. QED BY <2>4, <2>5, OneOrder
<1>10. s = [i \in 1 .. n |-> s[i]] /\ t = [i \in 1 .. n |-> t[i]]
  <2>1. s \in [1 .. n -> E] BY <1>3, <1>5, LenProperties
  <2>2. t \in [1 .. n -> E] BY <1>3, <1>6, LenProperties
  <2>3. QED BY <2>1, <2>2
<1>11. QED BY <1>1, <1>9, <1>10

\* What of the predictions is projected.
LEMMA AllProjectedIs ==
    ASSUME NEW predictions \in Seq(Predictions), NEW provenance, ~Repeated(predictions)
    PROVE  LET items == AllProjected(predictions, provenance)
           IN  /\ Distinct(items)
               /\ ToSet(items) = {Projected(p, provenance) :
                     p \in {q \in ToSet(predictions) : Footprint(q, provenance) # {}}}
<1>1. /\ DOMAIN predictions = 1 .. Len(predictions) /\ Len(predictions) \in Nat
      /\ \A i \in 1 .. Len(predictions) : predictions[i] \in Predictions
  BY LenProperties, ElementOfSeq
<1>2. PICK places : places = {i \in DOMAIN predictions : Footprint(predictions[i], provenance) # {}}
  OBVIOUS
<1>3. PICK visible : visible = Selected(predictions, places) OBVIOUS
<1>4. /\ visible \in Seq(Predictions) /\ ToSet(visible) = {predictions[i] : i \in places}
      /\ \E order : Arranges(order, visible, predictions, places)
  BY <1>2, <1>3, SelectedIs
<1>5. PICK n \in Nat : n = Len(visible) /\ DOMAIN visible = 1 .. n BY <1>4, LenProperties
<1>6. PICK order \in [1 .. n -> places] :
         /\ \A k \in 1 .. n : visible[k] = predictions[order[k]]
         /\ \A k, l \in 1 .. n : k < l => order[k] # order[l]
  <2>1. PICK order : Arranges(order, visible, predictions, places) BY <1>4
  <2>2. QED BY <1>5, <2>1 DEF Arranges
<1>7. PICK items : items = AllProjected(predictions, provenance) OBVIOUS
<1>8. items = [i \in 1 .. n |-> Projected(visible[i], provenance)]
  BY <1>2, <1>3, <1>5, <1>7 DEF AllProjected
<1>9. ASSUME NEW k \in 1 .. n
      PROVE  /\ visible[k] \in Predictions /\ items[k] \in Shown
             /\ items[k] = Projected(visible[k], provenance)
             /\ items[k].links = {visible[k].id}
  <2>1. order[k] \in places BY <1>6
  <2>2. visible[k] \in Predictions /\ Footprint(visible[k], provenance) # {}
    BY <1>1, <1>2, <1>6, <2>1
  <2>3. items[k] = Projected(visible[k], provenance) BY <1>8
  <2>4. QED BY <2>2, <2>3, ProjectedIs DEF Projected
<1>10. items \in Seq(Shown) /\ Len(items) = n /\ DOMAIN items = 1 .. n
  BY <1>8, <1>9, IsASeq
<1>11. ASSUME NEW k \in 1 .. n, NEW l \in 1 .. n, k # l PROVE items[k].links # items[l].links
  <2>1. order[k] # order[l] BY <1>6, <1>11
  <2>2. order[k] \in DOMAIN predictions /\ order[l] \in DOMAIN predictions BY <1>2, <1>6
  <2>3. visible[k].id # visible[l].id BY <1>6, <2>1, <2>2 DEF Repeated
  <2>4. QED BY <1>9, <2>3
<1>12. Distinct(items) BY <1>10, <1>11 DEF Distinct
<1>13. ToSet(items) = {Projected(visible[k], provenance) : k \in 1 .. n}
  BY <1>8, <1>10 DEF ToSet
<1>14. ToSet(visible) = {q \in ToSet(predictions) : Footprint(q, provenance) # {}}
  BY <1>1, <1>2, <1>4 DEF ToSet
<1>15. ToSet(visible) = {visible[k] : k \in 1 .. n} BY <1>5 DEF ToSet
<1>16. ToSet(items) = {Projected(p, provenance) : p \in ToSet(visible)} BY <1>13, <1>15
<1>17. QED BY <1>7, <1>12, <1>14, <1>16

LEMMA ReverseIs ==
    ASSUME NEW S, NEW list \in Seq(S), NEW n \in Nat, n = Len(list)
    PROVE  /\ Reverse(list) \in Seq(S)
           /\ DOMAIN list = 1 .. n /\ DOMAIN Reverse(list) = 1 .. n
           /\ ToSet(Reverse(list)) = ToSet(list)
           /\ \A i \in 1 .. n : /\ (n - i) + 1 \in 1 .. n
                                /\ Reverse(list)[i] = list[(n - i) + 1]
                                /\ list[i] = Reverse(list)[(n - i) + 1]
<1>1. DOMAIN list = 1 .. n BY LenProperties
<1>2. PICK back : back = Reverse(list) OBVIOUS
<1>3. back = [i \in 1 .. n |-> list[(n - i) + 1]] BY <1>1, <1>2 DEF Reverse
<1>4. \A i \in 1 .. n : (n - i) + 1 \in 1 .. n /\ (n - ((n - i) + 1)) + 1 = i OBVIOUS
<1>5. \A i \in 1 .. n : back[i] = list[(n - i) + 1] /\ back[(n - i) + 1] = list[i]
  BY <1>3, <1>4
<1>6. back \in Seq(S) /\ DOMAIN back = 1 .. n
  <2>1. \A i \in 1 .. n : list[(n - i) + 1] \in S BY <1>1, <1>4, ElementOfSeq
  <2>2. QED BY <1>3, <2>1, IsASeq
<1>7. ToSet(back) = ToSet(list)
  <2>1. ToSet(back) = {back[i] : i \in 1 .. n} /\ ToSet(list) = {list[i] : i \in 1 .. n}
    BY <1>1, <1>6 DEF ToSet
  <2>2. ASSUME NEW i \in 1 .. n PROVE back[i] \in ToSet(list) /\ list[i] \in ToSet(back)
    <3>1. PICK j \in 1 .. n : back[i] = list[j] /\ back[j] = list[i] BY <1>4, <1>5
    <3>2. QED BY <2>1, <3>1
  <2>3. ToSet(back) \subseteq ToSet(list) BY <2>1, <2>2
  <2>4. ToSet(list) \subseteq ToSet(back) BY <2>1, <2>2
  <2>5. QED BY <2>3, <2>4
<1>8. QED BY <1>1, <1>2, <1>4, <1>5, <1>6, <1>7

\* The order in which the predictions are given does not matter.
LEMMA OrderDoesNotMatter ==
    ASSUME MapWidth \in Nat, MapHeight \in Nat, ConfidenceScale \in Int,
           NEW predictions \in Seq(Predictions), NEW provenance
    PROVE  Results(Reverse(predictions), provenance) = Results(predictions, provenance)
<1>1. PICK back : back = Reverse(predictions) OBVIOUS
<1>2. PICK n \in Nat : n = Len(predictions) BY LenProperties
<1>3. /\ back \in Seq(Predictions)
      /\ DOMAIN predictions = 1 .. n /\ DOMAIN back = 1 .. n
      /\ ToSet(back) = ToSet(predictions)
      /\ \A i \in 1 .. n : /\ (n - i) + 1 \in 1 .. n
                           /\ back[i] = predictions[(n - i) + 1]
                           /\ predictions[i] = back[(n - i) + 1]
  BY <1>1, <1>2, ReverseIs
<1>4. ASSUME NEW i \in 1 .. n, NEW j \in 1 .. n, i # j PROVE (n - i) + 1 # (n - j) + 1
  BY <1>4
<1>5. Repeated(back) <=> Repeated(predictions)
  <2>1. ASSUME Repeated(predictions) PROVE Repeated(back)
    <3>1. PICK i \in 1 .. n, j \in 1 .. n : i # j /\ predictions[i].id = predictions[j].id
      BY <1>3, <2>1 DEF Repeated
    <3>2. PICK k \in 1 .. n, l \in 1 .. n : k = (n - i) + 1 /\ l = (n - j) + 1 BY <1>3
    <3>3. back[k] = predictions[i] /\ back[l] = predictions[j] BY <1>3, <3>2
    <3>4. k # l BY <1>4, <3>1, <3>2
    <3>5. back[k].id = back[l].id BY <3>1, <3>3
    <3>6. k \in DOMAIN back /\ l \in DOMAIN back BY <1>3
    <3>7. QED BY <3>4, <3>5, <3>6 DEF Repeated
  <2>2. ASSUME Repeated(back) PROVE Repeated(predictions)
    <3>1. PICK i \in 1 .. n, j \in 1 .. n : i # j /\ back[i].id = back[j].id
      BY <1>3, <2>2 DEF Repeated
    <3>2. PICK k \in 1 .. n, l \in 1 .. n : k = (n - i) + 1 /\ l = (n - j) + 1 BY <1>3
    <3>3. predictions[k] = back[i] /\ predictions[l] = back[j] BY <1>3, <3>2
    <3>4. k # l BY <1>4, <3>1, <3>2
    <3>5. predictions[k].id = predictions[l].id BY <3>1, <3>3
    <3>6. k \in DOMAIN predictions /\ l \in DOMAIN predictions BY <1>3
    <3>7. QED BY <3>4, <3>5, <3>6 DEF Repeated
  <2>3. QED BY <2>1, <2>2
<1>6. CASE Repeated(predictions) BY <1>1, <1>5, <1>6 DEF Results
<1>7. CASE ~Repeated(predictions)
  <2>1. PICK a, b : /\ a = AllProjected(predictions, provenance)
                    /\ b = AllProjected(back, provenance)
    OBVIOUS
  <2>2. Distinct(a) /\ Distinct(b) /\ ToSet(a) = ToSet(b)
    BY <1>3, <1>5, <1>7, <2>1, AllProjectedIs
  <2>3. Sorted(a, Keys(a)) = Sorted(b, Keys(b)) BY <2>2, SameSortedProjections
  <2>4. Deduplicated(a) = Deduplicated(b) BY <2>3 DEF Deduplicated, Keys
  <2>5. (\E i \in DOMAIN back :
             Raster(back[i]) # {} /\ BoxExtent(Raster(back[i])) > MaximumFootprint)
         <=> (\E i \in DOMAIN predictions : /\ Raster(predictions[i]) # {}
                                            /\ BoxExtent(Raster(predictions[i])) > MaximumFootprint)
    BY <1>3
  <2>6. QED BY <1>1, <1>5, <1>7, <2>1, <2>2, <2>4, <2>5 DEF Results
<1>8. QED BY <1>6, <1>7

\* project_and_deduplicate_predictions (inference/projection.py): every
\* prediction with an acquired pixel is evidence of exactly one result, a
\* footprint is what its evidence shows of acquired pixels and never a filled
\* one, and the order of the predictions does not matter; for any number of
\* predictions on a map of any size, and unless a bound is exceeded.
THEOREM EvidenceIsKept ==
    ASSUME MapWidth \in Nat, MapHeight \in Nat, ConfidenceScale \in Int,
           NEW predictions \in Seq(Predictions), NEW provenance
    PROVE  EvidenceKept(predictions, provenance)
<1>1. PICK results : results = Results(predictions, provenance) OBVIOUS
<1>2. results = Results(Reverse(predictions), provenance) BY <1>1, OrderDoesNotMatter
<1> DEFINE given == ToSet(predictions)
           Behind(r) == {p \in given : p.id \in r.links}
           visible == {p \in given : \E q \in Raster(p) : provenance[q] = "acquired"}
<1>3. SUFFICES ASSUME results # {Rejection}
      PROVE  /\ UNION {r.links : r \in results} = {p.id : p \in visible}
             /\ \A r, s \in results : r # s => r.links \cap s.links = {}
             /\ \A r \in results :
                   /\ r.pixels = {q \in UNION {Raster(p) : p \in Behind(r)} :
                                     provenance[q] = "acquired"}
                   /\ \A p \in Behind(r) : p.class = r.class /\ p.confidence <= r.confidence
                   /\ \A p \in visible :
                         SamePlace(r, Projected(p, provenance)) =>
                             \E s \in results : p.id \in s.links /\ s.confidence >= r.confidence
  BY <1>1, <1>2 DEF EvidenceKept
<1>4. PICK items : items = AllProjected(predictions, provenance) OBVIOUS
<1>5. ~Repeated(predictions) /\ results = Deduplicated(items)
  BY <1>1, <1>3, <1>4 DEF Results
<1>6. ASSUME NEW p \in given PROVE p \in Predictions /\ (p \in visible <=> Footprint(p, provenance) # {})
  <2>1. p \in Predictions
    <3>1. DOMAIN predictions = 1 .. Len(predictions) BY LenProperties
    <3>2. QED BY <3>1, ElementOfSeq DEF ToSet
  <2>2. QED BY <2>1 DEF Footprint
<1>7. \A p, q \in given : p.id = q.id => p = q BY <1>5 DEF Repeated, ToSet
<1>8. PICK E : E = ToSet(items) OBVIOUS
<1>9. Distinct(items) /\ E = {Projected(p, provenance) : p \in visible}
  <2>1. visible = {q \in given : Footprint(q, provenance) # {}} BY <1>6
  <2>2. QED BY <1>4, <1>5, <1>8, <2>1, AllProjectedIs
<1>10. ASSUME NEW p \in visible
       PROVE  LET d == Projected(p, provenance)
              IN  /\ p \in given /\ d \in E /\ d \in Shown /\ d.links = {p.id} /\ d.class = p.class
                  /\ d.confidence = p.confidence /\ d.pixels = Footprint(p, provenance)
  <2>1. p \in given /\ p \in Predictions /\ Footprint(p, provenance) # {} BY <1>6
  <2>2. Projected(p, provenance) \in Shown BY <2>1, ProjectedIs
  <2>3. QED BY <1>9, <2>1, <2>2 DEF Projected
<1> HIDE DEF given, visible
<1>11. E \in SUBSET Shown /\ \A d \in E : \E p \in visible : d = Projected(p, provenance)
  BY <1>9, <1>10
<1>12. PICK M : M = EvidentResults(E) OBVIOUS
<1>13. DiscMerge!Makes(M, E) BY <1>11, <1>12, ProjectionsMake
<1>14. PICK sorted : sorted = Sorted(items, Keys(items)) OBVIOUS
<1>15. sorted \in Seq(E) /\ ToSet(sorted) = E /\ DiscMerge!InOrder(sorted, KeyOrder)
  BY <1>8, <1>9, <1>14, SortedProjections
<1>16. PICK found : found = Dedup!Merged(sorted) /\ found = DiscMerge!Merged(sorted) BY SameDedup
<1>17. /\ found \in Seq({m[1] : m \in M})
       /\ \E groups, heads :
             /\ DiscMerge!Accounted(found, groups, heads, DiscMerge!ToSet(sorted), M, KeyOrder)
             /\ DiscMerge!InGroups(found, groups) = DiscMerge!ToSet(sorted)
  BY <1>13, <1>15, <1>16, DiscMerge!GroupsAccount
<1>18. PICK groups, heads :
          /\ DiscMerge!Accounted(found, groups, heads, E, M, KeyOrder)
          /\ DiscMerge!InGroups(found, groups) = E
  BY <1>15, <1>17, SameDedup
<1>19. PICK n \in Nat : n = Len(found) /\ DOMAIN found = 1 .. n BY <1>17, LenProperties
<1>20. results = {found[i] : i \in 1 .. n}
  <2>1. results = ToSet(found) BY <1>5, <1>14, <1>16 DEF Deduplicated, Keys
  <2>2. QED BY <1>19, <2>1 DEF ToSet
<1>21. ASSUME NEW i \in 1 .. n
       PROVE  /\ found[i] \in Projections /\ groups[i] \subseteq E
              /\ Evident(found[i], groups[i]) /\ heads[i] \in groups[i]
  <2>1. <<found[i], groups[i]>> \in M /\ heads[i] \in groups[i]
    BY <1>18, <1>19 DEF DiscMerge!Accounted
  <2>2. QED BY <1>12, <2>1 DEF EvidentResults
<1>22. \A d \in E : \E i \in 1 .. n : d \in groups[i]
  BY <1>18, <1>19 DEF DiscMerge!InGroups
<1>23. ASSUME NEW i \in 1 .. n, NEW j \in 1 .. n, i < j
       PROVE  /\ \A e \in groups[j] : ~SamePlace(found[i], e)
              /\ \A e \in groups[j] : <<heads[i], e>> \in KeyOrder
              /\ groups[i] \cap groups[j] = {}
  <2>1. /\ DiscMerge!Foreign(found[i], groups[j])
        /\ \A e \in groups[j] : <<heads[i], e>> \in KeyOrder
        /\ DiscMerge!Apart(groups[i], groups[j], KeyOrder)
    BY <1>18, <1>19, <1>23 DEF DiscMerge!Accounted
  <2>2. ASSUME NEW e \in groups[i], e \in groups[j] PROVE FALSE
    <3>1. <<e, e>> \in KeyOrder BY <2>1, <2>2 DEF DiscMerge!Apart
    <3>2. QED BY <3>1, KeyOrderIs
  <2>3. QED BY <2>1, <2>2 DEF DiscMerge!Foreign
\* The evidence of a result is what is in its group.
<1>24. ASSUME NEW i \in 1 .. n, NEW p \in given
       PROVE  p.id \in found[i].links
                 <=> (p \in visible /\ Projected(p, provenance) \in groups[i])
  <2>1. groups[i] \subseteq E /\ found[i].links = UNION {d.links : d \in groups[i]}
    BY <1>21 DEF Evident
  <2>2. ASSUME p.id \in found[i].links
        PROVE  p \in visible /\ Projected(p, provenance) \in groups[i]
    <3>1. PICK d \in groups[i] : p.id \in d.links BY <2>1, <2>2
    <3>2. PICK q \in visible : d = Projected(q, provenance) BY <1>11, <2>1, <3>1
    <3>3. q \in given /\ d.links = {q.id} BY <1>10, <3>2
    <3>4. p = q BY <1>7, <3>1, <3>3
    <3>5. QED BY <3>1, <3>2, <3>4
  <2>3. ASSUME p \in visible, Projected(p, provenance) \in groups[i]
        PROVE  p.id \in found[i].links
    <3>1. Projected(p, provenance).links = {p.id} BY <1>10, <2>3
    <3>2. QED BY <2>1, <2>3, <3>1
  <2>4. QED BY <2>2, <2>3
<1>25. UNION {r.links : r \in results} = {p.id : p \in visible}
  <2>1. ASSUME NEW r \in results, NEW l \in r.links PROVE \E p \in visible : l = p.id
    <3>1. PICK i \in 1 .. n : r = found[i] BY <1>20
    <3>2. PICK d \in groups[i] : l \in d.links BY <1>21, <3>1 DEF Evident
    <3>3. d \in E BY <1>21, <3>2
    <3>4. PICK p \in visible : d = Projected(p, provenance) BY <1>11, <3>3
    <3>5. QED BY <1>10, <3>2, <3>4
  <2>2. ASSUME NEW p \in visible PROVE \E r \in results : p.id \in r.links
    <3>1. p \in given /\ Projected(p, provenance) \in E BY <1>10
    <3>2. PICK i \in 1 .. n : Projected(p, provenance) \in groups[i] BY <1>22, <3>1
    <3>3. p.id \in found[i].links BY <1>24, <3>1, <3>2
    <3>4. QED BY <1>20, <3>3
  <2>3. QED BY <2>1, <2>2
<1>26. ASSUME NEW r \in results, NEW s \in results, r # s, NEW l \in r.links \cap s.links
       PROVE  FALSE
  <2>1. PICK i \in 1 .. n, j \in 1 .. n : r = found[i] /\ s = found[j] BY <1>20
  <2>2. PICK p \in visible : l = p.id
    <3>1. l \in UNION {x.links : x \in results} BY <1>26
    <3>2. QED BY <1>25, <3>1
  <2>3. p \in given BY <1>10
  <2>4. Projected(p, provenance) \in groups[i] /\ Projected(p, provenance) \in groups[j]
    BY <1>24, <1>26, <2>1, <2>2, <2>3
  <2>5. i # j BY <1>26, <2>1
  <2>6. i < j \/ j < i BY <2>5
  <2>7. QED BY <1>23, <2>4, <2>6
<1>27. ASSUME NEW r \in results
       PROVE  /\ r.pixels = {q \in UNION {Raster(p) : p \in Behind(r)} :
                                provenance[q] = "acquired"}
              /\ \A p \in Behind(r) : p.class = r.class /\ p.confidence <= r.confidence
  <2>1. PICK i \in 1 .. n : r = found[i] BY <1>20
  <2>2. PICK G : G = groups[i] OBVIOUS
  <2>3. G \subseteq E /\ Evident(r, G) BY <1>21, <2>1, <2>2
  <2>4. \A p \in Behind(r) : p \in visible /\ Projected(p, provenance) \in G
    BY <1>24, <2>1, <2>2
  <2>5. \A p \in visible : Projected(p, provenance) \in G => p \in Behind(r)
    BY <1>10, <1>24, <2>1, <2>2
  <2>6. \A p : Footprint(p, provenance) = {q \in Raster(p) : provenance[q] = "acquired"}
    BY DEF Footprint
  <2>7. ASSUME NEW p \in Behind(r) PROVE p.class = r.class /\ p.confidence <= r.confidence
    <3>1. p \in visible /\ Projected(p, provenance) \in G BY <2>4
    <3>2. QED BY <1>10, <2>3, <3>1 DEF Evident
  <2>8. ASSUME NEW q \in r.pixels
        PROVE  provenance[q] = "acquired" /\ \E p \in Behind(r) : q \in Raster(p)
    <3>1. PICK d \in G : q \in d.pixels BY <2>3 DEF Evident
    <3>2. PICK p \in visible : d = Projected(p, provenance) BY <1>11, <2>3, <3>1
    <3>3. q \in Footprint(p, provenance) /\ p \in Behind(r) BY <1>10, <2>5, <3>1, <3>2
    <3>4. QED BY <2>6, <3>3
  <2>9. ASSUME NEW p \in Behind(r), NEW q \in Raster(p), provenance[q] = "acquired"
        PROVE  q \in r.pixels
    <3>1. p \in visible /\ Projected(p, provenance) \in G BY <2>4
    <3>2. Projected(p, provenance).pixels = Footprint(p, provenance) BY <1>10, <3>1
    <3>3. q \in Footprint(p, provenance) BY <2>6, <2>9
    <3>4. r.pixels = UNION {d.pixels : d \in G} BY <2>3 DEF Evident
    <3>5. QED BY <3>1, <3>2, <3>3, <3>4
  <2> HIDE DEF Behind
  <2>10. QED BY <2>7, <2>8, <2>9
<1>28. ASSUME NEW r \in results, NEW p \in visible, SamePlace(r, Projected(p, provenance))
       PROVE  \E s \in results : p.id \in s.links /\ s.confidence >= r.confidence
  <2>1. PICK i \in 1 .. n : r = found[i] BY <1>20
  <2>2. PICK d : d = Projected(p, provenance) OBVIOUS
  <2>3. d \in E /\ p \in given BY <1>10, <2>2
  <2>4. PICK j \in 1 .. n : d \in groups[j] BY <1>22, <2>3
  <2>5. PICK s : s = found[j] OBVIOUS
  <2>6. s \in results /\ p.id \in s.links BY <1>20, <1>24, <2>2, <2>3, <2>4, <2>5
  <2>7. s.confidence >= r.confidence
    <3>1. r.confidence \in Int /\ s.confidence \in Int BY <1>21, <2>1, <2>5 DEF Projections
    <3>2. CASE j = i BY <2>1, <2>5, <3>1, <3>2
    <3>3. CASE j < i
      <4>1. PICK e \in groups[i] : e.confidence = r.confidence BY <1>21, <2>1 DEF Evident
      <4>2. PICK head : head = heads[j] OBVIOUS
      <4>3. head \in groups[j] /\ <<head, e>> \in KeyOrder BY <1>21, <1>23, <3>3, <4>1, <4>2
      <4>4. e.class = r.class /\ d.class = s.class /\ head.class = s.class
            /\ head.confidence <= s.confidence /\ head \in E
        BY <1>21, <2>1, <2>4, <2>5, <4>1, <4>3 DEF Evident
      <4>5. d.class = r.class BY <1>28, <2>2 DEF SamePlace
      <4>6. head.confidence >= e.confidence BY <4>3, <4>4, <4>5, KeyOrderIs
      <4>7. head.confidence \in Int BY <1>11, <4>4 DEF Shown, Projections
      <4>8. QED BY <3>1, <4>1, <4>4, <4>6, <4>7
    <3>4. CASE i < j
      <4>1. ~SamePlace(r, d) BY <1>23, <2>1, <2>4, <3>4
      <4>2. QED BY <1>28, <2>2, <4>1
    <3>5. QED BY <1>19, <3>2, <3>3, <3>4
  <2>8. QED BY <2>6, <2>7
<1>29. QED BY <1>25, <1>26, <1>27, <1>28 DEF Behind

-----------------------------------------------------------------------------
(* One canvas: what the tiles count adds up, and the preview is filled.    *)

\* A sum over the members of a finite set, as FoldSet takes it.
SumsUp(sum, S, f) ==
    sum = [t \in SUBSET S |-> IF t = {} THEN 0
                              ELSE sum[t \ {CHOOSE x \in t : TRUE}] + f[CHOOSE x \in t : TRUE]]

LEMMA SumExists ==
    ASSUME NEW S, IsFiniteSet(S), NEW f \in [S -> Nat]
    PROVE  \E sum \in [SUBSET S -> Nat] : SumsUp(sum, S, f)
<1>1. PICK chosen : chosen = [t \in SUBSET S |-> CHOOSE x \in t : TRUE] OBVIOUS
<1>2. \A t \in SUBSET S : t # {} => chosen[t] \in t BY <1>1
<1>3. PICK F : F = [p \in Nat \X S |-> p[1] + f[p[2]]] OBVIOUS
<1>4. F \in [Nat \X S -> Nat] /\ \A n \in Nat, x \in S : F[<<n, x>>] = n + f[x] BY <1>3
<1>5. PICK sum \in [SUBSET S -> Nat] : SliceMerge!IsFold(sum, S, 0, F, chosen)
  <2>1. SliceMerge!IsFiniteSet(S) BY DEF IsFiniteSet, SliceMerge!IsFiniteSet
  <2>2. PICK V, zero : V = Nat /\ zero = 0 OBVIOUS
  <2>3. zero \in V /\ F \in [V \X S -> V] BY <1>4, <2>2
  <2>4. \E sum \in [SUBSET S -> V] : SliceMerge!IsFold(sum, S, zero, F, chosen)
    BY ONLY <1>2, <2>1, <2>3, SliceMerge!FoldExists
  <2>5. QED BY <2>2, <2>4
<1>6. ASSUME NEW t \in SUBSET S
      PROVE  sum[t] = IF t = {} THEN 0
                      ELSE sum[t \ {CHOOSE x \in t : TRUE}] + f[CHOOSE x \in t : TRUE]
  <2>1. CASE t = {} BY <1>5, <2>1 DEF SliceMerge!IsFold
  <2>2. CASE t # {}
    <3>1. PICK c \in t : c = chosen[t] BY <1>2, <2>2
    <3>2. c = CHOOSE x \in t : TRUE BY <1>1, <3>1
    <3>3. t \ {c} \in SUBSET S /\ c \in S OBVIOUS
    <3>4. sum[t \ {c}] \in Nat BY <3>3
    <3>5. sum[t] = F[<<sum[t \ {c}], c>>] BY <1>5, <2>2, <3>1 DEF SliceMerge!IsFold
    <3>6. sum[t] = sum[t \ {c}] + f[c] BY <1>4, <3>3, <3>4, <3>5
    <3>7. QED BY <2>2, <3>2, <3>6
  <2>3. QED BY <2>1, <2>2
<1>7. QED BY <1>6 DEF SumsUp

\* There is one such sum.
LEMMA OneSum ==
    ASSUME NEW S, IsFiniteSet(S), NEW f, NEW sum, SumsUp(sum, S, f), NEW total, SumsUp(total, S, f)
    PROVE  \A t \in SUBSET S : sum[t] = total[t]
<1> DEFINE wrong == {t \in SUBSET S : sum[t] # total[t]}
           sizes == {Cardinality(t) : t \in wrong}
<1>1. \A t \in SUBSET S : IsFiniteSet(t) /\ Cardinality(t) \in Nat
  BY FS_Subset, FS_CardinalityType
<1>2. \A t \in SUBSET S :
         /\ sum[t] = IF t = {} THEN 0
                     ELSE sum[t \ {CHOOSE x \in t : TRUE}] + f[CHOOSE x \in t : TRUE]
         /\ total[t] = IF t = {} THEN 0
                       ELSE total[t \ {CHOOSE x \in t : TRUE}] + f[CHOOSE x \in t : TRUE]
  BY DEF SumsUp
<1>3. CASE wrong = {} BY <1>3
<1>4. CASE wrong # {}
  <2>1. sizes \subseteq Nat /\ sizes # {} BY <1>1, <1>4
  <2> HIDE DEF sizes
  <2>2. PICK least \in sizes : \A k \in sizes : least <= k BY <2>1, LeastNumber
  <2>3. PICK t \in wrong : Cardinality(t) = least BY <2>2 DEF sizes
  <2>4. t \in SUBSET S /\ sum[t] # total[t] OBVIOUS
  <2>5. t # {} BY <1>2, <2>4
  <2>6. PICK c \in t : c = CHOOSE x \in t : TRUE BY <2>5
  <2>7. t \ {c} \in SUBSET S OBVIOUS
  <2>8. Cardinality(t \ {c}) = Cardinality(t) - 1 BY <1>1, <2>4, FS_RemoveElement
  <2>9. t \ {c} \notin wrong
    <3>1. SUFFICES ASSUME t \ {c} \in wrong PROVE FALSE OBVIOUS
    <3>2. Cardinality(t \ {c}) \in sizes BY <3>1 DEF sizes
    <3>3. Cardinality(t) <= Cardinality(t) - 1 BY <2>2, <2>3, <2>8, <3>2
    <3>4. Cardinality(t) \in Nat BY <1>1, <2>4
    <3>5. QED BY <3>3, <3>4
  <2>10. sum[t \ {c}] = total[t \ {c}] BY <2>7, <2>9
  <2>11. sum[t] = sum[t \ {c}] + f[c] BY <1>2, <2>4, <2>5, <2>6
  <2>12. total[t] = total[t \ {c}] + f[c] BY <1>2, <2>4, <2>5, <2>6
  <2>13. QED BY <2>4, <2>10, <2>11, <2>12
<1>5. QED BY <1>3, <1>4
\* What is positive adds up to something positive.
LEMMA PositiveSum ==
    ASSUME NEW S, IsFiniteSet(S), S # {}, NEW f \in [S -> Nat], \A x \in S : f[x] > 0,
           NEW sum, SumsUp(sum, S, f)
    PROVE  sum[S] > 0
<1>1. PICK total \in [SUBSET S -> Nat] : SumsUp(total, S, f) BY SumExists
<1>2. \A t \in SUBSET S :
         total[t] = IF t = {} THEN 0
                    ELSE total[t \ {CHOOSE x \in t : TRUE}] + f[CHOOSE x \in t : TRUE]
  BY <1>1 DEF SumsUp
<1>3. sum[S] = total[S] BY <1>1, OneSum
<1>4. PICK c \in S : c = CHOOSE x \in S : TRUE OBVIOUS
<1>5. total[S] = total[S \ {c}] + f[c] BY <1>2, <1>4
<1>6. total[S \ {c}] \in Nat /\ f[c] \in Nat /\ f[c] > 0 OBVIOUS
<1>7. QED BY <1>3, <1>5, <1>6

\* The sizes of sets that have nothing in common add up to that of their union.
LEMMA SumOfParts ==
    ASSUME NEW S, IsFiniteSet(S), NEW U,
           \A x \in S : IsFiniteSet(U[x]),
           \A x, y \in S : x # y => U[x] \cap U[y] = {},
           NEW f, \A x \in S : f[x] = Cardinality(U[x]),
           NEW sum, SumsUp(sum, S, f)
    PROVE  sum[S] = Cardinality(UNION {U[x] : x \in S})
<1> DEFINE All(t) == UNION {U[x] : x \in t}
<1>1. PICK total : total = [t \in SUBSET S |-> Cardinality(All(t))] OBVIOUS
<1>2. ASSUME NEW t \in SUBSET S PROVE IsFiniteSet(All(t))
  <2>1. PICK parts : parts = {U[x] : x \in t} OBVIOUS
  <2>2. PICK g : g = [x \in t |-> U[x]] OBVIOUS
  <2>3. g \in Surjection(t, parts) BY <2>1, <2>2 DEF Surjection
  <2>4. IsFiniteSet(parts) BY <2>3, FS_Subset, FS_Surjection
  <2>5. \A part \in parts : IsFiniteSet(part) BY <2>1
  <2>6. IsFiniteSet(UNION parts) BY <2>4, <2>5, FS_UNION
  <2>7. QED BY <2>1, <2>6
<1>3. ASSUME NEW t \in SUBSET S, NEW c \in t
      PROVE  Cardinality(All(t)) = Cardinality(All(t \ {c})) + Cardinality(U[c])
  <2>1. PICK rest : rest = All(t \ {c}) OBVIOUS
  <2>2. All(t) = rest \cup U[c] /\ rest \cap U[c] = {} BY <2>1
  <2>3. IsFiniteSet(rest) /\ IsFiniteSet(U[c]) BY <1>2, <2>1
  <2>4. PICK n \in Nat, m \in Nat : n = Cardinality(rest) /\ m = Cardinality(U[c])
    BY <2>3, FS_CardinalityType
  <2>5. Cardinality(rest \cup U[c]) = n + m - Cardinality(rest \cap U[c])
    BY <2>3, <2>4, FS_Union
  <2>6. Cardinality(rest \cap U[c]) = 0 BY <2>2, FS_EmptySet
  <2>7. Cardinality(rest \cup U[c]) = n + m BY <2>5, <2>6
  <2> HIDE DEF All
  <2>8. QED BY <2>1, <2>2, <2>4, <2>7
<1>4. All({}) = {} OBVIOUS
<1> HIDE DEF All
<1>5. ASSUME NEW t \in SUBSET S
      PROVE  total[t] = IF t = {} THEN 0
                        ELSE total[t \ {CHOOSE x \in t : TRUE}] + f[CHOOSE x \in t : TRUE]
  <2>1. CASE t = {}
    <3>1. total[t] = Cardinality({}) BY <1>1, <1>4, <2>1
    <3>2. QED BY <2>1, <3>1, FS_EmptySet
  <2>2. CASE t # {}
    <3>1. PICK c \in t : c = CHOOSE x \in t : TRUE BY <2>2
    <3>2. total[t] = Cardinality(All(t)) /\ total[t \ {c}] = Cardinality(All(t \ {c})) BY <1>1
    <3>3. f[c] = Cardinality(U[c]) OBVIOUS
    <3>4. QED BY <1>3, <2>2, <3>1, <3>2, <3>3
  <2>3. QED BY <2>1, <2>2
<1>6. SumsUp(total, S, f)
  <2>1. total = [t \in SUBSET S |-> total[t]] BY <1>1
  <2>2. QED BY <1>5, <2>1 DEF SumsUp
<1>7. sum[S] = total[S] BY <1>6, OneSum
<1>8. QED BY <1>1, <1>7 DEF All

\* On an axis, a frame that shows a coordinate is not further away from it than
\* its weights tell.
LEMMA WeightsOnAxis ==
    ASSUME Sources, NEW axis \in 1 .. 2, NEW frame, frame[axis] \in Int,
           NEW origin \in Int, NEW n \in Int,
           Floor(SourceAt(frame, origin, axis, n) + 1) \in UpTo(Extent(axis))
    PROVE  LET at == SourceAt(frame, origin, axis, n)
           IN  at + 2 \in Nat \ {0} /\ 2 * Extent(axis) - at \in Nat \ {0}
<1>1. PICK f \in Int : f = frame[axis] OBVIOUS
<1>2. PICK e \in Nat \ {0} : e = Extent(axis) BY DEF Extent, Sources
<1>3. PICK at \in Int : at = 2 * (n + origin) - f OBVIOUS
<1>4. PICK h \in Int : h = (at + 1) \div 2 /\ (at + 1 = 2 * h \/ at + 1 = 2 * h + 1)
  BY Halves
<1>5. h \in 0 .. e - 1 BY <1>1, <1>2, <1>3, <1>4 DEF Floor, SourceAt, UpTo
<1>6. at + 2 \in Nat \ {0} /\ 2 * e - at \in Nat \ {0} BY <1>4, <1>5
<1>7. QED BY <1>1, <1>2, <1>3, <1>6 DEF SourceAt

\* A frame that shows a pixel has a weight there.
LEMMA WeightIsPositive ==
    ASSUME Sources, NEW frame \in Int \X Int, NEW origins \in Int \X Int,
           NEW p \in Int \X Int, Valid(frame, origins, p)
    PROVE  Weight(frame, origins, p) \in Nat \ {0}
<1> DEFINE at(axis) == SourceAt(frame, origins[axis], axis, p[axis])
<1>1. ASSUME NEW axis \in 1 .. 2
      PROVE  at(axis) + 2 \in Nat \ {0} /\ 2 * Extent(axis) - at(axis) \in Nat \ {0}
  <2>1. frame[axis] \in Int /\ origins[axis] \in Int /\ p[axis] \in Int
    <3>1. CASE axis = 1 BY <3>1
    <3>2. CASE axis = 2 BY <3>2
    <3>3. QED BY <3>1, <3>2
  <2>2. Floor(SourceAt(frame, origins[axis], axis, p[axis]) + 1) \in UpTo(Extent(axis))
    BY DEF Valid
  <2>3. QED BY <2>1, <2>2, WeightsOnAxis
<1>2. PICK a, b, c, d \in Nat \ {0} :
         /\ a = at(1) + 2 /\ b = 2 * Extent(1) - at(1)
         /\ c = at(2) + 2 /\ d = 2 * Extent(2) - at(2)
  <2>1. 1 \in 1 .. 2 /\ 2 \in 1 .. 2 OBVIOUS
  <2> HIDE DEF at
  <2>2. QED BY <1>1, <2>1
<1>3. PICK f : f = <<a, b, c, d>> OBVIOUS
<1>4. f \in [1 .. 4 -> Int] BY <1>3
<1>5. PICK V : V = {f[i] : i \in 1 .. 4} OBVIOUS
<1>6. V = {a, b, c, d} BY <1>3, <1>5
<1>7. UNION {{at(axis) + 2, 2 * Extent(axis) - at(axis)} : axis \in 1 .. 2} = V
  <2>1. 1 .. 2 = {1, 2} OBVIOUS
  <2> HIDE DEF at
  <2>2. QED BY <1>2, <1>6, <2>1
<1>8. Weight(frame, origins, p) = Min(V) BY <1>7 DEF Weight
<1>9. \E m \in V : \A k \in V : m <= k
  <2>1. V \subseteq Nat /\ V # {} BY <1>6
  <2>2. QED BY <2>1, LeastNumber
<1>10. Min(V) \in V BY <1>9 DEF Min
<1>11. QED BY <1>6, <1>8, <1>10

\* What is shown has a weight to be divided by, what is not has none.
LEMMA WeightsAddUp ==
    ASSUME Sources, NEW frames, NEW shown, IsFiniteSet(shown),
           NEW origins \in Int \X Int, NEW p \in Int \X Int,
           \A i \in shown : frames[i] \in Int \X Int /\ Valid(frames[i], origins, p)
    PROVE  SummedWeight(frames, origins, p, shown) > 0 <=> shown # {}
<1> DEFINE Folded(it) ==
               it = [t \in SUBSET shown |->
                        IF t = {} THEN 0
                        ELSE it[t \ {CHOOSE x \in t : TRUE}]
                                 + Weight(frames[CHOOSE x \in t : TRUE], origins, p)]
           it == CHOOSE it : Folded(it)
<1>1. SummedWeight(frames, origins, p, shown) = it[shown]
  BY DEF SummedWeight, FoldSet, MapThenFoldSet
<1>2. PICK f : f = [i \in shown |-> Weight(frames[i], origins, p)] OBVIOUS
<1>3. \A i \in shown : f[i] \in Nat \ {0} BY <1>2, WeightIsPositive
<1>4. f \in [shown -> Nat] /\ \A i \in shown : f[i] > 0 BY <1>2, <1>3
<1>5. \A s : Folded(s) <=> SumsUp(s, shown, f)
  <2>1. ASSUME NEW t \in SUBSET shown, t # {}
        PROVE  Weight(frames[CHOOSE x \in t : TRUE], origins, p) = f[CHOOSE x \in t : TRUE]
    <3>1. PICK c \in t : c = CHOOSE x \in t : TRUE BY <2>1
    <3>2. QED BY <1>2, <3>1
  <2>2. QED BY <2>1 DEF SumsUp
<1>6. SumsUp(it, shown, f)
  <2>1. \E s : SumsUp(s, shown, f) BY <1>4, SumExists
  <2> HIDE DEF Folded
  <2>2. Folded(it) BY <1>5, <2>1
  <2> HIDE DEF it
  <2>3. QED BY <1>5, <2>2
<1> HIDE DEF it, Folded
<1>7. CASE shown = {}
  <2>1. it[shown] = 0 BY <1>6, <1>7 DEF SumsUp
  <2>2. QED BY <1>1, <1>7, <2>1
<1>8. CASE shown # {}
  <2>1. it[shown] > 0 BY <1>4, <1>6, <1>8, PositiveSum
  <2>2. QED BY <1>1, <1>8, <2>1
<1>9. QED BY <1>7, <1>8

LEMMA Quotients ==
    ASSUME NEW x \in Nat, NEW d \in Nat \ {0}, NEW q \in Nat
    PROVE  /\ x \div d \in Nat /\ (x + d - 1) \div d \in Nat
           /\ x \div d <= q <=> x < d * (q + 1)
           /\ q < (x + d - 1) \div d <=> d * q < x
<1>1. PICK u \in Nat, r \in 0 .. d - 1 : u = x \div d /\ x = d * u + r
  <2>1. x \div d \in Nat /\ x % d \in 0 .. d - 1 /\ x = d * (x \div d) + (x % d) BY Division
  <2>2. QED BY <2>1
<1>2. PICK y \in Nat : y = x + d - 1 OBVIOUS
<1>3. PICK v \in Nat, s \in 0 .. d - 1 : v = y \div d /\ y = d * v + s
  <2>1. y \div d \in Nat /\ y % d \in 0 .. d - 1 /\ y = d * (y \div d) + (y % d) BY Division
  <2>2. QED BY <2>1
<1>4. PICK du, dv, dq \in Nat : du = d * u /\ dv = d * v /\ dq = d * q OBVIOUS
<1>5. d * (q + 1) = dq + d BY <1>4
<1>6. u <= q <=> x < dq + d
  <2>1. ASSUME u <= q PROVE x < dq + d
    <3>1. du <= dq BY <1>4, <2>1, ProductsOrdered
    <3>2. QED BY <1>1, <1>4, <3>1
  <2>2. ASSUME q + 1 <= u PROVE ~(x < dq + d)
    <3>1. (q + 1) * d <= u * d BY <2>2, ProductsOrdered
    <3>2. dq + d <= du BY <1>4, <3>1
    <3>3. QED BY <1>1, <1>4, <3>2
  <2>3. QED BY <2>1, <2>2
<1>7. q < v <=> dq < x
  <2>1. ASSUME q + 1 <= v PROVE dq < x
    <3>1. (q + 1) * d <= v * d BY <2>1, ProductsOrdered
    <3>2. dq + d <= dv BY <1>4, <3>1
    <3>3. QED BY <1>2, <1>3, <1>4, <3>2
  <2>2. ASSUME v <= q PROVE ~(dq < x)
    <3>1. v * d <= q * d BY <2>2, ProductsOrdered
    <3>2. dv <= dq BY <1>4, <3>1
    <3>3. QED BY <1>2, <1>3, <1>4, <3>2
  <2>3. QED BY <2>1, <2>2
<1>8. QED BY <1>1, <1>2, <1>3, <1>4, <1>5, <1>6, <1>7

Scaling(n, e, w) == (n * e) \div w
ScalingUp(n, e, w) == (n * e + w - 1) \div w

\* Where a stretch of the canvas lands in the preview: somewhere, and inside.
LEMMA StretchLands ==
    ASSUME NEW w \in Nat \ {0}, NEW e \in Nat \ {0},
           NEW a \in Nat, NEW b \in Nat, a < b, b <= w
    PROVE  /\ Scaling(a, e, w) \in Nat /\ ScalingUp(b, e, w) \in Nat
           /\ Scaling(a, e, w) < ScalingUp(b, e, w)
           /\ ScalingUp(b, e, w) <= e
<1>1. PICK ae, be, we \in Nat : ae = a * e /\ be = b * e /\ we = w * e OBVIOUS
<1>2. ae < be /\ be <= we
  <2>1. (a + 1) * e <= b * e BY ProductsOrdered
  <2>2. ae + e <= be BY <1>1, <2>1
  <2>3. be <= we BY <1>1, ProductsOrdered
  <2>4. QED BY <2>2, <2>3
<1>3. PICK u \in Nat : u = ae \div w /\ w * u <= ae
  <2>1. ae \div w \in Nat /\ ae % w \in 0 .. w - 1 /\ ae = w * (ae \div w) + (ae % w)
    BY Division
  <2>2. PICK u \in Nat, r \in 0 .. w - 1 : u = ae \div w /\ ae = w * u + r BY <2>1
  <2>3. w * u \in Nat OBVIOUS
  <2>4. QED BY <2>2, <2>3
<1>4. PICK wu \in Nat : wu = w * u OBVIOUS
<1>5. u < (be + w - 1) \div w
  <2>1. u < (be + w - 1) \div w <=> w * u < be BY Quotients
  <2>2. QED BY <1>2, <1>3, <1>4, <2>1
<1>6. ~(e < (be + w - 1) \div w)
  <2>1. e < (be + w - 1) \div w <=> w * e < be BY Quotients
  <2>2. QED BY <1>1, <1>2, <2>1
<1>7. (be + w - 1) \div w \in Nat BY Quotients
<1>8. QED BY <1>1, <1>3, <1>5, <1>6, <1>7 DEF Scaling, ScalingUp

\* Every coordinate of the preview has one of the canvas that lands on it with
\* every stretch it lies in.
LEMMA PreviewIsReached ==
    ASSUME NEW w \in Nat \ {0}, NEW e \in Nat \ {0}, NEW q \in 0 .. e - 1
    PROVE  \E n \in 0 .. w - 1 :
              \A a, b \in Nat : n \in a .. b - 1 =>
                  q \in Scaling(a, e, w) .. ScalingUp(b, e, w) - 1
<1>1. PICK qw, we \in Nat : qw = q * w /\ we = e * w OBVIOUS
<1>2. qw + w <= we
  <2>1. q \in Nat /\ q + 1 <= e OBVIOUS
  <2>2. (q + 1) * w <= e * w BY <2>1, ProductsOrdered
  <2>3. QED BY <1>1, <2>2
<1>3. PICK n \in Nat, r \in 0 .. e - 1 : qw = e * n + r
  <2>1. qw \div e \in Nat /\ qw % e \in 0 .. e - 1 /\ qw = e * (qw \div e) + (qw % e)
    BY Division
  <2>2. QED BY <2>1
<1>4. PICK ne \in Nat : ne = n * e /\ qw = ne + r BY <1>3
<1>5. n \in 0 .. w - 1
  <2>1. SUFFICES ASSUME w <= n PROVE FALSE OBVIOUS
  <2>2. w * e <= n * e BY <2>1, ProductsOrdered
  <2>3. we <= ne BY <1>1, <1>4, <2>2
  <2>4. QED BY <1>2, <1>4, <2>3
<1>6. ASSUME NEW a \in Nat, NEW b \in Nat, n \in a .. b - 1
      PROVE  q \in Scaling(a, e, w) .. ScalingUp(b, e, w) - 1
  <2>1. PICK ae, be \in Nat : ae = a * e /\ be = b * e OBVIOUS
  <2>2. ae <= ne BY <1>4, <1>6, <2>1, ProductsOrdered
  <2>3. ne + e <= be
    <3>1. n + 1 <= b BY <1>6
    <3>2. (n + 1) * e <= b * e BY <3>1, ProductsOrdered
    <3>3. QED BY <1>4, <2>1, <3>2
  <2>4. q \in Nat /\ w * (q + 1) = qw + w /\ w * q = qw BY <1>1
  <2>5. ae \div w \in Nat /\ ae \div w <= q
    <3>1. ae \div w \in Nat /\ (ae \div w <= q <=> ae < w * (q + 1)) BY Quotients
    <3>2. QED BY <1>4, <2>2, <2>4, <3>1
  <2>6. (be + w - 1) \div w \in Nat /\ q < (be + w - 1) \div w
    <3>1. /\ (be + w - 1) \div w \in Nat
          /\ q < (be + w - 1) \div w <=> w * q < be
      BY <2>4, Quotients
    <3>2. QED BY <1>4, <2>3, <2>4, <3>1
  <2>7. QED BY <2>1, <2>5, <2>6 DEF Scaling, ScalingUp
<1>7. QED BY <1>5, <1>6

LEMMA ExtentIsPositive ==
    ASSUME Sources, PreviewSize \in Nat, NEW frames \in Seq(Int \X Int), frames # <<>>,
           NEW axis \in 1 .. 2
    PROVE  PreviewExtent(frames, axis) \in Nat \ {0}
<1>1. PICK w, h, s \in Nat \ {0} :
         w = Size(frames, 1) /\ h = Size(frames, 2) /\ s = Size(frames, axis)
  BY CanvasHolds
<1>2. PICK longest \in Nat \ {0} : longest = Max({w, h})
  <2>1. Max({w, h}) = IF w >= h THEN w ELSE h BY MaxOfTwo
  <2>2. QED BY <2>1
<1>3. PICK m \in Nat : m = Min({PreviewSize, longest})
  <2>1. PICK limit \in Nat : limit = PreviewSize OBVIOUS
  <2>2. Min({limit, longest}) = IF limit <= longest THEN limit ELSE longest BY ONLY MinOfTwo
  <2>3. QED BY <2>1, <2>2
<1>4. PICK n \in Nat : n = s * m OBVIOUS
<1>5. Rounded(n, longest) \in Nat
  <2>1. n \div longest \in Nat BY Division
  <2>2. QED BY <2>1 DEF Rounded
<1>6. PICK r \in Nat : r = Rounded(n, longest) BY <1>5
<1>7. Max({1, r}) \in Nat \ {0}
  <2>1. Max({1, r}) = IF 1 >= r THEN 1 ELSE r BY MaxOfTwo
  <2>2. QED BY <2>1
<1>8. PreviewExtent(frames, axis) = Max({1, r})
  BY <1>1, <1>2, <1>3, <1>4, <1>6 DEF PreviewExtent
<1>9. QED BY <1>7, <1>8

\* The tiles, pasted into the preview, fill it and stay inside; none is lost.
LEMMA PreviewIsFilled ==
    ASSUME Sources, PreviewSize \in Nat, NEW frames \in Seq(Int \X Int), frames # <<>>,
           NEW side \in Nat \ {0}
    PROVE  LET boxes == {PreviewBox(frames, t) : t \in Tiles(frames, side)}
           IN  /\ UNION {Within(b) : b \in boxes}
                     = UpTo(PreviewExtent(frames, 1)) \X UpTo(PreviewExtent(frames, 2))
               /\ {} \notin {Within(b) : b \in boxes}
<1> DEFINE boxes == {PreviewBox(frames, t) : t \in Tiles(frames, side)}
           Starts(m) == {n \in 0 .. m - 1 : n % side = 0}
           End(n, m) == Min({n + side, m})
           Lands(n, m, e) == Scaling(n, e, m) .. ScalingUp(End(n, m), e, m) - 1
<1>1. PICK w, h \in Nat \ {0} : w = Size(frames, 1) /\ h = Size(frames, 2) BY CanvasHolds
<1>2. PICK d, e \in Nat \ {0} : d = PreviewExtent(frames, 1) /\ e = PreviewExtent(frames, 2)
  BY ExtentIsPositive
<1>3. Tiles(frames, side) = {<<x, y, End(x, w), End(y, h)>> : x \in Starts(w), y \in Starts(h)}
  BY <1>1 DEF Tiles, UpTo
<1>4. \A x, y : Within(PreviewBox(frames, <<x, y, End(x, w), End(y, h)>>))
                   = Lands(x, w, d) \X Lands(y, h, e)
  BY <1>1, <1>2 DEF PreviewBox, Within, Scaling, ScalingUp
<1>5. ASSUME NEW m \in Nat \ {0}, NEW x \in Starts(m), NEW c \in Nat \ {0}
      PROVE  Lands(x, m, c) # {} /\ Lands(x, m, c) \subseteq 0 .. c - 1
  <2>1. x \in Nat /\ x < m OBVIOUS
  <2>2. PICK b \in Nat : b = End(x, m) /\ x < b /\ b <= m
    <3>1. End(x, m) = IF x + side <= m THEN x + side ELSE m BY <2>1, MinOfTwo
    <3>2. QED BY <2>1, <3>1
  <2>3. PICK u, v \in Nat : u = Scaling(x, c, m) /\ v = ScalingUp(b, c, m) /\ u < v /\ v <= c
    BY <2>1, <2>2, StretchLands
  <2>4. u .. v - 1 # {} /\ u .. v - 1 \subseteq 0 .. c - 1
    <3>1. u \in u .. v - 1 BY <2>3
    <3>2. \A i \in u .. v - 1 : i \in 0 .. c - 1 BY <2>3
    <3>3. QED BY <3>1, <3>2
  <2>5. QED BY <2>2, <2>3, <2>4
<1>6. ASSUME NEW m \in Nat \ {0}, NEW c \in Nat \ {0}, NEW q \in 0 .. c - 1
      PROVE  \E x \in Starts(m) : q \in Lands(x, m, c)
  <2>1. PICK n \in 0 .. m - 1 :
           \A a, b \in Nat : n \in a .. b - 1 =>
               q \in Scaling(a, c, m) .. ScalingUp(b, c, m) - 1
    BY PreviewIsReached
  <2>2. PICK x \in 0 .. m - 1 : x % side = 0 /\ n \in x .. End(x, m) - 1 BY TileOnAxis
  <2>3. End(x, m) \in Nat
    <3>1. PICK z \in Nat : z = x + side OBVIOUS
    <3>2. Min({z, m}) = IF z <= m THEN z ELSE m BY ONLY MinOfTwo
    <3>3. QED BY <3>1, <3>2
  <2>4. PICK b \in Nat : b = End(x, m) BY <2>3
  <2>5. x \in Starts(m) /\ x \in Nat BY <2>2
  <2>6. q \in Scaling(x, c, m) .. ScalingUp(b, c, m) - 1 BY <2>1, <2>2, <2>4, <2>5
  <2>7. QED BY <2>4, <2>5, <2>6
<1> HIDE DEF Starts, Lands, End
<1>7. PICK pasted : pasted = {Within(b) : b \in boxes} OBVIOUS
<1>8. \A x \in Starts(w), y \in Starts(h) : Lands(x, w, d) \X Lands(y, h, e) \in pasted
  <2>1. TAKE x \in Starts(w), y \in Starts(h)
  <2>2. PICK t : t = <<x, y, End(x, w), End(y, h)>> OBVIOUS
  <2>3. t \in Tiles(frames, side) BY <1>3, <2>2
  <2>4. Within(PreviewBox(frames, t)) = Lands(x, w, d) \X Lands(y, h, e) BY <1>4, <2>2
  <2>5. QED BY <1>7, <2>3, <2>4
<1>9. \A s \in pasted : \E x \in Starts(w), y \in Starts(h) :
         s = Lands(x, w, d) \X Lands(y, h, e)
  <2>1. TAKE s \in pasted
  <2>2. PICK t \in Tiles(frames, side) : s = Within(PreviewBox(frames, t)) BY <1>7
  <2>3. PICK x \in Starts(w), y \in Starts(h) : t = <<x, y, End(x, w), End(y, h)>>
    BY <1>3
  <2>4. QED BY <1>4, <2>2, <2>3
<1>10. ASSUME NEW s \in pasted PROVE s # {} /\ s \subseteq (0 .. d - 1) \X (0 .. e - 1)
  <2>1. PICK x \in Starts(w), y \in Starts(h) : s = Lands(x, w, d) \X Lands(y, h, e) BY <1>9
  <2>2. PICK xs, ys : xs = Lands(x, w, d) /\ ys = Lands(y, h, e) OBVIOUS
  <2>3. xs # {} /\ ys # {} /\ xs \subseteq 0 .. d - 1 /\ ys \subseteq 0 .. e - 1 BY <1>5, <2>2
  <2>4. PICK i \in xs, j \in ys : TRUE BY <2>3
  <2>5. <<i, j>> \in s BY <2>1, <2>2
  <2>6. QED BY <2>1, <2>2, <2>3, <2>5
<1>11. ASSUME NEW q \in (0 .. d - 1) \X (0 .. e - 1) PROVE \E s \in pasted : q \in s
  <2>1. q = <<q[1], q[2]>> /\ q[1] \in 0 .. d - 1 /\ q[2] \in 0 .. e - 1 OBVIOUS
  <2>2. PICK x \in Starts(w) : q[1] \in Lands(x, w, d) BY <1>6, <2>1
  <2>3. PICK y \in Starts(h) : q[2] \in Lands(y, h, e) BY <1>6, <2>1
  <2>4. q \in Lands(x, w, d) \X Lands(y, h, e) BY <2>1, <2>2, <2>3
  <2>5. QED BY <1>8, <2>4
<1>12. UNION pasted = (0 .. d - 1) \X (0 .. e - 1) BY <1>10, <1>11
<1>13. {} \notin pasted BY <1>10
<1>14. QED BY <1>2, <1>7, <1>12, <1>13 DEF UpTo

LEMMA TilesAreNumbers ==
    ASSUME Sources, NEW frames \in Seq(Int \X Int), frames # <<>>, NEW side \in Nat \ {0}
    PROVE  /\ Tiles(frames, side) \subseteq Int \X Int \X Int \X Int
           /\ IsFiniteSet(Tiles(frames, side))
<1> DEFINE Starts(m) == {n \in 0 .. m - 1 : n % side = 0}
           End(n, m) == Min({n + side, m})
<1>1. PICK w, h \in Nat \ {0} : w = Size(frames, 1) /\ h = Size(frames, 2) BY CanvasHolds
<1>2. Tiles(frames, side) = {<<x, y, End(x, w), End(y, h)>> : x \in Starts(w), y \in Starts(h)}
  BY <1>1 DEF Tiles, UpTo
<1>3. ASSUME NEW m \in Nat, NEW x \in Starts(m) PROVE x \in Int /\ End(x, m) \in Int
  <2>1. PICK z \in Nat : z = x + side /\ x \in Nat OBVIOUS
  <2>2. Min({z, m}) = IF z <= m THEN z ELSE m BY ONLY MinOfTwo
  <2>3. QED BY <2>1, <2>2
<1>4. IsFiniteSet(Starts(w)) /\ IsFiniteSet(Starts(h))
  <2>1. IsFiniteSet(0 .. w - 1) /\ IsFiniteSet(0 .. h - 1) BY FS_Interval
  <2>2. Starts(w) \in SUBSET (0 .. w - 1) /\ Starts(h) \in SUBSET (0 .. h - 1) OBVIOUS
  <2> HIDE DEF Starts
  <2>3. QED BY <2>1, <2>2, FS_Subset
<1> HIDE DEF Starts, End
<1>5. PICK pairs : pairs = Starts(w) \X Starts(h) OBVIOUS
<1>6. IsFiniteSet(pairs) BY <1>4, <1>5, FS_Product
<1>7. PICK f : f = [q \in pairs |-> <<q[1], q[2], End(q[1], w), End(q[2], h)>>] OBVIOUS
<1>8. ASSUME NEW t \in Tiles(frames, side)
      PROVE  t \in Int \X Int \X Int \X Int /\ \E q \in pairs : f[q] = t
  <2>1. PICK x \in Starts(w), y \in Starts(h) : t = <<x, y, End(x, w), End(y, h)>>
    BY <1>2
  <2>2. <<x, y>> \in pairs BY <1>5
  <2>3. f[<<x, y>>] = t BY <1>7, <2>1, <2>2
  <2>4. x \in Int /\ y \in Int /\ End(x, w) \in Int /\ End(y, h) \in Int BY <1>3
  <2>5. t \in Int \X Int \X Int \X Int BY <2>1, <2>4
  <2>6. QED BY <2>2, <2>3, <2>5
<1>9. f \in Surjection(pairs, Tiles(frames, side))
  <2>1. ASSUME NEW q \in pairs PROVE f[q] \in Tiles(frames, side)
    <3>1. q = <<q[1], q[2]>> /\ q[1] \in Starts(w) /\ q[2] \in Starts(h) BY <1>5
    <3>2. f[q] = <<q[1], q[2], End(q[1], w), End(q[2], h)>> BY <1>7
    <3>3. QED BY <1>2, <3>1, <3>2
  <2>2. QED BY <1>7, <1>8, <2>1 DEF Surjection
<1>10. QED BY <1>6, <1>8, <1>9, FS_Surjection

\* The tiles of an artifact, as they are rendered.
TilesOf(frames, side, mask) ==
    {Tile(frames, <<Origin(frames, 1), Origin(frames, 2)>>, t, mask) : t \in Tiles(frames, side)}

Unfilled(pixels) == Cardinality({p \in DOMAIN pixels : pixels[p].provenance = "no data"})

MapOf(rendered) ==
    [p \in UNION {DOMAIN t : t \in rendered} |-> (CHOOSE t \in rendered : p \in DOMAIN t)[p]]

UnfilledOf(rendered) == FoldSet(LAMBDA t, sum : sum + Unfilled(t), 0, rendered)

MostOf(rendered) == Max(UNION {{t[p].coverage : p \in DOMAIN t} : t \in rendered})

LEMMA RenderedIs ==
    ASSUME NEW frames, NEW side, NEW mask, NEW rendered, rendered = TilesOf(frames, side, mask)
    PROVE  LET artifact == Rendered(frames, side, mask)
           IN  /\ artifact.map = MapOf(rendered)
               /\ artifact.uncovered = UnfilledOf(rendered)
               /\ artifact.maximum = MostOf(rendered)
<1>1. Rendered(frames, side, mask)
         = [map |-> MapOf(TilesOf(frames, side, mask)),
            uncovered |-> UnfilledOf(TilesOf(frames, side, mask)),
            maximum |-> MostOf(TilesOf(frames, side, mask))]
  BY DEF Rendered, TilesOf, MapOf, UnfilledOf, MostOf, Unfilled, FoldSet, MapThenFoldSet
<1>2. QED BY <1>1

\* A pixel of the artifact is that of the tile it lies in.
LEMMA RenderedMap ==
    ASSUME Sources, NEW frames \in Seq(Int \X Int), frames # <<>>, NEW side \in Nat \ {0},
           NEW mask, NEW origins, origins = <<Origin(frames, 1), Origin(frames, 2)>>
    PROVE  /\ DOMAIN Rendered(frames, side, mask).map = Canvas(frames)
           /\ \A t \in Tiles(frames, side) : \A p \in Within(t) :
                 Rendered(frames, side, mask).map[p] = Tile(frames, origins, t, mask)[p]
<1>1. PICK T : T = Tiles(frames, side) OBVIOUS
<1>2. PICK rendered : rendered = {Tile(frames, origins, t, mask) : t \in T} OBVIOUS
<1>3. \A t : DOMAIN Tile(frames, origins, t, mask) = Within(t) BY DEF Tile
<1>4. /\ \A t \in T : Within(t) \subseteq Canvas(frames)
      /\ \A p \in Canvas(frames) :
            \E t \in T : p \in Within(t) /\ \A u \in T : p \in Within(u) => u = t
  BY <1>1, TilesMakeCanvas DEF TilesPartition
<1>5. PICK map : map = Rendered(frames, side, mask).map OBVIOUS
<1>6. map = [p \in UNION {DOMAIN t : t \in rendered} |->
                (CHOOSE t \in rendered : p \in DOMAIN t)[p]]
  <2>1. rendered = TilesOf(frames, side, mask) BY <1>1, <1>2 DEF TilesOf
  <2>2. QED BY <1>5, <2>1, RenderedIs DEF MapOf
<1>7. UNION {DOMAIN t : t \in rendered} = Canvas(frames)
  <2>1. \A r \in rendered : \E t \in T : r = Tile(frames, origins, t, mask) BY <1>2
  <2>2. \A r \in rendered : DOMAIN r \subseteq Canvas(frames) BY <1>3, <1>4, <2>1
  <2>3. ASSUME NEW p \in Canvas(frames) PROVE \E r \in rendered : p \in DOMAIN r
    <3>1. PICK t \in T : p \in Within(t) BY <1>4
    <3>2. Tile(frames, origins, t, mask) \in rendered BY <1>2
    <3>3. QED BY <1>3, <3>1, <3>2
  <2>4. QED BY <2>2, <2>3
<1>8. ASSUME NEW t \in T, NEW p \in Within(t)
      PROVE  map[p] = Tile(frames, origins, t, mask)[p]
  <2>1. p \in Canvas(frames) BY <1>4
  <2>2. PICK r : r = Tile(frames, origins, t, mask) OBVIOUS
  <2>3. r \in rendered /\ p \in DOMAIN r BY <1>2, <1>3, <2>2
  <2>4. ASSUME NEW s \in rendered, p \in DOMAIN s PROVE s = r
    <3>1. PICK u \in T : s = Tile(frames, origins, u, mask) BY <1>2
    <3>2. p \in Within(u) BY <1>3, <2>4, <3>1
    <3>3. u = t BY <1>4, <2>1, <3>2
    <3>4. QED BY <2>2, <3>1, <3>3
  <2>5. (CHOOSE s \in rendered : p \in DOMAIN s) = r BY <2>3, <2>4
  <2>6. QED BY <1>6, <1>7, <2>1, <2>2, <2>5
<1>9. QED BY <1>1, <1>5, <1>6, <1>7, <1>8

\* The pixels without data, counted tile by tile, are those of the canvas.
LEMMA UnfilledAddUp ==
    ASSUME NEW rendered, IsFiniteSet(rendered),
           \A t \in rendered : IsFiniteSet(DOMAIN t),
           \A t, u \in rendered : t # u => DOMAIN t \cap DOMAIN u = {}
    PROVE  UnfilledOf(rendered)
              = Cardinality(UNION {{p \in DOMAIN t : t[p].provenance = "no data"} : t \in rendered})
<1> DEFINE Folded(it) ==
               it = [t \in SUBSET rendered |->
                        IF t = {} THEN 0
                        ELSE it[t \ {CHOOSE x \in t : TRUE}] + Unfilled(CHOOSE x \in t : TRUE)]
           it == CHOOSE it : Folded(it)
           Empty(t) == {p \in DOMAIN t : t[p].provenance = "no data"}
<1>1. UnfilledOf(rendered) = it[rendered] BY DEF UnfilledOf, FoldSet, MapThenFoldSet
<1>2. PICK f : f = [t \in rendered |-> Unfilled(t)] OBVIOUS
<1>3. PICK U : U = [t \in rendered |-> Empty(t)] OBVIOUS
<1>4. /\ \A t \in rendered : U[t] = Empty(t) /\ U[t] \in SUBSET DOMAIN t
      /\ \A t \in rendered : f[t] = Cardinality(U[t])
  BY <1>2, <1>3 DEF Unfilled
<1>5. \A t \in rendered : IsFiniteSet(U[t]) BY <1>4, FS_Subset
<1>6. \A t, u \in rendered : t # u => U[t] \cap U[u] = {} BY <1>4
<1>7. f \in [rendered -> Nat]
  <2>1. ASSUME NEW t \in rendered PROVE f[t] \in Nat
    <3>1. IsFiniteSet(U[t]) BY <1>5
    <3>2. Cardinality(U[t]) \in Nat BY ONLY <3>1, FS_CardinalityType
    <3>3. QED BY <1>4, <3>2
  <2>2. f = [t \in rendered |-> f[t]] BY <1>2
  <2>3. QED BY <2>1, <2>2
<1>8. \A s : Folded(s) <=> SumsUp(s, rendered, f)
  <2>1. ASSUME NEW t \in SUBSET rendered, t # {}
        PROVE  Unfilled(CHOOSE x \in t : TRUE) = f[CHOOSE x \in t : TRUE]
    <3>1. PICK c \in t : c = CHOOSE x \in t : TRUE BY <2>1
    <3>2. QED BY <1>2, <3>1
  <2>2. QED BY <2>1 DEF SumsUp
<1>9. SumsUp(it, rendered, f)
  <2>1. \E s : SumsUp(s, rendered, f) BY <1>7, SumExists
  <2> HIDE DEF Folded
  <2>2. Folded(it) BY <1>8, <2>1
  <2> HIDE DEF it
  <2>3. QED BY <1>8, <2>2
<1> HIDE DEF it, Folded
<1>10. it[rendered] = Cardinality(UNION {U[t] : t \in rendered})
  <2>1. \A t \in rendered : f[t] = Cardinality(U[t]) BY <1>4
  <2>2. QED BY ONLY <1>5, <1>6, <1>9, <2>1, IsFiniteSet(rendered), SumOfParts
<1>11. {U[t] : t \in rendered} = {Empty(t) : t \in rendered}
  <2> HIDE DEF Empty
  <2>1. QED BY <1>4
<1>12. QED BY <1>1, <1>10, <1>11

\* The renderer (reconstruction/rendering.py): however many tiles a canvas is
\* rendered in, its artifact is the same. What the frames show is counted once
\* and has a weight to be divided by, the two numbers of the report are those
\* of the maps, and the tiles fill the preview.
THEOREM CanvasIsOne ==
    ASSUME Sources, PreviewSize \in Nat, NEW frames \in Seq(Int \X Int), frames # <<>>,
           Len(frames) <= 255, NEW side \in Nat \ {0}, NEW mask
    PROVE  OneCanvas(frames, side, mask)
<1>1. PICK origins \in Int \X Int : origins = <<Origin(frames, 1), Origin(frames, 2)>>
  <2>1. Origin(frames, 1) \in Int /\ Origin(frames, 2) \in Int BY CanvasHolds
  <2>2. QED BY <2>1
<1>2. PICK T : T = Tiles(frames, side) OBVIOUS
<1>3. T \subseteq Int \X Int \X Int \X Int /\ IsFiniteSet(T) BY <1>2, TilesAreNumbers
<1>4. \A i \in DOMAIN frames : frames[i] \in Int \X Int BY ElementOfSeq, LenProperties
<1>5. \A t \in T : TileExact(frames, origins, t, mask) BY <1>3, <1>4, TilesLoseNothing
<1>6. /\ \A t \in T : Within(t) \subseteq Canvas(frames)
      /\ \A p \in Canvas(frames) :
            \E t \in T : p \in Within(t) /\ \A u \in T : p \in Within(u) => u = t
  BY <1>2, TilesMakeCanvas DEF TilesPartition
<1>7. PICK artifact : artifact = Rendered(frames, side, mask) OBVIOUS
<1>8. PICK rendered : rendered = TilesOf(frames, side, mask) OBVIOUS
<1>9. /\ \A t \in T : Tile(frames, origins, t, mask) \in rendered
      /\ \A r \in rendered : \E t \in T : r = Tile(frames, origins, t, mask)
  BY <1>1, <1>2, <1>8 DEF TilesOf
<1>10. \A t : DOMAIN Tile(frames, origins, t, mask) = Within(t) BY DEF Tile
<1>11. /\ DOMAIN artifact.map = Canvas(frames)
       /\ \A t \in T : \A p \in Within(t) :
             artifact.map[p] = Tile(frames, origins, t, mask)[p]
  BY <1>1, <1>2, <1>7, RenderedMap
<1>12. ASSUME NEW p \in Canvas(frames)
       PROVE  LET shown == Showing(frames, origins, p)
              IN  /\ p \in Int \X Int
                  /\ IsFiniteSet(shown) /\ Cardinality(shown) \in 0 .. 255
                  /\ \A i \in shown : frames[i] \in Int \X Int /\ Valid(frames[i], origins, p)
  <2>1. PICK shown : shown = Showing(frames, origins, p) OBVIOUS
  <2>2. PICK n \in 0 .. 255 : n = Len(frames) /\ DOMAIN frames = 1 .. n
    <3>1. Len(frames) \in Nat /\ DOMAIN frames = 1 .. Len(frames) BY LenProperties
    <3>2. PICK n \in Nat : n = Len(frames) BY <3>1
    <3>3. n <= 255 BY <3>2
    <3>4. n \in 0 .. 255 BY ONLY <3>3, n \in Nat
    <3>5. DOMAIN frames = 1 .. n BY <3>1, <3>2
    <3>6. QED BY <3>2, <3>4, <3>5
  <2>3. shown \in SUBSET (1 .. n) BY <2>1, <2>2 DEF Showing
  <2>4. IsFiniteSet(1 .. n) /\ Cardinality(1 .. n) = n
    <3>1. PICK one \in Int : one = 1 OBVIOUS
    <3>2. n \in Int OBVIOUS
    <3>3. /\ IsFiniteSet(one .. n)
          /\ Cardinality(one .. n) = IF one > n THEN 0 ELSE n - one + 1
      BY ONLY <3>2, FS_Interval
    <3>4. QED BY <3>1, <3>3
  <2>5. IsFiniteSet(shown) /\ Cardinality(shown) <= n /\ Cardinality(shown) \in Nat
    <3>1. PICK all : all = 1 .. n OBVIOUS
    <3>2. IsFiniteSet(all) /\ Cardinality(all) = n /\ shown \in SUBSET all BY <2>3, <2>4, <3>1
    <3>3. IsFiniteSet(shown) /\ Cardinality(shown) <= Cardinality(all) BY ONLY <3>2, FS_Subset
    <3>4. QED BY <3>2, <3>3, FS_CardinalityType
  <2>6. p \in Int \X Int
    <3>1. PICK w, h \in Nat : w = Size(frames, 1) /\ h = Size(frames, 2) BY CanvasHolds
    <3>2. p \in (0 .. w - 1) \X (0 .. h - 1) BY <3>1 DEF Canvas, UpTo
    <3>3. 0 .. w - 1 \subseteq Int /\ 0 .. h - 1 \subseteq Int OBVIOUS
    <3>4. PICK x \in 0 .. w - 1, y \in 0 .. h - 1 : p = <<x, y>> BY <3>2
    <3>5. x \in Int /\ y \in Int BY <3>3
    <3>6. <<x, y>> \in Int \X Int BY ONLY <3>5
    <3>7. QED BY ONLY <3>4, <3>6
  <2>7. Cardinality(shown) \in 0 .. 255
    <3>1. PICK c \in Nat : c = Cardinality(shown) BY <2>5
    <3>2. c <= n BY <2>5, <3>1
    <3>3. c \in 0 .. 255 BY ONLY <3>2, n \in 0 .. 255, c \in Nat
    <3>4. QED BY <3>1, <3>3
  <2>8. \A i \in shown : frames[i] \in Int \X Int /\ Valid(frames[i], origins, p)
    BY <1>4, <2>1 DEF Showing
  <2>9. QED BY <2>1, <2>5, <2>6, <2>7, <2>8
<1>13. ASSUME NEW t \in T, NEW p \in Within(t)
       PROVE  LET shown == Showing(frames, origins, p)
                  pixel == Tile(frames, origins, t, mask)[p]
              IN  /\ pixel.coverage = Cardinality(shown)
                  /\ pixel.weight > 0 <=> shown # {}
                  /\ pixel.provenance = "no data" <=> shown = {} /\ p \notin mask
  <2>1. PICK shown, pixel :
           shown = Showing(frames, origins, p) /\ pixel = Tile(frames, origins, t, mask)[p]
    OBVIOUS
  <2>2. /\ p \in Int \X Int /\ IsFiniteSet(shown) /\ Cardinality(shown) \in 0 .. 255
        /\ \A i \in shown : frames[i] \in Int \X Int /\ Valid(frames[i], origins, p)
    BY <1>6, <1>12, <2>1
  <2>3. /\ pixel.coverage = Min({Cardinality(shown), 255})
        /\ pixel.weight = SummedWeight(frames, origins, p, shown)
        /\ pixel.provenance = "acquired" <=> shown # {}
        /\ pixel.provenance = "reference fill" <=> shown = {} /\ p \in mask
    <3>1. TileExact(frames, origins, t, mask) BY <1>5
    <3>2. QED BY <2>1, <3>1 DEF TileExact
  <2>4. pixel.provenance \in {"acquired", "reference fill", "no data"} BY <2>1 DEF Tile
  <2>5. PICK n \in 0 .. 255 : n = Cardinality(shown) BY <2>2
  <2>6. Min({n, 255}) = n
    <3>1. PICK m \in Nat : m = 255 OBVIOUS
    <3>2. n \in Nat /\ n <= m BY <3>1
    <3>3. Min({n, m}) = IF n <= m THEN n ELSE m BY ONLY <3>2, MinOfTwo
    <3>4. QED BY <3>1, <3>2, <3>3
  <2>7. SummedWeight(frames, origins, p, shown) > 0 <=> shown # {} BY <2>2, WeightsAddUp
  <2>8. QED BY <2>1, <2>3, <2>4, <2>5, <2>6, <2>7
<1>14. ASSUME NEW p \in Canvas(frames)
       PROVE  LET shown == Showing(frames, origins, p)
              IN  /\ artifact.map[p].coverage = Cardinality(shown)
                  /\ artifact.map[p].weight > 0 <=> shown # {}
  <2>1. PICK t \in T : p \in Within(t) BY <1>6
  <2>2. QED BY <1>11, <1>13, <2>1
<1>15. IsFiniteSet(Canvas(frames))
  <2>1. PICK w, h \in Nat : w = Size(frames, 1) /\ h = Size(frames, 2) BY CanvasHolds
  <2>2. IsFiniteSet(0 .. w - 1) /\ IsFiniteSet(0 .. h - 1) BY ONLY FS_Interval
  <2>3. QED BY <2>1, <2>2, FS_Product DEF Canvas, UpTo
<1>16. artifact.uncovered
          = Cardinality({p \in Canvas(frames) : Showing(frames, origins, p) = {} /\ p \notin mask})
  <2> DEFINE Empty(r) == {p \in DOMAIN r : r[p].provenance = "no data"}
             empty == {p \in Canvas(frames) : Showing(frames, origins, p) = {} /\ p \notin mask}
  <2>1. IsFiniteSet(rendered)
    <3>1. PICK f : f = [t \in T |-> Tile(frames, origins, t, mask)] OBVIOUS
    <3>2. f \in Surjection(T, rendered) BY <1>9, <3>1 DEF Surjection
    <3>3. QED BY <1>3, <3>2, FS_Surjection
  <2>2. ASSUME NEW r \in rendered
        PROVE  DOMAIN r \subseteq Canvas(frames) /\ IsFiniteSet(DOMAIN r)
    <3>1. PICK t \in T : r = Tile(frames, origins, t, mask) BY <1>9
    <3>2. DOMAIN r \in SUBSET Canvas(frames) BY <1>6, <1>10, <3>1
    <3>3. QED BY <1>15, <3>2, FS_Subset
  <2>3. ASSUME NEW r \in rendered, NEW s \in rendered, r # s
        PROVE  DOMAIN r \cap DOMAIN s = {}
    <3>1. PICK t \in T : r = Tile(frames, origins, t, mask) BY <1>9
    <3>2. PICK u \in T : s = Tile(frames, origins, u, mask) BY <1>9
    <3>3. t # u BY <2>3, <3>1, <3>2
    <3>4. SUFFICES ASSUME NEW p, p \in Within(t), p \in Within(u) PROVE FALSE
      BY <1>10, <3>1, <3>2
    <3>5. p \in Canvas(frames) BY <1>6, <3>4
    <3>6. QED BY <1>6, <3>3, <3>4, <3>5
  <2>4. artifact.uncovered = UnfilledOf(rendered) BY <1>7, <1>8, RenderedIs
  <2>5. UnfilledOf(rendered) = Cardinality(UNION {Empty(r) : r \in rendered})
    BY <2>1, <2>2, <2>3, UnfilledAddUp
  <2>6. UNION {Empty(r) : r \in rendered} = empty
    <3>1. ASSUME NEW r \in rendered, NEW p \in Empty(r) PROVE p \in empty
      <4>1. PICK t \in T : r = Tile(frames, origins, t, mask) BY <1>9
      <4>2. p \in Within(t) /\ r[p].provenance = "no data" BY <1>10, <4>1
      <4>3. QED BY <1>6, <1>13, <4>1, <4>2
    <3>2. ASSUME NEW p \in empty PROVE \E r \in rendered : p \in Empty(r)
      <4>1. PICK t \in T : p \in Within(t) BY <1>6
      <4>2. PICK r \in rendered : r = Tile(frames, origins, t, mask) BY <1>9
      <4>3. p \in DOMAIN r /\ r[p].provenance = "no data" BY <1>10, <1>13, <4>1, <4>2
      <4>4. QED BY <4>3
    <3> HIDE DEF Empty, empty
    <3>3. QED BY <3>1, <3>2
  <2>7. QED BY <2>4, <2>5, <2>6
<1>17. artifact.maximum = Max({Cardinality(Showing(frames, origins, p)) : p \in Canvas(frames)})
  <2> DEFINE most == {Cardinality(Showing(frames, origins, p)) : p \in Canvas(frames)}
             Counts(r) == {r[p].coverage : p \in DOMAIN r}
  <2>1. ASSUME NEW r \in rendered, NEW c \in Counts(r) PROVE c \in most
    <3>1. PICK t \in T : r = Tile(frames, origins, t, mask) BY <1>9
    <3>2. PICK p \in Within(t) : c = r[p].coverage BY <1>10, <3>1
    <3>3. c = Cardinality(Showing(frames, origins, p)) BY <1>13, <3>1, <3>2
    <3>4. QED BY <1>6, <3>3
  <2>2. ASSUME NEW c \in most PROVE \E r \in rendered : c \in Counts(r)
    <3>1. PICK p \in Canvas(frames) : c = Cardinality(Showing(frames, origins, p)) OBVIOUS
    <3>2. PICK t \in T : p \in Within(t) BY <1>6
    <3>3. PICK r \in rendered : r = Tile(frames, origins, t, mask) BY <1>9
    <3>4. p \in DOMAIN r /\ r[p].coverage = c BY <1>10, <1>13, <3>1, <3>2, <3>3
    <3>5. QED BY <3>4
  <2>3. artifact.maximum = MostOf(rendered) BY <1>7, <1>8, RenderedIs
  <2>4. MostOf(rendered) = Max(UNION {Counts(r) : r \in rendered}) BY DEF MostOf
  <2>5. UNION {Counts(r) : r \in rendered} = most
    <3> HIDE DEF Counts, most
    <3>1. QED BY <2>1, <2>2
  <2>6. QED BY <2>3, <2>4, <2>5
<1>18. FramesFit(frames) /\ TilesPartition(frames, side) BY FramesAreWhole, TilesMakeCanvas
<1>19. LET boxes == {PreviewBox(frames, t) : t \in T}
       IN  /\ UNION {Within(b) : b \in boxes}
                 = UpTo(PreviewExtent(frames, 1)) \X UpTo(PreviewExtent(frames, 2))
           /\ {} \notin {Within(b) : b \in boxes}
  BY <1>2, PreviewIsFilled
<1>20. QED
  BY <1>1, <1>2, <1>5, <1>7, <1>11, <1>14, <1>16, <1>17, <1>18, <1>19 DEF OneCanvas

-----------------------------------------------------------------------------
(* The center that the joins agree on.                                     *)

\* What most of the values are between, the median is between.
LEMMA MedianIs ==
    ASSUME NEW values \in Seq(Int), NEW lo \in Int, NEW hi \in Int,
           NEW near \in SUBSET DOMAIN values, \A i \in near : values[i] \in lo .. hi,
           2 * Cardinality(near) > Len(values)
    PROVE  Median(values) \in lo .. hi
<1>1. PICK n \in Nat : n = Len(values) /\ DOMAIN values = 1 .. n BY LenProperties
<1>2. \A i \in 1 .. n : values[i] \in Int BY <1>1, ElementOfSeq
<1>3. PICK key : key = [i \in DOMAIN values |-> <<values[i]>>] OBVIOUS
<1>4. Keyed(key, DOMAIN values, 1) BY <1>1, <1>2, <1>3 DEF Keyed
<1>5. PICK sorted : sorted = Sorted(values, key) OBVIOUS
<1>6. PICK order : Len(sorted) = n /\ ArrangesBy(order, sorted, values, key)
  <2>1. /\ Len(Sorted(values, key)) = Len(values)
        /\ \E order : ArrangesBy(order, Sorted(values, key), values, key)
    BY <1>4, SortedIs
  <2>2. QED BY <1>1, <1>5, <2>1
<1>7. /\ order \in [1 .. n -> 1 .. n]
      /\ \A k \in 1 .. n : sorted[k] = values[order[k]]
      /\ \A k, l \in 1 .. n : k < l => order[k] # order[l] /\ Earlier(key, order[k], order[l])
      /\ \A i \in 1 .. n : \E k \in 1 .. n : order[k] = i
  BY <1>1, <1>6 DEF ArrangesBy, Arranges
<1>8. \A k \in 1 .. n : sorted[k] \in Int BY <1>2, <1>7
<1>9. ASSUME NEW k \in 1 .. n, NEW l \in 1 .. n, k <= l PROVE sorted[k] <= sorted[l]
  <2>1. CASE k = l BY <1>8, <2>1
  <2>2. CASE k < l
    <3>1. PICK i \in 1 .. n, j \in 1 .. n : i = order[k] /\ j = order[l] BY <1>7
    <3>2. Earlier(key, i, j) BY <1>7, <2>2, <3>1
    <3>3. key[i] = <<values[i]>> /\ key[j] = <<values[j]>> BY <1>1, <1>3
    <3>4. PICK x \in Int, y \in Int : x = values[i] /\ y = values[j] BY <1>2
    <3>5. Before(<<x>>, <<y>>) \/ <<x>> = <<y>> BY <3>2, <3>3, <3>4 DEF Earlier
    <3>6. Before(<<x>>, <<y>>) => x < y BY DEF Before
    <3>7. <<x>> = <<y>> => x = y OBVIOUS
    <3>8. x <= y BY <3>4, <3>5, <3>6, <3>7
    <3>9. QED BY <1>7, <3>1, <3>4, <3>8
  <2>3. QED BY <1>9, <2>1, <2>2
<1>10. PICK places : places = {k \in 1 .. n : order[k] \in near} OBVIOUS
<1>11. PICK c \in Nat, d \in Nat :
          c = Cardinality(near) /\ d = Cardinality(places) /\ c <= d /\ 2 * c > n
  <2>1. IsFiniteSet(1 .. n) BY FS_Interval
  <2>2. places \in SUBSET (1 .. n) BY <1>10
  <2>3. IsFiniteSet(places) BY <2>1, <2>2, FS_Subset
  <2>4. PICK f : f = [k \in places |-> order[k]] OBVIOUS
  <2>5. f \in Surjection(places, near)
    <3>1. \A i \in near : \E k \in places : f[k] = i BY <1>1, <1>7, <1>10, <2>4
    <3>2. f \in [places -> near] BY <1>10, <2>4
    <3>3. QED BY <3>1, <3>2 DEF Surjection
  <2>6. IsFiniteSet(near) /\ Cardinality(near) <= Cardinality(places)
    BY <2>3, <2>5, FS_Surjection
  <2>7. Cardinality(near) \in Nat /\ Cardinality(places) \in Nat
    BY <2>3, <2>6, FS_CardinalityType
  <2>8. QED BY <1>1, <2>6, <2>7
<1>12. n >= 1
  <2>1. IsFiniteSet(1 .. n) /\ Cardinality(1 .. n) = n BY FS_Interval
  <2>2. c <= n BY <1>1, <1>11, <2>1, FS_Subset
  <2>3. QED BY <1>11, <2>2
<1>13. PICK low \in 1 .. n, high \in 1 .. n :
          /\ low = (n + 1) \div 2 /\ high = (n + 2) \div 2
          /\ low <= high /\ 2 * low >= n /\ 2 * (high - 1) <= n
  BY <1>12
<1>14. ASSUME NEW first \in 1 .. n, NEW last \in 0 .. n, places \subseteq first .. last,
              first <= last + 1
       PROVE  c <= (last - first) + 1
  <2>1. PICK all : all = first .. last OBVIOUS
  <2>2. IsFiniteSet(all) /\ Cardinality(all) = (last - first) + 1
    <3>1. first \in Int /\ last \in Int OBVIOUS
    <3>2. /\ IsFiniteSet(first .. last)
          /\ Cardinality(first .. last) = IF first > last THEN 0 ELSE last - first + 1
      BY ONLY <3>1, FS_Interval
    <3>3. QED BY <1>14, <2>1, <3>1, <3>2
  <2>3. places \in SUBSET all BY <1>14, <2>1
  <2>4. Cardinality(places) <= Cardinality(all) BY <2>2, <2>3, FS_Subset
  <2>5. QED BY <1>11, <2>2, <2>4
<1>15. \A k \in places : sorted[k] \in lo .. hi BY <1>7, <1>10
<1>16. sorted[low] >= lo
  <2>1. SUFFICES ASSUME sorted[low] < lo PROVE FALSE BY <1>8
  <2>2. \A k \in places : k > low
    <3>1. SUFFICES ASSUME NEW k \in places, k <= low PROVE FALSE BY <1>10
    <3>2. k \in 1 .. n /\ sorted[k] <= sorted[low] BY <1>9, <1>10, <3>1
    <3>3. QED BY <1>8, <1>15, <2>1, <3>2
  <2>3. CASE low = n
    <3>1. places = {} BY <1>10, <2>2, <2>3
    <3>2. d = 0 BY <1>11, <3>1, FS_EmptySet
    <3>3. QED BY <1>11, <3>2
  <2>4. CASE low < n
    <3>1. PICK first \in 1 .. n, last \in 0 .. n : first = low + 1 /\ last = n BY <2>4
    <3>2. places \subseteq first .. last BY <1>10, <2>2, <3>1
    <3>3. first <= last + 1 BY <3>1
    <3>4. c <= (last - first) + 1 BY <1>14, <3>2, <3>3
    <3>5. QED BY <1>11, <1>13, <3>1, <3>4
  <2>5. QED BY <2>3, <2>4
<1>17. sorted[high] <= hi
  <2>1. SUFFICES ASSUME sorted[high] > hi PROVE FALSE BY <1>8
  <2>2. \A k \in places : k < high
    <3>1. SUFFICES ASSUME NEW k \in places, k >= high PROVE FALSE BY <1>10
    <3>2. k \in 1 .. n /\ sorted[high] <= sorted[k] BY <1>9, <1>10, <3>1
    <3>3. QED BY <1>8, <1>15, <2>1, <3>2
  <2>3. PICK first \in 1 .. n, last \in 0 .. n : first = 1 /\ last = high - 1 BY <1>12
  <2>4. places \subseteq first .. last BY <1>10, <2>2, <2>3
  <2>5. first <= last + 1 BY <2>3
  <2>6. c <= (last - first) + 1 BY <1>14, <2>4, <2>5
  <2>7. QED BY <1>11, <1>13, <2>3, <2>6
<1>18. sorted[low] <= sorted[high] BY <1>9, <1>13
<1>19. Median(values) = (sorted[low] + sorted[high]) \div 2
  BY <1>1, <1>3, <1>5, <1>13 DEF Median
<1>20. PICK x \in Int, y \in Int : x = sorted[low] /\ y = sorted[high] BY <1>8
<1>21. (x + y) \div 2 \in lo .. hi BY <1>16, <1>17, <1>18, <1>20
<1>22. QED BY <1>19, <1>20, <1>21

LEMMA MedianIsNumber ==
    ASSUME NEW values \in Seq(Int), values # <<>>
    PROVE  Median(values) \in Int
<1>1. PICK n \in Nat \ {0} : n = Len(values) /\ DOMAIN values = 1 .. n
  BY LenProperties, EmptySeq
<1>2. values \in [1 .. n -> Int] BY <1>1, LenProperties
<1>3. PICK lo \in Int, hi \in Int : \A i \in 1 .. n : values[i] \in lo .. hi
  <2>1. PICK V : V = {values[i] : i \in 1 .. n} OBVIOUS
  <2>2. Min(V) \in Int /\ Max(V) \in Int /\ \A i \in 1 .. n : Min(V) <= values[i] /\ values[i] <= Max(V)
    BY <1>2, <2>1, MinMax
  <2>3. PICK lo \in Int, hi \in Int : lo = Min(V) /\ hi = Max(V) BY <2>2
  <2>4. ASSUME NEW i \in 1 .. n PROVE values[i] \in lo .. hi
    <3>1. PICK x \in Int : x = values[i] BY <1>2
    <3>2. lo <= x /\ x <= hi BY <2>2, <2>3, <3>1
    <3>3. QED BY <3>1, <3>2
  <2>5. QED BY <2>4
<1>4. PICK near : near = DOMAIN values OBVIOUS
<1>5. Cardinality(near) = n
  <2>1. Cardinality(1 .. n) = n BY FS_Interval
  <2>2. QED BY <1>1, <1>4, <2>1
<1>6. 2 * Cardinality(near) > Len(values) BY <1>1, <1>5
<1>7. Median(values) \in lo .. hi BY <1>1, <1>3, <1>4, <1>6, MedianIs
<1>8. QED BY <1>7

\* Of a list without repetitions, the members at some places, without any.
LEMMA SelectedOnce ==
    ASSUME NEW S, NEW list \in Seq(S), IsInjective(list), NEW places \in SUBSET DOMAIN list
    PROVE  LET selected == Selected(list, places)
           IN  /\ selected \in Seq(S) /\ IsInjective(selected)
               /\ ToSet(selected) = {list[i] : i \in places}
<1>1. PICK selected \in Seq(S) : selected = Selected(list, places) BY SelectedIs
<1>2. ToSet(selected) = {list[i] : i \in places} BY <1>1, SelectedIs
<1>3. PICK order : Arranges(order, selected, list, places) BY <1>1, SelectedIs
<1>4. PICK n \in Nat : n = Len(selected) /\ DOMAIN selected = 1 .. n BY LenProperties
<1>5. /\ order \in [1 .. n -> places]
      /\ \A k \in 1 .. n : selected[k] = list[order[k]]
      /\ \A k, l \in 1 .. n : k < l => order[k] # order[l]
  BY <1>3, <1>4 DEF Arranges
<1>6. ASSUME NEW k \in 1 .. n, NEW l \in 1 .. n, selected[k] = selected[l] PROVE k = l
  <2>1. order[k] \in DOMAIN list /\ order[l] \in DOMAIN list BY <1>5
  <2>2. order[k] = order[l] BY <1>5, <1>6, <2>1 DEF IsInjective
  <2>3. ~(k < l) /\ ~(l < k) BY <1>5, <2>2
  <2>4. QED BY <2>3
<1>7. IsInjective(selected) BY <1>4, <1>6 DEF IsInjective
<1>8. QED BY <1>1, <1>2, <1>7

\* What the centers of most members are between, their median is between.
LEMMA CenterOf ==
    ASSUME NEW S, NEW list \in Seq(S), \A a \in ToSet(list) : a.center \in Int,
           NEW lo \in Int, NEW hi \in Int, NEW near \in SUBSET ToSet(list),
           \A a \in near : a.center \in lo .. hi, 2 * Cardinality(near) > Len(list)
    PROVE  Median([i \in DOMAIN list |-> list[i].center]) \in lo .. hi
<1>1. PICK n \in Nat : n = Len(list) /\ DOMAIN list = 1 .. n BY LenProperties
<1>2. PICK values : values = [i \in DOMAIN list |-> list[i].center] OBVIOUS
<1>3. \A i \in 1 .. n : list[i] \in ToSet(list) BY <1>1 DEF ToSet
<1>4. values \in Seq(Int) /\ Len(values) = n /\ DOMAIN values = 1 .. n
  <2>1. \A i \in 1 .. n : list[i].center \in Int BY <1>3
  <2>2. values \in [1 .. n -> Int] BY <1>1, <1>2, <2>1
  <2>3. QED BY <2>2, SeqDef, LenProperties
<1>5. PICK places : places = {i \in 1 .. n : list[i] \in near} OBVIOUS
<1>6. places \in SUBSET DOMAIN values /\ \A i \in places : values[i] \in lo .. hi
  BY <1>1, <1>2, <1>4, <1>5
<1>7. IsFiniteSet(places)
  <2>1. IsFiniteSet(1 .. n) BY FS_Interval
  <2>2. QED BY <1>5, <2>1, FS_Subset
<1>8. Cardinality(near) <= Cardinality(places) /\ Cardinality(near) \in Nat
  <2>1. PICK f : f = [i \in places |-> list[i]] OBVIOUS
  <2>2. \A a \in near : \E i \in places : f[i] = a BY <1>1, <1>5, <2>1 DEF ToSet
  <2>3. f \in Surjection(places, near) BY <1>5, <2>1, <2>2 DEF Surjection
  <2>4. QED BY <1>7, <2>3, FS_Surjection, FS_CardinalityType
<1>9. 2 * Cardinality(places) > Len(values)
  <2>1. Cardinality(places) \in Nat BY <1>7, FS_CardinalityType
  <2>2. QED BY <1>1, <1>4, <1>8, <2>1
<1>10. QED BY <1>2, <1>4, <1>6, <1>9, MedianIs

\* The limit of a distance is between the two that are configured.
LEMMA LimitIs ==
    ASSUME Tolerance \in Nat, MaximumDeviation \in Nat, Tolerance <= MaximumDeviation,
           NEW distances \in Seq(Int), distances # <<>>
    PROVE  Limit(distances) \in Tolerance .. MaximumDeviation
<1>1. PICK m \in Int : m = Median(distances) BY MedianIsNumber
<1>2. PICK t \in Int, d \in Int, x \in Int : t = Tolerance /\ d = MaximumDeviation /\ x = 3 * m
  OBVIOUS
<1>3. PICK y \in Int : y = Max({t, x}) /\ y >= t
  <2>1. Max({t, x}) = IF t >= x THEN t ELSE x BY ONLY MaxOfTwo, t \in Int, x \in Int
  <2>2. QED BY <2>1
<1>4. Min({d, y}) = IF d <= y THEN d ELSE y BY ONLY MinOfTwo, d \in Int, y \in Int
<1>5. Limit(distances) = Min({d, y}) BY <1>1, <1>2, <1>3 DEF Limit
<1>6. QED BY <1>2, <1>3, <1>4, <1>5

\* The steps of a calibration, from the attempts that are candidates.
Calibrates(attempts, candidates, middle, limit, retained, center) ==
    /\ middle = Median([i \in DOMAIN candidates |-> candidates[i].center])
    /\ limit = Limit([i \in DOMAIN candidates |-> Absolute(candidates[i].center - middle)])
    /\ retained = Selected(candidates,
          {i \in DOMAIN candidates : Absolute(candidates[i].center - middle) <= limit})
    /\ center = Median([i \in DOMAIN retained |-> retained[i].center])
    /\ Calibrated(attempts)
           = IF Len(attempts) # Attempts \/ Len(candidates) < MinimumAccepted THEN Failure
             ELSE IF Len(retained) < MinimumAccepted THEN Failure
             ELSE [failed |-> FALSE, center |-> center, accepted |-> ToSet(retained),
                   spread |-> Max({Absolute(a.center - center) : a \in ToSet(retained)})]

LEMMA CalibratedIs ==
    ASSUME NEW attempts, NEW candidates,
           candidates = Selected(attempts, {i \in DOMAIN attempts : Candidate(attempts[i])})
    PROVE  \E middle, limit, retained, center :
              Calibrates(attempts, candidates, middle, limit, retained, center)
<1> DEFINE found == Selected(attempts, {i \in DOMAIN attempts : Candidate(attempts[i])})
           middle == Median([i \in DOMAIN found |-> found[i].center])
           limit == Limit([i \in DOMAIN found |-> Absolute(found[i].center - middle)])
           retained == Selected(found,
                          {i \in DOMAIN found : Absolute(found[i].center - middle) <= limit})
           center == Median([i \in DOMAIN retained |-> retained[i].center])
<1>1. Calibrates(attempts, found, middle, limit, retained, center)
  BY DEF Calibrates, Calibrated
<1>2. candidates = found OBVIOUS
<1> HIDE DEF found, middle, limit, retained, center
<1>3. QED BY <1>1, <1>2

\* The disc center (reconstruction/calibration.py): when most of the attempts
\* that were measured are within the tolerance of each other, all of those are
\* accepted and the center is among them, however far off the others are; and
\* what was not measured is never accepted.
THEOREM CentersAgree ==
    ASSUME Tolerance \in Nat, MaximumDeviation \in Nat, Tolerance <= MaximumDeviation,
           MinimumAccepted \in Nat \ {0},
           NEW S, NEW attempts \in Seq(S), IsInjective(attempts),
           \A a \in ToSet(attempts) : Candidate(a) => a.center \in Int
    PROVE  Agreed(attempts)
<1> DEFINE measured == {a \in ToSet(attempts) : Candidate(a)}
           Near(a) == {b \in measured : b.center \in a.center .. (a.center + Tolerance)}
<1>1. PICK candidates \in Seq(S) :
         /\ candidates = Selected(attempts, {i \in DOMAIN attempts : Candidate(attempts[i])})
         /\ IsInjective(candidates) /\ ToSet(candidates) = measured
  <2>1. PICK places \in SUBSET DOMAIN attempts :
           places = {i \in DOMAIN attempts : Candidate(attempts[i])}
    OBVIOUS
  <2>2. /\ Selected(attempts, places) \in Seq(S) /\ IsInjective(Selected(attempts, places))
        /\ ToSet(Selected(attempts, places)) = {attempts[i] : i \in places}
    BY SelectedOnce
  <2>3. {attempts[i] : i \in places} = measured BY <2>1 DEF ToSet
  <2>4. QED BY <2>1, <2>2, <2>3
<1>2. PICK n \in Nat :
         /\ n = Len(candidates) /\ DOMAIN candidates = 1 .. n
         /\ IsFiniteSet(measured) /\ Cardinality(measured) = n
  BY <1>1, LenProperties, Elements
<1> HIDE DEF measured
<1>3. /\ \A a \in measured : a.center \in Int
      /\ measured = {a \in ToSet(attempts) : Candidate(a)}
  BY DEF measured
<1>4. PICK middle, limit, retained, center :
         Calibrates(attempts, candidates, middle, limit, retained, center)
  BY <1>1, CalibratedIs
<1> DEFINE Distance(a) == Absolute(a.center - middle)
<1>5. middle = Median([i \in DOMAIN candidates |-> candidates[i].center])
  BY <1>4 DEF Calibrates
<1>6. limit = Limit([i \in DOMAIN candidates |-> Distance(candidates[i])])
  BY <1>4 DEF Calibrates
<1>7. PICK places \in SUBSET DOMAIN candidates :
          /\ places = {i \in DOMAIN candidates : Distance(candidates[i]) <= limit}
          /\ retained = Selected(candidates, places)
  BY <1>4 DEF Calibrates
<1>8. center = Median([i \in DOMAIN retained |-> retained[i].center])
  BY <1>4 DEF Calibrates
<1>9. PICK result : result = Calibrated(attempts) OBVIOUS
<1>10. result = IF Len(attempts) # Attempts \/ n < MinimumAccepted THEN Failure
               ELSE IF Len(retained) < MinimumAccepted THEN Failure
               ELSE [failed |-> FALSE, center |-> center, accepted |-> ToSet(retained),
                     spread |-> Max({Absolute(a.center - center) : a \in ToSet(retained)})]
  BY <1>2, <1>4, <1>9 DEF Calibrates
<1>11. ASSUME n >= 1
       PROVE  /\ middle \in Int /\ limit \in Tolerance .. MaximumDeviation
              /\ retained \in Seq(S) /\ IsInjective(retained)
              /\ ToSet(retained) = {b \in measured : Distance(b) <= limit}
  <2>1. \A i \in 1 .. n : candidates[i] \in measured BY <1>1, <1>2 DEF ToSet
  <2>2. middle \in Int
    <3>1. PICK values : values = [i \in DOMAIN candidates |-> candidates[i].center] OBVIOUS
    <3>2. values \in [1 .. n -> Int] BY <1>2, <1>3, <2>1, <3>1
    <3>3. values \in Seq(Int) /\ values # <<>>
      <4>1. values \in Seq(Int) BY <3>2, SeqDef
      <4>2. Len(values) = n BY <3>2, <4>1, LenProperties
      <4>3. QED BY <1>11, <4>1, <4>2, EmptySeq
    <3>4. QED BY <1>5, <3>1, <3>3, MedianIsNumber
  <2>3. limit \in Tolerance .. MaximumDeviation
    <3>1. PICK values : values = [i \in DOMAIN candidates |-> Distance(candidates[i])] OBVIOUS
    <3>2. \A i \in 1 .. n : Distance(candidates[i]) \in Int
      <4>1. \A i \in 1 .. n : candidates[i].center \in Int BY <1>3, <2>1
      <4>2. QED BY <2>2, <4>1 DEF Absolute
    <3> HIDE DEF Distance
    <3>3. values \in [1 .. n -> Int] BY <1>2, <3>1, <3>2
    <3>4. values \in Seq(Int) /\ values # <<>>
      <4>1. values \in Seq(Int) BY <3>3, SeqDef
      <4>2. Len(values) = n BY <3>3, <4>1, LenProperties
      <4>3. QED BY <1>11, <4>1, <4>2, EmptySeq
    <3>5. QED BY <1>6, <3>1, <3>4, LimitIs
  <2> HIDE DEF Distance
  <2>4. /\ retained \in Seq(S) /\ IsInjective(retained)
        /\ ToSet(retained) = {candidates[i] : i \in places}
    <3>1. candidates \in Seq(S) /\ IsInjective(candidates) BY <1>1
    <3>2. places \in SUBSET DOMAIN candidates OBVIOUS
    <3>3. /\ Selected(candidates, places) \in Seq(S) /\ IsInjective(Selected(candidates, places))
          /\ ToSet(Selected(candidates, places)) = {candidates[i] : i \in places}
      BY ONLY <3>1, <3>2, SelectedOnce
    <3>4. retained = Selected(candidates, places) BY <1>7
    <3>5. QED BY <3>3, <3>4
  <2>5. {candidates[i] : i \in places} = {b \in measured : Distance(b) <= limit}
    BY <1>1, <1>7 DEF ToSet
  <2>6. QED BY <2>2, <2>3, <2>4, <2>5
<1>12. ASSUME n >= 1
       PROVE  /\ Len(retained) \in Nat /\ IsFiniteSet(ToSet(retained))
              /\ Cardinality(ToSet(retained)) = Len(retained)
  BY <1>11, <1>12, Elements, LenProperties
<1>13. ASSUME ~result.failed
       PROVE  /\ n >= MinimumAccepted /\ Len(retained) >= MinimumAccepted
              /\ result.center = center /\ result.accepted = ToSet(retained)
              /\ result.spread = Max({Absolute(a.center - center) : a \in ToSet(retained)})
  <2>1. Failure.failed BY DEF Failure
  <2>2. result # Failure BY <1>13, <2>1
  <2>3. ~(n < MinimumAccepted) /\ ~(Len(retained) < MinimumAccepted) BY <1>10, <2>2
  <2>4. n >= MinimumAccepted BY <2>3
  <2>5. n >= 1 BY <2>4
  <2>6. Len(retained) >= MinimumAccepted BY <1>12, <2>3, <2>5
  <2>7. QED BY <1>10, <2>2, <2>3, <2>4, <2>6
<1>14. ASSUME ~result.failed
       PROVE  /\ result.accepted \subseteq measured
              /\ Cardinality(result.accepted) >= MinimumAccepted
              /\ result.spread <= 2 * MaximumDeviation
  <2>1. n >= 1 /\ Len(retained) >= MinimumAccepted BY <1>13, <1>14
  <2>2. /\ middle \in Int /\ limit \in Tolerance .. MaximumDeviation /\ retained \in Seq(S)
        /\ ToSet(retained) = {b \in measured : Distance(b) <= limit}
    BY <1>11, <2>1
  <2>3. PICK kept : kept = ToSet(retained) OBVIOUS
  <2>4. PICK r \in Nat : r = Len(retained) /\ IsFiniteSet(kept) /\ Cardinality(kept) = r
    BY <1>12, <2>1, <2>3
  <2>5. r >= 1 /\ r >= MinimumAccepted BY <2>1, <2>4
  <2>6. PICK lo \in Int, hi \in Int : lo = middle - limit /\ hi = middle + limit BY <2>2
  <2>7. \A a \in kept : a.center \in Int /\ a.center \in lo .. hi
    <3>1. SUFFICES ASSUME NEW a \in kept PROVE a.center \in Int /\ a.center \in lo .. hi
      OBVIOUS
    <3>2. PICK x \in Int : x = a.center BY <1>3, <2>2, <2>3
    <3>3. Absolute(x - middle) <= limit BY <2>2, <2>3, <3>2
    <3>4. x \in lo .. hi BY <2>2, <2>6, <3>3 DEF Absolute
    <3>5. QED BY <3>2, <3>4
  <2>8. center \in lo .. hi
    <3>1. 2 * Cardinality(kept) > Len(retained) BY <2>4, <2>5
    <3>2. QED BY <1>8, <2>2, <2>3, <2>7, <3>1, CenterOf
  <2>9. PICK N \in Nat : N = 2 * MaximumDeviation OBVIOUS
  <2>10. PICK V : V = {Absolute(a.center - center) : a \in kept} OBVIOUS
  <2>11. V \in SUBSET (0 .. N)
    <3>1. SUFFICES ASSUME NEW a \in kept PROVE Absolute(a.center - center) \in 0 .. N
      BY <2>10
    <3>2. PICK x \in lo .. hi : x = a.center BY <2>7
    <3>3. Absolute(x - center) \in 0 .. N BY <2>2, <2>6, <2>8, <2>9 DEF Absolute
    <3>4. QED BY <3>2, <3>3
  <2>12. V # {}
    <3>1. kept # {} BY <2>4, <2>5, FS_EmptySet
    <3>2. QED BY <2>10, <3>1
  <2>13. Max(V) \in 0 .. N BY <2>11, <2>12, BoundsOf
  <2>14. result.spread = Max(V) /\ result.accepted = kept BY <1>13, <1>14, <2>3, <2>10
  <2>15. result.spread <= 2 * MaximumDeviation BY <2>9, <2>13, <2>14
  <2>16. QED BY <2>2, <2>3, <2>4, <2>5, <2>14, <2>15
<1>15. ASSUME NEW a \in measured, 2 * Cardinality(Near(a)) > n,
              Cardinality(Near(a)) >= MinimumAccepted, Len(attempts) = Attempts
       PROVE  /\ ~result.failed /\ Near(a) \subseteq result.accepted
              /\ result.center \in a.center .. (a.center + Tolerance)
  <2>1. PICK near : near = Near(a) OBVIOUS
  <2>2. PICK lo \in Int, hi \in Int : lo = a.center /\ hi = lo + Tolerance BY <1>3
  <2>3. near \in SUBSET measured /\ \A b \in near : b.center \in lo .. hi BY <2>1, <2>2
  <2> HIDE DEF Near
  <2>4. PICK c \in Nat : /\ c = Cardinality(near) /\ 2 * c > n /\ c >= MinimumAccepted
                         /\ c <= n
    <3>1. Cardinality(near) <= Cardinality(measured) /\ IsFiniteSet(near)
      BY <1>2, <2>3, FS_Subset
    <3>2. Cardinality(near) \in Nat BY <3>1, FS_CardinalityType
    <3>3. QED BY <1>2, <1>15, <2>1, <3>1, <3>2
  <2>5. n >= 1 /\ n >= MinimumAccepted BY <2>4
  <2>6. middle \in lo .. hi
    <3>1. 2 * Cardinality(near) > Len(candidates) BY <1>2, <2>4
    <3>2. QED BY <1>1, <1>3, <1>5, <2>3, <3>1, CenterOf
  <2>7. /\ limit \in Tolerance .. MaximumDeviation /\ retained \in Seq(S)
        /\ ToSet(retained) = {b \in measured : Distance(b) <= limit}
    BY <1>11, <2>5
  <2>8. near \subseteq ToSet(retained)
    <3>1. SUFFICES ASSUME NEW b \in near PROVE Distance(b) <= limit BY <2>3, <2>7
    <3>2. PICK x \in lo .. hi : x = b.center BY <2>3
    <3>3. Absolute(x - middle) <= limit BY <2>2, <2>6, <2>7 DEF Absolute
    <3>4. QED BY <3>2, <3>3
  <2>9. PICK r \in Nat : /\ r = Len(retained) /\ IsFiniteSet(ToSet(retained))
                         /\ Cardinality(ToSet(retained)) = r
    BY <1>12, <2>5
  <2>10. c <= r BY <2>4, <2>8, <2>9, FS_Subset
  <2>11. r <= n
    <3>1. ToSet(retained) \in SUBSET measured BY <2>7
    <3>2. QED BY <1>2, <2>9, <3>1, FS_Subset
  <2>12. center \in lo .. hi
    <3>1. 2 * Cardinality(near) > Len(retained) BY <2>4, <2>9, <2>11
    <3>2. \A b \in ToSet(retained) : b.center \in Int BY <1>3, <2>7
    <3>3. QED BY <1>8, <2>3, <2>7, <2>8, <3>1, <3>2, CenterOf
  <2>13. ~(n < MinimumAccepted) /\ ~(Len(retained) < MinimumAccepted)
    BY <2>4, <2>5, <2>9, <2>10
  <2>14. /\ ~result.failed /\ result.center = center /\ result.accepted = ToSet(retained)
    BY <1>10, <1>15, <2>13
  <2>15. QED BY <2>1, <2>2, <2>8, <2>12, <2>14
<1>16. QED BY <1>2, <1>3, <1>9, <1>14, <1>15 DEF Agreed

-----------------------------------------------------------------------------
(* The evidence of a join.                                                 *)

Longer(best, list) == IF Len(list) > Len(best) THEN list ELSE best

\* The longest of the channels, one after the other.
LEMMA BestTrace ==
    ASSUME NEW S, NEW join, NEW n \in Nat, DOMAIN join.channels = 1 .. n,
           \A k \in 1 .. n : Dense(join.channels[k]) \in Seq(S)
    PROVE  \E h : /\ h[0] = <<>>
                  /\ \A k \in 1 .. n : h[k] = Longer(h[k - 1], Dense(join.channels[k]))
                  /\ Best(join) = h[n]
<1> DEFINE Folded(it) ==
               it = [t \in SUBSET DOMAIN join.channels |->
                        IF t = {} THEN <<>>
                        ELSE IF Len(Dense(join.channels[Max(t)])) > Len(it[t \ {Max(t)}])
                             THEN Dense(join.channels[Max(t)]) ELSE it[t \ {Max(t)}]]
           it == CHOOSE it : Folded(it)
<1>1. Best(join) = it[DOMAIN join.channels] BY DEF Best, FoldLeft, MapThenFoldSet
<1>2. PICK V : V = Seq(S) OBVIOUS
<1>3. <<>> \in V BY <1>2
<1>4. PICK F : F = [p \in V \X V |-> Longer(p[1], p[2])] OBVIOUS
<1>5. \A v \in V, e \in V : F[<<v, e>>] = Longer(v, e) BY <1>4
<1>6. \A v \in V, e \in V : F[<<v, e>>] \in V BY <1>5 DEF Longer
<1>7. PICK dense : dense = [k \in 1 .. n |-> Dense(join.channels[k])] OBVIOUS
<1>8. \A k \in 1 .. n : dense[k] \in V BY <1>2, <1>7
<1>9. PICK g \in [SUBSET (1 .. n) -> V] : SliceMerge!IsListFold(g, n, <<>>, F, dense)
  BY <1>3, <1>6, <1>8, SliceMerge!ListFold
<1>10. \A t : SliceMerge!Max(t) = Max(t) BY DEF SliceMerge!Max, Max
<1>11. \A t \in SUBSET (1 .. n) :
          g[t] = IF t = {} THEN <<>> ELSE Longer(g[t \ {Max(t)}], Dense(join.channels[Max(t)]))
  <2>1. SUFFICES ASSUME NEW t \in SUBSET (1 .. n), t # {}
                 PROVE  g[t] = Longer(g[t \ {Max(t)}], Dense(join.channels[Max(t)]))
    BY <1>9 DEF SliceMerge!IsListFold
  <2>2. Max(t) \in 1 .. n BY <1>10, <2>1, SliceMerge!LastPlace
  <2>3. g[t \ {Max(t)}] \in V OBVIOUS
  <2>4. g[t] = F[<<g[t \ {Max(t)}], dense[Max(t)]>>]
    BY <1>9, <1>10, <2>1 DEF SliceMerge!IsListFold
  <2>5. QED BY <1>5, <1>7, <1>8, <2>2, <2>3, <2>4
<1>12. Folded(g) BY <1>11 DEF Longer
<1>13. Folded(it)
  <2> HIDE DEF Folded
  <2>1. QED BY <1>12
<1> HIDE DEF it
<1>14. \A t \in SUBSET (1 .. n) :
          it[t] = IF t = {} THEN <<>> ELSE Longer(it[t \ {Max(t)}], Dense(join.channels[Max(t)]))
  BY <1>13 DEF Longer
<1> HIDE DEF Folded
<1>15. PICK h : h = [k \in 0 .. n |-> it[1 .. k]] OBVIOUS
<1>16. h[0] = <<>>
  <2>1. h[0] = it[1 .. 0] /\ 1 .. 0 = {} BY <1>15
  <2>2. QED BY <1>14, <2>1
<1>17. ASSUME NEW k \in 1 .. n PROVE h[k] = Longer(h[k - 1], Dense(join.channels[k]))
  <2>1. h[k] = it[1 .. k] /\ h[k - 1] = it[1 .. k - 1] BY <1>15
  <2>2. /\ 1 .. k \in SUBSET (1 .. n) /\ 1 .. k # {}
        /\ Max(1 .. k) = k /\ (1 .. k) \ {Max(1 .. k)} = 1 .. k - 1
    BY <1>10, SliceMerge!FirstPlaces
  <2>3. QED BY <1>14, <2>1, <2>2
<1>18. h[n] = it[1 .. n] BY <1>15
<1>19. QED BY <1>1, <1>16, <1>17, <1>18

\* The first of the longest of k lists, or none of them where all are empty.
IsLongest(k, lists, best) ==
    \/ best = <<>> /\ \A j \in 1 .. k : Len(lists[j]) = 0
    \/ \E i \in 1 .. k :
          /\ best = lists[i] /\ Len(best) > 0
          /\ \A j \in 1 .. k : Len(lists[j]) <= Len(best)
          /\ \A j \in 1 .. (i - 1) : Len(lists[j]) < Len(best)

LEMMA BestIs ==
    ASSUME NEW S, NEW join, NEW n \in Nat, DOMAIN join.channels = 1 .. n,
           \A k \in 1 .. n : Dense(join.channels[k]) \in Seq(S)
    PROVE  /\ Best(join) \in Seq(S)
           /\ IsLongest(n, [k \in 1 .. n |-> Dense(join.channels[k])], Best(join))
<1>1. PICK lists : lists = [k \in 1 .. n |-> Dense(join.channels[k])] OBVIOUS
<1>2. \A k \in 1 .. n : lists[k] \in Seq(S) /\ Len(lists[k]) \in Nat BY <1>1, LenProperties
<1>3. PICK h : /\ h[0] = <<>> /\ Best(join) = h[n]
               /\ \A k \in 1 .. n : h[k] = Longer(h[k - 1], lists[k])
  <2>1. PICK h : /\ h[0] = <<>>
                 /\ \A k \in 1 .. n : h[k] = Longer(h[k - 1], Dense(join.channels[k]))
                 /\ Best(join) = h[n]
    BY BestTrace
  <2>2. QED BY <1>1, <2>1
<1> DEFINE Right(k) == h[k] \in Seq(S) /\ IsLongest(k, lists, h[k])
           wrong == {k \in 0 .. n : ~Right(k)}
<1>4. Right(0) BY <1>3 DEF IsLongest
<1>5. ASSUME NEW k \in 1 .. n, Right(k - 1) PROVE Right(k)
  <2>1. PICK best \in Seq(S) : best = h[k - 1] /\ IsLongest(k - 1, lists, best) BY <1>5
  <2>2. PICK list \in Seq(S) : list = lists[k] BY <1>2
  <2>3. Len(best) \in Nat /\ Len(list) \in Nat BY LenProperties
  <2>4. CASE Len(list) > Len(best)
    <3>1. h[k] = list BY <1>3, <2>1, <2>2, <2>4 DEF Longer
    <3>2. \A j \in 1 .. (k - 1) : Len(lists[j]) <= Len(best)
      <4>1. \A j \in 1 .. (k - 1) : j \in 1 .. n OBVIOUS
      <4>2. QED BY <1>2, <2>1, <2>3, <4>1 DEF IsLongest
    <3>3. \A j \in 1 .. (k - 1) : Len(lists[j]) < Len(list)
      <4>1. \A j \in 1 .. (k - 1) : j \in 1 .. n OBVIOUS
      <4>2. QED BY <1>2, <2>3, <2>4, <3>2, <4>1
    <3>4. \A j \in 1 .. k : Len(lists[j]) <= Len(list)
      <4>1. \A j \in 1 .. k : j = k \/ j \in 1 .. (k - 1) OBVIOUS
      <4>2. \A j \in 1 .. k : j \in 1 .. n OBVIOUS
      <4>3. ASSUME NEW j \in 1 .. k PROVE Len(lists[j]) <= Len(list)
        <5>1. CASE j = k BY <2>2, <2>3, <5>1
        <5>2. CASE j \in 1 .. (k - 1)
          <6>1. Len(lists[j]) < Len(list) /\ Len(lists[j]) \in Nat BY <1>2, <3>3, <4>2, <5>2
          <6>2. QED BY <2>3, <6>1
        <5>3. QED BY <4>1, <5>1, <5>2
      <4>4. QED BY <4>3
    <3>5. k \in 1 .. k /\ Len(list) > 0 BY <2>3, <2>4
    <3>6. QED BY <2>2, <3>1, <3>3, <3>4, <3>5 DEF IsLongest
  <2>5. CASE ~(Len(list) > Len(best))
    <3>1. h[k] = best BY <1>3, <2>1, <2>2, <2>5 DEF Longer
    <3>2. Len(lists[k]) <= Len(best) BY <2>2, <2>3, <2>5
    <3>3. \A j \in 1 .. k : j = k \/ j \in 1 .. (k - 1) OBVIOUS
    <3>4. CASE best = <<>> /\ \A j \in 1 .. (k - 1) : Len(lists[j]) = 0
      <4>1. Len(lists[k]) = 0 BY <2>2, <2>3, <2>5, <3>4
      <4>2. QED BY <3>1, <3>3, <3>4, <4>1 DEF IsLongest
    <3>5. CASE ~(best = <<>> /\ \A j \in 1 .. (k - 1) : Len(lists[j]) = 0)
      <4>1. PICK i \in 1 .. (k - 1) :
               /\ best = lists[i] /\ Len(best) > 0
               /\ \A j \in 1 .. (k - 1) : Len(lists[j]) <= Len(best)
               /\ \A j \in 1 .. (i - 1) : Len(lists[j]) < Len(best)
        BY <2>1, <3>5 DEF IsLongest
      <4>2. \A j \in 1 .. k : Len(lists[j]) <= Len(best) BY <3>2, <3>3, <4>1
      <4>3. i \in 1 .. k OBVIOUS
      <4>4. QED BY <3>1, <4>1, <4>2, <4>3 DEF IsLongest
    <3>6. QED BY <3>4, <3>5
  <2>6. QED BY <2>4, <2>5
<1> HIDE DEF Right
<1>6. wrong = {}
  <2>1. SUFFICES ASSUME wrong # {} PROVE FALSE OBVIOUS
  <2>2. wrong \subseteq Nat OBVIOUS
  <2>3. PICK k \in wrong : \A j \in wrong : k <= j BY <2>1, <2>2, LeastNumber
  <2>4. k \in 1 .. n BY <1>4, <2>3
  <2>5. k - 1 \in 0 .. n /\ ~(k <= k - 1) BY <2>4
  <2>6. Right(k - 1) BY <2>3, <2>5
  <2>7. QED BY <1>5, <2>3, <2>4, <2>6
<1>7. Right(n) BY <1>6
<1>8. QED BY <1>1, <1>3, <1>7 DEF Right

\* Lists of the same lengths have their longest one at the same place.
LEMMA LongestAlike ==
    ASSUME NEW n \in Nat, NEW S, NEW a, NEW b,
           \A k \in 1 .. n : /\ a[k] \in Seq(S) /\ b[k] \in Seq(S)
                             /\ Len(b[k]) = Len(a[k]) /\ b[k] = Reverse(a[k]),
           NEW x, NEW y, IsLongest(n, a, x), IsLongest(n, b, y)
    PROVE  Len(y) = Len(x) /\ y = Reverse(x)
<1>1. \A k \in 1 .. n : Len(a[k]) \in Nat /\ Len(b[k]) = Len(a[k]) BY LenProperties
<1>2. CASE \A j \in 1 .. n : Len(a[j]) = 0
  <2>1. x = <<>> BY <1>1, <1>2 DEF IsLongest
  <2>2. y = <<>> BY <1>1, <1>2 DEF IsLongest
  <2>3. Reverse(<<>>) = <<>> BY DEF Reverse
  <2>4. QED BY <2>1, <2>2, <2>3
<1>3. CASE ~\A j \in 1 .. n : Len(a[j]) = 0
  <2>1. PICK i \in 1 .. n :
           /\ x = a[i] /\ \A j \in 1 .. n : Len(a[j]) <= Len(x)
           /\ \A j \in 1 .. (i - 1) : Len(a[j]) < Len(x)
    BY <1>3 DEF IsLongest
  <2>2. ~\A j \in 1 .. n : Len(b[j]) = 0 BY <1>1, <1>3
  <2>3. PICK k \in 1 .. n :
           /\ y = b[k] /\ \A j \in 1 .. n : Len(b[j]) <= Len(y)
           /\ \A j \in 1 .. (k - 1) : Len(b[j]) < Len(y)
    BY <2>2 DEF IsLongest
  <2>4. i = k
    <3>1. ASSUME i < k PROVE FALSE
      <4>1. i \in 1 .. (k - 1) BY <3>1
      <4>2. Len(a[i]) < Len(a[k]) BY <1>1, <2>3, <4>1
      <4>3. Len(a[k]) <= Len(a[i]) BY <2>1
      <4>4. QED BY <1>1, <4>2, <4>3
    <3>2. ASSUME k < i PROVE FALSE
      <4>1. k \in 1 .. (i - 1) BY <3>2
      <4>2. Len(a[k]) < Len(a[i]) BY <2>1, <4>1
      <4>3. Len(a[i]) <= Len(a[k]) BY <1>1, <2>3
      <4>4. QED BY <1>1, <4>2, <4>3
    <3>3. QED BY <3>1, <3>2
  <2>5. QED BY <1>1, <2>1, <2>3, <2>4
<1>4. QED BY <1>2, <1>3

-----------------------------------------------------------------------------
(* The order of the correspondences of a join.                             *)

Pairs == Int \X Int
PointKey(p) == <<p[2] \div TileSize, p[1] \div TileSize, p[2], p[1]>>
PointKeys(points) == [i \in DOMAIN points |-> PointKey(points[i])]
PointOrder == {pair \in Pairs \X Pairs : Before(PointKey(pair[1]), PointKey(pair[2]))}

LEMMA PointKeyIs ==
    ASSUME TileSize \in Nat \ {0}, NEW p \in Pairs
    PROVE  /\ PointKey(p) \in Seq(Int) /\ Len(PointKey(p)) = 4
           /\ PointKey(p)[3] = p[2] /\ PointKey(p)[4] = p[1]
<1>1. p[1] \in Int /\ p[2] \in Int BY DEF Pairs
<1>2. PICK a \in Int, b \in Int : a = p[2] \div TileSize /\ b = p[1] \div TileSize BY <1>1
<1>3. PICK x \in Int, y \in Int : x = p[1] /\ y = p[2] BY <1>1
<1>4. PointKey(p) = <<a, b, y, x>> BY <1>2, <1>3 DEF PointKey
<1>5. QED BY <1>3, <1>4

LEMMA PointOrderIs ==
    ASSUME TileSize \in Nat \ {0}
    PROVE  \A x, y : <<x, y>> \in PointOrder => <<y, x>> \notin PointOrder
<1>1. ASSUME NEW x \in Pairs, NEW y \in Pairs, Before(PointKey(x), PointKey(y))
      PROVE  ~Before(PointKey(y), PointKey(x))
  <2>1. PICK a, b : a = PointKey(x) /\ b = PointKey(y) OBVIOUS
  <2>2. PICK w \in Nat : w = 4 OBVIOUS
  <2>3. a \in Seq(Int) /\ Len(a) = w /\ b \in Seq(Int) /\ Len(b) = w
    BY <2>1, <2>2, PointKeyIs
  <2>4. ~Before(a, a) /\ (Before(a, b) /\ Before(b, a) => Before(a, a))
    BY <2>3, TuplesInOrder
  <2>5. QED BY <1>1, <2>1, <2>4
<1>2. QED BY <1>1 DEF PointOrder

\* The sort keeps the points, each once, by tiles.
LEMMA OrderedIs ==
    ASSUME TileSize \in Nat \ {0}, NEW points \in Seq(Pairs), IsInjective(points)
    PROVE  /\ Ordered(points) \in Seq(ToSet(points))
           /\ Len(Ordered(points)) = Len(points)
           /\ ToSet(Ordered(points)) = ToSet(points)
           /\ IsInjective(Ordered(points))
           /\ \A i, j \in 1 .. Len(points) :
                 i < j => <<Ordered(points)[i], Ordered(points)[j]>> \in PointOrder
<1>1. PICK n \in Nat : n = Len(points) /\ DOMAIN points = 1 .. n BY LenProperties
<1>2. \A i \in 1 .. n : points[i] \in Pairs BY <1>1, ElementOfSeq
<1>3. PICK E : E = ToSet(points) OBVIOUS
<1>4. points \in Seq(E)
  <2>1. \A i \in 1 .. n : points[i] \in E BY <1>1, <1>3 DEF ToSet
  <2>2. QED BY <1>1, <2>1, LenProperties
<1>5. PICK key : key = PointKeys(points) OBVIOUS
<1>6. \A i \in 1 .. n : key[i] = PointKey(points[i]) BY <1>1, <1>5 DEF PointKeys
<1>7. PICK w \in Nat : w = 4 OBVIOUS
<1>8. Keyed(key, DOMAIN points, w) BY <1>1, <1>2, <1>6, <1>7, PointKeyIs DEF Keyed
<1>9. PICK sorted : sorted = Sorted(points, key) OBVIOUS
<1>10. Ordered(points) = sorted BY <1>5, <1>9 DEF Ordered, PointKeys, PointKey
<1>11. /\ sorted \in Seq(E) /\ Len(sorted) = n /\ ToSet(sorted) = E
       /\ \E order : ArrangesBy(order, sorted, points, key)
  BY <1>1, <1>3, <1>4, <1>8, <1>9, SortedIs
<1>12. PICK order \in [1 .. n -> 1 .. n] :
          /\ \A k \in 1 .. n : sorted[k] = points[order[k]]
          /\ \A k, l \in 1 .. n : k < l => order[k] # order[l]
          /\ \A k, l \in 1 .. n : k < l => Earlier(key, order[k], order[l])
  <2>1. PICK order : ArrangesBy(order, sorted, points, key) BY <1>11
  <2>2. Arranges(order, sorted, points, 1 .. n) BY <1>1, <2>1 DEF ArrangesBy
  <2>3. /\ order \in [1 .. n -> 1 .. n]
        /\ \A k \in 1 .. n : sorted[k] = points[order[k]]
        /\ \A k, l \in 1 .. n : k < l => order[k] # order[l]
    BY <1>11, <2>2 DEF Arranges
  <2>4. \A k, l \in 1 .. n : k < l => Earlier(key, order[k], order[l])
    BY <1>1, <2>1 DEF ArrangesBy
  <2>5. QED BY <2>3, <2>4
<1>13. ASSUME NEW k \in 1 .. n, NEW l \in 1 .. n, k < l
       PROVE  sorted[k] # sorted[l] /\ <<sorted[k], sorted[l]>> \in PointOrder
  <2>1. PICK i \in 1 .. n, j \in 1 .. n : i = order[k] /\ j = order[l] BY <1>12
  <2>2. i # j BY <1>12, <1>13, <2>1
  <2>3. PICK p \in Pairs, q \in Pairs : p = points[i] /\ q = points[j] BY <1>2
  <2>4. p # q BY <1>1, <2>2, <2>3 DEF IsInjective
  <2>5. PointKey(p) # PointKey(q)
    <3>1. p = <<p[1], p[2]>> /\ q = <<q[1], q[2]>> BY DEF Pairs
    <3>2. SUFFICES ASSUME PointKey(p) = PointKey(q) PROVE FALSE OBVIOUS
    <3>3. p[1] = q[1] /\ p[2] = q[2] BY <3>2, PointKeyIs
    <3>4. QED BY <2>4, <3>1, <3>3
  <2>6. Earlier(key, i, j) BY <1>12, <1>13, <2>1
  <2>7. Before(PointKey(p), PointKey(q)) BY <1>6, <2>3, <2>5, <2>6 DEF Earlier
  <2>8. <<p, q>> \in PointOrder BY <2>7 DEF PointOrder
  <2>9. sorted[k] = p /\ sorted[l] = q BY <1>12, <2>1, <2>3
  <2>10. QED BY <2>4, <2>8, <2>9
<1>14. DOMAIN sorted = 1 .. n BY <1>11, LenProperties
<1>15. IsInjective(sorted)
  <2> SUFFICES ASSUME NEW k \in 1 .. n, NEW l \in 1 .. n, sorted[k] = sorted[l] PROVE k = l
    BY <1>14 DEF IsInjective
  <2>1. ~(k < l) /\ ~(l < k) BY <1>13
  <2>2. QED BY <2>1
<1>16. QED BY <1>1, <1>3, <1>10, <1>11, <1>13, <1>15

LEMMA BackwardsToo ==
    ASSUME NEW points \in Seq(Pairs), IsInjective(points)
    PROVE  /\ Reverse(points) \in Seq(Pairs) /\ IsInjective(Reverse(points))
           /\ Len(Reverse(points)) = Len(points) /\ ToSet(Reverse(points)) = ToSet(points)
<1>1. PICK n \in Nat : n = Len(points) BY LenProperties
<1>2. /\ Reverse(points) \in Seq(Pairs)
      /\ DOMAIN points = 1 .. n /\ DOMAIN Reverse(points) = 1 .. n
      /\ ToSet(Reverse(points)) = ToSet(points)
      /\ \A i \in 1 .. n : /\ (n - i) + 1 \in 1 .. n
                           /\ Reverse(points)[i] = points[(n - i) + 1]
  BY <1>1, ReverseIs
<1>3. IsInjective(Reverse(points))
  <2> SUFFICES ASSUME NEW i \in 1 .. n, NEW j \in 1 .. n,
                      Reverse(points)[i] = Reverse(points)[j]
               PROVE  i = j
    BY <1>2 DEF IsInjective
  <2>1. points[(n - i) + 1] = points[(n - j) + 1] BY <1>2
  <2>2. (n - i) + 1 = (n - j) + 1 BY <1>2, <2>1 DEF IsInjective
  <2>3. QED BY <2>2
<1>4. Len(Reverse(points)) = n BY <1>2, LenProperties
<1>5. QED BY <1>1, <1>2, <1>3, <1>4

\* The order in which points are found does not matter.
LEMMA SameOrdered ==
    ASSUME TileSize \in Nat \ {0}, NEW points \in Seq(Pairs), IsInjective(points)
    PROVE  Ordered(Reverse(points)) = Ordered(points)
<1>1. PICK back \in Seq(Pairs) : /\ back = Reverse(points) /\ IsInjective(back)
                                 /\ Len(back) = Len(points) /\ ToSet(back) = ToSet(points)
  BY BackwardsToo
<1>2. PICK s, t : s = Ordered(points) /\ t = Ordered(back) OBVIOUS
<1>3. PICK n \in Nat : n = Len(points) BY LenProperties
<1>4. PICK E : E = ToSet(points) OBVIOUS
<1>5. /\ s \in Seq(E) /\ Len(s) = n /\ ToSet(s) = E
      /\ \A i, j \in 1 .. n : i < j => <<s[i], s[j]>> \in PointOrder
  BY <1>2, <1>3, <1>4, OrderedIs
<1>6. /\ t \in Seq(E) /\ Len(t) = n /\ ToSet(t) = E
      /\ \A i, j \in 1 .. n : i < j => <<t[i], t[j]>> \in PointOrder
  BY <1>1, <1>2, <1>3, <1>4, OrderedIs
<1>7. DOMAIN s = 1 .. n /\ DOMAIN t = 1 .. n BY <1>5, <1>6, LenProperties
<1>8. /\ \A i \in 1 .. n : \E j \in 1 .. n : s[i] = t[j]
      /\ \A i \in 1 .. n : \E j \in 1 .. n : t[i] = s[j]
  BY <1>5, <1>6, <1>7 DEF ToSet
<1>9. \A i \in 1 .. n : s[i] = t[i]
  <2>1. PICK R : R = PointOrder OBVIOUS
  <2>2. \A x, y : <<x, y>> \in R => <<y, x>> \notin R BY <2>1, PointOrderIs
  <2>3. SameInOrder(n, R, s, t) BY <1>5, <1>6, <1>8, <2>1, <2>2 DEF SameInOrder
  <2>4. QED BY <2>3, OneOrder
<1>10. s = t BY <1>5, <1>6, <1>9, SeqEqual
<1>11. QED BY <1>1, <1>2, <1>10

-----------------------------------------------------------------------------
(* What is fitted between two places that are held out.                    *)

LEMMA QuotientReaches ==
    ASSUME NEW x \in Nat, NEW d \in Nat \ {0}, NEW q \in Nat
    PROVE  x \div d \in Nat /\ (q <= x \div d <=> q * d <= x)
<1>1. PICK u \in Nat, r \in 0 .. d - 1 : u = x \div d /\ x = d * u + r
  <2>1. x \div d \in Nat /\ x % d \in 0 .. d - 1 /\ x = d * (x \div d) + (x % d) BY Division
  <2>2. QED BY <2>1
<1>2. PICK ud, qd \in Nat : ud = u * d /\ qd = q * d OBVIOUS
<1>3. x = ud + r BY <1>1, <1>2
<1>4. ASSUME q <= u PROVE qd <= x
  <2>1. qd <= ud BY <1>2, <1>4, ProductsOrdered
  <2>2. QED BY <1>3, <2>1
<1>5. ASSUME u + 1 <= q PROVE ~(qd <= x)
  <2>1. (u + 1) * d <= q * d BY <1>5, ProductsOrdered
  <2>2. ud + d <= qd BY <1>2, <2>1
  <2>3. QED BY <1>3, <2>2
<1>6. QED BY <1>1, <1>2, <1>4, <1>5

LEMMA QuotientsAdd ==
    ASSUME NEW a \in Nat, NEW b \in Nat, NEW d \in Nat \ {0}
    PROVE  (a \div d) + (b \div d) <= (a + b) \div d
<1>1. PICK x \in Nat, y \in Nat : x = a \div d /\ y = b \div d BY Division
<1>2. x * d <= a /\ y * d <= b BY <1>1, QuotientReaches
<1>3. (x + y) * d = x * d + y * d OBVIOUS
<1>4. (x + y) * d <= a + b
  <2>1. PICK p \in Nat, q \in Nat : p = x * d /\ q = y * d OBVIOUS
  <2>2. QED BY <1>2, <1>3, <2>1
<1>5. PICK s \in Nat : s = a + b OBVIOUS
<1>6. x + y <= s \div d BY <1>4, <1>5, QuotientReaches
<1>7. QED BY <1>1, <1>5, <1>6

\* The place of what the limit keeps as number i, and the places of what is
\* held out and fitted.
KeptPlace(i, length, maximum) ==
    IF length <= maximum THEN i ELSE ((i - 1) * (length - 1)) \div (maximum - 1) + 1
HeldPlace(h) == (h - 1) * Stride + 1
FitPlace(f) == f + (f - 1) \div (Stride - 1) + 1

\* Each stretch of fitted places lies after the place that is held out first.
LEMMA StretchBetween ==
    ASSUME Stride \in Nat \ {0, 1}, NEW h \in Nat \ {0}, NEW g \in Nat \ {0}, h < g,
           NEW f \in Nat, (Stride - 1) * (h - 1) + 1 <= f, f <= (Stride - 1) * (g - 1)
    PROVE  FitPlace(f) \in HeldPlace(h) .. HeldPlace(g)
<1>1. PICK c \in Nat \ {0} : c = Stride - 1 OBVIOUS
<1>2. PICK a \in Nat, b \in Nat : a = h - 1 /\ b = g - 1 OBVIOUS
<1>3. PICK ac, bc \in Nat : ac = a * c /\ bc = b * c OBVIOUS
<1>4. c * a = ac /\ c * b = bc BY <1>3
<1>5. PICK x \in Nat : x = f - 1 /\ ac <= x /\ x < bc
  <2>1. ac + 1 <= f /\ f <= bc BY <1>1, <1>2, <1>4
  <2>2. QED BY <2>1
<1>6. PICK q \in Nat : q = x \div c BY Division
<1>7. a <= q BY <1>3, <1>5, <1>6, QuotientReaches
<1>8. ~(b <= q) BY <1>3, <1>5, <1>6, QuotientReaches
<1>9. FitPlace(f) = x + q + 2 BY <1>1, <1>5, <1>6 DEF FitPlace
<1>10. HeldPlace(h) = ac + a + 1 /\ HeldPlace(g) = bc + b + 1
  <2>1. Stride = c + 1 BY <1>1
  <2>2. a * (c + 1) = ac + a /\ b * (c + 1) = bc + b BY <1>3
  <2>3. QED BY <1>2, <2>1, <2>2 DEF HeldPlace
<1>11. QED BY <1>5, <1>7, <1>8, <1>9, <1>10

\* A limit that keeps enough keeps one of any stretch.
LEMMA KeptInStretch ==
    ASSUME NEW length \in Nat, NEW maximum \in Nat \ {0, 1},
           NEW u \in Nat, NEW v \in Nat, u < v, v <= length,
           length > maximum => length - 1 <= (v - u) * (maximum - 1)
    PROVE  \E t \in 1 .. (IF length <= maximum THEN length ELSE maximum) :
              KeptPlace(t, length, maximum) \in (u + 1) .. v
<1>1. CASE length <= maximum
  <2>1. u + 1 \in 1 .. length BY <1>1
  <2>2. KeptPlace(u + 1, length, maximum) \in (u + 1) .. v BY <1>1 DEF KeptPlace
  <2>3. QED BY <1>1, <2>1, <2>2
<1>2. CASE length > maximum
  <2>1. PICK M \in Nat \ {0}, L \in Nat : M = maximum - 1 /\ L = length - 1 BY <1>2
  <2>2. PICK uM, vM \in Nat : uM = u * M /\ vM = v * M OBVIOUS
  <2>3. L <= vM - uM
    <3>1. (v - u) * M = v * M - u * M OBVIOUS
    <3>2. QED BY <1>2, <2>1, <2>2, <3>1
  <2>4. PICK T : T = {t \in Nat : uM <= t * L} OBVIOUS
  <2>5. M \in T
    <3>1. u * M <= L * M BY <2>1, ProductsOrdered
    <3>2. QED BY <2>1, <2>2, <2>4, <3>1
  <2>6. PICK t \in T : \A j \in T : t <= j
    <3>1. T \subseteq Nat /\ T # {} BY <2>4, <2>5
    <3>2. QED BY <3>1, LeastNumber
  <2>7. t \in Nat /\ t <= M BY <2>4, <2>5, <2>6
  <2>8. PICK p \in Nat : p = t * L BY <2>7
  <2>9. uM <= p BY <2>4, <2>6, <2>8
  <2>10. p < vM
    <3>1. CASE t = 0
      <4>1. p = 0 BY <2>8, <3>1
      <4>2. 1 * M <= v * M BY ProductsOrdered
      <4>3. QED BY <2>2, <4>1, <4>2
    <3>2. CASE t > 0
      <4>1. t - 1 \in Nat /\ ~(t <= t - 1) BY <2>7, <3>2
      <4>2. t - 1 \notin T BY <2>6, <4>1
      <4>3. (t - 1) * L < uM
        <5>1. PICK s \in Nat : s = t - 1 BY <4>1
        <5>2. s * L \in Nat OBVIOUS
        <5>3. QED BY <2>4, <4>2, <5>1, <5>2
      <4>4. (t - 1) * L = p - L BY <2>7, <2>8
      <4>5. QED BY <2>3, <2>8, <4>3, <4>4
    <3>3. QED BY <2>7, <3>1, <3>2
  <2>11. u <= p \div M /\ ~(v <= p \div M) /\ p \div M \in Nat
    BY <2>2, <2>9, <2>10, QuotientReaches
  <2>12. KeptPlace(t + 1, length, maximum) = p \div M + 1
    <3>1. (t + 1) - 1 = t BY <2>7
    <3>2. QED BY <1>2, <2>1, <2>8, <3>1 DEF KeptPlace
  <2>13. KeptPlace(t + 1, length, maximum) \in (u + 1) .. v BY <2>11, <2>12
  <2>14. t + 1 \in 1 .. maximum BY <2>1, <2>7
  <2>15. QED BY <1>2, <2>13, <2>14
<1>3. QED BY <1>1, <1>2

\* How far apart two of the held-out places are that the limit keeps.
LEMMA KeptApart ==
    ASSUME NEW length \in Nat, NEW maximum \in Nat \ {0, 1}, length > maximum,
           NEW i \in 1 .. (maximum - 1)
    PROVE  /\ KeptPlace(i, length, maximum) \in 1 .. length
           /\ KeptPlace(i + 1, length, maximum) \in 1 .. length
           /\ (length - 1) \div (maximum - 1)
                 <= KeptPlace(i + 1, length, maximum) - KeptPlace(i, length, maximum)
<1>1. PICK K \in Nat \ {0}, L \in Nat : K = maximum - 1 /\ L = length - 1 OBVIOUS
<1>2. PICK x \in Nat, y \in Nat : x = (i - 1) * L /\ y = i * L
  <2>1. (i - 1) * L \in Nat /\ i * L \in Nat BY <1>1
  <2>2. QED BY <2>1
<1>3. y = x + L BY <1>1, <1>2
<1>4. (x \div K) + (L \div K) <= y \div K BY <1>3, QuotientsAdd
<1>5. x \div K \in Nat /\ y \div K \in Nat /\ L \div K \in Nat BY QuotientReaches
<1>6. PICK a \in Nat, b \in Nat : a = x \div K /\ b = y \div K BY <1>5
<1>7. KeptPlace(i, length, maximum) = a + 1 BY <1>1, <1>2, <1>6 DEF KeptPlace
<1>8. KeptPlace(i + 1, length, maximum) = b + 1
  <2>1. (i + 1) - 1 = i OBVIOUS
  <2>2. QED BY <1>1, <1>2, <1>6, <2>1 DEF KeptPlace
<1>9. b <= L
  <2>1. i * L <= K * L BY <1>1, ProductsOrdered
  <2>2. (L + 1) * K = K * L + K /\ K * L \in Nat BY <1>1
  <2>3. ~((L + 1) * K <= y) BY <1>2, <2>1, <2>2
  <2>4. ~(L + 1 <= y \div K) BY <1>1, <2>3, QuotientReaches
  <2>5. QED BY <1>1, <1>6, <2>4
<1>10. a <= b BY <1>4, <1>5, <1>6
<1>11. QED BY <1>1, <1>4, <1>5, <1>6, <1>7, <1>8, <1>9, <1>10

\* How many are held out and fitted.
HeldCount(length) == (length + Stride - 1) \div Stride

LEMMA Counts ==
    ASSUME Stride \in Nat \ {0, 1}, NEW length \in Nat, NEW n,
           n = HeldCount(length)
    PROVE  /\ n \in Nat /\ length - n \in Nat
           /\ length - n <= (Stride - 1) * n
           /\ n > 0 => (Stride - 1) * (n - 1) <= length - n
<1>1. PICK c \in Nat \ {0} : c = Stride - 1 OBVIOUS
<1>2. PICK a \in Nat : a = length + Stride - 1 OBVIOUS
<1>3. PICK q \in Nat, r \in 0 .. Stride - 1 : q = a \div Stride /\ a = Stride * q + r
  <2>1. a \div Stride \in Nat /\ a % Stride \in 0 .. Stride - 1
        /\ a = Stride * (a \div Stride) + (a % Stride)
    BY Division
  <2>2. QED BY <2>1
<1>4. n = q BY <1>2, <1>3 DEF HeldCount
<1>5. PICK cq \in Nat : cq = c * q OBVIOUS
<1>6. Stride * q = cq + q
  <2>1. Stride = c + 1 BY <1>1
  <2>2. (c + 1) * q = c * q + q OBVIOUS
  <2>3. QED BY <1>5, <2>1, <2>2
<1>7. length + c = cq + q + r /\ r <= c BY <1>1, <1>2, <1>3, <1>6
<1>8. length - q <= cq BY <1>7
<1>9. q > 0 => c * (q - 1) = cq - c BY <1>5
<1>10. q > 0 => cq - c <= length - q BY <1>7
<1>11. length - q \in Nat
  <2>1. CASE q = 0 BY <2>1
  <2>2. CASE q > 0
    <3>1. c * (q - 1) \in Nat BY <2>2
    <3>2. QED BY <1>9, <1>10, <2>2, <3>1
  <2>3. QED BY <2>1, <2>2
<1>12. QED BY <1>1, <1>4, <1>5, <1>8, <1>9, <1>10, <1>11

\* Limits under which the points that are dropped never leave two held-out
\* ones next to each other: dense_evidence.py takes every fifth point out and
\* keeps at most 300 to fit and 100 held out.
Limits ==
    /\ Stride \in Nat \ {0, 1}
    /\ MaximumFit \in Nat \ {0, 1}
    /\ MaximumHeldOut \in Nat \ {0}
    /\ 2 * (MaximumHeldOut - 1) < MaximumFit

Kept(length, maximum) == IF length <= maximum THEN length ELSE maximum

\* Between two held-out places there is a fitted one, whatever the limits drop.
LEMMA PlaceBetween ==
    ASSUME Limits, MaximumHeldOut # 1, NEW length \in Nat, NEW n,
           n = HeldCount(length),
           NEW i \in 1 .. (Kept(n, MaximumHeldOut) - 1),
           NEW h, h = KeptPlace(i, n, MaximumHeldOut),
           NEW g, g = KeptPlace(i + 1, n, MaximumHeldOut)
    PROVE  /\ h \in 1 .. n /\ g \in 1 .. n
           /\ \E t \in 1 .. Kept(length - n, MaximumFit) :
                 FitPlace(KeptPlace(t, length - n, MaximumFit)) \in HeldPlace(h) .. HeldPlace(g)
<1>1. /\ Stride \in Nat \ {0, 1} /\ MaximumFit \in Nat \ {0, 1}
      /\ MaximumHeldOut \in Nat \ {0, 1} /\ 2 * (MaximumHeldOut - 1) < MaximumFit
  BY DEF Limits
<1>2. PICK c \in Nat \ {0} : c = Stride - 1 BY <1>1
<1>3. PICK m \in Nat : m = length - n BY <1>1, Counts
<1>4. n \in Nat /\ m <= c * n /\ (n > 0 => c * (n - 1) <= m) BY <1>1, <1>2, <1>3, Counts
<1>5. i \in Nat \ {0} /\ n > 1
  <2>1. CASE n <= MaximumHeldOut BY <1>4, <2>1 DEF Kept
  <2>2. CASE n > MaximumHeldOut BY <1>1, <1>4, <2>2 DEF Kept
  <2>3. QED BY <1>1, <1>4, <2>1, <2>2
<1>6. /\ h \in 1 .. n /\ g \in 1 .. n /\ h < g
      /\ m > MaximumFit => m <= (c * (g - h)) * (MaximumFit - 1)
  <2>1. CASE n <= MaximumHeldOut
    <3>1. h = i /\ g = i + 1 /\ i \in 1 .. n - 1 BY <2>1 DEF KeptPlace, Kept
    <3>2. g - h = 1 /\ h \in 1 .. n /\ g \in 1 .. n BY <1>4, <3>1
    <3>3. n <= MaximumFit - 1 BY <1>1, <1>4, <1>5, <2>1
    <3>4. n * c <= (MaximumFit - 1) * c
      <4>1. PICK M \in Nat : M = MaximumFit - 1 BY <1>1
      <4>2. n * c <= M * c BY <1>4, <3>3, <4>1, ProductsOrdered
      <4>3. QED BY <4>1, <4>2
    <3>5. m <= (c * 1) * (MaximumFit - 1)
      <4>1. PICK M \in Nat : M = MaximumFit - 1 BY <1>1
      <4>2. c * n = n * c /\ (c * 1) * M = M * c BY <1>4
      <4>3. QED BY <1>4, <3>4, <4>1, <4>2
    <3>6. h < g BY <1>4, <3>1
    <3>7. QED BY <3>2, <3>5, <3>6
  <2>2. CASE n > MaximumHeldOut
    <3>1. PICK K \in Nat \ {0}, M \in Nat \ {0}, L \in Nat :
             K = MaximumHeldOut - 1 /\ M = MaximumFit - 1 /\ L = n - 1
      <4>1. PICK K \in Nat \ {0} : K = MaximumHeldOut - 1 BY <1>1
      <4>2. PICK M \in Nat \ {0} : M = MaximumFit - 1 BY <1>1
      <4>3. PICK L \in Nat : L = n - 1 BY <1>4, <1>5
      <4>4. QED BY <4>1, <4>2, <4>3
    <3>2. i \in 1 .. (MaximumHeldOut - 1) BY <1>1, <1>4, <2>2 DEF Kept
    <3>3. h \in 1 .. n /\ g \in 1 .. n /\ L \div K <= g - h
      BY <1>1, <1>4, <2>2, <3>1, <3>2, KeptApart
    <3>4. PICK k \in Nat : k = L \div K BY <3>1, Division
    <3>5. 1 <= k
      <4>1. 1 * K <= L BY <1>1, <1>4, <2>2, <3>1
      <4>2. PICK one \in Nat : one = 1 OBVIOUS
      <4>3. one * K <= L BY <4>1, <4>2
      <4>4. one <= L \div K BY <4>3, QuotientReaches
      <4>5. QED BY <3>4, <4>2, <4>4
    <3>6. PICK e \in Nat : e = g - h /\ k <= e BY <3>3, <3>4, <3>5
    <3>7. L < k * K + K
      <4>1. PICK s \in Nat : s = k + 1 OBVIOUS
      <4>2. ~(s <= L \div K) BY <3>4, <4>1
      <4>3. ~(s * K <= L) BY <4>2, QuotientReaches
      <4>4. s * K = k * K + K BY <4>1
      <4>5. s * K \in Nat OBVIOUS
      <4>6. QED BY <4>3, <4>4, <4>5
    <3>8. n <= k * K + K
      <4>1. PICK p \in Nat : p = k * K OBVIOUS
      <4>2. QED BY <1>4, <3>1, <3>7, <4>1
    <3>9. K <= k * K
      <4>1. 1 * K <= k * K BY <3>5, ProductsOrdered
      <4>2. QED BY <4>1
    <3>10. n <= k * (2 * K)
      <4>1. PICK p \in Nat : p = k * K OBVIOUS
      <4>2. k * (2 * K) = p + p BY <4>1
      <4>3. QED BY <1>4, <3>8, <3>9, <4>1, <4>2
    <3>11. 2 * K <= M BY <1>1, <3>1
    <3>12. k * (2 * K) <= k * M
      <4>1. PICK d \in Nat : d = 2 * K OBVIOUS
      <4>2. d * k <= M * k BY <3>11, <4>1, ProductsOrdered
      <4>3. d * k = k * d /\ M * k = k * M OBVIOUS
      <4>4. QED BY <4>1, <4>2, <4>3
    <3>13. k * M <= e * M BY <3>6, ProductsOrdered
    <3>14. n <= e * M
      <4>1. PICK p \in Nat, q \in Nat, r \in Nat : p = k * (2 * K) /\ q = k * M /\ r = e * M
        <5>1. k * (2 * K) \in Nat /\ k * M \in Nat /\ e * M \in Nat OBVIOUS
        <5>2. QED BY <5>1
      <4>2. QED BY <1>4, <3>10, <3>12, <3>13, <4>1
    <3>15. m <= (c * e) * M
      <4>1. PICK r \in Nat : r = e * M OBVIOUS
      <4>2. n * c <= r * c BY <1>4, <3>14, <4>1, ProductsOrdered
      <4>3. (c * e) * M = r * c
        <5>1. (c * e) * M = c * (e * M) OBVIOUS
        <5>2. QED BY <4>1, <5>1
      <4>4. PICK x \in Nat : x = n * c BY <1>4
      <4>5. PICK y \in Nat : y = r * c OBVIOUS
      <4>6. c * n = x BY <1>4, <4>4
      <4>7. m <= y BY <1>4, <4>2, <4>4, <4>5, <4>6
      <4>8. QED BY <4>3, <4>5, <4>7
    <3>16. h < g BY <1>4, <3>3, <3>5, <3>6
    <3>17. QED BY <3>1, <3>3, <3>6, <3>15, <3>16
  <2>3. QED BY <1>1, <1>4, <2>1, <2>2
<1>7. PICK u \in Nat, v \in Nat : u = c * (h - 1) /\ v = c * (g - 1)
  <2>1. h - 1 \in Nat /\ g - 1 \in Nat BY <1>6
  <2>2. c * (h - 1) \in Nat /\ c * (g - 1) \in Nat BY <2>1
  <2>3. QED BY <2>2
<1>8. v - u = c * (g - h) BY <1>6, <1>7
<1>9. u < v
  <2>1. PICK e \in Nat \ {0} : e = g - h BY <1>6
  <2>2. 1 * c <= e * c BY <2>1, ProductsOrdered
  <2>3. QED BY <1>7, <1>8, <2>1, <2>2
<1>10. v <= m
  <2>1. PICK x \in Nat, y \in Nat : x = g - 1 /\ y = n - 1 /\ x <= y
    <3>1. PICK b \in Nat, k \in Nat : b = g /\ k = n /\ 1 <= b /\ b <= k BY <1>4, <1>6
    <3>2. QED BY ONLY <3>1
  <2>2. x * c <= y * c BY <2>1, ProductsOrdered
  <2>3. x * c = c * x /\ y * c = c * y OBVIOUS
  <2>4. QED BY <1>4, <1>5, <1>7, <2>1, <2>2, <2>3
<1>11. m > MaximumFit => m - 1 <= (v - u) * (MaximumFit - 1)
  <2>1. PICK M \in Nat, e \in Nat : M = MaximumFit - 1 /\ e = v - u BY <1>1, <1>9
  <2>2. m > MaximumFit => m <= e * M BY <1>6, <1>8, <2>1
  <2>3. e * M \in Nat OBVIOUS
  <2>4. QED BY <2>1, <2>2, <2>3
<1>12. PICK t \in 1 .. (IF m <= MaximumFit THEN m ELSE MaximumFit) :
          KeptPlace(t, m, MaximumFit) \in (u + 1) .. v
  BY <1>1, <1>3, <1>9, <1>10, <1>11, KeptInStretch
<1>13. PICK f \in Nat : f = KeptPlace(t, m, MaximumFit) /\ u + 1 <= f /\ f <= v BY <1>12
<1>14. FitPlace(f) \in HeldPlace(h) .. HeldPlace(g)
  <2>1. h \in Nat \ {0} /\ g \in Nat \ {0} BY <1>6
  <2>2. (Stride - 1) * (h - 1) + 1 <= f /\ f <= (Stride - 1) * (g - 1) BY <1>2, <1>7, <1>13
  <2>3. QED BY <1>1, <1>6, <2>1, <2>2, StretchBetween
<1>15. QED BY <1>3, <1>6, <1>12, <1>13, <1>14 DEF Kept

\* What is kept, held out and fitted, place by place.
LEMMA KeptPlaces ==
    ASSUME NEW S, NEW s \in Seq(S), NEW length \in Nat, length = Len(s),
           NEW maximum \in Nat \ {0, 1}
    PROVE  /\ Len(Bounded(s, maximum)) = Kept(length, maximum)
           /\ Kept(length, maximum) \in Nat
           /\ \A i \in 1 .. Kept(length, maximum) :
                 Bounded(s, maximum)[i] = s[KeptPlace(i, length, maximum)]
<1>1. CASE length <= maximum BY <1>1 DEF Bounded, Kept, KeptPlace
<1>2. CASE length > maximum
  <2>1. PICK kept : kept = [i \in 1 .. maximum |-> s[KeptPlace(i, length, maximum)]] OBVIOUS
  <2>2. Bounded(s, maximum) = kept BY <1>2, <2>1 DEF Bounded, KeptPlace
  <2>3. kept = [i \in 1 .. maximum |-> kept[i]] BY <2>1
  <2>4. Len(kept) = maximum BY <2>3, Listing
  <2>5. QED BY <1>2, <2>1, <2>2, <2>4 DEF Kept
<1>3. QED BY <1>1, <1>2

LEMMA HeldPlaces ==
    ASSUME Stride \in Nat \ {0, 1}, NEW S, NEW s \in Seq(S), NEW length \in Nat, length = Len(s),
           NEW n, n = HeldCount(length)
    PROVE  /\ n \in Nat /\ Len(HeldOut(s)) = n
           /\ \A h \in 1 .. n : HeldPlace(h) \in 1 .. length /\ HeldOut(s)[h] = s[HeldPlace(h)]
<1>1. n \in Nat /\ length - n \in Nat /\ (n > 0 => (Stride - 1) * (n - 1) <= length - n)
  BY Counts
<1>2. PICK held : held = [h \in 1 .. n |-> s[HeldPlace(h)]] OBVIOUS
<1>3. HeldOut(s) = held BY <1>2 DEF HeldOut, HeldPlace, HeldCount
<1>4. held = [h \in 1 .. n |-> held[h]] BY <1>2
<1>5. Len(held) = n BY <1>1, <1>4, Listing
<1>6. ASSUME NEW h \in 1 .. n PROVE HeldPlace(h) \in 1 .. length
  <2>1. h \in Nat \ {0} /\ h <= n /\ n \in Nat BY <1>1
  <2>8. PICK a \in Nat : a = h - 1 BY ONLY <2>1
  <2>9. PICK b \in Nat : b = n - 1 BY ONLY <2>1
  <2>10. a <= b BY <2>1, <2>8, <2>9
  <2>2. PICK p \in Nat, q \in Nat : p = a * Stride /\ q = b * Stride OBVIOUS
  <2>3. p <= q BY <2>10, <2>2, ProductsOrdered
  <2>4. (Stride - 1) * b = q - b BY <2>2
  <2>5. q + 1 <= length BY <1>1, <2>1, <2>4, <2>9
  <2>6. HeldPlace(h) = p + 1 BY <2>8, <2>2 DEF HeldPlace
  <2>7. QED BY <2>2, <2>3, <2>5, <2>6
<1>7. QED BY <1>1, <1>2, <1>3, <1>5, <1>6

LEMMA FitPlaces ==
    ASSUME Stride \in Nat \ {0, 1}, NEW S, NEW s \in Seq(S), NEW length \in Nat, length = Len(s),
           NEW n, n = HeldCount(length)
    PROVE  /\ length - n \in Nat /\ Len(Fitted(s)) = length - n
           /\ \A f \in 1 .. (length - n) :
                 FitPlace(f) \in 1 .. length /\ Fitted(s)[f] = s[FitPlace(f)]
<1>1. n \in Nat /\ length - n \in Nat BY Counts
<1>2. Len(HeldOut(s)) = n BY HeldPlaces
<1>3. PICK m \in Nat : m = length - n BY <1>1
<1>4. PICK fit : fit = [f \in 1 .. m |-> s[FitPlace(f)]] OBVIOUS
<1>5. Fitted(s) = fit BY <1>2, <1>3, <1>4 DEF Fitted, FitPlace
<1>6. fit = [f \in 1 .. m |-> fit[f]] BY <1>4
<1>7. Len(fit) = m BY <1>6, Listing
<1>8. ASSUME NEW f \in 1 .. m PROVE FitPlace(f) \in 1 .. length
  <2>1. PICK k : k = f + (f - 1) \div (Stride - 1) + 1 OBVIOUS
  <2>2. k \in 1 .. length
    <3>1. f \in 1 .. (length - n) BY <1>3
    <3>2. QED BY <1>1, <2>1, <3>1, FittedPlace DEF HeldCount
  <2>3. QED BY <2>1, <2>2 DEF FitPlace
<1>9. QED BY <1>3, <1>4, <1>5, <1>7, <1>8

\* One of some points lies from one to another in a list.
LiesBetween(s, fit, p, q) ==
    \E a, b, e \in 1 .. Len(s) :
       /\ p = s[a] /\ q = s[b] /\ a <= e /\ e <= b
       /\ \E t \in 1 .. Len(fit) : fit[t] = s[e]

\* However many points there are and whatever the limits drop, between a point
\* that is held out and the next one there is one that is fitted.
LEMMA EvidenceBetween ==
    ASSUME Limits, NEW S, NEW s \in Seq(S),
           NEW fit, fit = Bounded(Fitted(s), MaximumFit),
           NEW held, held = Bounded(HeldOut(s), MaximumHeldOut), Len(held) >= 2,
           NEW i \in 1 .. (Len(held) - 1)
    PROVE  LiesBetween(s, fit, held[i], held[i + 1])
<1>1. Stride \in Nat \ {0, 1} /\ MaximumFit \in Nat \ {0, 1} /\ MaximumHeldOut \in Nat \ {0}
  BY DEF Limits
<1>2. PICK length \in Nat : length = Len(s) BY LenProperties
<1>3. PICK n : n = HeldCount(length) OBVIOUS
<1>4. /\ n \in Nat /\ Len(HeldOut(s)) = n
      /\ \A h \in 1 .. n : HeldPlace(h) \in 1 .. length /\ HeldOut(s)[h] = s[HeldPlace(h)]
  BY <1>1, <1>2, <1>3, HeldPlaces
<1>5. PICK m \in Nat :
         /\ m = length - n /\ Len(Fitted(s)) = m
         /\ \A f \in 1 .. m : FitPlace(f) \in 1 .. length /\ Fitted(s)[f] = s[FitPlace(f)]
  <2>1. /\ length - n \in Nat /\ Len(Fitted(s)) = length - n
        /\ \A f \in 1 .. (length - n) :
              FitPlace(f) \in 1 .. length /\ Fitted(s)[f] = s[FitPlace(f)]
    BY <1>1, <1>2, <1>3, FitPlaces
  <2>2. PICK m \in Nat : m = length - n BY <2>1
  <2>3. QED BY <2>1, <2>2
<1>6. PICK heldOut, fitted : heldOut = HeldOut(s) /\ fitted = Fitted(s) OBVIOUS
<1>7. PICK H : heldOut \in Seq(H)
  <2>1. PICK f : f = [h \in 1 .. n |-> s[HeldPlace(h)]] OBVIOUS
  <2>2. heldOut = f BY <1>2, <1>3, <1>6, <2>1 DEF HeldOut, HeldPlace, HeldCount
  <2>3. PICK H : H = {f[h] : h \in 1 .. n} OBVIOUS
  <2>4. f \in [1 .. n -> H] BY <2>1, <2>3
  <2>5. f \in Seq(H) BY <1>4, <2>4, SeqDef
  <2>6. QED BY <2>2, <2>5
<1>8. PICK F : fitted \in Seq(F)
  <2>1. PICK f : f = [k \in 1 .. m |-> s[FitPlace(k)]] OBVIOUS
  <2>2. fitted = f BY <1>2, <1>4, <1>5, <1>6, <2>1 DEF Fitted, FitPlace
  <2>3. PICK F : F = {f[k] : k \in 1 .. m} OBVIOUS
  <2>4. f \in [1 .. m -> F] BY <2>1, <2>3
  <2>5. f \in Seq(F) BY <1>5, <2>4, SeqDef
  <2>6. QED BY <2>2, <2>5
<1>9. MaximumHeldOut # 1 BY <1>6, <1>7, BoundedByOne, LenProperties
<1>10. /\ Len(held) = Kept(n, MaximumHeldOut)
       /\ \A k \in 1 .. Kept(n, MaximumHeldOut) :
             held[k] = heldOut[KeptPlace(k, n, MaximumHeldOut)]
  <2>1. PICK maximum \in Nat \ {0, 1} : maximum = MaximumHeldOut BY <1>1, <1>9
  <2>2. /\ Len(Bounded(heldOut, maximum)) = Kept(n, maximum)
        /\ \A k \in 1 .. Kept(n, maximum) :
              Bounded(heldOut, maximum)[k] = heldOut[KeptPlace(k, n, maximum)]
    BY <1>4, <1>6, <1>7, KeptPlaces
  <2>3. held = Bounded(heldOut, maximum) BY <1>6, <2>1
  <2>4. QED BY <2>1, <2>2, <2>3
<1>11. /\ Len(fit) = Kept(m, MaximumFit)
       /\ \A k \in 1 .. Kept(m, MaximumFit) : fit[k] = fitted[KeptPlace(k, m, MaximumFit)]
  BY <1>1, <1>5, <1>6, <1>8, KeptPlaces
<1>12. Kept(n, MaximumHeldOut) \in Nat BY <1>1, <1>4 DEF Kept
<1>13. PICK h, g : /\ h = KeptPlace(i, n, MaximumHeldOut)
                   /\ g = KeptPlace(i + 1, n, MaximumHeldOut)
  OBVIOUS
<1>14. i \in 1 .. (Kept(n, MaximumHeldOut) - 1) BY <1>10
<1>15. /\ h \in 1 .. n /\ g \in 1 .. n
       /\ \E t \in 1 .. Kept(m, MaximumFit) :
             FitPlace(KeptPlace(t, m, MaximumFit)) \in HeldPlace(h) .. HeldPlace(g)
  BY <1>3, <1>5, <1>9, <1>13, <1>14, PlaceBetween
<1>16. held[i] = s[HeldPlace(h)] /\ held[i + 1] = s[HeldPlace(g)]
  <2>1. i \in 1 .. Kept(n, MaximumHeldOut) /\ i + 1 \in 1 .. Kept(n, MaximumHeldOut)
    BY <1>12, <1>14
  <2>2. QED BY <1>4, <1>6, <1>10, <1>13, <1>15, <2>1
<1>17. PICK t \in 1 .. Kept(m, MaximumFit) :
          FitPlace(KeptPlace(t, m, MaximumFit)) \in HeldPlace(h) .. HeldPlace(g)
  BY <1>15
<1>18. PICK f : f = KeptPlace(t, m, MaximumFit) OBVIOUS
<1>19. f \in 1 .. m
  <2>1. CASE m <= MaximumFit BY <1>1, <1>18, <2>1 DEF Kept, KeptPlace
  <2>2. CASE m > MaximumFit
    <3>1. t \in 1 .. MaximumFit BY <1>1, <2>2 DEF Kept
    <3>2. f = ((t - 1) * (m - 1)) \div (MaximumFit - 1) + 1 BY <1>1, <1>18, <2>2 DEF KeptPlace
    <3>3. QED BY <1>1, <2>2, <3>1, <3>2, PlacesSpread
  <2>3. QED BY <1>1, <2>1, <2>2
<1>20. fit[t] = s[FitPlace(f)] /\ FitPlace(f) \in 1 .. length
  BY <1>5, <1>6, <1>11, <1>18, <1>19
<1>21. HeldPlace(h) \in 1 .. length /\ HeldPlace(g) \in 1 .. length BY <1>4, <1>15
<1>22. PICK a, b, e \in 1 .. length : a = HeldPlace(h) /\ b = HeldPlace(g) /\ e = FitPlace(f)
  BY <1>20, <1>21
<1>23. a <= e /\ e <= b BY <1>17, <1>18, <1>22
<1>24. QED BY <1>2, <1>11, <1>16, <1>20, <1>22, <1>23 DEF LiesBetween

-----------------------------------------------------------------------------
(* How a cycle is judged.                                                  *)

Channels ==
    {c \in [corners : Int, retained : Int, points : Seq(Pairs)] : IsInjective(c.points)}
Joins ==
    [matches : Int, inliers : Int, channels : Seq(Channels), missed : SUBSET Pairs]

LEMMA DenseIs ==
    ASSUME NEW c \in Channels
    PROVE  /\ Dense(c) \in Seq(Pairs) /\ IsInjective(Dense(c))
           /\ Dense(Turned(c)) \in Seq(Pairs)
           /\ Len(Dense(Turned(c))) = Len(Dense(c))
           /\ Dense(Turned(c)) = Reverse(Dense(c))
<1>1. c.points \in Seq(Pairs) /\ IsInjective(c.points) BY DEF Channels
<1>2. /\ Turned(c).corners = c.corners /\ Turned(c).retained = c.retained
      /\ Turned(c).points = Reverse(c.points)
  BY DEF Turned, Channels
<1>3. CASE c.corners < MinimumCorners \/ c.retained < MinimumRetained
  <2>1. Dense(c) = <<>> /\ Dense(Turned(c)) = <<>> BY <1>2, <1>3 DEF Dense
  <2>2. Reverse(<<>>) = <<>> BY DEF Reverse
  <2>3. <<>> \in Seq(Pairs) /\ IsInjective(<<>>) BY DEF IsInjective
  <2>4. QED BY <2>1, <2>2, <2>3
<1>4. CASE ~(c.corners < MinimumCorners \/ c.retained < MinimumRetained)
  <2>1. Dense(c) = c.points /\ Dense(Turned(c)) = Reverse(c.points) BY <1>2, <1>4 DEF Dense
  <2>2. QED BY <1>1, <2>1, BackwardsToo
<1>5. QED BY <1>3, <1>4

\* The best channel of a join has the most points, and is the best one too when
\* the points of all of them are found in the opposite order.
LEMMA BestOfJoin ==
    ASSUME NEW join \in Joins
    PROVE  /\ Best(join) \in Seq(Pairs) /\ IsInjective(Best(join))
           /\ \A c \in ToSet(join.channels) : Len(Dense(c)) <= Len(Best(join))
           /\ Len(Best(Reversed(join))) = Len(Best(join))
           /\ Best(Reversed(join)) = Reverse(Best(join))
<1>1. PICK n \in Nat : n = Len(join.channels) /\ DOMAIN join.channels = 1 .. n
  BY LenProperties DEF Joins
<1>2. \A k \in 1 .. n : join.channels[k] \in Channels BY <1>1, ElementOfSeq DEF Joins
<1>3. PICK back : back = Reversed(join) OBVIOUS
<1>4. back.channels = [k \in 1 .. n |-> Turned(join.channels[k])]
  <2>1. PICK turned : turned = [c \in DOMAIN join.channels |-> Turned(join.channels[c])]
    OBVIOUS
  <2>2. back = [join EXCEPT !.channels = turned] BY <1>3, <2>1 DEF Reversed
  <2>3. back.channels = turned BY <2>2 DEF Joins
  <2>4. QED BY <1>1, <2>1, <2>3
<1>5. DOMAIN back.channels = 1 .. n /\ \A k \in 1 .. n : back.channels[k] = Turned(join.channels[k])
  BY <1>4
<1>6. PICK a : a = [k \in 1 .. n |-> Dense(join.channels[k])] OBVIOUS
<1>7. PICK b : b = [k \in 1 .. n |-> Dense(back.channels[k])] OBVIOUS
<1>8. \A k \in 1 .. n : /\ a[k] = Dense(join.channels[k]) /\ b[k] = Dense(back.channels[k])
                        /\ a[k] \in Seq(Pairs) /\ b[k] \in Seq(Pairs)
                        /\ IsInjective(a[k])
                        /\ Len(b[k]) = Len(a[k]) /\ b[k] = Reverse(a[k])
  BY <1>2, <1>5, <1>6, <1>7, DenseIs
<1>9. Best(join) \in Seq(Pairs) /\ IsLongest(n, a, Best(join))
  BY <1>1, <1>6, <1>8, BestIs
<1>10. Best(back) \in Seq(Pairs) /\ IsLongest(n, b, Best(back))
  BY <1>5, <1>7, <1>8, BestIs
<1>11. Len(Best(back)) = Len(Best(join)) /\ Best(back) = Reverse(Best(join))
  <2>1. PICK S : S = Pairs OBVIOUS
  <2>2. PICK x, y : x = Best(join) /\ y = Best(back) OBVIOUS
  <2>3. IsLongest(n, a, x) /\ IsLongest(n, b, y) BY <1>9, <1>10, <2>2
  <2>4. \A k \in 1 .. n : /\ a[k] \in Seq(S) /\ b[k] \in Seq(S)
                          /\ Len(b[k]) = Len(a[k]) /\ b[k] = Reverse(a[k])
    BY <1>8, <2>1
  <2>5. Len(y) = Len(x) /\ y = Reverse(x) BY ONLY <2>3, <2>4, n \in Nat, LongestAlike
  <2>6. QED BY <2>2, <2>5
<1>12. IsInjective(Best(join))
  <2>1. IsInjective(<<>>) BY DEF IsInjective
  <2>2. QED BY <1>8, <1>9, <2>1 DEF IsLongest
<1>13. \A k \in 1 .. n : Len(a[k]) <= Len(Best(join))
  <2>1. \A k \in 1 .. n : Len(a[k]) \in Nat BY <1>8, LenProperties
  <2>2. Len(Best(join)) \in Nat BY <1>9, LenProperties
  <2>3. QED BY <1>9, <2>1, <2>2 DEF IsLongest
<1>14. \A c \in ToSet(join.channels) : \E k \in 1 .. n : c = join.channels[k]
  BY <1>1 DEF ToSet
<1>15. QED BY <1>3, <1>8, <1>9, <1>11, <1>12, <1>13, <1>14

LEMMA RegisteredAlike ==
    ASSUME TileSize \in Nat \ {0}, NEW join \in Joins
    PROVE  Registered(Reversed(join)) = Registered(join)
<1>1. PICK back : back = Reversed(join) OBVIOUS
<1>2. back.matches = join.matches /\ back.inliers = join.inliers BY <1>1 DEF Reversed, Joins
<1>3. PICK points \in Seq(Pairs) : points = Best(join) /\ IsInjective(points) BY BestOfJoin
<1>4. Len(Best(back)) = Len(points) /\ Best(back) = Reverse(points) BY <1>1, <1>3, BestOfJoin
<1>5. Ordered(Best(back)) = Ordered(points) BY <1>3, <1>4, SameOrdered
<1>6. Split(Best(back)) = Split(points) BY <1>4, <1>5 DEF Split
<1>7. QED BY <1>1, <1>2, <1>3, <1>4, <1>6 DEF Registered

\* A report does not depend on the order in which points are found.
LEMMA ReportedAlike ==
    ASSUME TileSize \in Nat \ {0}, NEW joins \in Seq(Joins), NEW solver
    PROVE  Reported([k \in DOMAIN joins |-> Reversed(joins[k])], solver) = Reported(joins, solver)
<1>1. PICK n \in Nat : DOMAIN joins = 1 .. n /\ \A k \in 1 .. n : joins[k] \in Joins
  BY LenProperties, ElementOfSeq
<1>2. PICK back : back = [k \in DOMAIN joins |-> Reversed(joins[k])] OBVIOUS
<1>3. DOMAIN back = DOMAIN joins BY <1>2
<1>4. ASSUME NEW k \in DOMAIN joins
      PROVE  Registered(back[k]) = Registered(joins[k]) /\ back[k].missed = joins[k].missed
  <2>1. joins[k] \in Joins /\ back[k] = Reversed(joins[k]) BY <1>1, <1>2
  <2>2. Reversed(joins[k]).missed = joins[k].missed BY <2>1 DEF Reversed, Joins
  <2>3. QED BY <2>1, <2>2, RegisteredAlike
<1>5. [k \in DOMAIN back |-> Registered(back[k])] = [k \in DOMAIN joins |-> Registered(joins[k])]
  BY <1>3, <1>4
<1>6. Evidence(back) = Evidence(joins) BY <1>3, <1>4, <1>5 DEF Evidence
<1>7. ASSUME NEW e PROVE Solved(e, back, solver) = Solved(e, joins, solver)
  <2>1. \A k \in DOMAIN joins : Passed(e[k], back[k]) <=> Passed(e[k], joins[k])
    BY <1>4 DEF Passed
  <2>2. QED BY <1>3, <2>1 DEF Solved
<1>8. Reported(back, solver) = Reported(joins, solver) BY <1>6, <1>7 DEF Reported
<1>9. QED BY <1>2, <1>8

\* A point is at its place, at no other.
LEMMA PlaceOf ==
    ASSUME NEW S, NEW s \in Seq(S), IsInjective(s), NEW i \in 1 .. Len(s)
    PROVE  PlaceIn(s, s[i]) = i
<1>1. DOMAIN s = 1 .. Len(s) BY LenProperties
<1>2. \A k \in DOMAIN s : s[k] = s[i] => k = i BY <1>1 DEF IsInjective
<1>3. PlaceIn(s, s[i]) \in DOMAIN s /\ s[PlaceIn(s, s[i])] = s[i] BY <1>1 DEF PlaceIn
<1>4. QED BY <1>2, <1>3

LEMMA JoinIsJudged ==
    ASSUME TileSize \in Nat \ {0}, Limits, NEW join \in Joins, ~Registered(join).refused,
           NEW fit, fit = Registered(join).fit, NEW held, held = Registered(join).held,
           NEW ordered, ordered = Ordered(Best(join))
    PROVE  /\ FairlyDivided(ordered)
           /\ \A i \in 1 .. (Len(held) - 1) :
                 Between(ordered, fit, held[i], held[i + 1]) # {}
           /\ \A c \in ToSet(join.channels) : Len(Dense(c)) <= Len(ordered)
<1>1. PICK points \in Seq(Pairs) : points = Best(join) /\ IsInjective(points) BY BestOfJoin
<1>2. PICK S : S = ToSet(points) OBVIOUS
<1>3. /\ ordered \in Seq(S) /\ Len(ordered) = Len(points) /\ IsInjective(ordered)
  BY <1>1, <1>2, OrderedIs
<1>4. Registered(join) = Divided(ordered) /\ ~Divided(ordered).refused
  BY <1>1 DEF Registered, Split, Refused
<1>5. /\ held = Bounded(HeldOut(ordered), MaximumHeldOut) /\ ~(Len(held) < 2)
      /\ fit = Bounded(Fitted(ordered), MaximumFit)
  BY <1>4 DEF Divided, Refused
<1>6. FairlyDivided(ordered) BY <1>3, EvidenceIsDivided DEF Limits
<1>7. \A c \in ToSet(join.channels) : Len(Dense(c)) <= Len(ordered) BY <1>1, <1>3, BestOfJoin
<1>8. Len(held) \in Nat /\ DOMAIN fit = 1 .. Len(fit)
  <2>1. PICK F : HeldOut(ordered) \in Seq(F) /\ IsInjective(HeldOut(ordered))
                 /\ Fitted(ordered) \in Seq(F) /\ IsInjective(Fitted(ordered))
    BY <1>3, HeldOutIs, FittedIs DEF Limits
  <2>2. MaximumHeldOut # 1 BY <1>5, <2>1, BoundedByOne
  <2>3. held \in Seq(F) /\ fit \in Seq(F) BY <1>5, <2>1, <2>2, BoundedIs DEF Limits
  <2>4. QED BY <2>3, LenProperties
<1>9. ASSUME NEW i \in 1 .. (Len(held) - 1)
      PROVE  Between(ordered, fit, held[i], held[i + 1]) # {}
  <2>1. Len(held) >= 2 BY <1>5, <1>8
  <2>2. PICK a \in 1 .. Len(ordered), b \in 1 .. Len(ordered), e \in 1 .. Len(ordered) :
           /\ held[i] = ordered[a] /\ held[i + 1] = ordered[b]
           /\ a <= e /\ e <= b
           /\ \E t \in 1 .. Len(fit) : fit[t] = ordered[e]
    <3>1. /\ ordered \in Seq(S) /\ i \in 1 .. (Len(held) - 1)
          /\ fit = Bounded(Fitted(ordered), MaximumFit)
          /\ held = Bounded(HeldOut(ordered), MaximumHeldOut)
      BY <1>3, <1>5
    <3>2. LiesBetween(ordered, fit, held[i], held[i + 1])
      BY Limits, <2>1, <3>1, EvidenceBetween
    <3>3. QED BY ONLY <3>2 DEF LiesBetween
  <2>3. ordered[e] \in ToSet(fit) BY <1>8, <2>2 DEF ToSet
  <2>4. /\ PlaceIn(ordered, ordered[a]) = a
        /\ PlaceIn(ordered, ordered[b]) = b
        /\ PlaceIn(ordered, ordered[e]) = e
    BY <1>3, PlaceOf
  <2>5. Len(ordered) \in Nat BY <1>3, LenProperties
  <2>6. e \in a .. b BY <2>2, <2>5
  <2>7. QED BY <2>2, <2>3, <2>4, <2>6 DEF Between
<1>10. QED BY <1>6, <1>7, <1>9

\* A cycle of joins (dense_evidence.py, projective.py, offline_reconstruction.py),
\* however many joins, channels and points there are: it is judged by what no
\* fit has seen, with fitted points between any two held-out ones, and whatever
\* the order in which the points were found.
THEOREM CyclesAreJudged ==
    ASSUME TileSize \in Nat \ {0}, Limits, MinimumHeldOut \in Nat,
           NEW joins \in Seq(Joins), NEW solver
    PROVE  Judged(joins, solver)
<1>1. Len(joins) \in Nat /\ DOMAIN joins = 1 .. Len(joins) BY LenProperties
<1>2. \A k \in DOMAIN joins : joins[k] \in Joins BY <1>1, ElementOfSeq
<1>3. PICK report, evidence : report = Reported(joins, solver) /\ evidence = Evidence(joins)
  OBVIOUS
<1>4. report = Reported([k \in DOMAIN joins |-> Reversed(joins[k])], solver)
  BY <1>3, ReportedAlike
<1>5. \A k \in DOMAIN joins : Best(joins[k]) \in Seq(Pairs) /\ Arranged(Best(joins[k]))
  BY <1>2, BestOfJoin, OrderedIs DEF Arranged
<1>6. ASSUME ~evidence.refused, NEW k \in DOMAIN joins,
             NEW points, points = Ordered(Best(joins[k])),
             NEW fit, fit = evidence.of[k].fit, NEW held, held = evidence.of[k].held
      PROVE  /\ FairlyDivided(points)
             /\ \A i \in 1 .. (Len(held) - 1) :
                   Between(points, fit, held[i], held[i + 1]) # {}
             /\ \A c \in ToSet(joins[k].channels) : Len(Dense(c)) <= Len(points)
  <2>1. ~Registered(joins[k]).refused /\ evidence.of[k] = Registered(joins[k])
    BY <1>3, <1>6 DEF Evidence, Refused
  <2>2. joins[k] \in Joins BY <1>2
  <2>3. fit = Registered(joins[k]).fit /\ held = Registered(joins[k]).held BY <1>6, <2>1
  <2>4. QED BY <1>6, <2>1, <2>2, <2>3, JoinIsJudged
<1>7. ApprovedByHeldOut(joins, solver) BY <1>1, <1>5, ApprovalIsHeldOut DEF Limits
<1>8. ASSUME ~report.refused, ~report.production_approved
      PROVE  ~solver.settled \/ ~solver.conditioned \/ report.passed_join_count < Len(joins)
  <2>1. PICK solved : solved = Solved(evidence.of, joins, solver) OBVIOUS
  <2>2. /\ solved.diagnostic /\ report.production_approved = solved.approved
        /\ report.passed_join_count = Cardinality(solved.passed)
    BY <1>3, <1>8, <2>1 DEF Reported, Refused
  <2>3. solved.passed \in SUBSET DOMAIN joins BY <2>1 DEF Solved
  <2>4. ~solver.settled \/ ~solver.conditioned \/ solved.passed # DOMAIN joins
    BY <1>8, <2>1, <2>2 DEF Solved
  <2>5. IsFiniteSet(DOMAIN joins) /\ Cardinality(DOMAIN joins) = Len(joins)
    BY <1>1, FS_Interval
  <2>6. solved.passed # DOMAIN joins => Cardinality(solved.passed) < Len(joins)
    <3>1. PICK T : T = solved.passed OBVIOUS
    <3>2. IsFiniteSet(T) /\ Cardinality(T) <= Len(joins)
          /\ (Cardinality(T) = Len(joins) => T = DOMAIN joins)
      BY <2>3, <2>5, <3>1, FS_Subset
    <3>3. Cardinality(T) \in Nat BY <3>2, FS_CardinalityType
    <3>4. QED BY <1>1, <3>1, <3>2, <3>3
  <2>7. QED BY <2>2, <2>4, <2>6
<1>9. QED BY <1>3, <1>4, <1>5, <1>6, <1>7, <1>8 DEF Judged

-----------------------------------------------------------------------------
(* Detections in another order.                                            *)

InKeyOrder(order, key, n) ==
    /\ order \in [1 .. n -> 1 .. n]
    /\ \A k, l \in 1 .. n : k < l => order[k] # order[l] /\ Earlier(key, order[k], order[l])
    /\ \A i \in 1 .. n : \E k \in 1 .. n : order[k] = i

\* Where each item of a list has gone to in another one.
Rearranged(p, a, b) ==
    /\ p \in [1 .. Len(a) -> 1 .. Len(b)]
    /\ \A i, j \in 1 .. Len(a) : i # j => p[i] # p[j]
    /\ \A i \in 1 .. Len(a) : b[p[i]] = a[i]

\* Sorted, a list has no later key at a place than one with the same items.
LEMMA KeysNotLater ==
    ASSUME NEW n \in Nat, NEW w \in Nat, NEW key, NEW other,
           Keyed(key, 1 .. n, w), Keyed(other, 1 .. n, w),
           NEW order, NEW second, InKeyOrder(order, key, n), InKeyOrder(second, other, n),
           NEW p \in [1 .. n -> 1 .. n], \A i, j \in 1 .. n : i # j => p[i] # p[j],
           \A i \in 1 .. n : other[p[i]] = key[i], NEW m \in 1 .. n
    PROVE  ~Before(other[second[m]], key[order[m]])
<1> SUFFICES ASSUME Before(other[second[m]], key[order[m]]) PROVE FALSE
  OBVIOUS
<1> DEFINE a(l) == key[order[l]]
           b(l) == other[second[l]]
<1>1. ASSUME NEW l \in 1 .. n
      PROVE  /\ a(l) \in Seq(Int) /\ Len(a(l)) = w /\ b(l) \in Seq(Int) /\ Len(b(l)) = w
             /\ order[l] \in 1 .. n /\ second[l] \in 1 .. n
  BY DEF InKeyOrder, Keyed
<1>2. ASSUME NEW k \in 1 .. n, NEW l \in 1 .. n, k < l
      PROVE  /\ Before(a(k), a(l)) \/ a(k) = a(l)
             /\ Before(b(k), b(l)) \/ b(k) = b(l)
  BY <1>2 DEF InKeyOrder, Earlier
<1> HIDE DEF a, b
<1>3. Before(b(m), a(m)) BY DEF a, b
\* What the other list has up to there has its place before it in this one.
<1>4. ASSUME NEW l \in 1 .. m PROVE Before(b(l), a(m))
  <2>1. l \in 1 .. n OBVIOUS
  <2>2. CASE l = m BY <1>3, <2>2
  <2>3. CASE l < m
    <3>1. Before(b(l), b(m)) \/ b(l) = b(m) BY <1>2, <2>1, <2>3
    <3>2. Before(b(l), b(m)) /\ Before(b(m), a(m)) => Before(b(l), a(m))
      BY <1>1, <2>1, TuplesInOrder
    <3>3. QED BY <1>3, <3>1, <3>2
  <2>4. QED BY <2>2, <2>3
<1>5. ASSUME NEW l \in 1 .. m
      PROVE  \E r \in 1 .. m - 1 : p[order[r]] = second[l]
  <2>1. l \in 1 .. n /\ second[l] \in 1 .. n BY <1>1
  <2>2. PICK i \in 1 .. n : p[i] = second[l]
    <3>1. PICK places : places = 1 .. n OBVIOUS
    <3>2. IsFiniteSet(places) BY <3>1, FS_Interval
    <3>3. p \in Injection(places, places) BY <3>1 DEF Injection, IsInjective
    <3>4. p \in Surjection(places, places) BY <3>2, <3>3, FS_Injection
    <3>5. QED BY <2>1, <3>1, <3>4 DEF Surjection
  <2>3. PICK r \in 1 .. n : order[r] = i BY DEF InKeyOrder
  <2>4. a(r) = b(l) BY <2>2, <2>3 DEF a, b
  <2>5. Before(a(r), a(m)) BY <1>4, <2>4
  <2>6. r < m
    <3>1. r # m
      <4>1. ~Before(a(m), a(m)) BY <1>1, TuplesInOrder
      <4>2. QED BY <2>5, <4>1
    <3>2. ~(m < r)
      <4>1. SUFFICES ASSUME m < r PROVE FALSE OBVIOUS
      <4>2. Before(a(m), a(r)) \/ a(m) = a(r) BY <1>2, <4>1
      <4>3. ~Before(a(m), a(m)) BY <1>1, TuplesInOrder
      <4>4. Before(a(m), a(r)) /\ Before(a(r), a(m)) => Before(a(m), a(m))
        BY <1>1, TuplesInOrder
      <4>5. QED BY <2>5, <4>2, <4>3, <4>4
    <3>3. QED BY <3>1, <3>2
  <2>7. r \in 1 .. m - 1 BY <2>6
  <2>8. QED BY <2>2, <2>3, <2>7
<1>6. PICK f : f = [l \in 1 .. m |-> CHOOSE r \in 1 .. m - 1 : p[order[r]] = second[l]]
  OBVIOUS
<1>7. ASSUME NEW l \in 1 .. m PROVE f[l] \in 1 .. m - 1 /\ p[order[f[l]]] = second[l]
  BY <1>5, <1>6
<1>8. f \in [1 .. m -> 1 .. m - 1]
  <2>1. f = [l \in 1 .. m |-> f[l]] BY <1>6
  <2>2. QED BY <1>7, <2>1
<1>9. ASSUME NEW i \in 1 .. m, NEW j \in 1 .. m, i # j PROVE f[i] # f[j]
  <2>1. i \in 1 .. n /\ j \in 1 .. n OBVIOUS
  <2>2. second[i] # second[j] BY <1>9, <2>1 DEF InKeyOrder
  <2>3. QED BY <1>7, <2>2
<1>10. /\ IsFiniteSet(1 .. m) /\ Cardinality(1 .. m) = m
       /\ IsFiniteSet(1 .. m - 1) /\ Cardinality(1 .. m - 1) = m - 1
  <2>1. m \in Int /\ m - 1 \in Int /\ m >= 1 /\ 1 \in Int OBVIOUS
  <2>2. IsFiniteSet(1 .. m) /\ Cardinality(1 .. m) = IF 1 > m THEN 0 ELSE m - 1 + 1
    BY <2>1, FS_Interval
  <2>3. IsFiniteSet(1 .. m - 1)
        /\ Cardinality(1 .. m - 1) = IF 1 > m - 1 THEN 0 ELSE (m - 1) - 1 + 1
    BY <2>1, FS_Interval
  <2>4. QED BY <2>1, <2>2, <2>3
<1>11. \E i, j \in 1 .. m : i # j /\ f[i] = f[j]
  <2>1. PICK few, many : few = 1 .. m - 1 /\ many = 1 .. m OBVIOUS
  <2>2. Cardinality(few) < Cardinality(many) BY <1>10, <2>1
  <2>3. IsFiniteSet(few) /\ IsFiniteSet(many) /\ f \in [many -> few] BY <1>8, <1>10, <2>1
  <2>4. \E i, j \in many : i # j /\ f[i] = f[j] BY <2>2, <2>3, FS_PigeonHole
  <2>5. QED BY <2>1, <2>4
<1>12. QED BY <1>9, <1>11

Ranked(rank, E, w) == \A e \in E : rank[e] \in Seq(Int) /\ Len(rank[e]) = w

ByRank(list, rank) == Sorted(list, [i \in DOMAIN list |-> rank[list[i]]])

\* Sorted, two lists with the same items have the same keys.
LEMMA KeysAreSame ==
    ASSUME NEW E, NEW a \in Seq(E), NEW b \in Seq(E), NEW p, NEW q,
           Rearranged(p, a, b), Rearranged(q, b, a),
           NEW w \in Nat, NEW rank, Ranked(rank, E, w)
    PROVE  LET s == ByRank(a, rank)
               t == ByRank(b, rank)
           IN  /\ s \in Seq(E) /\ t \in Seq(E)
               /\ Len(s) = Len(a) /\ Len(t) = Len(a) /\ Len(b) = Len(a)
               /\ \A i \in 1 .. Len(a) : rank[s[i]] = rank[t[i]]
<1>1. /\ DOMAIN a = 1 .. Len(a) /\ DOMAIN b = 1 .. Len(b) /\ Len(a) \in Nat /\ Len(b) \in Nat
      /\ \A i \in 1 .. Len(a) : a[i] \in E
      /\ \A i \in 1 .. Len(b) : b[i] \in E
  BY LenProperties, ElementOfSeq
<1>2. ASSUME NEW x \in Nat, NEW y \in Nat, NEW f \in [1 .. x -> 1 .. y],
             \A i, j \in 1 .. x : i # j => f[i] # f[j]
      PROVE  x <= y
  <2>1. PICK S, T : S = 1 .. x /\ T = 1 .. y OBVIOUS
  <2>2. IsFiniteSet(T) /\ Cardinality(S) = x /\ Cardinality(T) = y BY <2>1, FS_Interval
  <2>3. f \in Injection(S, T) BY <1>2, <2>1 DEF Injection, IsInjective
  <2>4. QED BY <2>2, <2>3, FS_Injection
<1>3. PICK n \in Nat : n = Len(a) /\ n = Len(b)
  <2>1. Len(a) <= Len(b) BY <1>1, <1>2 DEF Rearranged
  <2>2. Len(b) <= Len(a) BY <1>1, <1>2 DEF Rearranged
  <2>3. \A x, y \in Nat : x <= y /\ y <= x => x = y OBVIOUS
  <2>4. Len(a) = Len(b) BY <1>1, <2>1, <2>2, <2>3
  <2>5. QED BY <1>1, <2>4
<1>4. PICK key, other : key = [i \in DOMAIN a |-> rank[a[i]]] /\ other = [i \in DOMAIN b |-> rank[b[i]]]
  OBVIOUS
<1>5. Keyed(key, 1 .. n, w) /\ Keyed(other, 1 .. n, w) BY <1>1, <1>3, <1>4 DEF Keyed, Ranked
<1>6. PICK s, t : s = Sorted(a, key) /\ t = Sorted(b, other) OBVIOUS
<1>7. s \in Seq(E) /\ Len(s) = n /\ \E order : ArrangesBy(order, s, a, key)
  BY <1>1, <1>3, <1>5, <1>6, SortedIs
<1>8. t \in Seq(E) /\ Len(t) = n /\ \E order : ArrangesBy(order, t, b, other)
  BY <1>1, <1>3, <1>5, <1>6, SortedIs
<1>9. PICK order : InKeyOrder(order, key, n) /\ \A i \in 1 .. n : s[i] = a[order[i]]
  <2>1. PICK order : ArrangesBy(order, s, a, key) BY <1>7
  <2>2. Arranges(order, s, a, 1 .. n) /\ \A k, l \in 1 .. n : k < l => Earlier(key, order[k], order[l])
    BY <1>3, <2>1 DEF ArrangesBy
  <2>3. Len(s) = n BY <1>7
  <2>4. /\ order \in [1 .. n -> 1 .. n] /\ \A i \in 1 .. n : s[i] = a[order[i]]
        /\ \A i, j \in 1 .. n : i < j => order[i] # order[j]
        /\ \A i \in 1 .. n : \E j \in 1 .. n : order[j] = i
    BY <2>2, <2>3 DEF Arranges
  <2>5. QED BY <2>2, <2>4 DEF InKeyOrder
<1>10. PICK second : InKeyOrder(second, other, n) /\ \A i \in 1 .. n : t[i] = b[second[i]]
  <2>1. PICK second : ArrangesBy(second, t, b, other) BY <1>8
  <2>2. /\ Arranges(second, t, b, 1 .. n)
        /\ \A k, l \in 1 .. n : k < l => Earlier(other, second[k], second[l])
    BY <1>3, <2>1 DEF ArrangesBy
  <2>3. Len(t) = n BY <1>8
  <2>4. /\ second \in [1 .. n -> 1 .. n] /\ \A i \in 1 .. n : t[i] = b[second[i]]
        /\ \A i, j \in 1 .. n : i < j => second[i] # second[j]
        /\ \A i \in 1 .. n : \E j \in 1 .. n : second[j] = i
    BY <2>2, <2>3 DEF Arranges
  <2>5. QED BY <2>2, <2>4 DEF InKeyOrder
<1>11. /\ p \in [1 .. n -> 1 .. n] /\ \A i, j \in 1 .. n : i # j => p[i] # p[j]
       /\ \A i \in 1 .. n : other[p[i]] = key[i]
  BY <1>1, <1>3, <1>4 DEF Rearranged
<1>12. /\ q \in [1 .. n -> 1 .. n] /\ \A i, j \in 1 .. n : i # j => q[i] # q[j]
       /\ \A i \in 1 .. n : key[q[i]] = other[i]
  BY <1>1, <1>3, <1>4 DEF Rearranged
<1>13. ASSUME NEW i \in 1 .. n PROVE rank[s[i]] = rank[t[i]]
  <2>1. order[i] \in 1 .. n /\ second[i] \in 1 .. n BY <1>9, <1>10 DEF InKeyOrder
  <2>2. PICK x, y : x = key[order[i]] /\ y = other[second[i]] OBVIOUS
  <2>3. ~Before(y, x) BY <1>5, <1>9, <1>10, <1>11, <2>2, KeysNotLater
  <2>4. ~Before(x, y) BY <1>5, <1>9, <1>10, <1>12, <2>2, KeysNotLater
  <2>5. x \in Seq(Int) /\ y \in Seq(Int) /\ Len(x) = w /\ Len(y) = w
    BY <1>5, <2>1, <2>2 DEF Keyed
  <2>6. x = y BY <2>3, <2>4, <2>5, TuplesInOrder
  <2>7. x = rank[s[i]] /\ y = rank[t[i]] BY <1>1, <1>3, <1>4, <1>9, <1>10, <2>1, <2>2
  <2>8. QED BY <2>6, <2>7
<1>14. s = ByRank(a, rank) /\ t = ByRank(b, rank) BY <1>4, <1>6 DEF ByRank
<1>15. QED BY <1>3, <1>7, <1>8, <1>13, <1>14

\* A list and the same backwards have the same items to select.
LEMMA SelectedBackwards ==
    ASSUME NEW E, NEW a \in Seq(E), NEW b \in Seq(E), NEW n \in Nat, n = Len(a), n = Len(b),
           \A i \in 1 .. n : a[i] = b[(n - i) + 1],
           NEW P \in SUBSET DOMAIN a, NEW Q \in SUBSET DOMAIN b,
           \A i \in P : (n - i) + 1 \in Q
    PROVE  \E p : Rearranged(p, Selected(a, P), Selected(b, Q))
<1>1. DOMAIN a = 1 .. n /\ DOMAIN b = 1 .. n BY LenProperties
<1>2. PICK s, t : s = Selected(a, P) /\ t = Selected(b, Q) OBVIOUS
<1>3. PICK order : Arranges(order, s, a, P) BY <1>2, SelectedIs
<1>4. PICK second : Arranges(second, t, b, Q) BY <1>2, SelectedIs
<1>5. PICK m \in Nat, l \in Nat : m = Len(s) /\ l = Len(t)
  <2>1. s \in Seq(E) /\ t \in Seq(E) BY <1>2, SelectedIs
  <2>2. QED BY <2>1, LenProperties
<1>6. /\ order \in [1 .. m -> P] /\ \A k \in 1 .. m : s[k] = a[order[k]]
      /\ \A i, j \in 1 .. m : i < j => order[i] # order[j]
  BY <1>3, <1>5 DEF Arranges
<1>7. /\ second \in [1 .. l -> Q] /\ \A k \in 1 .. l : t[k] = b[second[k]]
      /\ \A i \in Q : \E k \in 1 .. l : second[k] = i
  BY <1>4, <1>5 DEF Arranges
<1>8. PICK p : p = [k \in 1 .. m |-> CHOOSE r \in 1 .. l : second[r] = (n - order[k]) + 1]
  OBVIOUS
<1>9. ASSUME NEW k \in 1 .. m
      PROVE  /\ order[k] \in 1 .. n /\ p[k] \in 1 .. l
             /\ second[p[k]] = (n - order[k]) + 1 /\ t[p[k]] = s[k]
  <2>1. PICK i \in P : i = order[k] BY <1>6
  <2>2. i \in 1 .. n /\ (n - i) + 1 \in Q BY <1>1, <2>1
  <2>3. \E r \in 1 .. l : second[r] = (n - i) + 1 BY <1>7, <2>2
  <2>4. p[k] \in 1 .. l /\ second[p[k]] = (n - i) + 1 BY <1>8, <2>1, <2>3
  <2>5. t[p[k]] = b[(n - i) + 1] BY <1>7, <2>4
  <2>6. s[k] = a[i] BY <1>6, <2>1
  <2>7. a[i] = b[(n - i) + 1] BY <2>2
  <2>8. QED BY <2>1, <2>2, <2>4, <2>5, <2>6, <2>7
<1>10. p \in [1 .. m -> 1 .. l]
  <2>1. p = [k \in 1 .. m |-> p[k]] BY <1>8
  <2>2. QED BY <1>9, <2>1
<1>11. ASSUME NEW i \in 1 .. m, NEW j \in 1 .. m, i # j PROVE p[i] # p[j]
  <2>1. i < j \/ j < i BY <1>11
  <2>2. order[i] # order[j] BY <1>6, <2>1
  <2>3. PICK x \in 1 .. n, y \in 1 .. n : x = order[i] /\ y = order[j] BY <1>9
  <2>4. (n - x) + 1 # (n - y) + 1 BY <2>2, <2>3
  <2>5. second[p[i]] # second[p[j]] BY <1>9, <2>3, <2>4
  <2>6. QED BY <2>5
<1>12. Rearranged(p, s, t) BY <1>5, <1>9, <1>10, <1>11 DEF Rearranged
<1>13. QED BY <1>2, <1>12

\* Detections of the same class, confidence and place.
ShapedAlike(a, b) ==
    /\ a.class = b.class /\ a.confidence = b.confidence
    /\ a.x1 = b.x1 /\ a.y1 = b.y1 /\ a.x2 = b.x2 /\ a.y2 = b.y2

Shapes == {pair \in Mappings \X Mappings : ShapedAlike(pair[1], pair[2])}

LEMMA ShapesAre ==
    ASSUME NEW a \in Mappings, NEW b \in Mappings
    PROVE  <<a, b>> \in Shapes <=> ShapedAlike(a, b)
<1>1. <<a, b>> \in Mappings \X Mappings /\ <<a, b>>[1] = a /\ <<a, b>>[2] = b OBVIOUS
<1>2. QED BY <1>1 DEF Shapes

\* The merge does not look at the slices.
LEMMA DefectsByShape ==
    ASSUME NEW v, NEW w, NEW d, NEW e, ShapedAlike(v, w), ShapedAlike(d, e)
    PROVE  /\ SameDefect(v, d) <=> SameDefect(w, e)
           /\ ShapedAlike(Union(v, d), Union(w, e))
<1>1. /\ v.class = w.class /\ d.class = e.class
      /\ v.confidence = w.confidence /\ d.confidence = e.confidence
      /\ v.x1 = w.x1 /\ v.y1 = w.y1 /\ v.x2 = w.x2 /\ v.y2 = w.y2
      /\ d.x1 = e.x1 /\ d.y1 = e.y1 /\ d.x2 = e.x2 /\ d.y2 = e.y2
  BY DEF ShapedAlike
<1>2. Area(v) = Area(w) /\ Area(d) = Area(e) BY <1>1 DEF Area
<1>3. Intersection(v, d) = Intersection(w, e) BY <1>1 DEF Intersection
<1>4. Overlapping(v, d) <=> Overlapping(w, e) BY <1>2, <1>3 DEF Overlapping
<1>5. SameDefect(v, d) <=> SameDefect(w, e) BY <1>1, <1>4 DEF SameDefect
<1>6. ShapedAlike(Union(v, d), Union(w, e)) BY <1>1 DEF ShapedAlike, Union
<1>7. QED BY <1>5, <1>6

LEMMA ShapesAreRespected ==
    ASSUME NEW E \in SUBSET Mappings
    PROVE  SliceMerge!Respected(Shapes, {m[1] : m \in FaithfulResults(E)}, E)
<1>1. PICK M, W : M = FaithfulResults(E) /\ W = {m[1] : m \in M} OBVIOUS
<1>2. W \subseteq Mappings BY <1>1 DEF FaithfulResults
<1>3. SliceMerge!Grows(W, E) BY <1>1, DetectionsMake, SliceMerge!MakesGrows
<1>4. ASSUME NEW v \in W, NEW w \in W, NEW d \in E, NEW e \in E,
             <<v, w>> \in Shapes, <<d, e>> \in Shapes
      PROVE  /\ SameDefect(v, d) <=> SameDefect(w, e)
             /\ SameDefect(v, d) => <<Union(v, d), Union(w, e)>> \in Shapes
  <2>1. v \in Mappings /\ w \in Mappings /\ d \in Mappings /\ e \in Mappings BY <1>2
  <2>2. ShapedAlike(v, w) /\ ShapedAlike(d, e) BY <1>4, <2>1, ShapesAre
  <2>3. SameDefect(v, d) <=> SameDefect(w, e) BY <2>2, DefectsByShape
  <2>4. ASSUME SameDefect(v, d) PROVE <<Union(v, d), Union(w, e)>> \in Shapes
    <3>1. Union(v, d) \in W /\ Union(w, e) \in W BY <1>3, <2>3, <2>4 DEF SliceMerge!Grows
    <3>2. Union(v, d) \in Mappings /\ Union(w, e) \in Mappings BY <1>2, <3>1
    <3>3. ShapedAlike(Union(v, d), Union(w, e)) BY <2>2, DefectsByShape
    <3>4. QED BY <3>2, <3>3, ShapesAre
  <2>5. QED BY <2>3, <2>4
<1>5. SliceMerge!Respected(Shapes, W, E) BY <1>4 DEF SliceMerge!Respected
<1>6. QED BY <1>1, <1>5

\* Rearranged detections are put in the order of the same shapes.
LEMMA StrongestAlike ==
    ASSUME NEW a \in Seq(Mappings), NEW b \in Seq(Mappings), NEW scale \in Int,
           NEW p, NEW q, Rearranged(p, a, b), Rearranged(q, b, a)
    PROVE  SliceMerge!Listwise(Shapes, StrongestFirst(a, scale), StrongestFirst(b, scale))
<1> DEFINE First(d) == <<d.class, scale - d.confidence, d.x1, d.y1, d.x2, d.y2>>
<1>1. PICK rank : rank = [d \in Mappings |-> First(d)] OBVIOUS
<1>2. ASSUME NEW d \in Mappings
      PROVE  /\ d.class \in Int /\ d.confidence \in Int /\ scale - d.confidence \in Int
             /\ d.x1 \in Int /\ d.y1 \in Int /\ d.x2 \in Int /\ d.y2 \in Int
  BY DEF Mappings
<1>3. ASSUME NEW x1 \in Int, NEW x2 \in Int, NEW x3 \in Int, NEW x4 \in Int, NEW x5 \in Int,
             NEW x6 \in Int
      PROVE  <<x1, x2, x3, x4, x5, x6>> \in Seq(Int) /\ Len(<<x1, x2, x3, x4, x5, x6>>) = 6
  OBVIOUS
<1>4. ASSUME NEW d \in Mappings PROVE rank[d] \in Seq(Int) /\ Len(rank[d]) = 6
  <2>1. rank[d] = First(d) BY <1>1
  <2>2. QED BY <1>2, <1>3, <2>1
<1>5. PICK n \in Nat : n = Len(a) BY LenProperties
<1>6. PICK s, t : s = ByRank(a, rank) /\ t = ByRank(b, rank) OBVIOUS
<1>7. /\ s \in Seq(Mappings) /\ t \in Seq(Mappings) /\ Len(s) = n /\ Len(t) = n
      /\ \A i \in 1 .. n : rank[s[i]] = rank[t[i]]
  <2>1. Ranked(rank, Mappings, 6) BY <1>4 DEF Ranked
  <2>2. QED BY <1>5, <1>6, <2>1, KeysAreSame
<1>8. ASSUME NEW list \in Seq(Mappings)
      PROVE  StrongestFirst(list, scale) = ByRank(list, rank)
  <2>1. \A i \in DOMAIN list : list[i] \in Mappings BY LenProperties, ElementOfSeq
  <2>2. \A i \in DOMAIN list : rank[list[i]] = First(list[i]) BY <1>1, <2>1
  <2>3. [i \in DOMAIN list |-> rank[list[i]]] = [i \in DOMAIN list |-> First(list[i])] BY <2>2
  <2>4. QED BY <2>3 DEF StrongestFirst, ByRank
<1>9. ASSUME NEW i \in 1 .. n PROVE <<s[i], t[i]>> \in Shapes
  <2>1. PICK c \in Mappings, d \in Mappings : c = s[i] /\ d = t[i] BY <1>7, ElementOfSeq
  <2>2. First(c) = First(d) BY <1>1, <1>7, <2>1
  <2>3. /\ c.class = d.class /\ scale - c.confidence = scale - d.confidence
        /\ c.x1 = d.x1 /\ c.y1 = d.y1 /\ c.x2 = d.x2 /\ c.y2 = d.y2
    BY <2>2
  <2>4. c.confidence = d.confidence
    <3>1. c.confidence \in Int /\ d.confidence \in Int BY <1>2
    <3>2. QED BY <2>3, <3>1
  <2>5. QED BY <2>1, <2>3, <2>4, ShapesAre DEF ShapedAlike
<1>10. SliceMerge!Listwise(Shapes, s, t) BY <1>7, <1>9 DEF SliceMerge!Listwise
<1>11. QED BY <1>6, <1>8, <1>10

\* A part of a result is a duplicate of it.
LEMMA PartsAreDefects ==
    ASSUME Threshold[1] \in Nat, Threshold[2] \in Nat, Threshold[1] <= Threshold[2],
           NEW r \in Mappings, NEW d \in Mappings, d.class = r.class, Inside(d, r), Visible(d)
    PROVE  SameDefect(r, d)
<1>1. /\ r.x1 \in Int /\ r.y1 \in Int /\ r.x2 \in Int /\ r.y2 \in Int
      /\ d.x1 \in Int /\ d.y1 \in Int /\ d.x2 \in Int /\ d.y2 \in Int
  BY DEF Mappings
<1>2. /\ r.x1 <= d.x1 /\ r.y1 <= d.y1 /\ d.x2 <= r.x2 /\ d.y2 <= r.y2
      /\ d.x1 < d.x2 /\ d.y1 < d.y2
  BY <1>1 DEF Inside, Visible
<1>3. /\ Max({r.x1, d.x1}) = d.x1 /\ Max({r.y1, d.y1}) = d.y1
      /\ Least(r.x2, d.x2) = d.x2 /\ Least(r.y2, d.y2) = d.y2
  <2>1. Max({r.x1, d.x1}) = d.x1 /\ Max({r.y1, d.y1}) = d.y1 BY <1>1, <1>2, MaxOfTwo
  <2>2. Least(r.x2, d.x2) = d.x2 /\ Least(r.y2, d.y2) = d.y2 BY <1>1, <1>2, LeastOfTwo
  <2>3. QED BY <2>1, <2>2
<1>4. Intersection(r, d) = Area(d) BY <1>1, <1>2, <1>3 DEF Intersection, Area
<1>5. PICK a \in Int, b \in Int : a = Area(d) /\ b = Area(r) BY <1>1 DEF Area
<1>6. a > 0
  <2>1. PICK x \in Nat \ {0}, y \in Nat \ {0} : x = d.x2 - d.x1 /\ y = d.y2 - d.y1 BY <1>1, <1>2
  <2>2. a = x * y BY <1>5, <2>1 DEF Area
  <2>3. QED BY <2>2
<1>7. PICK least \in Int : least = Least(b, a) /\ least <= a BY LeastOfTwo
<1>8. Reaches(a, least)
  <2>1. PICK u \in Nat, v \in Nat : u = Threshold[1] /\ v = Threshold[2] OBVIOUS
  <2>2. u <= v BY <2>1
  <2>3. u * least <= u * a BY <1>7
  <2>4. u * a <= v * a BY <1>6, <2>2
  <2>5. a * v = v * a /\ u * least \in Int /\ u * a \in Int /\ v * a \in Int OBVIOUS
  <2>6. a * v >= u * least BY <2>3, <2>4, <2>5
  <2>7. QED BY <2>1, <2>6 DEF Reaches
<1>9. Overlapping(r, d) BY <1>4, <1>5, <1>6, <1>7, <1>8 DEF Overlapping
<1>10. QED BY <1>9 DEF SameDefect

\* What a result names are the slices of its duplicates that no earlier result
\* is a duplicate of.
TakenBy(found, k, E) ==
    {d \in E : SameDefect(found[k], d) /\ \A j \in 1 .. k - 1 : ~SameDefect(found[j], d)}

SlicesTakenBy(found, k, E) == UNION {d.slices : d \in TakenBy(found, k, E)}

LEMMA SlicesTaken ==
    ASSUME Threshold[1] \in Nat, Threshold[2] \in Nat, Threshold[1] <= Threshold[2],
           NEW E \in SUBSET Mappings, \A d \in E : Visible(d), NEW R,
           NEW n \in Nat, NEW found, Len(found) = n, NEW groups, NEW heads,
           SliceMerge!Accounted(found, groups, heads, E, FaithfulResults(E), R),
           SliceMerge!InGroups(found, groups) = E,
           NEW k \in 1 .. n
    PROVE  found[k].slices = SlicesTakenBy(found, k, E)
<1>1. ASSUME NEW i \in 1 .. n
      PROVE  found[i] \in Mappings /\ groups[i] \subseteq E /\ Faithful(found[i], groups[i])
  <2>1. <<found[i], groups[i]>> \in FaithfulResults(E) BY DEF SliceMerge!Accounted
  <2>2. QED BY <2>1 DEF FaithfulResults
<1>2. \A i, j \in 1 .. n : i < j => \A e \in groups[j] : ~SameDefect(found[i], e)
  BY DEF SliceMerge!Accounted, SliceMerge!Foreign
<1>3. ASSUME NEW i \in 1 .. n, NEW d \in groups[i] PROVE SameDefect(found[i], d)
  <2>1. d \in E /\ d \in Mappings /\ Visible(d) BY <1>1
  <2>2. d.class = found[i].class /\ Inside(d, found[i]) BY <1>1 DEF Faithful
  <2>3. QED BY <1>1, <2>1, <2>2, PartsAreDefects
<1>4. \A d \in E : \E i \in 1 .. n : d \in groups[i] BY DEF SliceMerge!InGroups
<1>5. groups[k] = TakenBy(found, k, E)
  <2>1. ASSUME NEW d \in groups[k] PROVE d \in TakenBy(found, k, E)
    <3>1. d \in E /\ SameDefect(found[k], d) BY <1>1, <1>3
    <3>2. ASSUME NEW j \in 1 .. k - 1 PROVE ~SameDefect(found[j], d)
      <4>1. j \in 1 .. n /\ j < k OBVIOUS
      <4>2. QED BY <1>2, <4>1
    <3>3. QED BY <3>1, <3>2 DEF TakenBy
  <2>2. ASSUME NEW d \in TakenBy(found, k, E) PROVE d \in groups[k]
    <3>1. /\ d \in E /\ SameDefect(found[k], d)
          /\ \A j \in 1 .. k - 1 : ~SameDefect(found[j], d)
      BY DEF TakenBy
    <3>2. PICK i \in 1 .. n : d \in groups[i] BY <1>4, <3>1
    <3>3. ~(i < k)
      <4>1. i < k => i \in 1 .. k - 1 OBVIOUS
      <4>2. QED BY <1>3, <3>1, <3>2, <4>1
    <3>4. ~(k < i) BY <1>2, <3>1, <3>2
    <3>5. i = k BY <3>3, <3>4
    <3>6. QED BY <3>2, <3>5
  <2>3. QED BY <2>1, <2>2
<1>6. found[k].slices = UNION {d.slices : d \in groups[k]}
  <2>1. Faithful(found[k], groups[k]) BY <1>1
  <2>2. QED BY <2>1 DEF Faithful
<1>7. QED BY <1>5, <1>6 DEF SlicesTakenBy

\* Detections backwards are mapped to the same ones, backwards.
LEMMA MappedBackwards ==
    ASSUME SliceSize \in Nat \ {0, 1}, NEW width \in Nat \ {0}, NEW height \in Nat \ {0},
           NEW detections \in Seq(Detections), NEW back \in Seq(Detections),
           NEW n \in Nat, n = Len(detections), n = Len(back),
           \A i \in 1 .. n : detections[i].slice + 1 \in DOMAIN Windows(width, height),
           \A i \in 1 .. n : (n - i) + 1 \in 1 .. n /\ detections[i] = back[(n - i) + 1]
    PROVE  \E p : Rearranged(p, Mapped(Windows(width, height), detections),
                                Mapped(Windows(width, height), back))
<1>1. PICK windows : windows = Windows(width, height) OBVIOUS
<1>2. DOMAIN detections = 1 .. n /\ DOMAIN back = 1 .. n BY LenProperties
<1>3. PICK E : E = {Clipped(d, windows[d.slice + 1]) : d \in Detections} OBVIOUS
<1>4. PICK a, b : /\ a = [i \in 1 .. n |-> Clipped(detections[i], windows[detections[i].slice + 1])]
                  /\ b = [i \in 1 .. n |-> Clipped(back[i], windows[back[i].slice + 1])]
  OBVIOUS
<1>5. a \in Seq(E) /\ b \in Seq(E) /\ Len(a) = n /\ Len(b) = n /\ DOMAIN a = 1 .. n /\ DOMAIN b = 1 .. n
  <2>1. \A i \in 1 .. n : detections[i] \in Detections /\ back[i] \in Detections
    BY <1>2, ElementOfSeq
  <2>2. \A i \in 1 .. n : a[i] \in E /\ b[i] \in E BY <1>3, <1>4, <2>1
  <2>3. a = [i \in 1 .. n |-> a[i]] /\ b = [i \in 1 .. n |-> b[i]] BY <1>4
  <2>4. QED BY <2>2, <2>3, IsASeq
<1>6. ASSUME NEW i \in 1 .. n PROVE (n - i) + 1 \in 1 .. n /\ a[i] = b[(n - i) + 1]
  <2>1. PICK j \in 1 .. n : j = (n - i) + 1 /\ detections[i] = back[j] OBVIOUS
  <2>2. a[i] = b[j] BY <1>4, <2>1
  <2>3. QED BY <2>1, <2>2
<1>7. PICK P, Q : P = {i \in DOMAIN a : Visible(a[i])} /\ Q = {i \in DOMAIN b : Visible(b[i])}
  OBVIOUS
<1>8. Mapped(windows, detections) = Selected(a, P) /\ Mapped(windows, back) = Selected(b, Q)
  BY <1>2, <1>4, <1>7 DEF Mapped
<1>9. P \in SUBSET DOMAIN a /\ Q \in SUBSET DOMAIN b BY <1>7
<1>10. ASSUME NEW i \in P PROVE (n - i) + 1 \in Q
  <2>1. i \in 1 .. n /\ Visible(a[i]) BY <1>5, <1>7
  <2>2. PICK j \in 1 .. n : j = (n - i) + 1 /\ a[i] = b[j] BY <1>6, <2>1
  <2>3. j \in DOMAIN b /\ Visible(b[j]) BY <1>5, <2>1, <2>2
  <2>4. QED BY <1>7, <2>2, <2>3
<1>11. \E p : Rearranged(p, Selected(a, P), Selected(b, Q))
  BY <1>5, <1>6, <1>9, <1>10, SelectedBackwards
<1>12. QED BY <1>1, <1>8, <1>11

LEMMA RearrangedSet ==
    ASSUME NEW E, NEW a \in Seq(E), NEW b \in Seq(E), NEW p, Rearranged(p, a, b)
    PROVE  ToSet(a) \subseteq ToSet(b)
<1>1. DOMAIN a = 1 .. Len(a) /\ DOMAIN b = 1 .. Len(b) BY LenProperties
<1>2. ASSUME NEW i \in 1 .. Len(a) PROVE a[i] \in ToSet(b)
  <2>1. p[i] \in 1 .. Len(b) /\ b[p[i]] = a[i] BY DEF Rearranged
  <2>2. QED BY <1>1, <2>1 DEF ToSet
<1>3. QED BY <1>1, <1>2 DEF ToSet

\* Rearranged detections are merged to the same results.
LEMMA RearrangedAreMerged ==
    ASSUME Threshold[1] \in Nat, Threshold[2] \in Nat, Threshold[1] <= Threshold[2],
           NEW a \in Seq(Mappings), NEW b \in Seq(Mappings), NEW scale \in Int,
           \A d \in ToSet(a) : Visible(d),
           NEW p, NEW q, Rearranged(p, a, b), Rearranged(q, b, a)
    PROVE  Merge!Merged(StrongestFirst(a, scale)) = Merge!Merged(StrongestFirst(b, scale))
<1>1. PICK E : E = ToSet(a) /\ E = ToSet(b)
  <2>1. ToSet(a) \subseteq ToSet(b) /\ ToSet(b) \subseteq ToSet(a) BY RearrangedSet
  <2>2. ToSet(a) = ToSet(b) BY <2>1
  <2>3. QED BY <2>2
<1>2. E \in SUBSET Mappings
  <2>1. DOMAIN a = 1 .. Len(a) /\ \A i \in 1 .. Len(a) : a[i] \in Mappings
    BY LenProperties, ElementOfSeq
  <2>2. QED BY <1>1, <2>1 DEF ToSet
<1>3. PICK M, R : M = FaithfulResults(E) /\ R = Stronger(E) OBVIOUS
<1>4. PICK s, t : s = StrongestFirst(a, scale) /\ t = StrongestFirst(b, scale) OBVIOUS
<1>5. /\ s \in Seq(E) /\ ToSet(s) = E /\ SliceMerge!InOrder(s, R)
      /\ t \in Seq(E) /\ ToSet(t) = E /\ SliceMerge!InOrder(t, R)
  BY <1>1, <1>3, <1>4, StrongestAreFirst
<1>6. SliceMerge!Listwise(Shapes, s, t) BY <1>4, StrongestAlike
<1>7. SliceMerge!Makes(M, E) BY <1>2, <1>3, DetectionsMake
<1>8. SliceMerge!Respected(Shapes, {m[1] : m \in M}, E) BY <1>2, <1>3, ShapesAreRespected
<1>9. PICK found, again : /\ found = SliceMerge!Merged(s) /\ found = Merge!Merged(s)
                          /\ again = SliceMerge!Merged(t) /\ again = Merge!Merged(t)
  BY SameMerge
<1>10. SliceMerge!Listwise(Shapes, found, again)
  BY <1>5, <1>6, <1>7, <1>8, <1>9, SliceMerge!AlikeAreMergedAlike
<1>11. ASSUME NEW list \in Seq(E), ToSet(list) = E, SliceMerge!InOrder(list, R),
              NEW merged, merged = SliceMerge!Merged(list)
       PROVE  /\ merged \in Seq({m[1] : m \in M})
              /\ \E groups, heads : /\ SliceMerge!Accounted(merged, groups, heads, E, M, R)
                                    /\ SliceMerge!InGroups(merged, groups) = E
  <2>1. SliceMerge!ToSet(list) = E BY <1>11, SameMerge
  <2>2. /\ SliceMerge!Merged(list) \in Seq({m[1] : m \in M})
        /\ \E groups, heads :
              /\ SliceMerge!Accounted(SliceMerge!Merged(list), groups, heads, SliceMerge!ToSet(list), M, R)
              /\ SliceMerge!InGroups(SliceMerge!Merged(list), groups) = SliceMerge!ToSet(list)
    BY <1>7, <1>11, SliceMerge!GroupsAccount
  <2>3. QED BY <1>11, <2>1, <2>2
<1>12. PICK W : W = {m[1] : m \in M} OBVIOUS
<1>13. found \in Seq(W) /\ again \in Seq(W) /\ W \subseteq Mappings
  <2>1. found \in Seq(W) /\ again \in Seq(W) BY <1>5, <1>9, <1>11, <1>12
  <2>2. W \subseteq Mappings BY <1>3, <1>12 DEF FaithfulResults
  <2>3. QED BY <2>1, <2>2
<1>14. PICK n \in Nat : n = Len(found) /\ n = Len(again)
  BY <1>10, <1>13, LenProperties DEF SliceMerge!Listwise
<1>15. ASSUME NEW i \in 1 .. n
       PROVE  found[i] \in Mappings /\ again[i] \in Mappings /\ ShapedAlike(found[i], again[i])
  <2>1. found[i] \in Mappings /\ again[i] \in Mappings BY <1>13, <1>14, ElementOfSeq
  <2>2. <<found[i], again[i]>> \in Shapes BY <1>10, <1>14 DEF SliceMerge!Listwise
  <2>3. QED BY <2>1, <2>2, ShapesAre
<1>16. ASSUME NEW k \in 1 .. n PROVE found[k].slices = again[k].slices
  <2>1. found[k].slices = SlicesTakenBy(found, k, E)
    <3>1. PICK groups, heads : /\ SliceMerge!Accounted(found, groups, heads, E, M, R)
                               /\ SliceMerge!InGroups(found, groups) = E
      BY <1>5, <1>9, <1>11
    <3>2. SliceMerge!Accounted(found, groups, heads, E, FaithfulResults(E), R) BY <1>3, <3>1
    <3>3. Len(found) = n /\ SliceMerge!InGroups(found, groups) = E BY <1>14, <3>1
    <3>4. \A d \in E : Visible(d) BY <1>1
    <3>5. QED BY <1>2, <3>2, <3>3, <3>4, SlicesTaken
  <2>2. again[k].slices = SlicesTakenBy(again, k, E)
    <3>1. PICK groups, heads : /\ SliceMerge!Accounted(again, groups, heads, E, M, R)
                               /\ SliceMerge!InGroups(again, groups) = E
      BY <1>5, <1>9, <1>11
    <3>2. SliceMerge!Accounted(again, groups, heads, E, FaithfulResults(E), R) BY <1>3, <3>1
    <3>3. Len(again) = n /\ SliceMerge!InGroups(again, groups) = E BY <1>14, <3>1
    <3>4. \A d \in E : Visible(d) BY <1>1
    <3>5. QED BY <1>2, <3>2, <3>3, <3>4, SlicesTaken
  <2>3. ASSUME NEW i \in 1 .. n, NEW d \in E
        PROVE  SameDefect(found[i], d) <=> SameDefect(again[i], d)
    <3>1. ShapedAlike(found[i], again[i]) /\ ShapedAlike(d, d) BY <1>15 DEF ShapedAlike
    <3>2. QED BY <3>1, DefectsByShape
  <2>4. 1 .. k - 1 \subseteq 1 .. n OBVIOUS
  <2>5. TakenBy(found, k, E) = TakenBy(again, k, E) BY <2>3, <2>4 DEF TakenBy
  <2>6. QED BY <2>1, <2>2, <2>5 DEF SlicesTakenBy
<1>17. ASSUME NEW i \in 1 .. n PROVE found[i] = again[i]
  <2>1. PICK v \in Mappings, w \in Mappings : v = found[i] /\ w = again[i] BY <1>15
  <2>2. /\ v.class = w.class /\ v.confidence = w.confidence
        /\ v.x1 = w.x1 /\ v.y1 = w.y1 /\ v.x2 = w.x2 /\ v.y2 = w.y2 /\ v.slices = w.slices
    BY <1>15, <1>16, <2>1 DEF ShapedAlike
  <2>3. ASSUME NEW r \in Mappings
        PROVE  r = [class |-> r.class, confidence |-> r.confidence, x1 |-> r.x1, y1 |-> r.y1,
                    x2 |-> r.x2, y2 |-> r.y2, slices |-> r.slices]
    BY DEF Mappings
  <2>4. v = w BY <2>2, <2>3
  <2>5. QED BY <2>1, <2>4
<1>18. found = again BY <1>13, <1>14, <1>17, SeqEqual
<1>19. QED BY <1>4, <1>9, <1>18

\* map_and_merge_detections (inference/sahi.py): when the detections of the
\* slices come in the opposite order, the results are the same.  The sort leaves
\* those of one shape as they came, and they differ in the slices that they
\* name; but a result takes in all of them or none, because a part of a result
\* is always a duplicate of it.
THEOREM DetectionOrderIsIgnored ==
    ASSUME SliceSize \in Nat \ {0, 1}, NEW width \in Nat \ {0}, NEW height \in Nat \ {0},
           Threshold[1] \in Nat, Threshold[2] \in Nat, Threshold[1] <= Threshold[2],
           NEW scale \in Int, NEW detections \in Seq(Detections),
           \A i \in 1 .. Len(detections) :
               detections[i].slice + 1 \in DOMAIN Windows(width, height)
    PROVE  OrderIgnored(width, height, detections, scale)
<1>1. PICK n \in Nat : n = Len(detections) BY LenProperties
<1>2. PICK back : back = Reverse(detections) OBVIOUS
<1>3. /\ back \in Seq(Detections)
      /\ DOMAIN detections = 1 .. n /\ DOMAIN back = 1 .. n
      /\ ToSet(back) = ToSet(detections)
      /\ \A i \in 1 .. n : /\ (n - i) + 1 \in 1 .. n
                           /\ back[i] = detections[(n - i) + 1]
                           /\ detections[i] = back[(n - i) + 1]
  BY <1>1, <1>2, ReverseIs
<1>4. Len(back) = n BY <1>1, <1>3, LenProperties
<1>5. \A i \in 1 .. n : /\ detections[i].slice + 1 \in DOMAIN Windows(width, height)
                        /\ back[i].slice + 1 \in DOMAIN Windows(width, height)
  BY <1>1, <1>3
<1>6. PICK a, b : /\ a = Mapped(Windows(width, height), detections)
                  /\ b = Mapped(Windows(width, height), back)
  OBVIOUS
<1>7. a \in Seq(Mappings) /\ \A d \in ToSet(a) : Visible(d) BY <1>6, MappedIs
<1>8. b \in Seq(Mappings) BY <1>3, <1>4, <1>5, <1>6, MappedIs
<1>9. PICK p : Rearranged(p, a, b) BY <1>1, <1>3, <1>4, <1>5, <1>6, MappedBackwards
<1>10. PICK q : Rearranged(q, b, a) BY <1>1, <1>3, <1>4, <1>5, <1>6, MappedBackwards
<1>11. Merge!Merged(StrongestFirst(a, scale)) = Merge!Merged(StrongestFirst(b, scale))
  BY <1>7, <1>8, <1>9, <1>10, RearrangedAreMerged
<1>12. MapAndMerge(Windows(width, height), back, scale)
          = MapAndMerge(Windows(width, height), detections, scale)
  BY <1>6, <1>11 DEF MapAndMerge
<1>13. QED BY <1>2, <1>12 DEF OrderIgnored
===============================================================================
