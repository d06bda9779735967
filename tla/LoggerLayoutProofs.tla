--------------------------- MODULE LoggerLayoutProofs ---------------------------
(***************************************************************************)
(* Proofs about the panels of the logger page, for any roles, screens,     *)
(* older layouts, shifts of the pointer and number of edits.               *)
(***************************************************************************)
EXTENDS LoggerLayout, FiniteSetTheorems, FunctionTheorems, WellFoundedInduction, SequenceTheorems, TLAPS

-----------------------------------------------------------------------------
(* The panels: rectangles of the grid. *)

LEMMA PanelsAre == Modules = {"controls", "chat", "checkedOut", "active", "lurkers"}
<1>1. DOMAIN ModuleIds = {1, 2, 3, 4, 5}
  BY DEF ModuleIds
<1> QED
  BY <1>1 DEF Modules, Range, ModuleIds

Rank(I, i) == Cardinality({j \in I : j <= i})

\* Every place of a finite set of places has a number, from 1 on, in their order.
LEMMA Ranks ==
    ASSUME NEW I \in SUBSET Int, IsFiniteSet(I)
    PROVE  /\ Cardinality(I) \in Nat
           /\ \A i \in I : Rank(I, i) \in 1..Cardinality(I)
           /\ \A i, j \in I : i < j => Rank(I, i) < Rank(I, j)
           /\ \A k \in 1..Cardinality(I) : \E i \in I : Rank(I, i) = k
<1> DEFINE n == Cardinality(I)
           Upto(i) == {j \in I : j <= i}
<1>1. n \in Nat
  BY FS_CardinalityType
<1>2. ASSUME NEW i \in I PROVE IsFiniteSet(Upto(i)) /\ Cardinality(Upto(i)) \in Nat /\ Cardinality(Upto(i)) <= n
  <2>1. Upto(i) \in SUBSET I
    OBVIOUS
  <2>2. IsFiniteSet(Upto(i)) /\ Cardinality(Upto(i)) <= n
    BY <2>1, FS_Subset
  <2> QED
    BY <2>2, FS_CardinalityType
<1>3. ASSUME NEW i \in I PROVE Rank(I, i) \in 1..n
  <2>1. Upto(i) # {}
    OBVIOUS
  <2>2. Cardinality(Upto(i)) # 0
    BY <1>2, <2>1, FS_EmptySet
  <2> QED
    BY <1>1, <1>2, <2>2 DEF Rank
<1>4. ASSUME NEW i \in I, NEW j \in I, i < j PROVE Rank(I, i) < Rank(I, j)
  <2>1. Upto(i) \in SUBSET Upto(j) /\ j \in Upto(j) /\ j \notin Upto(i)
    <3>1. i \in Int /\ j \in Int /\ \A k \in I : k \in Int
      OBVIOUS
    <3>2. \A k \in I : k <= i => k <= j
      BY <1>4, <3>1
    <3>3. ~(j <= i) /\ j <= j
      BY <1>4, <3>1
    <3> QED
      BY <3>2, <3>3
  <2>2. Cardinality(Upto(i)) <= Cardinality(Upto(j)) /\ Cardinality(Upto(i)) # Cardinality(Upto(j))
    <3>1. Upto(i) # Upto(j)
      BY <2>1
    <3> HIDE DEF Upto
    <3> QED
      BY <1>2, <2>1, <3>1, FS_Subset
  <2> QED
    BY <1>2, <2>2 DEF Rank
<1>5. ASSUME NEW k \in 1..n PROVE \E i \in I : Rank(I, i) = k
  <2> DEFINE f == [i \in I |-> Rank(I, i)]
             T == 1..n
  <2>1. f \in Injection(I, T)
    <3>1. f \in [I -> T]
      BY <1>3
    <3>2. \A i, j \in I : f[i] = f[j] => i = j
      BY <1>1, <1>3, <1>4
    <3> HIDE DEF f, T
    <3> QED
      BY <3>1, <3>2, Fun_IsInj
  <2>2. IsFiniteSet(T) /\ Cardinality(T) = n
    <3>1. 0 \in Int /\ 1 \in Int /\ n \in Int
      BY <1>1
    <3>2. IsFiniteSet(1..n) /\ Cardinality(1..n) = IF 1 > n THEN 0 ELSE n - 1 + 1
      BY <3>1, FS_Interval
    <3> QED
      BY <1>1, <3>2
  <2> HIDE DEF f, T
  <2>3. f \in Surjection(I, T)
    BY <2>1, <2>2, FS_Injection
  <2>4. \E i \in I : f[i] = k
    <3>1. k \in T
      BY DEF T
    <3>2. \A t \in T : \E i \in I : f[i] = t
      BY <2>3, Fun_SurjectionProperties
    <3> QED
      BY <3>1, <3>2
  <2> QED
    BY <2>4 DEF f
<1> QED
  BY <1>1, <1>3, <1>4, <1>5

LEMMA ContextIs ==
    ASSUME NEW c \in Contexts
    PROVE  /\ c.role \in AllRoles /\ c.screen \in AllScreens /\ c.low \in {2, 4}
           /\ Rows(c) = IF c.screen = "phonePortrait" THEN 45
                        ELSE IF c.screen \in {"phoneLandscape", "tabletPortrait"} THEN 24 ELSE 20
           /\ \A id \in Modules :
                 /\ MinRows(id, c) \in 2..5
                 /\ id = "controls" /\ c.screen # "desktop" => MinRows(id, c) = 4
<1>1. c.role \in AllRoles /\ c.screen \in AllScreens /\ c.low \in {2, 4}
  BY DEF Contexts
<1>3. \A id \in Modules :
                 /\ MinRows(id, c) \in 2..5
                 /\ id = "controls" /\ c.screen # "desktop" => MinRows(id, c) = 4
  BY <1>1, PanelsAre DEF MinRows, LeastRows
<1> QED
  BY <1>1, <1>3 DEF Rows

LEMMA Clamped ==
    ASSUME NEW v \in Int, NEW low \in Int, NEW high \in Int, low <= high
    PROVE  /\ Clamp(v, low, high) \in low..high
           /\ v \in low..high => Clamp(v, low, high) = v
           /\ v >= low => Clamp(v, low, high) <= v
           /\ v <= high => Clamp(v, low, high) >= v
  BY DEF Clamp

RestsAt(r, id, c) ==
    /\ r.x >= 0 /\ r.y >= 0 /\ r.x + r.w <= 24 /\ r.y + r.h <= Rows(c)
    /\ r.w >= 2 /\ r.h >= MinRows(id, c)

LEMMA RestsIs == \A l, id, c : Rests(l, id, c) <=> RestsAt(l.items[id], id, c)
  BY DEF Rests, InGrid, RestsAt, Columns, MinColumns

\* What was brought to the grid rests there; what rests there stays as it is.
LEMMA FitIs ==
    ASSUME NEW c \in Contexts, NEW id \in Modules, NEW r \in Rects
    PROVE  LET f == Fit(id, r, c)
           IN  /\ f \in Rects /\ RestsAt(f, id, c)
               /\ RestsAt(r, id, c) => f = r
               /\ r.h >= 6 => f.h >= 6
               /\ r.y <= 39 => f.y <= 39
<1> DEFINE n == Rows(c)
           m == MinRows(id, c)
           w == Clamp(r.w, 2, 24)
           h == Clamp(r.h, m, n)
           x == Clamp(r.x, 0, 24 - w)
           y == Clamp(r.y, 0, n - h)
<1>1. n \in {20, 24, 45} /\ m \in 2..5
  BY ContextIs
<1>2. r.x \in Int /\ r.y \in Int /\ r.w \in Int /\ r.h \in Int
  BY DEF Rects
<1>3. Fit(id, r, c) = [x |-> x, y |-> y, w |-> w, h |-> h]
  BY DEF Fit, Rect, MinColumns, Columns
<1> HIDE DEF n, m
<1>4. w \in 2..24 /\ h \in m..n /\ (r.w \in 2..24 => w = r.w) /\ (r.h \in m..n => h = r.h) /\ (r.h >= 6 => h >= 6)
  BY <1>1, <1>2 DEF Clamp
<1> HIDE DEF w, h
<1>5. x \in 0..(24 - w) /\ y \in 0..(n - h) /\ (r.x \in 0..(24 - w) => x = r.x) /\ (r.y \in 0..(n - h) => y = r.y)
      /\ (r.y <= 39 => y <= 39)
  BY <1>1, <1>2, <1>4 DEF Clamp
<1> HIDE DEF x, y
<1>6. RestsAt(r, id, c) => w = r.w /\ h = r.h /\ x = r.x /\ y = r.y
  BY <1>1, <1>2, <1>4, <1>5 DEF RestsAt, n, m
<1>7. r = [x |-> r.x, y |-> r.y, w |-> r.w, h |-> r.h]
  BY DEF Rects
<1> QED
  BY <1>1, <1>3, <1>4, <1>5, <1>6, <1>7 DEF RestsAt, n, m, Rects


LEMMA CountedHere == \A S : Cardinality(S) = Cardinality(S)
  BY DEF Cardinality, Cardinality, IsFiniteSet, IsFiniteSet

\* Five panels at different places have five numbers.
LEMMA FiveRanks ==
    ASSUME NEW P \in [Modules -> Int], \A i, j \in Modules : P[i] = P[j] => i = j,
           NEW k \in 1..5
    PROVE  \E id \in Modules : Rank({P[i] : i \in Modules}, P[id]) = k
<1> DEFINE A == {P["controls"]}
           B == A \cup {P["chat"]}
           C == B \cup {P["checkedOut"]}
           D == C \cup {P["active"]}
           E == D \cup {P["lurkers"]}
<1>1. E = {P[i] : i \in Modules}
  BY PanelsAre
<1>2. P["chat"] \notin A /\ P["checkedOut"] \notin B /\ P["active"] \notin C /\ P["lurkers"] \notin D
  BY PanelsAre
<1>3. IsFiniteSet(A) /\ Cardinality(A) = 1
  BY FS_Singleton
<1> HIDE DEF A
<1>4. IsFiniteSet(B) /\ Cardinality(B) = 2
  BY <1>2, <1>3, FS_AddElement
<1> HIDE DEF B
<1>5. IsFiniteSet(C) /\ Cardinality(C) = 3
  BY <1>2, <1>4, FS_AddElement
<1> HIDE DEF C
<1>6. IsFiniteSet(D) /\ Cardinality(D) = 4
  BY <1>2, <1>5, FS_AddElement
<1> HIDE DEF D
<1>7. IsFiniteSet(E) /\ Cardinality(E) = 5
  BY <1>2, <1>6, FS_AddElement
<1> HIDE DEF E
<1>8. E \in SUBSET Int
  BY <1>1
<1>9. \E v \in E : Rank(E, v) = k
  BY <1>7, <1>8, Ranks
<1> QED
  BY <1>1, <1>9

\* A list of panels laid out in rows is of rectangles.
Row == [x : Int, y : Int, tall : Int, items : [Modules -> Rects]]

LEMMA LaidIs ==
    ASSUME NEW old \in Listed, NEW l \in Grids, NEW id \in Modules, NEW p \in Row
    PROVE  LET w == ListedWidth(old, id, l)
           IN  Laid(Wrapped(p, w), id, w, ListedHeight(old, id, l)) \in Row
<1>1. PICK w : w = ListedWidth(old, id, l)
  OBVIOUS
<1>2. PICK h : h = ListedHeight(old, id, l)
  OBVIOUS
<1>3. PICK q : q = Wrapped(p, w)
  OBVIOUS
<1>4. w \in Int /\ h \in Int
  <2>1. l.items \in [Modules -> Rects] /\ old.spans \in [Modules -> Nat] /\ old.heights \in [Modules -> Nat]
    BY DEF Grids, Arranged, Listed
  <2>2. l.items[id].w \in Int /\ l.items[id].h \in Int /\ old.spans[id] \in Int /\ old.heights[id] \in Int
    BY <2>1 DEF Rects
  <2> QED
    BY <1>1, <1>2, <2>2 DEF ListedWidth, ListedHeight, LeastRows, Clamp, MinColumns, Columns
<1>5. q \in Row
  BY <1>3, <1>4 DEF Row, Wrapped, Columns
<1>6. Rect(q.x, q.y, w, h) \in Rects
  BY <1>4, <1>5 DEF Row, Rect, Rects
<1>7. Laid(q, id, w, h) \in Row
  <2>1. PICK items : items = [q.items EXCEPT ![id] = Rect(q.x, q.y, w, h)]
    OBVIOUS
  <2>2. PICK tall : tall = IF h > q.tall THEN h ELSE q.tall
    OBVIOUS
  <2>3. items \in [Modules -> Rects] /\ q.x + w \in Int /\ tall \in Int
    BY <1>4, <1>5, <1>6, <2>1, <2>2 DEF Row
  <2>4. Laid(q, id, w, h) = [x |-> q.x + w, y |-> q.y, tall |-> tall, items |-> items]
    BY <2>1, <2>2 DEF Laid
  <2> QED
    BY <1>5, <2>3, <2>4 DEF Row
<1> QED
  BY <1>1, <1>2, <1>3, <1>7

LEMMA PackedIs ==
    ASSUME NEW old \in Listed, NEW l \in Grids
    PROVE  Packed(old, l) \in [Modules -> Rects]
<1> DEFINE rest == <<"controls", "checkedOut", "chat", "active", "lurkers">>
           Place(id) == IF id \in Range(old.order) THEN CHOOSE k \in DOMAIN old.order : old.order[k] = id
                        ELSE Len(old.order) + CHOOSE k \in DOMAIN rest : rest[k] = id
           places == {Place(id) : id \in Modules}
           Nth(k) == CHOOSE id \in Modules : Cardinality({n \in places : n <= Place(id)}) = k
           Added(p, id) == LET w == ListedWidth(old, id, l)
                           IN  Laid(Wrapped(p, w), id, w, ListedHeight(old, id, l))
           start == [x |-> 0, y |-> 0, tall |-> 0, items |-> l.items]
           Row5(row) == row = [k \in 0 .. 5 |-> IF k = 0 THEN start ELSE Added(row[k - 1], Nth(k))]
           rows == CHOOSE row : Row5(row)
<1>1. Packed(old, l) = rows[5].items
  BY DEF Packed
<1>2. old.order \in Seq(Modules)
  BY DEF Listed
<1>3. \A id \in Modules : id \in Range(old.order) =>
         Place(id) \in 1..Len(old.order) /\ old.order[Place(id)] = id
  BY <1>2 DEF Range
<1>4. \A id \in Modules : \E k \in DOMAIN rest : rest[k] = id
  <2>1. DOMAIN rest = {1, 2, 3, 4, 5}
    OBVIOUS
  <2> QED
    BY <2>1, PanelsAre
<1>5. \A id \in Modules : id \notin Range(old.order) =>
         Place(id) - Len(old.order) \in 1..5 /\ rest[Place(id) - Len(old.order)] = id
  <2>1. DOMAIN rest = 1..5 /\ Len(old.order) \in Nat
    BY DEF Rect, Rects
  <2> HIDE DEF rest
  <2>2. ASSUME NEW id \in Modules, id \notin Range(old.order)
        PROVE  Place(id) - Len(old.order) \in 1..5 /\ rest[Place(id) - Len(old.order)] = id
    <3>1. PICK k \in 1..5 : k = CHOOSE j \in DOMAIN rest : rest[j] = id
      BY <1>4, <2>1
    <3>2. rest[k] = id
      BY <1>4, <3>1
    <3>3. Place(id) = Len(old.order) + k
      BY <2>2, <3>1
    <3>4. Place(id) - Len(old.order) = k
      BY <2>1, <3>3
    <3> QED
      BY <3>2, <3>4
  <2> QED
    BY <2>2
<1> HIDE DEF rest, Place
<1>6. Len(old.order) \in Nat /\ \A id \in Modules : Place(id) \in Int
  <2>1. Len(old.order) \in Nat
    BY DEF Rect, Rects
  <2>2. ASSUME NEW id \in Modules PROVE Place(id) \in Int
    <3>1. CASE id \in Range(old.order)
      BY <1>3, <3>1
    <3>2. CASE id \notin Range(old.order)
      BY <1>5, <3>2 DEF Place, rest
    <3> QED
      BY <3>1, <3>2
  <2> QED
    BY <2>1, <2>2
<1>7. \A i, j \in Modules : Place(i) = Place(j) => i = j
  BY <1>3, <1>5, <1>6
<1>8. ASSUME NEW k \in 1..5 PROVE Nth(k) \in Modules
  <2>1. \E id \in Modules : Rank(places, Place(id)) = k
    <3> DEFINE P == [id \in Modules |-> Place(id)]
    <3>1. P \in [Modules -> Int] /\ \A i, j \in Modules : P[i] = P[j] => i = j
      BY <1>6, <1>7
    <3>2. {P[i] : i \in Modules} = places
      OBVIOUS
    <3> HIDE DEF P
    <3>3. \E id \in Modules : Rank({P[i] : i \in Modules}, P[id]) = k
      BY <3>1, FiveRanks
    <3> QED
      BY <3>2, <3>3 DEF P
  <2> QED
    BY <2>1, CountedHere DEF Rank
<1> HIDE DEF Nth
<1>9. start \in Row
  BY DEF Grids, Arranged, Row
<1>10. \A p \in Row, k \in 1..5 : Added(p, Nth(k)) \in Row
  BY <1>8, LaidIs
<1> HIDE DEF start, Added
<1>11. Row5(rows)
  <2>1. PICK s1 : s1 = Added(start, Nth(1))
    OBVIOUS
  <2>2. PICK s2 : s2 = Added(s1, Nth(2))
    OBVIOUS
  <2>3. PICK s3 : s3 = Added(s2, Nth(3))
    OBVIOUS
  <2>4. PICK s4 : s4 = Added(s3, Nth(4))
    OBVIOUS
  <2>5. PICK s5 : s5 = Added(s4, Nth(5))
    OBVIOUS
  <2> DEFINE f == [k \in 0 .. 5 |-> CASE k = 0 -> start [] k = 1 -> s1 [] k = 2 -> s2 [] k = 3 -> s3
                                     [] k = 4 -> s4 [] k = 5 -> s5]
             g == [k \in 0 .. 5 |-> IF k = 0 THEN start ELSE Added(f[k - 1], Nth(k))]
  <2>6. f[0] = start /\ f[1] = s1 /\ f[2] = s2 /\ f[3] = s3 /\ f[4] = s4 /\ f[5] = s5
    OBVIOUS
  <2>7. DOMAIN f = 0 .. 5 /\ f = [k \in 0 .. 5 |-> f[k]]
    OBVIOUS
  <2> HIDE DEF f
  <2>8. \A k \in 0 .. 5 : f[k] = IF k = 0 THEN start ELSE Added(f[k - 1], Nth(k))
    <3>1. \A k \in 0 .. 5 : k \in {0, 1, 2, 3, 4, 5}
      OBVIOUS
    <3>2. 1 - 1 = 0 /\ 2 - 1 = 1 /\ 3 - 1 = 2 /\ 4 - 1 = 3 /\ 5 - 1 = 4
      OBVIOUS
    <3> QED
      BY <2>1, <2>2, <2>3, <2>4, <2>5, <2>6, <3>1, <3>2
  <2>9. f = g
    BY <2>7, <2>8
  <2>10. Row5(f)
    BY <2>9
  <2> QED
    BY <2>10
<1> HIDE DEF rows
<1>12. rows[0] \in Row /\ \A k \in 1..5 : rows[k - 1] \in Row => rows[k] \in Row
  <2>1. rows[0] = start /\ \A k \in 1..5 : rows[k] = Added(rows[k - 1], Nth(k))
    BY <1>11
  <2> QED
    BY <1>9, <1>10, <2>1
<1>13. rows[5] \in Row
  <2>1. rows[1] \in Row
    BY <1>12
  <2>2. rows[2] \in Row
    BY <2>1, <1>12
  <2>3. rows[3] \in Row
    BY <2>2, <1>12
  <2>4. rows[4] \in Row
    BY <2>3, <1>12
  <2> QED
    BY <2>4, <1>12
<1> QED
  BY <1>1, <1>13 DEF Row

Layouts == Grids \cup Listed \cup Arranged({2, 3, 4})

LEMMA RawDefaultIs ==
    ASSUME NEW r \in AllRoles, NEW s \in AllScreens
    PROVE  LET d == RawDefault(r, s)
           IN  d \in Grids /\ d.items["controls"].y <= 39
<1> DEFINE Good(d) == d \in Grids /\ d.items["controls"].y <= 39
<1>1. ASSUME NEW a \in Rects, NEW b \in Rects, NEW e \in Rects, NEW f \in Rects,
             NEW g \in Rects, NEW hidden, a.y <= 39
      PROVE  Good(Layout(a, b, e, f, g, hidden))
  BY <1>1, PanelsAre DEF Layout, Hidden, Grids, Arranged
<1> HIDE DEF Good
<1>3. Good(DesktopDefault)
  <2>1. Rect(9, 0, 6, 4) \in Rects /\ Rect(0, 4, 9, 16) \in Rects
        /\ Rect(15, 0, 9, 4) \in Rects /\ Rect(9, 4, 15, 16) \in Rects
        /\ Rect(0, 0, 9, 4) \in Rects /\ Rect(9, 0, 6, 4).y <= 39
    BY DEF Rect, Rects
  <2> QED
    BY <1>1, <2>1 DEF DesktopDefault
<1>4. Good(ViewerDefault)
  <2>1. Rect(10, 0, 4, 4) \in Rects /\ Rect(0, 0, 12, 20) \in Rects
        /\ Rect(12, 0, 12, 4) \in Rects /\ Rect(12, 0, 12, 20) \in Rects
        /\ Rect(0, 0, 12, 4) \in Rects /\ Rect(10, 0, 4, 4).y <= 39
    BY DEF Rect, Rects
  <2> QED
    BY <1>1, <2>1 DEF ViewerDefault
<1>5. Good(NcoTabletLandscapeDefault)
  <2>1. Rect(10, 0, 4, 5) \in Rects /\ Rect(0, 5, 8, 15) \in Rects
        /\ Rect(14, 0, 10, 5) \in Rects /\ Rect(8, 5, 16, 15) \in Rects
        /\ Rect(0, 0, 10, 5) \in Rects /\ Rect(10, 0, 4, 5).y <= 39
    BY DEF Rect, Rects
  <2> QED
    BY <1>1, <2>1 DEF NcoTabletLandscapeDefault
<1>6. s # "desktop" => Good(ResponsiveDefault[s])
  <2>1. Good(ResponsiveDefault.phonePortrait) /\ Good(ResponsiveDefault.phoneLandscape)
        /\ Good(ResponsiveDefault.tabletPortrait) /\ Good(ResponsiveDefault.tabletLandscape)
    <3>1. Good(ResponsiveDefault.phonePortrait)
      <4>1. Rect(0, 0, 24, 6) \in Rects /\ Rect(0, 20, 24, 14) \in Rects
            /\ Rect(0, 39, 24, 5) \in Rects /\ Rect(0, 6, 24, 14) \in Rects
            /\ Rect(0, 34, 24, 5) \in Rects /\ Rect(0, 0, 24, 6).y <= 39
        BY DEF Rect, Rects
      <4> QED
        BY <1>1, <4>1 DEF ResponsiveDefault
    <3>2. Good(ResponsiveDefault.phoneLandscape)
      <4>1. Rect(0, 0, 9, 6) \in Rects /\ Rect(0, 6, 9, 18) \in Rects
            /\ Rect(9, 20, 15, 4) \in Rects /\ Rect(9, 0, 15, 16) \in Rects
            /\ Rect(9, 16, 15, 4) \in Rects /\ Rect(0, 0, 9, 6).y <= 39
        BY DEF Rect, Rects
      <4> QED
        BY <1>1, <4>1 DEF ResponsiveDefault
    <3>3. Good(ResponsiveDefault.tabletPortrait)
      <4>1. Rect(5, 0, 14, 5) \in Rects /\ Rect(0, 5, 10, 19) \in Rects
            /\ Rect(19, 0, 5, 5) \in Rects /\ Rect(10, 5, 14, 19) \in Rects
            /\ Rect(0, 0, 5, 5) \in Rects /\ Rect(5, 0, 14, 5).y <= 39
        BY DEF Rect, Rects
      <4> QED
        BY <1>1, <4>1 DEF ResponsiveDefault
    <3>4. Good(ResponsiveDefault.tabletLandscape)
      BY <1>3 DEF ResponsiveDefault
    <3> QED
      BY <3>1, <3>2, <3>3, <3>4
  <2> QED
    BY <2>1 DEF AllScreens
<1>7. s # "desktop" => Good(ViewerResponsiveDefault[s])
  <2>1. Good(ViewerResponsiveDefault.phonePortrait) /\ Good(ViewerResponsiveDefault.phoneLandscape)
        /\ Good(ViewerResponsiveDefault.tabletPortrait) /\ Good(ViewerResponsiveDefault.tabletLandscape)
    <3>1. Good(ViewerResponsiveDefault.phonePortrait)
      <4>1. Rect(0, 38, 24, 7) \in Rects /\ Rect(0, 14, 24, 14) \in Rects
            /\ Rect(0, 33, 24, 5) \in Rects /\ Rect(0, 0, 24, 14) \in Rects
            /\ Rect(0, 28, 24, 5) \in Rects /\ Rect(0, 38, 24, 7).y <= 39
        BY DEF Rect, Rects
      <4> QED
        BY <1>1, <4>1 DEF ViewerResponsiveDefault
    <3>2. Good(ViewerResponsiveDefault.phoneLandscape)
      <4>1. Rect(0, 0, 10, 8) \in Rects /\ Rect(0, 8, 10, 16) \in Rects
            /\ Rect(17, 17, 7, 7) \in Rects /\ Rect(10, 0, 14, 17) \in Rects
            /\ Rect(10, 17, 7, 7) \in Rects /\ Rect(0, 0, 10, 8).y <= 39
        BY DEF Rect, Rects
      <4> QED
        BY <1>1, <4>1 DEF ViewerResponsiveDefault
    <3>3. Good(ViewerResponsiveDefault.tabletPortrait)
      <4>1. Rect(9, 0, 6, 5) \in Rects /\ Rect(0, 0, 10, 24) \in Rects
            /\ Rect(15, 0, 9, 5) \in Rects /\ Rect(10, 0, 14, 24) \in Rects
            /\ Rect(0, 0, 9, 5) \in Rects /\ Rect(9, 0, 6, 5).y <= 39
        BY DEF Rect, Rects
      <4> QED
        BY <1>1, <4>1 DEF ViewerResponsiveDefault
    <3>4. Good(ViewerResponsiveDefault.tabletLandscape)
      <4>1. Rect(10, 0, 4, 4) \in Rects /\ Rect(0, 0, 8, 20) \in Rects
            /\ Rect(14, 0, 10, 4) \in Rects /\ Rect(8, 0, 16, 20) \in Rects
            /\ Rect(0, 0, 10, 4) \in Rects /\ Rect(10, 0, 4, 4).y <= 39
        BY DEF Rect, Rects
      <4> QED
        BY <1>1, <4>1 DEF ViewerResponsiveDefault
    <3> QED
      BY <3>1, <3>2, <3>3, <3>4
  <2> QED
    BY <2>1 DEF AllScreens
<1>8. Good(RawDefault(r, s))
  BY <1>3, <1>4, <1>5, <1>6, <1>7 DEF RawDefault
<1> QED
  BY <1>8 DEF Good

LEMMA UpgradedIs ==
    ASSUME NEW c \in Contexts, NEW l \in Layouts
    PROVE  /\ Upgraded(l, c) \in [Modules -> Rects]
           /\ l \in Grids => Upgraded(l, c) = l.items
<1>1. l.version = 4 => Upgraded(l, c) = l.items
  BY DEF Upgraded
<1>2. l.version \in {2, 3, 4} => l.items \in [Modules -> Rects]
  BY DEF Layouts, Grids, Listed, Arranged
<1>3. l.version = 3 => Upgraded(l, c) \in [Modules -> Rects]
  <2> DEFINE low == [lurkers |-> Rect(0, 0, 10, 2), checkedOut |-> Rect(14, 0, 10, 2)]
  <2>1. l.version = 3 => Upgraded(l, c) = [id \in Modules |-> IF id \in DOMAIN low /\ l.items[id] = low[id]
                                                THEN [l.items[id] EXCEPT !.h = 4] ELSE l.items[id]]
    BY DEF Upgraded
  <2>2. \A r \in Rects : [r EXCEPT !.h = 4] \in Rects
    BY DEF Rects
  <2> HIDE DEF low
  <2> QED
    BY <1>2, <2>1, <2>2
<1>4. l.version = 2 => Upgraded(l, c) \in [Modules -> Rects]
  <2>1. l.version = 2 => Upgraded(l, c) = [id \in Modules |-> 
             Rect(2 * l.items[id].x, l.items[id].y, 2 * l.items[id].w, l.items[id].h)]
    BY DEF Upgraded
  <2>2. \A r \in Rects : Rect(2 * r.x, r.y, 2 * r.w, r.h) \in Rects
    BY DEF Rects, Rect
  <2> QED
    BY <1>2, <2>1, <2>2
<1>5. l.version = 1 => Upgraded(l, c) \in [Modules -> Rects]
  <2>1. l.version = 1 => l \in Listed
    BY DEF Layouts, Grids, Arranged
  <2>2. RawDefault(c.role, c.screen) \in Grids
    BY ContextIs, RawDefaultIs
  <2>3. l.version = 1 => Upgraded(l, c) = Packed(l, RawDefault(c.role, c.screen))
    BY DEF Upgraded
  <2> QED
    BY <2>1, <2>2, <2>3, PackedIs
<1>6. l.version \in {1, 2, 3, 4}
  BY DEF Layouts, Grids, Listed, Arranged
<1> QED
  BY <1>1, <1>2, <1>3, <1>4, <1>5, <1>6 DEF Grids, Arranged

\* At rest on the grid, but for what the height of a phone's Station Controls adds.
AtRest(items, id, c) ==
    \/ RestsAt(items[id], id, c)
    \/ /\ id = "controls" /\ c.screen = "phonePortrait" /\ items[id].h = 6
       /\ RestsAt([items[id] EXCEPT !.h = 4], id, c)

\* Station Controls as a phone or a tablet held upright has it.
Fixed(items, c) ==
    HasControls(c) =>
        /\ c.screen = "phonePortrait" => items["controls"].h >= 6
        /\ c.screen = "tabletPortrait" => items["controls"].y = 0 /\ items["controls"].h = 5

\* Station Controls may be made six rows high where it is.
Roomy(items, c) ==
    c.screen = "phonePortrait" /\ HasControls(c) =>
        items["controls"].h >= 6 \/ items["controls"].y <= 39

LEMMA WithControlsIs ==
    ASSUME NEW c \in Contexts, NEW items \in [Modules -> Rects],
           \A id \in Modules : RestsAt(items[id], id, c)
    PROVE  LET n == WithControls(items, c)
           IN  /\ n \in [Modules -> Rects]
               /\ Fixed(n, c) /\ \A id \in Modules : AtRest(n, id, c)
               /\ Roomy(items, c) => \A id \in Modules : RestsAt(n[id], id, c)
               /\ Fixed(items, c) => n = items
<1> DEFINE n == WithControls(items, c)
           k == items["controls"]
<1>1. k \in Rects /\ RestsAt(k, "controls", c) /\ "controls" \in Modules
  BY PanelsAre
<1>2. k.x \in Int /\ k.y \in Int /\ k.w \in Int /\ k.h \in Int
  BY <1>1 DEF Rects
<1>3. c.screen # "desktop" => MinRows("controls", c) = 4
  BY <1>1, ContextIs
<1>4. \A id \in Modules : RestsAt(items[id], id, c) => AtRest(items, id, c)
  BY DEF AtRest
<1>5. CASE n = items /\ Fixed(items, c)
  BY <1>4, <1>5
<1>6. CASE HasControls(c) /\ c.screen = "tabletPortrait"
  <2> DEFINE r == [k EXCEPT !.h = 5, !.y = 0]
  <2>1. n = [id \in Modules |-> IF id = "controls" THEN r ELSE items[id]]
    BY <1>6, Zenon DEF WithControls
  <2>2. r \in Rects /\ RestsAt(r, "controls", c) /\ r.y = 0 /\ r.h = 5
    <3>1. \A q \in Rects :
             /\ [q EXCEPT !.h = 5, !.y = 0] \in Rects
             /\ LET e == [q EXCEPT !.h = 5, !.y = 0] IN e.x = q.x /\ e.y = 0 /\ e.w = q.w /\ e.h = 5
      <4>1. \A q \in Rects : [q EXCEPT !.h = 5] \in Rects /\ [q EXCEPT !.y = 0] \in Rects
        BY DEF Rects
      <4>2. \A q : [q EXCEPT !.h = 5, !.y = 0] = [[q EXCEPT !.h = 5] EXCEPT !.y = 0]
        BY Zenon
      <4>3. \A q \in Rects : LET e == [q EXCEPT !.h = 5, !.y = 0] IN
               e.x = q.x /\ e.y = 0 /\ e.w = q.w /\ e.h = 5
        BY DEF Rects
      <4> QED
        BY <4>1, <4>2, <4>3
    <3>2. r \in Rects /\ r.x = k.x /\ r.y = 0 /\ r.w = k.w /\ r.h = 5
      BY <1>1, <3>1, Zenon
    <3>3. Rows(c) = 24 /\ MinRows("controls", c) = 4
      BY <1>3, <1>6, ContextIs
    <3> HIDE DEF r, k
    <3> QED
      BY <1>1, <1>2, <3>2, <3>3 DEF RestsAt
  <2>3. Fixed(items, c) => r = k
    BY <1>1, <1>6 DEF Rects, Fixed
  <2> HIDE DEF r, n
  <2>4. n \in [Modules -> Rects] /\ n["controls"] = r /\ \A id \in Modules : RestsAt(n[id], id, c)
    BY <1>1, <2>1, <2>2
  <2>5. Fixed(items, c) => n = items
    BY <2>1, <2>3
  <2>6. Fixed(n, c)
    BY <1>6, <2>2, <2>4 DEF Fixed
  <2> QED
    BY <2>4, <2>5, <2>6 DEF AtRest, n
<1>7. CASE HasControls(c) /\ c.screen = "phonePortrait" /\ k.h < 6
  <2> DEFINE r == [k EXCEPT !.h = 6]
             Lowered(id) == IF id = "controls" THEN r
                            ELSE IF items[id].y >= k.y + k.h
                            THEN [items[id] EXCEPT !.y = Clamp(items[id].y + 6 - k.h, 0, Rows(c) - items[id].h)]
                            ELSE items[id]
  <2>1. n = [id \in Modules |-> Lowered(id)]
    BY <1>7 DEF WithControls
  <2>2. r \in Rects /\ r.h = 6 /\ RestsAt([r EXCEPT !.h = 4], "controls", c)
        /\ (k.y <= 39 => RestsAt(r, "controls", c))
    BY <1>1, <1>2, <1>3, <1>7, ContextIs DEF Rects, RestsAt
  <2>3. \A id \in Modules : id # "controls" => Lowered(id) \in Rects /\ RestsAt(Lowered(id), id, c)
    <3> SUFFICES ASSUME NEW id \in Modules, id # "controls"
                 PROVE  Lowered(id) \in Rects /\ RestsAt(Lowered(id), id, c)
      OBVIOUS
    <3>1. items[id] \in Rects /\ RestsAt(items[id], id, c)
      OBVIOUS
    <3>2. PICK y : y = Clamp(items[id].y + 6 - k.h, 0, Rows(c) - items[id].h)
      OBVIOUS
    <3>3. y \in 0 .. (Rows(c) - items[id].h)
      <4>1. Rows(c) \in Int /\ items[id].h \in Int /\ items[id].y \in Int
        BY <3>1, ContextIs DEF Rects
      <4>2. 0 <= Rows(c) - items[id].h
        BY <3>1, <4>1 DEF RestsAt
      <4>3. PICK v \in Int : v = items[id].y + 6 - k.h
        BY <1>2, <4>1
      <4>4. PICK m \in Int : m = Rows(c) - items[id].h
        BY <4>1
      <4>5. 0 <= m /\ 0 \in Int /\ y = Clamp(v, 0, m)
        BY <3>2, <4>2, <4>3, <4>4
      <4>6. y \in 0 .. m
        BY <4>5, Clamped
      <4> QED
        BY <4>4, <4>6
    <3>4. Lowered(id) = items[id] \/ Lowered(id) = [items[id] EXCEPT !.y = y]
      BY <3>2
    <3>5. [items[id] EXCEPT !.y = y] \in Rects /\ RestsAt([items[id] EXCEPT !.y = y], id, c)
      BY <3>1, <3>3, ContextIs DEF Rects, RestsAt
    <3> HIDE DEF Lowered
    <3> QED
      BY <3>1, <3>4, <3>5
  <2>4. Lowered("controls") = r
    OBVIOUS
  <2> HIDE DEF r, n, Lowered
  <2>5. n \in [Modules -> Rects] /\ n["controls"] = r
    BY <1>1, <2>1, <2>2, <2>3, <2>4
  <2>6. \A id \in Modules : id # "controls" => RestsAt(n[id], id, c)
    BY <2>1, <2>3
  <2>7. \A id \in Modules : AtRest(n, id, c)
    BY <1>7, <2>2, <2>5, <2>6 DEF AtRest
  <2>8. Roomy(items, c) => \A id \in Modules : RestsAt(n[id], id, c)
    <3>1. Roomy(items, c) => k.y <= 39
      BY <1>2, <1>7 DEF Roomy
    <3> QED
      BY <2>2, <2>5, <2>6, <3>1
  <2>9. Fixed(n, c) /\ ~Fixed(items, c)
    BY <1>2, <1>7, <2>2, <2>5 DEF Fixed
  <2> QED
    BY <2>5, <2>7, <2>8, <2>9 DEF n
<1>8. CASE ~HasControls(c)
  BY <1>5, <1>8 DEF WithControls, Fixed
<1>9. CASE HasControls(c) /\ c.screen # "tabletPortrait" /\ ~(c.screen = "phonePortrait" /\ k.h < 6)
  BY <1>2, <1>5, <1>9 DEF WithControls, Fixed
<1> QED
  BY <1>6, <1>7, <1>8, <1>9

LEMMA NormalizedIs ==
    ASSUME NEW c \in Contexts, NEW l \in Layouts
    PROVE  LET n == Normalized(l, c)
               u == Upgraded(l, c)
           IN  /\ n \in Grids /\ n.collapsed = l.collapsed
               /\ Fixed(n.items, c) /\ \A id \in Modules : AtRest(n.items, id, c)
               /\ Roomy(u, c) => \A id \in Modules : RestsAt(n.items[id], id, c)
               /\ Fixed(u, c) /\ (\A id \in Modules : RestsAt(u[id], id, c)) => n.items = u
<1> DEFINE n == Normalized(l, c)
           u == Upgraded(l, c)
           f == [id \in Modules |-> Fit(id, u[id], c)]
<1>1. u \in [Modules -> Rects] /\ "controls" \in Modules
  BY UpgradedIs, PanelsAre
<1>2. n = [version |-> 4, collapsed |-> l.collapsed, items |-> WithControls(f, c)]
  BY DEF Normalized
<1> HIDE DEF n, u
<1>3. f \in [Modules -> Rects] /\ (\A id \in Modules : RestsAt(f[id], id, c))
      /\ (Roomy(u, c) => Roomy(f, c))
      /\ ((\A id \in Modules : RestsAt(u[id], id, c)) => f = u)
  <2>1. \A id \in Modules : f[id] \in Rects /\ RestsAt(f[id], id, c)
           /\ (RestsAt(u[id], id, c) => f[id] = u[id])
           /\ (u[id].h >= 6 => f[id].h >= 6) /\ (u[id].y <= 39 => f[id].y <= 39)
    BY <1>1, FitIs
  <2>2. DOMAIN f = Modules /\ f = [id \in Modules |-> f[id]]
    OBVIOUS
  <2> HIDE DEF f
  <2> QED
    BY <1>1, <2>1, <2>2 DEF Roomy
<1> HIDE DEF f
<1>4. PICK i : i = WithControls(f, c)
  OBVIOUS
<1>5. /\ i \in [Modules -> Rects]
      /\ Fixed(i, c) /\ \A id \in Modules : AtRest(i, id, c)
      /\ Roomy(f, c) => \A id \in Modules : RestsAt(i[id], id, c)
      /\ Fixed(f, c) => i = f
  BY <1>3, <1>4, WithControlsIs
<1>6. l.collapsed \in [Modules -> BOOLEAN]
  BY DEF Layouts, Grids, Listed, Arranged
<1>7. n \in Grids /\ n.items = i /\ n.collapsed = l.collapsed
  BY <1>2, <1>4, <1>5, <1>6 DEF Grids, Arranged
<1> QED
  BY <1>3, <1>5, <1>7 DEF n, u

\* A layout that was brought to the grid of the role and the window.
Settled(l, c) ==
    /\ l \in Grids /\ Fixed(l.items, c)
    /\ \A id \in Modules : RestsAt(l.items[id], id, c)

\* The same, but for what the height of a phone's Station Controls adds.
Brought(l, c) ==
    /\ l \in Grids /\ Fixed(l.items, c)
    /\ \A id \in Modules : AtRest(l.items, id, c)

LEMMA BroughtIs ==
    ASSUME NEW c \in Contexts, NEW l \in Layouts
    PROVE  /\ Brought(Normalized(l, c), c) /\ Normalized(l, c).collapsed = l.collapsed
           /\ l \in Grids /\ Roomy(l.items, c) => Settled(Normalized(l, c), c)
           /\ Settled(l, c) => Normalized(l, c).items = l.items /\ Normalized(l, c) = l
<1>1. PICK n : n = Normalized(l, c)
  OBVIOUS
<1>2. n \in Grids /\ n.collapsed = l.collapsed /\ Fixed(n.items, c)
      /\ \A id \in Modules : AtRest(n.items, id, c)
  BY <1>1, NormalizedIs
<1>3. l \in Grids => (Roomy(l.items, c) => \A id \in Modules : RestsAt(n.items[id], id, c))
        /\ (Fixed(l.items, c) /\ (\A id \in Modules : RestsAt(l.items[id], id, c)) => n.items = l.items)
  BY <1>1, NormalizedIs, UpgradedIs
<1>4. Settled(l, c) => n = l
  BY <1>2, <1>3 DEF Settled, Grids, Arranged
<1> QED
  BY <1>1, <1>2, <1>3, <1>4 DEF Brought, Settled

LEMMA BroughtIsRoomy == \A l, c : Fixed(l.items, c) => Roomy(l.items, c)
  BY DEF Fixed, Roomy

LEMMA GridWith ==
    ASSUME NEW l \in Grids, NEW items \in [Modules -> Rects]
    PROVE  [l EXCEPT !.items = items] \in Grids /\ [l EXCEPT !.items = items].items = items
           /\ [l EXCEPT !.items = items].collapsed = l.collapsed
  BY DEF Grids, Arranged

LEMMA ReplacedIs ==
    ASSUME NEW l \in Grids, NEW id \in Modules, NEW r \in Rects
    PROVE  LET n == Replaced(l, id, r)
           IN  /\ n \in Grids /\ n.collapsed = l.collapsed
               /\ n.items[id] = r /\ \A i \in Modules : i # id => n.items[i] = l.items[i]
<1>1. Replaced(l, id, r) = [l EXCEPT !.items = [l.items EXCEPT ![id] = r]]
  BY Zenon DEF Replaced
<1>2. PICK items : items = [l.items EXCEPT ![id] = r]
  OBVIOUS
<1>3. l.items \in [Modules -> Rects]
  BY DEF Grids, Arranged
<1>4. items \in [Modules -> Rects] /\ items[id] = r
      /\ \A i \in Modules : i # id => items[i] = l.items[i]
  BY <1>2, <1>3
<1> QED
  BY <1>1, <1>2, <1>4, GridWith

\* What becomes of the layout, in a word.
Puts(n, l, id, r) ==
    /\ n \in Grids /\ n.collapsed = l.collapsed
    /\ n.items[id] = r /\ \A i \in Modules : i # id => n.items[i] = l.items[i]

LEMMA ReplacedPuts ==
    ASSUME NEW l \in Grids, NEW id \in Modules, NEW r \in Rects, NEW n, n = Replaced(l, id, r)
    PROVE  Puts(n, l, id, r)
<1>1. Puts(Replaced(l, id, r), l, id, r)
  BY ReplacedIs DEF Puts
<1> QED
  BY <1>1

LEMMA CanonicalIs ==
    ASSUME NEW c \in Contexts, NEW l \in Layouts, NEW force \in BOOLEAN
    PROVE  LET n == Canonical(l, c, force)
           IN  Brought(n, c) /\ (l \in Grids /\ Roomy(l.items, c) => Settled(n, c))
<1> DEFINE m == Normalized(l, c)
           a == Rect(0, 0, 12, 4)
           b == Rect(12, 0, 12, 4)
           top == Replaced(Replaced(m, "lurkers", a), "checkedOut", b)
<1>1. Brought(m, c) /\ (l \in Grids /\ Roomy(l.items, c) => Settled(m, c))
  BY BroughtIs
<1>2. \/ Canonical(l, c, force) = m
      \/ ~HasControls(c) /\ c.screen = "desktop" /\ Canonical(l, c, force) = top
  <2>1. Canonical(l, c, force) =
           IF \/ HasControls(c) \/ c.screen # "desktop"
              \/ ~(force \/ (m.items.lurkers.y = 0 /\ m.items.checkedOut.y = 0)) THEN m
           ELSE [m EXCEPT !.items.lurkers = a, !.items.checkedOut = b]
    BY DEF Canonical
  <2>2. [m EXCEPT !.items.lurkers = a, !.items.checkedOut = b] = top
    BY Zenon DEF Replaced
  <2> HIDE DEF m, a, b, top
  <2> QED
    BY <2>1, <2>2
<1>3. ASSUME ~HasControls(c), c.screen = "desktop" PROVE Settled(top, c)
  <2>1. "lurkers" \in Modules /\ "checkedOut" \in Modules
    BY PanelsAre
  <2>2. a \in Rects /\ b \in Rects
    BY DEF Rect, Rects
  <2>3. MinRows("lurkers", c) = 2 /\ MinRows("checkedOut", c) = 2 /\ Rows(c) = 20
    BY <1>3 DEF MinRows, LeastRows, Rows
  <2>4. RestsAt(a, "lurkers", c) /\ RestsAt(b, "checkedOut", c)
    BY <2>3 DEF RestsAt, Rect
  <2>5. m \in Grids /\ \A id \in Modules : RestsAt(m.items[id], id, c)
    BY <1>1, <1>3 DEF Brought, AtRest
  <2> HIDE DEF m, a, b, top
  <2>6. PICK k : k = Replaced(m, "lurkers", a)
    OBVIOUS
  <2>7. k \in Grids /\ k.items["lurkers"] = a /\ \A i \in Modules : i # "lurkers" => k.items[i] = m.items[i]
    <3>1. Puts(k, m, "lurkers", a)
      BY <2>1, <2>2, <2>5, <2>6, ReplacedPuts
    <3> QED
      BY <3>1 DEF Puts
  <2>8. top = Replaced(k, "checkedOut", b) /\ k \in Grids
    BY <2>6, <2>7 DEF top
  <2>9. top \in Grids /\ top.items["checkedOut"] = b /\ \A i \in Modules : i # "checkedOut" => top.items[i] = k.items[i]
    <3>1. PICK t : t = Replaced(k, "checkedOut", b)
      OBVIOUS
    <3>2. Puts(t, k, "checkedOut", b)
      BY <2>1, <2>2, <2>8, <3>1, ReplacedPuts
    <3> QED
      BY <2>8, <3>1, <3>2 DEF Puts
  <2>10. \A id \in Modules : RestsAt(top.items[id], id, c)
    BY <2>4, <2>5, <2>7, <2>9
  <2> QED
    BY <1>3, <2>9, <2>10 DEF Settled, Fixed
<1>4. \A n : Settled(n, c) => Brought(n, c)
  BY DEF Settled, Brought, AtRest
<1> HIDE DEF m, top
<1> QED
  BY <1>1, <1>2, <1>3, <1>4

LEMMA DefaultIs ==
    ASSUME NEW c \in Contexts
    PROVE  Settled(Default(c), c)
<1>1. PICK d : d = RawDefault(c.role, c.screen)
  OBVIOUS
<1>2. d \in Grids /\ d \in Layouts /\ Roomy(d.items, c)
  BY <1>1, ContextIs, RawDefaultIs DEF Layouts, Roomy
<1>3. TRUE \in BOOLEAN /\ Default(c) = Canonical(d, c, TRUE)
  BY <1>1 DEF Default
<1> QED
  BY <1>2, <1>3, CanonicalIs

LEMMA RestoredIs ==
    ASSUME NEW c \in Contexts, NEW l \in Layouts
    PROVE  Brought(Restored(l, c), c)
<1> DEFINE e == Normalized(Default(c), c)
<1>1. PICK n : n = Canonical(l, c, FALSE)
  OBVIOUS
<1>2. FALSE \in BOOLEAN /\ Brought(n, c)
  BY <1>1, CanonicalIs
<1>3. Brought(e, c)
  <2>1. PICK d : d = Default(c)
    OBVIOUS
  <2>2. d \in Layouts
    BY <2>1, DefaultIs DEF Settled, Layouts
  <2> QED
    BY <2>1, <2>2, BroughtIs
<1> HIDE DEF e
<1>4. Restored(l, c) = n \/ Restored(l, c) = [e EXCEPT !.collapsed = n.collapsed]
  BY <1>1 DEF Restored, e
<1>5. [e EXCEPT !.collapsed = n.collapsed] \in Grids /\ [e EXCEPT !.collapsed = n.collapsed].items = e.items
  BY <1>2, <1>3 DEF Brought, Grids, Arranged
<1> QED
  BY <1>2, <1>3, <1>4, <1>5 DEF Brought

\* A layout that begins to be used comes to rest on the grid.
LEMMA ActivatedIs ==
    ASSUME NEW c \in Contexts, NEW bucket,
           bucket[LayoutRole(c.role)][c.screen] \in Layouts \cup {None}
    PROVE  /\ Activated(bucket, c) \in Grids
           /\ Settled(Normalized(Activated(bucket, c), c), c)
<1> DEFINE own == bucket[LayoutRole(c.role)][c.screen]
           kept == IF Replaceable(own, c.role, c.screen) THEN NcoTabletLandscapeDefault ELSE own
           usable == kept # None /\ Current(kept, c.screen)
           begun == IF usable THEN kept ELSE Default(c)
<1>1. Activated(bucket, c) = Restored(begun, c)
  BY DEF Activated
<1>2. begun \in Layouts
  <2>1. Default(c) \in Layouts
    BY DefaultIs DEF Settled, Layouts
  <2>2. NcoTabletLandscapeDefault \in Layouts
    <3>1. RawDefault("netcontrol", "tabletLandscape") = NcoTabletLandscapeDefault
      BY DEF RawDefault
    <3>2. "netcontrol" \in AllRoles /\ "tabletLandscape" \in AllScreens
      BY DEF AllRoles, AllScreens
    <3> QED
      BY <3>1, <3>2, RawDefaultIs DEF Layouts
  <2>3. own \in Layouts \cup {None}
    OBVIOUS
  <2> HIDE DEF own
  <2> QED
    BY <2>1, <2>2, <2>3
<1> HIDE DEF begun
<1>3. PICK a : a = Activated(bucket, c)
  OBVIOUS
<1>4. Brought(a, c)
  BY <1>1, <1>2, <1>3, RestoredIs
<1>5. a \in Grids /\ a \in Layouts /\ Roomy(a.items, c)
  BY <1>4, BroughtIsRoomy DEF Brought, Layouts
<1> QED
  BY <1>3, <1>5, BroughtIs

LEMMA ModulesFinite == \A P \in SUBSET Modules, f \in [Modules -> Int] :
                           IsFiniteSet({f[i] : i \in P})
<1> SUFFICES ASSUME NEW P \in SUBSET Modules, NEW f \in [Modules -> Int]
             PROVE  IsFiniteSet({f[i] : i \in P})
  OBVIOUS
<1> DEFINE A == {f["controls"]}
           B == A \cup {f["chat"]}
           C == B \cup {f["checkedOut"]}
           D == C \cup {f["active"]}
           E == D \cup {f["lurkers"]}
<1>1. {f[i] : i \in P} \in SUBSET E
  BY PanelsAre
<1>2. IsFiniteSet(A)
  BY FS_Singleton
<1> HIDE DEF A
<1>3. IsFiniteSet(B)
  BY <1>2, FS_AddElement
<1> HIDE DEF B
<1>4. IsFiniteSet(C)
  BY <1>3, FS_AddElement
<1> HIDE DEF C
<1>5. IsFiniteSet(D)
  BY <1>4, FS_AddElement
<1> HIDE DEF D
<1>6. IsFiniteSet(E)
  BY <1>5, FS_AddElement
<1> HIDE DEF E
<1> QED
  BY <1>1, <1>6, FS_Subset

\* What some panels measure has a most and a least.
LEMMA ExtremesAre ==
    ASSUME NEW P \in SUBSET Modules, P # {}, NEW f \in [Modules -> Int]
    PROVE  LET I == {f[i] : i \in P}
           IN  /\ Max(I) \in I /\ \A i \in P : f[i] <= Max(I)
               /\ Min(I) \in I /\ \A i \in P : f[i] >= Min(I)
<1> DEFINE I == {f[i] : i \in P}
           n == Cardinality(I)
<1>1. I \in SUBSET Int /\ I # {} /\ IsFiniteSet(I)
  BY ModulesFinite
<1> HIDE DEF I
<1>2. /\ n \in Nat
      /\ \A i \in I : Rank(I, i) \in 1..n
      /\ \A i, j \in I : i < j => Rank(I, i) < Rank(I, j)
      /\ \A k \in 1..n : \E i \in I : Rank(I, i) = k
  BY <1>1, Ranks
<1>3. n # 0
  BY <1>1, FS_EmptySet
<1>4. \E i \in I : \A j \in I : i >= j
  <2>1. PICK i \in I : Rank(I, i) = n
    BY <1>2, <1>3
  <2>2. \A j \in I : i >= j
    BY <1>1, <1>2, <2>1
  <2> QED
    BY <2>2
<1>5. \E i \in I : \A j \in I : i <= j
  <2>1. PICK i \in I : Rank(I, i) = 1
    BY <1>2, <1>3
  <2>2. \A j \in I : i <= j
    BY <1>1, <1>2, <2>1
  <2> QED
    BY <2>2
<1>6. Max(I) \in I /\ \A j \in I : Max(I) >= j
  BY <1>4 DEF Max
<1>7. Min(I) \in I /\ \A j \in I : Min(I) <= j
  BY <1>5 DEF Min
<1>8. \A i \in P : f[i] \in I /\ f[i] \in Int
  BY DEF I
<1> QED
  BY <1>1, <1>6, <1>7, <1>8 DEF I

Axes == {"x", "y"}

\* The panels that meet at a boundary.
LEMMA BoundaryIs ==
    ASSUME NEW l \in Grids, NEW ids \in SUBSET Modules, NEW b \in Boundaries(l, ids)
    PROVE  /\ b \in [axis : Axes, at : Int, before : SUBSET Modules, after : SUBSET Modules]
           /\ b.before \subseteq ids /\ b.after \subseteq ids /\ b.before # {} /\ b.after # {}
           /\ \A i \in b.before : End(l.items[i], b.axis) = b.at
           /\ \A i \in b.after : l.items[i][b.axis] = b.at
<1>1. b.before # {} /\ b.after # {}
  BY Zenon DEF Boundaries
<1>2. \E axis \in Axes : \E at, G :
               /\ b = [axis |-> axis, at |-> at,
                       before |-> {i \in G : End(l.items[i], axis) = at},
                       after |-> {i \in G : l.items[i][axis] = at}]
               /\ G \subseteq ids
               /\ at \in {End(l.items[i], axis) : i \in ids}
  <2> DEFINE from(axis, i) == l.items[i][Cross(axis)]
             to(axis, i) == End(l.items[i], Cross(axis))
             Faces(axis, at) == {i \in ids : at \in {l.items[i][axis], End(l.items[i], axis)}}
             Across(axis, i, j) == from(axis, i) < to(axis, j) /\ from(axis, j) < to(axis, i)
             Beside(axis, faces, S) == {j \in faces : j \in S \/ \E i \in S : Across(axis, i, j)}
             Groups(axis, faces) ==
                {Beside(axis, faces, Beside(axis, faces, Beside(axis, faces, Beside(axis, faces, {i})))) :
                    i \in faces}
             Bound(axis, at, G) ==
                [axis |-> axis, at |-> at,
                 before |-> {i \in G : End(l.items[i], axis) = at},
                 after |-> {i \in G : l.items[i][axis] = at}]
             Lines(axis) == {End(l.items[i], axis) : i \in ids} \cap {l.items[i][axis] : i \in ids}
             all == UNION {UNION {{Bound(axis, at, G) : G \in Groups(axis, Faces(axis, at))} : at \in Lines(axis)} :
                              axis \in {"x", "y"}}
  <2>1. b \in all
    BY Zenon DEF Boundaries
  <2>2. \A axis, faces : \A G \in Groups(axis, faces) : G \subseteq faces
    <3> HIDE DEF Across
    <3> QED
      OBVIOUS
  <2>3. \A axis, at : Faces(axis, at) \subseteq ids
    OBVIOUS
  <2> HIDE DEF Faces, Groups, Bound
  <2>4. \E axis \in {"x", "y"} : \E at \in Lines(axis) : \E G \in Groups(axis, Faces(axis, at)) : b = Bound(axis, at, G)
    BY <2>1
  <2>5. PICK axis \in {"x", "y"} : \E at \in Lines(axis) : \E G \in Groups(axis, Faces(axis, at)) : b = Bound(axis, at, G)
    BY <2>4
  <2>6. PICK at \in Lines(axis) : \E G \in Groups(axis, Faces(axis, at)) : b = Bound(axis, at, G)
    BY <2>5
  <2>7. PICK G \in Groups(axis, Faces(axis, at)) : b = Bound(axis, at, G)
    BY <2>6
  <2>8. G \subseteq ids
    BY <2>2, <2>3
  <2> QED
    BY <2>7, <2>8, Zenon DEF Bound, Axes
<1>3. PICK axis \in Axes : \E at, G :
               /\ b = [axis |-> axis, at |-> at,
                       before |-> {i \in G : End(l.items[i], axis) = at},
                       after |-> {i \in G : l.items[i][axis] = at}]
               /\ G \subseteq ids
               /\ at \in {End(l.items[i], axis) : i \in ids}
  BY <1>2
<1>4. PICK at, G :
               /\ b = [axis |-> axis, at |-> at,
                       before |-> {i \in G : End(l.items[i], axis) = at},
                       after |-> {i \in G : l.items[i][axis] = at}]
               /\ G \subseteq ids
               /\ at \in {End(l.items[i], axis) : i \in ids}
  BY <1>3
<1>5. at \in Int
  <2>1. l.items \in [Modules -> Rects]
    BY DEF Grids, Arranged
  <2>2. \A r \in Rects : End(r, "x") \in Int /\ End(r, "y") \in Int
    BY DEF Rects, End, Size
  <2> QED
    BY <1>4, <2>1, <2>2 DEF Axes
<1> QED
  BY <1>1, <1>4, <1>5

Fields == {"x", "y", "w", "h"}

LEMMA FieldsAre ==
    /\ \A r \in Rects, f \in Fields : r[f] \in Int
    /\ \A r, s \in Rects : (\A f \in Fields : r[f] = s[f]) => r = s
    /\ \A axis \in Axes : /\ axis \in Fields /\ Size(axis) \in Fields /\ axis # Size(axis)
                          /\ Cross(axis) \in Axes /\ Cross(axis) # axis
                          /\ Size(Cross(axis)) # Size(axis)
  BY DEF Rects, Fields, Axes, Size, Cross

LEMMA FieldSet ==
    ASSUME NEW r \in Rects, NEW f \in Fields, NEW v \in Int
    PROVE  /\ [r EXCEPT ![f] = v] \in Rects
           /\ [r EXCEPT ![f] = v][f] = v
           /\ \A g \in Fields : g # f => [r EXCEPT ![f] = v][g] = r[g]
<1>1. CASE f = "x"
  BY <1>1 DEF Rects, Fields
<1>2. CASE f = "y"
  BY <1>2 DEF Rects, Fields
<1>3. CASE f = "w"
  BY <1>3 DEF Rects, Fields
<1>4. CASE f = "h"
  BY <1>4 DEF Rects, Fields
<1> QED
  BY <1>1, <1>2, <1>3, <1>4 DEF Fields

LEMMA SmallestIs ==
    ASSUME NEW c \in Contexts, NEW id \in Modules
    PROVE  /\ Smallest(id, c)["w"] = 2
           /\ Smallest(id, c)["h"] \in MinRows(id, c) .. 6
           /\ \A axis \in Axes : Smallest(id, c)[Size(axis)] \in 2..6
           /\ id = "controls" /\ c.screen = "phonePortrait" => Smallest(id, c)["h"] = 6
<1>1. MinRows(id, c) \in 2..5 /\ (id = "controls" /\ c.screen # "desktop" => MinRows(id, c) = 4)
  BY ContextIs
<1>2. Smallest(id, c)["w"] = 2
  BY DEF Smallest, MinColumns
<1>3. Smallest(id, c)["h"] \in MinRows(id, c) .. 6
      /\ (id = "controls" /\ c.screen = "phonePortrait" => Smallest(id, c)["h"] = 6)
  BY <1>1 DEF Smallest
<1> QED
  BY <1>1, <1>2, <1>3 DEF Axes, Size

\* What a boundary at a line makes of the panels on its two sides.
SplitAt(l, n, x, line) ==
    LET size == Size(x.axis)
    IN  \A i \in Modules :
            /\ i \in x.before =>
                  /\ n.items[i][size] = l.items[i][size] + line - x.at
                  /\ \A f \in Fields : f # size => n.items[i][f] = l.items[i][f]
            /\ i \in x.after /\ i \notin x.before =>
                  /\ n.items[i][x.axis] = line
                  /\ n.items[i][size] = l.items[i][size] - (line - x.at)
                  /\ \A f \in Fields : f \notin {size, x.axis} => n.items[i][f] = l.items[i][f]
            /\ i \notin x.before \cup x.after => n.items[i] = l.items[i]

LEMMA SplitIs ==
    ASSUME NEW c \in Contexts, NEW l \in Grids, NEW b, NEW to \in Int,
           NEW n \in Split(l, b, to, c)
    PROVE  \E x \in Boundaries(l, Visible(l, c)) : \E line \in Int :
               /\ n \in Grids /\ n.collapsed = l.collapsed /\ Fits(n, c)
               /\ SplitAt(l, n, x, line)
               /\ \A i \in x.before : line >= l.items[i][x.axis] + Smallest(i, c)[Size(x.axis)]
               /\ \A i \in x.after : line <= End(l.items[i], x.axis) - Smallest(i, c)[Size(x.axis)]
<1> DEFINE size == Size(b.axis)
           Edge(i, x, by, line) == IF i \in x.before THEN [l.items[i] EXCEPT ![size] = @ + by]
                         ELSE IF i \in x.after
                         THEN [l.items[i] EXCEPT ![x.axis] = line, ![size] = @ - by]
                         ELSE l.items[i]
           Items(x, by, line) == [i \in Modules |-> Edge(i, x, by, line)]
           Line(x) == Clamp(to, Limits(l, x, c).min, Limits(l, x, c).max)
           At(x) == [l EXCEPT !.items = Items(x, Line(x) - x.at, Line(x))]
<1>1. \E x \in Boundaries(l, Visible(l, c)) :
          /\ x.axis = b.axis /\ Limits(l, x, c).min <= Limits(l, x, c).max
          /\ n = At(x) /\ Fits(n, c)
  BY DEF Split
<1> HIDE DEF At
<1>2. PICK x \in Boundaries(l, Visible(l, c)) :
          /\ x.axis = b.axis /\ Limits(l, x, c).min <= Limits(l, x, c).max
          /\ n = At(x) /\ Fits(n, c)
  BY <1>1
<1> DEFINE from == [i \in Modules |-> l.items[i][x.axis] + Smallest(i, c)[size]]
           upto == [i \in Modules |-> End(l.items[i], x.axis) - Smallest(i, c)[size]]
<1>3. Visible(l, c) \in SUBSET Modules
  BY DEF Visible
<1>4. /\ x \in [axis : Axes, at : Int, before : SUBSET Modules, after : SUBSET Modules]
      /\ x.before # {} /\ x.after # {}
  BY <1>3, BoundaryIs
<1>5. l.items \in [Modules -> Rects]
  BY DEF Grids, Arranged
<1>6. x.axis \in Fields /\ size \in Fields /\ x.axis # size /\ size = Size(x.axis)
  BY <1>2, <1>4, FieldsAre
<1>7. from \in [Modules -> Int] /\ upto \in [Modules -> Int]
  <2>1. ASSUME NEW i \in Modules
        PROVE  l.items[i][x.axis] \in Int /\ l.items[i][size] \in Int /\ Smallest(i, c)[size] \in Int
               /\ End(l.items[i], x.axis) = l.items[i][x.axis] + l.items[i][size]
    <3>1. l.items[i][x.axis] \in Int /\ l.items[i][size] \in Int
      BY <1>5, <1>6, FieldsAre
    <3>2. Smallest(i, c)[size] \in Int
      BY <1>4, <1>6, SmallestIs
    <3> QED
      BY <1>6, <3>1, <3>2 DEF End
  <2> HIDE DEF size
  <2> QED
    BY <2>1
<1>8. Limits(l, x, c) = [min |-> Max({from[i] : i \in x.before}), max |-> Min({upto[i] : i \in x.after})]
  <2>1. {from[i] : i \in x.before} = {l.items[i][x.axis] + Smallest(i, c)[size] : i \in x.before}
    BY <1>4
  <2>2. {upto[i] : i \in x.after} = {End(l.items[i], x.axis) - Smallest(i, c)[size] : i \in x.after}
    BY <1>4
  <2> QED
    BY <1>6, <2>1, <2>2 DEF Limits
<1> HIDE DEF from, upto
<1>9. PICK low \in Int : low = Limits(l, x, c).min /\ \A i \in x.before : from[i] <= low
  <2>1. Max({from[i] : i \in x.before}) \in {from[i] : i \in x.before}
        /\ \A i \in x.before : from[i] <= Max({from[j] : j \in x.before})
    BY <1>4, <1>7, ExtremesAre
  <2>2. PICK m : m = Max({from[i] : i \in x.before})
    OBVIOUS
  <2>3. m \in Int /\ \A i \in x.before : from[i] <= m
    BY <1>4, <1>7, <2>1, <2>2
  <2>4. m = Limits(l, x, c).min
    BY <1>8, <2>2
  <2> QED
    BY <2>3, <2>4
<1>10. PICK high \in Int : high = Limits(l, x, c).max /\ \A i \in x.after : upto[i] >= high
  <2>1. Min({upto[i] : i \in x.after}) \in {upto[i] : i \in x.after}
        /\ \A i \in x.after : upto[i] >= Min({upto[j] : j \in x.after})
    BY <1>4, <1>7, ExtremesAre
  <2>2. PICK m : m = Min({upto[i] : i \in x.after})
    OBVIOUS
  <2>3. m \in Int /\ \A i \in x.after : upto[i] >= m
    BY <1>4, <1>7, <2>1, <2>2
  <2>4. m = Limits(l, x, c).max
    BY <1>8, <2>2
  <2> QED
    BY <2>3, <2>4
<1>11. PICK line \in Int : line = Line(x) /\ line \in low .. high
  <2>1. low <= high
    BY <1>2, <1>9, <1>10
  <2>2. Line(x) = Clamp(to, low, high)
    BY <1>9, <1>10
  <2>3. Clamp(to, low, high) \in low .. high
    BY <2>1, Clamped
  <2> HIDE DEF Line
  <2> QED
    BY <2>2, <2>3
<1> HIDE DEF Line
<1>12. PICK by \in Int : by = line - x.at
  BY <1>4
<1>13. n = [l EXCEPT !.items = Items(x, by, line)]
  BY <1>2, <1>11, <1>12 DEF At
<1>14. \A i \in Modules :
          LET e == Edge(i, x, by, line) IN
          /\ e \in Rects
          /\ i \in x.before => e[size] = l.items[i][size] + by /\ \A f \in Fields : f # size => e[f] = l.items[i][f]
          /\ i \in x.after /\ i \notin x.before =>
                  /\ e[x.axis] = line /\ e[size] = l.items[i][size] - by
                  /\ \A f \in Fields : f \notin {size, x.axis} => e[f] = l.items[i][f]
          /\ i \notin x.before \cup x.after => e = l.items[i]
  <2> SUFFICES ASSUME NEW i \in Modules
               PROVE  LET e == Edge(i, x, by, line) IN
          /\ e \in Rects
          /\ i \in x.before => e[size] = l.items[i][size] + by /\ \A f \in Fields : f # size => e[f] = l.items[i][f]
          /\ i \in x.after /\ i \notin x.before =>
                  /\ e[x.axis] = line /\ e[size] = l.items[i][size] - by
                  /\ \A f \in Fields : f \notin {size, x.axis} => e[f] = l.items[i][f]
          /\ i \notin x.before \cup x.after => e = l.items[i]
    BY Zenon
  <2>1. PICK r \in Rects : r = l.items[i]
    BY <1>5
  <2>2. r[size] \in Int
    BY <1>6, FieldsAre
  <2>3. PICK p \in Int : p = r[size] + by
    BY <2>2
  <2>4. PICK q \in Int : q = r[size] - by
    BY <2>2
  <2>5. PICK s \in Rects : s = [r EXCEPT ![x.axis] = line] /\ s[x.axis] = line
                 /\ \A f \in Fields : f # x.axis => s[f] = r[f]
    <3>1. PICK s : s = [r EXCEPT ![x.axis] = line]
      OBVIOUS
    <3>2. s \in Rects /\ s[x.axis] = line /\ \A f \in Fields : f # x.axis => s[f] = r[f]
      <4>1. PICK a \in Fields : a = x.axis
        BY <1>6
      <4>2. [r EXCEPT ![a] = line] \in Rects /\ [r EXCEPT ![a] = line][a] = line
            /\ \A f \in Fields : f # a => [r EXCEPT ![a] = line][f] = r[f]
        BY FieldSet
      <4> QED
        BY <3>1, <4>1, <4>2
    <3> QED
      BY <3>1, <3>2
  <2>6. [r EXCEPT ![size] = @ + by] = [r EXCEPT ![size] = p]
    BY <2>3, Zenon
  <2>7. [r EXCEPT ![x.axis] = line, ![size] = @ - by] = [s EXCEPT ![size] = q]
    BY <1>6, <2>4, <2>5, Zenon
  <2>8. /\ [r EXCEPT ![size] = p] \in Rects /\ [r EXCEPT ![size] = p][size] = p
        /\ \A f \in Fields : f # size => [r EXCEPT ![size] = p][f] = r[f]
    BY <1>6, FieldSet
  <2>9. /\ [s EXCEPT ![size] = q] \in Rects /\ [s EXCEPT ![size] = q][size] = q
        /\ \A f \in Fields : f # size => [s EXCEPT ![size] = q][f] = s[f]
    BY <1>6, FieldSet
  <2>10. PICK e : e = Edge(i, x, by, line)
    OBVIOUS
  <2>11. CASE i \in x.before
    <3>1. e = [r EXCEPT ![size] = p]
      BY <2>1, <2>6, <2>10, <2>11
    <3> HIDE DEF Edge, size
    <3> QED
      BY <2>1, <2>3, <2>8, <2>10, <2>11, <3>1
  <2>12. CASE i \notin x.before /\ i \in x.after
    <3>1. e = [s EXCEPT ![size] = q]
      BY <2>1, <2>7, <2>10, <2>12
    <3> HIDE DEF Edge, size
    <3> QED
      BY <1>6, <2>1, <2>4, <2>5, <2>9, <2>10, <2>12, <3>1
  <2>13. CASE i \notin x.before /\ i \notin x.after
    BY <2>1, <2>13
  <2> QED
    BY <2>11, <2>12, <2>13
<1> HIDE DEF Edge, size
<1>15. Items(x, by, line) \in [Modules -> Rects]
  BY <1>14
<1>16. n \in Grids /\ n.collapsed = l.collapsed /\ n.items = Items(x, by, line)
  BY <1>13, <1>15, GridWith
<1>17. SplitAt(l, n, x, line)
  <2>1. \A i \in Modules : n.items[i] = Edge(i, x, by, line)
    BY <1>16
  <2>2. \A i \in Modules : l.items[i][size] + line - x.at = l.items[i][size] + by /\ line - x.at = by
    <3>1. \A i \in Modules : l.items[i][size] \in Int
      BY <1>5, <1>6, FieldsAre
    <3>2. x.at \in Int
      BY <1>4
    <3> QED
      BY <1>12, <3>1, <3>2
  <2> QED
    BY <1>6, <1>14, <2>1, <2>2 DEF SplitAt
<1>18. \A i \in x.before : line >= l.items[i][x.axis] + Smallest(i, c)[Size(x.axis)]
  <2>1. \A i \in x.before : from[i] \in Int /\ from[i] = l.items[i][x.axis] + Smallest(i, c)[size]
    BY <1>4, <1>7 DEF from
  <2> QED
    BY <1>6, <1>9, <1>11, <2>1
<1>19. \A i \in x.after : line <= End(l.items[i], x.axis) - Smallest(i, c)[Size(x.axis)]
  <2>1. \A i \in x.after : upto[i] \in Int /\ upto[i] = End(l.items[i], x.axis) - Smallest(i, c)[size]
    BY <1>4, <1>7 DEF upto
  <2> QED
    BY <1>6, <1>10, <1>11, <2>1
<1> QED
  BY <1>2, <1>16, <1>17, <1>18, <1>19

\* A phone's Station Controls is six rows high or more.
Sturdy(l, c) == c.screen = "phonePortrait" /\ HasControls(c) => l.items["controls"].h >= 6

LEMMA ShownIs ==
    ASSUME NEW c, NEW l \in Grids
    PROVE  LET n == Shown(l, c)
           IN  /\ n \in Grids /\ n.collapsed = l.collapsed
               /\ \A i \in Modules : \A f \in {"x", "w", "h"} : n.items[i][f] = l.items[i][f]
               /\ c.screen # "phonePortrait" => n = l
<1> DEFINE ids == Visible(l, c)
           index(i) == CHOOSE k \in 1 .. 5 : ModuleIds[k] = i
           Above(i, j) == \/ l.items[i].y < l.items[j].y
                          \/ l.items[i].y = l.items[j].y /\ l.items[i].x < l.items[j].x
                          \/ /\ l.items[i].y = l.items[j].y /\ l.items[i].x = l.items[j].x
                             /\ index(i) < index(j)
           top(i) == Total({j \in ids : Above(j, i)}, LAMBDA j : l.items[j].h)
           Item(i) == IF i \in ids THEN [l.items[i] EXCEPT !.y = top(i)] ELSE l.items[i]
           Items == [i \in Modules |-> Item(i)]
<1>1. Shown(l, c) = IF c.screen # "phonePortrait" THEN l ELSE [l EXCEPT !.items = Items]
  BY DEF Shown
<1>2. l.items \in [Modules -> Rects]
  BY DEF Grids, Arranged
<1>3. \A i : top(i) \in Int
  <2>1. \A j \in Modules : l.items[j].h \in Int
    BY <1>2 DEF Rects
  <2>2. l.items["controls"].h \in Int /\ l.items["chat"].h \in Int /\ l.items["checkedOut"].h \in Int
        /\ l.items["active"].h \in Int /\ l.items["lurkers"].h \in Int
    BY <2>1, PanelsAre
  <2>3. \A S : Total(S, LAMBDA j : l.items[j].h) \in Int
    BY <2>2 DEF Total
  <2> HIDE DEF Above, ids
  <2> QED
    BY <2>3
<1> HIDE DEF top
<1>4. \A i \in Modules : Item(i) \in Rects
                  /\ \A f \in {"x", "w", "h"} : Item(i)[f] = l.items[i][f]
  <2> SUFFICES ASSUME NEW i \in Modules
               PROVE  Item(i) \in Rects /\ \A f \in {"x", "w", "h"} : Item(i)[f] = l.items[i][f]
    OBVIOUS
  <2>1. PICK t \in Int : t = top(i)
    BY <1>3
  <2>2. \A r \in Rects : [r EXCEPT !.y = t] \in Rects
           /\ \A f \in {"x", "w", "h"} : [r EXCEPT !.y = t][f] = r[f]
    BY DEF Rects
  <2>3. Item(i) = l.items[i] \/ Item(i) = [l.items[i] EXCEPT !.y = t]
    BY <2>1
  <2>4. PICK r \in Rects : r = l.items[i]
    BY <1>2
  <2>5. PICK e : e = Item(i)
    OBVIOUS
  <2> HIDE DEF Item
  <2>6. e = r \/ e = [r EXCEPT !.y = t]
    BY <2>3, <2>4, <2>5
  <2>7. e \in Rects /\ \A f \in {"x", "w", "h"} : e[f] = r[f]
    BY <2>2, <2>6
  <2> QED
    BY <2>4, <2>5, <2>7
<1> HIDE DEF Item
<1>5. Items \in [Modules -> Rects] /\ \A i \in Modules : Items[i] = Item(i)
  BY <1>4
<1> HIDE DEF Items
<1> QED
  BY <1>1, <1>4, <1>5, GridWith

LEMMA AppliedIs ==
    ASSUME NEW c \in Contexts, NEW l \in Grids, NEW shown \in Grids
    PROVE  LET n == Applied(l, shown, c)
           IN  /\ n \in Grids /\ (Sturdy(shown, c) => Sturdy(n, c))
               /\ c.screen # "phonePortrait" => n \in {l, shown}
<1> DEFINE stored == Normalized(l, c)
           before == Shown(stored, c)
           Item(i) == IF i \in Visible(stored, c)
                      THEN [shown.items[i] EXCEPT !.y = stored.items[i].y + @ - before.items[i].y]
                      ELSE stored.items[i]
           Items == [i \in Modules |-> Item(i)]
           moved == [stored EXCEPT !.items = Items]
<1>1. Applied(l, shown, c) = IF ~Locked(shown, c) THEN l
                             ELSE IF c.screen = "phonePortrait" THEN moved ELSE shown
  BY DEF Applied
<1>2. l \in Layouts
  BY DEF Layouts
<1>3. stored \in Grids /\ Fixed(stored.items, c)
  BY <1>2, BroughtIs DEF Brought
<1> HIDE DEF stored
<1>4. before \in Grids
  BY <1>3, ShownIs
<1> HIDE DEF before
<1>5. \A i \in Modules : Item(i) \in Rects /\ Item(i).h \in {shown.items[i].h, stored.items[i].h}
  <2> SUFFICES ASSUME NEW i \in Modules
               PROVE  Item(i) \in Rects /\ Item(i).h \in {shown.items[i].h, stored.items[i].h}
    OBVIOUS
  <2>1. shown.items[i] \in Rects /\ stored.items[i] \in Rects /\ before.items[i] \in Rects
    BY <1>3, <1>4 DEF Grids, Arranged
  <2>2. PICK v \in Int : v = stored.items[i].y + shown.items[i].y - before.items[i].y
    BY <2>1 DEF Rects
  <2>3. \A r \in Rects : [r EXCEPT !.y = v] \in Rects /\ [r EXCEPT !.y = v].h = r.h
    BY DEF Rects
  <2>4. Item(i) = stored.items[i] \/ Item(i) = [shown.items[i] EXCEPT !.y = v]
    BY <2>2
  <2> HIDE DEF Item
  <2> QED
    BY <2>1, <2>3, <2>4
<1> HIDE DEF Item
<1>6. moved \in Grids /\ \A i \in Modules : moved.items[i] = Item(i)
  <2>1. Items \in [Modules -> Rects]
    BY <1>5
  <2>2. moved \in Grids /\ moved.items = Items
    BY <1>3, <2>1, GridWith
  <2> QED
    BY <2>2
<1> HIDE DEF moved
<1>7. Sturdy(shown, c) => Sturdy(moved, c)
  <2>1. "controls" \in Modules
    BY PanelsAre
  <2> QED
    BY <1>3, <1>5, <1>6, <2>1 DEF Sturdy, Fixed
<1>8. c.screen # "phonePortrait" => \A n : Sturdy(n, c)
  BY DEF Sturdy
<1>9. c.screen = "phonePortrait" => Locked(shown, c)
  BY DEF Locked
<1> QED
  BY <1>1, <1>6, <1>7, <1>8, <1>9

LEMMA MovedIs ==
    ASSUME NEW r \in Rects, NEW p, p.x \in Int, p.y \in Int
    PROVE  LET m == Moved(r, p)
           IN  m \in Rects /\ m.x = p.x /\ m.y = p.y /\ m.w = r.w /\ m.h = r.h
<1>1. PICK a \in Int : a = p.x
  OBVIOUS
<1>2. PICK b \in Int : b = p.y
  OBVIOUS
<1>3. PICK s : s = [r EXCEPT !.x = a]
  OBVIOUS
<1>4. Moved(r, p) = [s EXCEPT !.y = b]
  BY <1>1, <1>2, <1>3, Zenon DEF Moved
<1>5. s \in Rects /\ s.x = a /\ s.y = r.y /\ s.w = r.w /\ s.h = r.h
  BY <1>3 DEF Rects
<1>6. [s EXCEPT !.y = b] \in Rects /\ [s EXCEPT !.y = b].x = s.x /\ [s EXCEPT !.y = b].y = b
      /\ [s EXCEPT !.y = b].w = s.w /\ [s EXCEPT !.y = b].h = s.h
  BY <1>5 DEF Rects
<1> QED
  BY <1>1, <1>2, <1>4, <1>5, <1>6

\* A panel that is placed trades places with another, or goes to a free place.
Traded(l, n, id, o) ==
    /\ n.items[id] = Moved(l.items[id], l.items[o]) /\ n.items[o] = Moved(l.items[o], l.items[id])
    /\ \A i \in Modules : i \notin {id, o} => n.items[i] = l.items[i]

Freed(l, n, id, c) ==
    LET others == Visible(l, c) \ {id}
    IN  /\ n.items[id].x \in 0 .. 24 - l.items[id].w /\ n.items[id].y \in 0 .. Rows(c) - l.items[id].h
        /\ \A i \in Modules : i # id => n.items[i] = l.items[i]
        /\ CollisionFree(l.items, others)
        /\ \A o \in others : ~Overlap(n.items[id], l.items[o])

LEMMA SwapsIs ==
    ASSUME NEW c \in Contexts, NEW l \in Grids, NEW id \in Modules, NEW at,
           NEW n \in Swaps(l, id, at, c)
    PROVE  /\ n \in Grids /\ n.collapsed = l.collapsed
           /\ \A i \in Modules : n.items[i].w = l.items[i].w /\ n.items[i].h = l.items[i].h
           /\ \E o \in Visible(l, c) \ {id} :
                 /\ Traded(l, n, id, o) /\ Fits(n, c)
                 /\ InGrid(n.items[id], c) /\ InGrid(n.items[o], c)
<1> DEFINE Swap(o) == Replaced(Replaced(l, id, Moved(l.items[id], l.items[o])), o,
                               Moved(l.items[o], l.items[id]))
<1>1. \E o \in Visible(l, c) \ {id} :
         n = Swap(o) /\ Fits(n, c) /\ InGrid(n.items[id], c) /\ InGrid(n.items[o], c)
  BY DEF Swaps
<1>2. PICK o \in Visible(l, c) \ {id} :
         n = Swap(o) /\ Fits(n, c) /\ InGrid(n.items[id], c) /\ InGrid(n.items[o], c)
  BY <1>1
<1>3. o \in Modules /\ o # id
  BY DEF Visible
<1>4. PICK r \in Rects : r = l.items[id]
  BY DEF Grids, Arranged
<1>5. PICK s \in Rects : s = l.items[o]
  BY <1>3 DEF Grids, Arranged
<1>6. r.x \in Int /\ r.y \in Int /\ s.x \in Int /\ s.y \in Int
  BY DEF Rects
<1>7. PICK p : p = Moved(r, s)
  OBVIOUS
<1>8. p \in Rects /\ p.w = r.w /\ p.h = r.h
  BY <1>6, <1>7, MovedIs
<1>9. PICK q : q = Moved(s, r)
  OBVIOUS
<1>10. q \in Rects /\ q.w = s.w /\ q.h = s.h
  BY <1>6, <1>9, MovedIs
<1>11. PICK k : k = Replaced(l, id, p)
  OBVIOUS
<1>12. /\ k \in Grids /\ k.collapsed = l.collapsed
       /\ k.items[id] = p /\ \A i \in Modules : i # id => k.items[i] = l.items[i]
  <2>1. Puts(k, l, id, p)
    BY <1>8, <1>11, ReplacedPuts
  <2> QED
    BY <2>1 DEF Puts
<1>13. n = Replaced(k, o, q)
  BY <1>2, <1>4, <1>5, <1>7, <1>9, <1>11
<1>14. /\ n \in Grids /\ n.collapsed = k.collapsed
       /\ n.items[o] = q /\ \A i \in Modules : i # o => n.items[i] = k.items[i]
  <2>1. k \in Grids /\ o \in Modules /\ q \in Rects
    BY <1>3, <1>10, <1>12
  <2>2. PICK t : t = Replaced(k, o, q)
    OBVIOUS
  <2>3. Puts(t, k, o, q)
    BY <2>1, <2>2, ReplacedPuts
  <2> QED
    BY <1>13, <2>2, <2>3 DEF Puts
<1> HIDE DEF Swap
<1>15. Traded(l, n, id, o)
  BY <1>3, <1>4, <1>5, <1>7, <1>9, <1>12, <1>14 DEF Traded
<1> QED
  BY <1>2, <1>3, <1>4, <1>5, <1>8, <1>10, <1>12, <1>14, <1>15

LEMMA NearestIs == \A S, at, prior : Nearest(S, at, prior) \subseteq S
<1>1. ASSUME NEW S, NEW f(_) PROVE Least(S, f) \subseteq S
  BY DEF Least
<1> SUFFICES ASSUME NEW S, NEW at, NEW prior PROVE Nearest(S, at, prior) \subseteq S
  OBVIOUS
<1> DEFINE Square(p, q) == (p.x - q.x) * (p.x - q.x) + (p.y - q.y) * (p.y - q.y)
           far(p) == 10000 * Square(p, at) + Square(p, prior)
           tie(p) == ((Distance(p.y, at.y) * 64 + Distance(p.x, at.x)) * 64 + p.y) * 64 + p.x
           first == Least(S, far)
<1>2. Nearest(S, at, prior) = Least(first, tie)
  BY DEF Nearest
<1>3. first \subseteq S
  <2> HIDE DEF far
  <2> QED
    BY DEF Least
<1> HIDE DEF first, tie
<1>4. Least(first, tie) \subseteq first
  BY DEF Least
<1> QED
  BY <1>2, <1>3, <1>4

LEMMA PlacedIs ==
    ASSUME NEW c \in Contexts, NEW l \in Grids, NEW id \in Modules, NEW at, NEW prior,
           NEW n \in Placed(l, id, at, prior, c)
    PROVE  /\ n \in Grids /\ n.collapsed = l.collapsed
           /\ \A i \in Modules : n.items[i].w = l.items[i].w /\ n.items[i].h = l.items[i].h
           /\ \/ n \in Swaps(l, id, at, c)
              \/ Freed(l, n, id, c)
<1>1. CASE n \in Swaps(l, id, at, c)
  BY <1>1, SwapsIs
<1>2. CASE n \notin Swaps(l, id, at, c)
  <2>1. PICK r \in Rects : r = l.items[id]
    BY DEF Grids, Arranged
  <2>2. PICK p \in Vacant(l, id, c) : n = Replaced(l, id, Moved(r, p))
    <3>1. \E p \in Nearest(Vacant(l, id, c), at, prior) : n = Replaced(l, id, Moved(r, p))
      BY <1>2, <2>1 DEF Placed
    <3> QED
      BY <3>1, NearestIs
  <2>3. PICK others : others = Visible(l, c) \ {id}
    OBVIOUS
  <2>4. /\ p \in [x : 0 .. Columns - r.w, y : 0 .. Rows(c) - r.h]
        /\ CollisionFree(l.items, others)
        /\ \A o \in others : ~Overlap(Moved(r, p), l.items[o])
    BY <2>1, <2>3 DEF Vacant
  <2>5. p.x \in 0 .. 24 - r.w /\ p.y \in 0 .. Rows(c) - r.h
    BY <2>4 DEF Columns
  <2>6. PICK m : m = Moved(r, p)
    OBVIOUS
  <2>7. m \in Rects /\ m.x = p.x /\ m.y = p.y /\ m.w = r.w /\ m.h = r.h
    <3>1. p.x \in Int /\ p.y \in Int
      BY <2>5
    <3> QED
      BY <2>6, <3>1, MovedIs
  <2>8. Puts(n, l, id, m)
    BY <2>2, <2>6, <2>7, ReplacedPuts
  <2>9. /\ n \in Grids /\ n.collapsed = l.collapsed
        /\ n.items[id] = m /\ \A i \in Modules : i # id => n.items[i] = l.items[i]
    BY <2>8 DEF Puts
  <2>10. Freed(l, n, id, c)
    BY <2>1, <2>3, <2>4, <2>5, <2>6, <2>7, <2>9 DEF Freed
  <2> QED
    BY <2>1, <2>7, <2>9, <2>10
<1> QED
  BY <1>1, <1>2

Bound(axis, c) == IF axis = "x" THEN 24 ELSE Rows(c)

Inside(r, c) == \A a \in Axes : r[a] >= 0 /\ End(r, a) <= Bound(a, c)

LEMMA InsideIs ==
    ASSUME NEW r \in Rects, NEW id, NEW c
    PROVE  /\ RestsAt(r, id, c) <=> Inside(r, c) /\ r["w"] >= 2 /\ r["h"] >= MinRows(id, c)
           /\ Inside(r, c) <=> InGrid(r, c)
  BY DEF Inside, Axes, Bound, End, Size, RestsAt, InGrid, Columns

\* The two parts of a rectangle that is cut in two along an axis.
FirstPart(rect, axis, half) == [rect EXCEPT ![Size(axis)] = half]
LastPart(rect, axis, half) == [rect EXCEPT ![axis] = @ + half, ![Size(axis)] = @ - half]

\* A place and the two halves of it that two panels take.
LEMMA HalvesAre ==
    ASSUME NEW c \in Contexts, NEW rect \in Rects, NEW axis \in Axes, NEW half \in Int,
           NEW first \in Modules, NEW second \in Modules,
           half >= Smallest(first, c)[Size(axis)],
           half <= rect[Size(axis)] - Smallest(second, c)[Size(axis)],
           \A i \in {first, second} : rect[Size(Cross(axis))] >= Smallest(i, c)[Size(Cross(axis))]
    PROVE  LET a == FirstPart(rect, axis, half)
               d == LastPart(rect, axis, half)
           IN  /\ a \in Rects /\ d \in Rects
               /\ Inside(rect, c) => RestsAt(a, first, c) /\ RestsAt(d, second, c)
               /\ a["h"] >= Smallest(first, c)["h"] /\ d["h"] >= Smallest(second, c)["h"]
               /\ Area(a) + Area(d) = Area(rect)
<1> DEFINE size == Size(axis)
           cross == Cross(axis)
           across == Size(cross)
<1>1. PICK a : a = [rect EXCEPT ![size] = half]
  OBVIOUS
<1>2. PICK p \in Int : p = rect[axis] + half
  BY FieldsAre
<1>3. PICK q \in Int : q = rect[size] - half
  BY FieldsAre
<1>4. PICK e : e = [rect EXCEPT ![axis] = p]
  OBVIOUS
<1>5. PICK d : d = [rect EXCEPT ![axis] = @ + half, ![size] = @ - half]
  OBVIOUS
<1>6. axis \in Fields /\ size \in Fields /\ axis # size
  BY FieldsAre
<1>7. a \in Rects /\ a[size] = half /\ \A g \in Fields : g # size => a[g] = rect[g]
  <2>1. PICK f \in Fields : f = size
    BY <1>6
  <2>2. [rect EXCEPT ![f] = half] \in Rects /\ [rect EXCEPT ![f] = half][f] = half
        /\ \A g \in Fields : g # f => [rect EXCEPT ![f] = half][g] = rect[g]
    BY FieldSet
  <2> HIDE DEF size
  <2> QED
    BY <1>1, <2>1, <2>2
<1>8. e \in Rects /\ e[axis] = p /\ \A g \in Fields : g # axis => e[g] = rect[g]
  <2>1. PICK f \in Fields : f = axis
    BY <1>6
  <2>2. [rect EXCEPT ![f] = p] \in Rects /\ [rect EXCEPT ![f] = p][f] = p
        /\ \A g \in Fields : g # f => [rect EXCEPT ![f] = p][g] = rect[g]
    BY FieldSet
  <2> QED
    BY <1>4, <2>1, <2>2
<1>9. d = [e EXCEPT ![size] = q]
  BY <1>2, <1>3, <1>4, <1>5, <1>6, Zenon
<1>10. d \in Rects /\ d[size] = q /\ \A g \in Fields : g # size => d[g] = e[g]
  <2>1. PICK f \in Fields : f = size
    BY <1>6
  <2>2. [e EXCEPT ![f] = q] \in Rects /\ [e EXCEPT ![f] = q][f] = q
        /\ \A g \in Fields : g # f => [e EXCEPT ![f] = q][g] = e[g]
    BY <1>8, FieldSet
  <2> HIDE DEF size
  <2> QED
    BY <1>9, <2>1, <2>2
<1>11. \A i \in {first, second} : /\ Smallest(i, c)["w"] = 2 /\ Smallest(i, c)["h"] \in Int
                                  /\ Smallest(i, c)["h"] >= MinRows(i, c) /\ MinRows(i, c) \in Int
  BY ContextIs, SmallestIs
<1>12. rect.x \in Int /\ rect.y \in Int /\ rect.w \in Int /\ rect.h \in Int
  BY DEF Rects
<1>15. a = FirstPart(rect, axis, half) /\ d = LastPart(rect, axis, half)
  BY <1>1, <1>5, Zenon DEF FirstPart, LastPart
<1>13. CASE axis = "x"
  <2>1. size = "w" /\ cross = "y" /\ across = "h"
    BY <1>13 DEF Size, Cross
  <2>2. /\ a["w"] = half /\ a["x"] = rect["x"] /\ a["y"] = rect["y"] /\ a["h"] = rect["h"]
        /\ d["w"] = rect["w"] - half /\ d["x"] = rect["x"] + half /\ d["y"] = rect["y"] /\ d["h"] = rect["h"]
    BY <1>2, <1>3, <1>7, <1>8, <1>10, <1>13, <2>1 DEF Fields
  <2>3. half >= 2 /\ rect["w"] - half >= 2 /\ rect["h"] >= Smallest(first, c)["h"]
        /\ rect["h"] >= Smallest(second, c)["h"]
    BY <1>11, <1>12, <2>1
  <2>4. Inside(rect, c) => RestsAt(a, first, c) /\ RestsAt(d, second, c)
    <3>1. Rows(c) \in Int
      BY ContextIs
    <3> QED
      BY <1>11, <1>12, <2>2, <2>3, <3>1 DEF Inside, Axes, Bound, End, Size, RestsAt
  <2>5. Area(a) + Area(d) = Area(rect)
    <3>1. \A v, u, h \in Int : v * h + (u - v) * h = u * h
      OBVIOUS
    <3> QED
      BY <1>12, <2>2, <3>1 DEF Area
  <2> HIDE DEF size
  <2> QED
    BY <1>7, <1>10, <1>15, <2>2, <2>3, <2>4, <2>5
<1>14. CASE axis = "y"
  <2>1. size = "h" /\ cross = "x" /\ across = "w"
    BY <1>14 DEF Size, Cross
  <2>2. /\ a["h"] = half /\ a["x"] = rect["x"] /\ a["y"] = rect["y"] /\ a["w"] = rect["w"]
        /\ d["h"] = rect["h"] - half /\ d["y"] = rect["y"] + half /\ d["x"] = rect["x"] /\ d["w"] = rect["w"]
    BY <1>2, <1>3, <1>7, <1>8, <1>10, <1>14, <2>1 DEF Fields
  <2>3. half >= Smallest(first, c)["h"] /\ rect["h"] - half >= Smallest(second, c)["h"] /\ rect["w"] >= 2
    BY <1>11, <1>12, <2>1
  <2>4. Inside(rect, c) => RestsAt(a, first, c) /\ RestsAt(d, second, c)
    <3>1. Rows(c) \in Int
      BY ContextIs
    <3>2. MinRows(first, c) >= 2 /\ MinRows(second, c) >= 2
      BY ContextIs
    <3> QED
      BY <1>11, <1>12, <2>2, <2>3, <3>1, <3>2 DEF Inside, Axes, Bound, End, Size, RestsAt
  <2>5. Area(a) + Area(d) = Area(rect)
    <3>1. \A v, u, w \in Int : w * v + w * (u - v) = w * u
      OBVIOUS
    <3> QED
      BY <1>12, <2>2, <3>1 DEF Area
  <2> HIDE DEF size
  <2> QED
    BY <1>7, <1>10, <1>15, <2>2, <2>3, <2>4, <2>5
<1> QED
  BY <1>13, <1>14 DEF Axes

\* What panels measure together in one direction.
Together(l, f, ids) == Total(ids, LAMBDA i : l.items[i][f])

LEMMA FiveAre ==
    ASSUME NEW l, NEW ids, NEW f
    PROVE  LET A(i) == IF i \in ids THEN Area(l.items[i]) ELSE 0
               T(i) == IF i \in ids THEN l.items[i][f] ELSE 0
           IN  /\ Covered(l, ids) = A("controls") + A("chat") + A("checkedOut") + A("active") + A("lurkers")
               /\ Together(l, f, ids) = T("controls") + T("chat") + T("checkedOut") + T("active") + T("lurkers")
  BY DEF Covered, Together, Total

\* The panels on the two sides of a boundary reach along the same stretch of it.
LEMMA BoundaryTiles ==
    ASSUME NEW l \in Grids, NEW ids \in SUBSET Modules, NEW b \in Boundaries(l, ids)
    PROVE  LET across == Size(Cross(b.axis))
           IN  Together(l, across, b.before) = Together(l, across, b.after)
<1> DEFINE from(axis, i) == l.items[i][Cross(axis)]
           to(axis, i) == End(l.items[i], Cross(axis))
           Across(axis, i, j) == from(axis, i) < to(axis, j) /\ from(axis, j) < to(axis, i)
           Stretch(axis, G) == Max({to(axis, i) : i \in G}) - Min({from(axis, i) : i \in G})
           Tiles(axis, G, part) ==
                /\ \A i, j \in part : i # j => ~Across(axis, i, j)
                /\ Together(l, Size(Cross(axis)), part) = Stretch(axis, G)
<1>1. Tiles(b.axis, b.before \cup b.after, b.before) /\ Tiles(b.axis, b.before \cup b.after, b.after)
  BY Zenon DEF Boundaries, Together
<1> QED
  BY <1>1, Zenon

\* Of five sums, one that is nothing but for two panels.
LEMMA TwoOfFive ==
    ASSUME NEW g \in [Modules -> Int], NEW p \in Modules, NEW q \in Modules, p # q,
           \A i \in Modules : i \notin {p, q} => g[i] = 0
    PROVE  g["controls"] + g["chat"] + g["checkedOut"] + g["active"] + g["lurkers"] = g[p] + g[q]
<1>1. PICK a \in Int, b \in Int, d \in Int, e \in Int, h \in Int :
          g["controls"] = a /\ g["chat"] = b /\ g["checkedOut"] = d /\ g["active"] = e /\ g["lurkers"] = h
  BY PanelsAre
<1>2. /\ "controls" \notin {p, q} => a = 0
      /\ "chat" \notin {p, q} => b = 0
      /\ "checkedOut" \notin {p, q} => d = 0
      /\ "active" \notin {p, q} => e = 0
      /\ "lurkers" \notin {p, q} => h = 0
  BY <1>1, PanelsAre
<1> SUFFICES a + b + d + e + h = g[p] + g[q]
  BY <1>1
<1>3. /\ p = "controls" \/ p = "chat" \/ p = "checkedOut" \/ p = "active" \/ p = "lurkers"
      /\ q = "controls" \/ q = "chat" \/ q = "checkedOut" \/ q = "active" \/ q = "lurkers"
  BY PanelsAre
<1>4. CASE q = "controls"
  BY <1>1, <1>2, <1>3, <1>4
<1>5. CASE q = "chat"
  BY <1>1, <1>2, <1>3, <1>5
<1>6. CASE q = "checkedOut"
  BY <1>1, <1>2, <1>3, <1>6
<1>7. CASE q = "active"
  BY <1>1, <1>2, <1>3, <1>7
<1>8. CASE q = "lurkers"
  BY <1>1, <1>2, <1>3, <1>8
<1> QED
  BY <1>3, <1>4, <1>5, <1>6, <1>7, <1>8

LEMMA OneTogether ==
    ASSUME NEW l \in Grids, NEW f \in Fields, NEW id \in Modules
    PROVE  Together(l, f, {id}) = l.items[id][f]
<1>1. l.items[id][f] \in Int
  BY FieldsAre DEF Grids, Arranged
<1> DEFINE T(i) == IF i \in {id} THEN l.items[i][f] ELSE 0
<1>2. Together(l, f, {id}) = T("controls") + T("chat") + T("checkedOut") + T("active") + T("lurkers")
  BY FiveAre
<1> QED
  BY <1>1, <1>2, PanelsAre

\* A rectangle that grew along an axis, to where another one began or ended.
Grown(s, r, k) ==
    /\ s \in Rects
    /\ \A a \in Axes : /\ s[a] \in {r[a], k[a]} /\ End(s, a) \in {End(r, a), End(k, a)}
                       /\ s[Size(a)] >= r[Size(a)]

LEMMA GrownIs ==
    ASSUME NEW r \in Rects, NEW k \in Rects, NEW axis \in Axes, k[Size(axis)] >= 0
    PROVE  LET size == Size(axis)
               down == [r EXCEPT ![axis] = k[axis], ![size] = @ + k[size]]
               up == [r EXCEPT ![size] = @ + k[size]]
           IN  /\ Grown(r, r, k)
               /\ r[axis] = End(k, axis) => Grown(down, r, k)
               /\ End(r, axis) = k[axis] => Grown(up, r, k)
               /\ Area(up) = Area(r) + k[size] * r[Size(Cross(axis))]
               /\ Area(down) = Area(r) + k[size] * r[Size(Cross(axis))]
               /\ up[size] = r[size] + k[size] /\ down[size] = r[size] + k[size]
<1> DEFINE size == Size(axis)
<1>1. PICK q \in Int : q = r[size] + k[size]
  BY FieldsAre
<1>2. PICK v \in Int : v = k[axis]
  BY FieldsAre
<1>3. PICK e : e = [r EXCEPT ![axis] = v]
  OBVIOUS
<1>4. PICK down : down = [r EXCEPT ![axis] = k[axis], ![size] = @ + k[size]]
  OBVIOUS
<1>5. PICK up : up = [r EXCEPT ![size] = @ + k[size]]
  OBVIOUS
<1>6. PICK f \in Fields : f = size
  BY FieldsAre
<1>7. PICK g \in Fields : g = axis /\ g # f
  BY <1>6, FieldsAre
<1>8. up \in Rects /\ up[size] = q /\ \A h \in Fields : h # size => up[h] = r[h]
  <2>1. [r EXCEPT ![f] = q] \in Rects /\ [r EXCEPT ![f] = q][f] = q
        /\ \A h \in Fields : h # f => [r EXCEPT ![f] = q][h] = r[h]
    BY FieldSet
  <2>2. up = [r EXCEPT ![f] = q]
    BY <1>1, <1>5, <1>6, Zenon
  <2> HIDE DEF size
  <2> QED
    BY <1>6, <2>1, <2>2
<1>9. e \in Rects /\ e[axis] = v /\ \A h \in Fields : h # axis => e[h] = r[h]
  <2>1. [r EXCEPT ![g] = v] \in Rects /\ [r EXCEPT ![g] = v][g] = v
        /\ \A h \in Fields : h # g => [r EXCEPT ![g] = v][h] = r[h]
    BY FieldSet
  <2> QED
    BY <1>3, <1>7, <2>1
<1>10. down \in Rects /\ down[size] = q /\ \A h \in Fields : h # size => down[h] = e[h]
  <2>1. [e EXCEPT ![f] = q] \in Rects /\ [e EXCEPT ![f] = q][f] = q
        /\ \A h \in Fields : h # f => [e EXCEPT ![f] = q][h] = e[h]
    BY <1>9, FieldSet
  <2>2. down = [e EXCEPT ![f] = q]
    BY <1>1, <1>2, <1>3, <1>4, <1>6, <1>7, Zenon
  <2> HIDE DEF size
  <2> QED
    BY <1>6, <2>1, <2>2
<1>11. r.x \in Int /\ r.y \in Int /\ r.w \in Int /\ r.h \in Int /\ k.x \in Int /\ k.y \in Int /\ k.w \in Int
       /\ k.h \in Int
  BY DEF Rects
<1>15. up[size] = r[size] + k[size] /\ down[size] = r[size] + k[size]
  BY <1>1, <1>8, <1>10
<1>12. Grown(r, r, k)
  BY <1>11 DEF Grown, Axes, Size
<1>13. CASE axis = "x"
  <2>1. size = "w"
    BY <1>13 DEF Size
  <2>2. /\ up["x"] = r.x /\ up["y"] = r.y /\ up["w"] = r.w + k.w /\ up["h"] = r.h
        /\ down["x"] = k.x /\ down["y"] = r.y /\ down["w"] = r.w + k.w /\ down["h"] = r.h
    BY <1>1, <1>2, <1>8, <1>9, <1>10, <1>13, <2>1 DEF Fields
  <2>3. k.w >= 0
    BY <1>13 DEF Size
  <2>6. Area(up) = Area(r) + k[size] * r[Size(Cross(axis))]
        /\ Area(down) = Area(r) + k[size] * r[Size(Cross(axis))]
    <3>1. \A p, q1, h \in Int : (p + q1) * h = p * h + q1 * h
      OBVIOUS
    <3>2. Size(Cross(axis)) = "h"
      BY <1>13 DEF Size, Cross
    <3> QED
      BY <1>11, <2>1, <2>2, <3>1, <3>2 DEF Area
  <2> HIDE DEF size
  <2>4. r[axis] = End(k, axis) => Grown(down, r, k)
    BY <1>10, <1>11, <1>13, <2>2, <2>3 DEF Grown, Axes, Size, End
  <2>5. End(r, axis) = k[axis] => Grown(up, r, k)
    BY <1>8, <1>11, <1>13, <2>2, <2>3 DEF Grown, Axes, Size, End
  <2> QED
    BY <1>4, <1>5, <1>12, <1>15, <2>4, <2>5, <2>6 DEF size
<1>14. CASE axis = "y"
  <2>1. size = "h"
    BY <1>14 DEF Size
  <2>2. /\ up["x"] = r.x /\ up["y"] = r.y /\ up["h"] = r.h + k.h /\ up["w"] = r.w
        /\ down["y"] = k.y /\ down["x"] = r.x /\ down["h"] = r.h + k.h /\ down["w"] = r.w
    BY <1>1, <1>2, <1>8, <1>9, <1>10, <1>14, <2>1 DEF Fields
  <2>3. k.h >= 0
    BY <1>14 DEF Size
  <2>6. Area(up) = Area(r) + k[size] * r[Size(Cross(axis))]
        /\ Area(down) = Area(r) + k[size] * r[Size(Cross(axis))]
    <3>1. \A p, q1, h \in Int : h * (p + q1) = h * p + q1 * h
      OBVIOUS
    <3>2. Size(Cross(axis)) = "w"
      BY <1>14 DEF Size, Cross
    <3> QED
      BY <1>11, <2>1, <2>2, <3>1, <3>2 DEF Area
  <2> HIDE DEF size
  <2>4. r[axis] = End(k, axis) => Grown(down, r, k)
    BY <1>10, <1>11, <1>14, <2>2, <2>3 DEF Grown, Axes, Size, End
  <2>5. End(r, axis) = k[axis] => Grown(up, r, k)
    BY <1>8, <1>11, <1>14, <2>2, <2>3 DEF Grown, Axes, Size, End
  <2> QED
    BY <1>4, <1>5, <1>12, <1>15, <2>4, <2>5, <2>6 DEF size
<1> QED
  BY <1>13, <1>14 DEF Axes

\* A panel docked at an edge of another: who was beside it takes its place, and the two share
\* the place of the other.
LEMMA DockedIs ==
    ASSUME NEW c \in Contexts, NEW l \in Grids, NEW id \in Modules, NEW target \in Modules,
           NEW edge, NEW n \in Docked(l, id, target, edge, c),
           l.items[id]["w"] >= 0, l.items[id]["h"] >= 0
    PROVE  /\ n \in Grids /\ n.collapsed = l.collapsed /\ Fits(n, c)
           /\ id # target /\ id \in Visible(l, c) /\ target \in Visible(l, c)
           /\ \A i \in Modules : i \notin Visible(l, c) => n.items[i] = l.items[i]
           /\ Sturdy(l, c) => Sturdy(n, c)
           /\ (\A i \in Visible(l, c) : RestsAt(l.items[i], i, c)) =>
                  \A i \in Visible(l, c) : RestsAt(n.items[i], i, c)
           /\ Covered(n, Visible(l, c)) <= Covered(l, Visible(l, c))
           /\ l.items[id]["w"] > 0 /\ l.items[id]["h"] > 0 =>
                 \/ \A i \in Modules : i \notin {id, target} => n.items[i] = l.items[i]
                 \/ \E i \in Modules : n.items[i]["w"] # l.items[i]["w"] \/ n.items[i]["h"] # l.items[i]["h"]
<1> DEFINE ids == Visible(l, c)
           k == l.items[id]
           Healed(b) ==
            [i \in Modules |->
                IF b.before = {id} /\ i \in b.after
                THEN [l.items[i] EXCEPT ![b.axis] = k[b.axis],
                                        ![Size(b.axis)] = @ + k[Size(b.axis)]]
                ELSE IF b.before # {id} /\ i \in b.before
                THEN [l.items[i] EXCEPT ![Size(b.axis)] = @ + k[Size(b.axis)]]
                ELSE l.items[i]]
           Side(b) == IF b.before = {id} THEN b.after ELSE b.before
           axis == IF edge \in {"left", "right"} THEN "x" ELSE "y"
           size == Size(axis)
           cross == Size(Cross(axis))
           first == IF edge \in {"left", "top"} THEN id ELSE target
           second == IF first = id THEN target ELSE id
           Half(rect) == Clamp((rect[size] + 1) \div 2, Smallest(first, c)[size],
                               rect[size] - Smallest(second, c)[size])
           Candidate(left, rect) ==
               [l EXCEPT !.items = [left EXCEPT
                         ![first] = [rect EXCEPT ![size] = Half(rect)],
                         ![second] = [rect EXCEPT ![axis] = @ + Half(rect), ![size] = @ - Half(rect)]]]
<1>1. \E left : /\ left = l.items \/ \E b \in Boundaries(l, ids) : (b.before = {id} \/ b.after = {id}) /\ left = Healed(b)
                /\ id # target /\ {id, target} \subseteq ids
                /\ left[target][size] >= Smallest(id, c)[size] + Smallest(target, c)[size]
                /\ \A i \in {id, target} : left[target][cross] >= Smallest(i, c)[cross]
                /\ n = Candidate(left, left[target]) /\ Fits(n, c)
  <2> DEFINE rank(b) == 10 * (IF b.axis = "x" THEN 0 ELSE 1)
                   + Min({j \in 1 .. 5 : ModuleIds[j] \in ids /\ End(l.items[ModuleIds[j]], b.axis) = b.at})
             sides == {b \in Boundaries(l, ids) : b.before = {id} \/ b.after = {id}}
             former == Least(sides, rank)
             left == IF former = {} THEN l.items ELSE Healed(CHOOSE b \in former : TRUE)
  <2>1. former \subseteq sides
    <3> HIDE DEF sides, rank
    <3> QED
      BY DEF Least
  <2>2. left = l.items \/ \E b \in Boundaries(l, ids) : (b.before = {id} \/ b.after = {id}) /\ left = Healed(b)
    <3> HIDE DEF former, Healed
    <3> QED
      BY <2>1
  <2>3. Docked(l, id, target, edge, c) =
          IF /\ id # target /\ {id, target} \subseteq ids
             /\ left[target][size] >= Smallest(id, c)[size] + Smallest(target, c)[size]
             /\ \A i \in {id, target} : left[target][cross] >= Smallest(i, c)[cross]
             /\ Fits(Candidate(left, left[target]), c)
          THEN {Candidate(left, left[target])} ELSE {}
    BY Zenon DEF Docked
  <2> HIDE DEF left, Candidate
  <2> QED
    BY <2>2, <2>3
<1> HIDE DEF Candidate, Healed, Side
<1>2. PICK left :
                /\ left = l.items \/ \E b \in Boundaries(l, ids) : (b.before = {id} \/ b.after = {id}) /\ left = Healed(b)
                /\ id # target /\ {id, target} \subseteq ids
                /\ left[target][size] >= Smallest(id, c)[size] + Smallest(target, c)[size]
                /\ \A i \in {id, target} : left[target][cross] >= Smallest(i, c)[cross]
                /\ n = Candidate(left, left[target]) /\ Fits(n, c)
  BY <1>1
<1>3. ids \in SUBSET Modules
  BY DEF Visible
<1> HIDE DEF ids
<1>4. l.items \in [Modules -> Rects] /\ k \in Rects
  BY DEF Grids, Arranged
<1>5. /\ left \in [Modules -> Rects]
      /\ \A i \in Modules : Grown(left[i], l.items[i], k) /\ (i \notin ids => left[i] = l.items[i])
      /\ \A i \in Modules : left[i] = l.items[i] \/ \E u \in {"w", "h"} : left[i][u] = l.items[i][u] + k[u]
      /\ left # l.items => \E b \in Boundaries(l, ids) :
              /\ b.before = {id} \/ b.after = {id}
              /\ \A i \in Modules :
                    Area(left[i]) = Area(l.items[i]) + IF i \in Side(b) THEN k[Size(b.axis)] * l.items[i][Size(Cross(b.axis))] ELSE 0
  <2>1. \A i \in Modules : Grown(l.items[i], l.items[i], k)
    <3>1. "x" \in Axes /\ k[Size("x")] >= 0
      BY DEF Axes, Size
    <3> QED
      BY <1>4, <3>1, GrownIs
  <2>2. CASE left = l.items
    BY <1>4, <2>1, <2>2
  <2>3. ASSUME NEW b \in Boundaries(l, ids), b.before = {id} \/ b.after = {id}, left = Healed(b)
        PROVE  /\ left \in [Modules -> Rects]
               /\ \A i \in Modules : Grown(left[i], l.items[i], k) /\ (i \notin ids => left[i] = l.items[i])
               /\ \A i \in Modules : left[i] = l.items[i] \/ \E u \in {"w", "h"} : left[i][u] = l.items[i][u] + k[u]
               /\ \A i \in Modules :
                    Area(left[i]) = Area(l.items[i]) + IF i \in Side(b) THEN k[Size(b.axis)] * l.items[i][Size(Cross(b.axis))] ELSE 0
    <3>1. /\ b.axis \in Axes /\ b.before \subseteq ids /\ b.after \subseteq ids
          /\ \A i \in b.before : End(l.items[i], b.axis) = b.at
          /\ \A i \in b.after : l.items[i][b.axis] = b.at
      BY <1>3, BoundaryIs
    <3>2. PICK a \in Axes : a = b.axis
      BY <3>1
    <3>3. k[Size(a)] >= 0
      BY DEF Axes, Size
    <3>4. ASSUME NEW i \in Modules
          PROVE  /\ Grown(Healed(b)[i], l.items[i], k) /\ (i \notin ids => Healed(b)[i] = l.items[i])
                 /\ Healed(b)[i] = l.items[i] \/ \E u \in {"w", "h"} : Healed(b)[i][u] = l.items[i][u] + k[u]
                 /\ Area(Healed(b)[i]) = Area(l.items[i])
                       + IF i \in Side(b) THEN k[Size(b.axis)] * l.items[i][Size(Cross(b.axis))] ELSE 0
      <4>1. PICK r \in Rects : r = l.items[i]
        BY <1>4
      <4>2. PICK e : e = Healed(b)[i]
        OBVIOUS
      <4>3. e = IF b.before = {id} /\ i \in b.after
                THEN [r EXCEPT ![a] = k[a], ![Size(a)] = @ + k[Size(a)]]
                ELSE IF b.before # {id} /\ i \in b.before
                THEN [r EXCEPT ![Size(a)] = @ + k[Size(a)]]
                ELSE r
        BY <3>2, <4>1, <4>2 DEF Healed
      <4>7. Size(a) \in {"w", "h"}
        BY DEF Size
      <4> HIDE DEF k
      <4>4. CASE b.before = {id} /\ i \in b.after
        <5>1. r[a] = End(k, a)
          BY <3>1, <3>2, <4>1, <4>4 DEF k
        <5>2. e = [r EXCEPT ![a] = k[a], ![Size(a)] = @ + k[Size(a)]]
          BY <4>3, <4>4
        <5>3. /\ Grown(e, r, k) /\ Area(e) = Area(r) + k[Size(a)] * r[Size(Cross(a))]
              /\ e[Size(a)] = r[Size(a)] + k[Size(a)] 
          BY <1>4, <3>3, <5>1, <5>2, GrownIs
        <5>4. i \in Side(b)
          BY <4>4 DEF Side
        <5> QED
          BY <3>1, <3>2, <4>1, <4>2, <4>4, <4>7, <5>3, <5>4
      <4>5. CASE ~(b.before = {id} /\ i \in b.after) /\ b.before # {id} /\ i \in b.before
        <5>1. End(r, a) = k[a]
          BY <2>3, <3>1, <3>2, <4>1, <4>5 DEF k
        <5>2. e = [r EXCEPT ![Size(a)] = @ + k[Size(a)]]
          BY <4>3, <4>5
        <5>3. /\ Grown(e, r, k) /\ Area(e) = Area(r) + k[Size(a)] * r[Size(Cross(a))]
              /\ e[Size(a)] = r[Size(a)] + k[Size(a)] 
          BY <1>4, <3>3, <5>1, <5>2, GrownIs
        <5>4. i \in Side(b)
          BY <4>5 DEF Side
        <5> QED
          BY <3>1, <3>2, <4>1, <4>2, <4>5, <4>7, <5>3, <5>4
      <4>6. CASE ~(b.before = {id} /\ i \in b.after) /\ ~(b.before # {id} /\ i \in b.before)
        <5>1. e = r
          BY <4>3, <4>6
        <5>2. i \notin Side(b)
          BY <4>6 DEF Side
        <5>3. Area(r) \in Int
          BY DEF Area, Rects
        <5> QED
          BY <2>1, <4>1, <4>2, <5>1, <5>2, <5>3
      <4> QED
        BY <4>4, <4>5, <4>6
    <3>7. \A i \in Modules :
              Area(Healed(b)[i]) = Area(l.items[i]) + IF i \in Side(b) THEN k[Size(b.axis)] * l.items[i][Size(Cross(b.axis))] ELSE 0
      BY <3>4
    <3>5. DOMAIN Healed(b) = Modules /\ Healed(b) = [i \in Modules |-> Healed(b)[i]]
      BY DEF Healed
    <3>6. \A i \in Modules : Healed(b)[i] \in Rects
      BY <3>4 DEF Grown
    <3> QED
      BY <2>3, <3>4, <3>5, <3>6, <3>7
  <2> QED
    BY <1>2, <2>2, <2>3
<1>24. \E g \in [Modules -> Int] :
          /\ \A i \in Modules : Area(left[i]) = Area(l.items[i]) + g[i] /\ (i \notin ids => g[i] = 0)
          /\ g[id] = 0
          /\ LET all == g["controls"] + g["chat"] + g["checkedOut"] + g["active"] + g["lurkers"]
             IN all = 0 \/ all = Area(k)
  <2>1. CASE left = l.items
    <3>1. PICK g \in [Modules -> Int] : \A i \in Modules : g[i] = 0
      <4>1. [i \in Modules |-> 0] \in [Modules -> Int]
        OBVIOUS
      <4> QED
        BY <4>1
    <3>2. \A i \in Modules : Area(l.items[i]) \in Int
      BY <1>4 DEF Area, Rects
    <3>3. g["controls"] = 0 /\ g["chat"] = 0 /\ g["checkedOut"] = 0 /\ g["active"] = 0 /\ g["lurkers"] = 0
      BY <3>1, PanelsAre
    <3> QED
      BY <2>1, <3>1, <3>2, <3>3
  <2>2. CASE left # l.items
    <3>1. PICK b \in Boundaries(l, ids) :
              /\ b.before = {id} \/ b.after = {id}
              /\ \A i \in Modules :
                    Area(left[i]) = Area(l.items[i]) + IF i \in Side(b) THEN k[Size(b.axis)] * l.items[i][Size(Cross(b.axis))] ELSE 0
      BY <1>2, <1>5, <2>2
    <3>2. /\ b.axis \in Axes /\ b.before \subseteq ids /\ b.after \subseteq ids
          /\ \A i \in b.before : End(l.items[i], b.axis) = b.at
          /\ \A i \in b.after : l.items[i][b.axis] = b.at
      BY <1>3, BoundaryIs
    <3>3. PICK u \in Fields : u = Size(b.axis)
      BY <3>2, FieldsAre
    <3>4. PICK w \in Fields : w = Size(Cross(b.axis))
      BY <3>2, FieldsAre
    <3>5. PICK v \in Int : v = k[u]
      BY <1>4, <3>3, FieldsAre
    <3> DEFINE T(i) == IF i \in Side(b) THEN l.items[i][w] ELSE 0
    <3>6. \A i \in Modules : T(i) \in Int /\ v * T(i) \in Int
      BY <1>4, <3>4, FieldsAre
    <3>7. PICK g \in [Modules -> Int] : \A i \in Modules : g[i] = v * T(i)
      <4> HIDE DEF T
      <4>1. [i \in Modules |-> v * T(i)] \in [Modules -> Int]
        BY <3>6
      <4> QED
        BY <4>1
    <3>8. \A i \in Modules : Area(left[i]) = Area(l.items[i]) + g[i] /\ (i \notin ids => g[i] = 0)
      <4>1. v * 0 = 0
        OBVIOUS
      <4>2. Side(b) \subseteq ids
        BY <3>2 DEF Side
      <4>3. \A i \in Modules : g[i] = IF i \in Side(b) THEN v * l.items[i][w] ELSE 0
        BY <3>7, <4>1
      <4> QED
        BY <3>1, <3>3, <3>4, <3>5, <4>2, <4>3
    <3>9. g[id] = 0
      <4>1. CASE id \in Side(b)
        <5>1. End(k, b.axis) = b.at /\ k[b.axis] = b.at
          BY <3>1, <3>2, <4>1 DEF Side
        <5>2. k[b.axis] \in Int
          BY <1>4, <3>2, FieldsAre
        <5>3. v = 0
          BY <3>3, <3>5, <5>1, <5>2 DEF End
        <5> QED
          BY <3>6, <3>7, <5>3
      <4>2. CASE id \notin Side(b)
        BY <3>7, <4>2
      <4> QED
        BY <4>1, <4>2
    <3>10. T("controls") + T("chat") + T("checkedOut") + T("active") + T("lurkers") = k[w]
      <4>1. Together(l, w, b.before) = Together(l, w, b.after)
        BY <1>3, <3>4, BoundaryTiles
      <4>2. Together(l, w, {id}) = k[w]
        BY OneTogether
      <4>3. Together(l, w, Side(b)) = T("controls") + T("chat") + T("checkedOut") + T("active") + T("lurkers")
        BY FiveAre
      <4>4. Together(l, w, Side(b)) = k[w]
        BY <3>1, <4>1, <4>2 DEF Side
      <4> QED
        BY <4>3, <4>4
    <3>11. g["controls"] + g["chat"] + g["checkedOut"] + g["active"] + g["lurkers"] = v * k[w]
      <4> HIDE DEF T, k
      <4>1. PICK t1 \in Int, t2 \in Int, t3 \in Int, t4 \in Int, t5 \in Int :
                t1 = T("controls") /\ t2 = T("chat") /\ t3 = T("checkedOut") /\ t4 = T("active") /\ t5 = T("lurkers")
        BY <3>6, PanelsAre
      <4>2. g["controls"] = v * t1 /\ g["chat"] = v * t2 /\ g["checkedOut"] = v * t3 /\ g["active"] = v * t4
            /\ g["lurkers"] = v * t5
        BY <3>7, <4>1, PanelsAre
      <4>3. v * t1 + v * t2 + v * t3 + v * t4 + v * t5 = v * (t1 + t2 + t3 + t4 + t5)
        OBVIOUS
      <4>4. t1 + t2 + t3 + t4 + t5 = k[w]
        BY <3>10, <4>1
      <4> QED
        BY <4>2, <4>3, <4>4
    <3>12. v * k[w] = Area(k)
      <4>1. (u = "w" /\ w = "h") \/ (u = "h" /\ w = "w")
        BY <3>2, <3>3, <3>4 DEF Axes, Size, Cross
      <4>2. k["w"] \in Int /\ k["h"] \in Int
        BY <1>4 DEF Rects
      <4>3. \A y, z \in Int : y * z = z * y
        OBVIOUS
      <4> HIDE DEF k
      <4> QED
        BY <3>5, <4>1, <4>2, <4>3 DEF Area
    <3> HIDE DEF T, k
    <3> QED
      BY <3>8, <3>9, <3>11, <3>12
  <2> QED
    BY <2>1, <2>2
<1>6. PICK rect \in Rects : rect = left[target]
  BY <1>5
<1>7. PICK f \in Modules : f = first
  OBVIOUS
<1>8. PICK s \in Modules : s = second /\ {f, s} = {id, target} /\ s # f
  BY <1>2, <1>7
<1>9. axis \in Axes
  BY DEF Axes
<1>10. PICK ax \in Axes : ax = axis
  BY <1>9
<1> HIDE DEF axis, first, second
<1>11. size = Size(ax) /\ cross = Size(Cross(ax))
  BY <1>10
<1> DEFINE sz == Size(ax)
           Hf == Clamp((rect[sz] + 1) \div 2, Smallest(f, c)[sz], rect[sz] - Smallest(s, c)[sz])
<1>12. rect[sz] \in Int /\ Smallest(f, c)[sz] \in Int /\ Smallest(s, c)[sz] \in Int
       /\ rect[sz] >= Smallest(f, c)[sz] + Smallest(s, c)[sz]
  <2>1. rect[sz] \in Int /\ Smallest(f, c)[sz] \in Int /\ Smallest(s, c)[sz] \in Int
    BY FieldsAre, SmallestIs
  <2>2. rect[sz] >= Smallest(id, c)[sz] + Smallest(target, c)[sz]
    BY <1>2, <1>6, <1>11
  <2>3. (f = id /\ s = target) \/ (f = target /\ s = id)
    BY <1>8
  <2> HIDE DEF sz
  <2> QED
    BY <2>1, <2>2, <2>3
<1>13. PICK half \in Int : half = Hf /\ half >= Smallest(f, c)[sz] /\ half <= rect[sz] - Smallest(s, c)[sz]
  <2> HIDE DEF sz
  <2>1. PICK v \in Int : v = (rect[sz] + 1) \div 2
    BY <1>12
  <2>2. PICK low \in Int : low = Smallest(f, c)[sz]
    BY <1>12
  <2>3. PICK high \in Int : high = rect[sz] - Smallest(s, c)[sz]
    BY <1>12
  <2>4. low <= high
    BY <1>12, <2>2, <2>3
  <2>5. Clamp(v, low, high) \in low .. high
    BY <2>4, Clamped
  <2> QED
    BY <2>1, <2>2, <2>3, <2>5
<1>14. PICK a : a = [rect EXCEPT ![sz] = half]
  OBVIOUS
<1>15. PICK d : d = [rect EXCEPT ![ax] = @ + half, ![sz] = @ - half]
  OBVIOUS
<1>16. /\ a \in Rects /\ d \in Rects
       /\ Inside(rect, c) => RestsAt(a, f, c) /\ RestsAt(d, s, c)
       /\ a["h"] >= Smallest(f, c)["h"] /\ d["h"] >= Smallest(s, c)["h"]
       /\ Area(a) + Area(d) = Area(rect)
  <2>1. \A i \in {f, s} : rect[Size(Cross(ax))] >= Smallest(i, c)[Size(Cross(ax))]
    BY <1>2, <1>6, <1>8, <1>11
  <2>2. half >= Smallest(f, c)[Size(ax)] /\ half <= rect[Size(ax)] - Smallest(s, c)[Size(ax)]
    BY <1>13, Zenon
  <2> HIDE DEF sz
  <2>3. a = FirstPart(rect, ax, half) /\ d = LastPart(rect, ax, half)
    BY <1>14, <1>15, Zenon DEF sz, FirstPart, LastPart
  <2> QED
    BY <2>1, <2>2, <2>3, HalvesAre
<1>17. n = [l EXCEPT !.items = [left EXCEPT ![f] = a, ![s] = d]]
  BY <1>2, <1>6, <1>7, <1>8, <1>10, <1>11, <1>13, <1>14, <1>15, Zenon DEF Candidate
<1>18. PICK items : items = [left EXCEPT ![f] = a, ![s] = d]
  OBVIOUS
<1>19. /\ items \in [Modules -> Rects] /\ items[f] = a /\ items[s] = d
       /\ \A i \in Modules : i \notin {f, s} => items[i] = left[i]
  BY <1>5, <1>8, <1>16, <1>18
<1>20. n \in Grids /\ n.collapsed = l.collapsed /\ n.items = items
  BY <1>17, <1>18, <1>19, GridWith
<1>21. \A i \in Modules : i \notin ids => n.items[i] = l.items[i]
  BY <1>2, <1>5, <1>8, <1>19, <1>20
<1>22. Sturdy(l, c) => Sturdy(n, c)
  <2> SUFFICES ASSUME c.screen = "phonePortrait", HasControls(c), l.items["controls"].h >= 6
               PROVE  items["controls"].h >= 6
    BY <1>20 DEF Sturdy
  <2>1. "controls" \in Modules
    BY PanelsAre
  <2>2. left["controls"].h >= 6
    <3>1. Grown(left["controls"], l.items["controls"], k)
      BY <1>5, <2>1
    <3>2. left["controls"]["h"] >= l.items["controls"]["h"] /\ left["controls"]["h"] \in Int
          /\ l.items["controls"]["h"] \in Int
      BY <1>4, <2>1, <3>1 DEF Grown, Axes, Size, Rects
    <3> QED
      BY <3>2
  <2>3. Smallest("controls", c)["h"] = 6
    BY <2>1, SmallestIs
  <2>4. f = "controls" => a["h"] >= 6
    BY <1>16, <2>3
  <2>5. s = "controls" => d["h"] >= 6
    BY <1>16, <2>3
  <2> QED
    BY <1>19, <2>1, <2>2, <2>4, <2>5
<1>23. ASSUME \A i \in ids : RestsAt(l.items[i], i, c)
       PROVE  \A i \in ids : RestsAt(n.items[i], i, c)
  <2>1. id \in ids /\ target \in ids
    BY <1>2
  <2>2. \A i \in ids : Inside(l.items[i], c) /\ l.items[i]["w"] >= 2 /\ l.items[i]["h"] >= MinRows(i, c)
    BY <1>3, <1>4, <1>23, InsideIs
  <2>3. ASSUME NEW i \in ids PROVE Inside(left[i], c) /\ RestsAt(left[i], i, c)
    <3>1. Grown(left[i], l.items[i], k) /\ i \in Modules
      BY <1>3, <1>5
    <3>2. Inside(l.items[i], c) /\ Inside(k, c)
      BY <2>1, <2>2
    <3> HIDE DEF k
    <3>3. Inside(left[i], c)
      BY <3>1, <3>2 DEF Grown, Inside
    <3>4. left[i]["w"] >= 2 /\ left[i]["h"] >= MinRows(i, c)
      <4>1. left[i]["w"] >= l.items[i]["w"] /\ left[i]["h"] >= l.items[i]["h"]
        BY <3>1 DEF Grown, Axes, Size
      <4>2. left[i]["w"] \in Int /\ left[i]["h"] \in Int /\ l.items[i]["w"] \in Int /\ l.items[i]["h"] \in Int
        BY <1>4, <1>5, <3>1 DEF Rects
      <4>3. MinRows(i, c) \in Int
        BY <3>1, ContextIs
      <4> QED
        BY <2>2, <4>1, <4>2, <4>3
    <3>5. left[i] \in Rects
      BY <1>5, <3>1
    <3> QED
      BY <3>3, <3>4, <3>5, InsideIs
  <2>4. Inside(rect, c)
    BY <1>6, <2>1, <2>3
  <2>5. RestsAt(a, f, c) /\ RestsAt(d, s, c)
    BY <1>16, <2>4
  <2> QED
    BY <1>3, <1>19, <1>20, <2>3, <2>5
<1>25. Covered(n, ids) <= Covered(l, ids)
  <2>1. PICK g \in [Modules -> Int] :
          /\ \A i \in Modules : Area(left[i]) = Area(l.items[i]) + g[i] /\ (i \notin ids => g[i] = 0)
          /\ g[id] = 0
          /\ LET all == g["controls"] + g["chat"] + g["checkedOut"] + g["active"] + g["lurkers"]
             IN all = 0 \/ all = Area(k)
    BY <1>24
  <2> DEFINE A(i) == IF i \in ids THEN Area(l.items[i]) ELSE 0
             N(i) == IF i \in ids THEN Area(n.items[i]) ELSE 0
  <2>2. \A i \in Modules : Area(l.items[i]) \in Int /\ Area(left[i]) \in Int /\ Area(n.items[i]) \in Int
    BY <1>4, <1>5, <1>19, <1>20 DEF Area, Rects
  <2>3. \A i \in Modules : A(i) \in Int /\ N(i) \in Int
    BY <2>2
  <2>4. PICK j \in [Modules -> Int] : \A i \in Modules : j[i] = N(i) - A(i) - g[i]
    <3> HIDE DEF A, N
    <3>1. [i \in Modules |-> N(i) - A(i) - g[i]] \in [Modules -> Int]
      BY <2>3
    <3> QED
      BY <3>1
  <2>5. \A i \in Modules : i \notin {f, s} => j[i] = 0
    <3> SUFFICES ASSUME NEW i \in Modules, i \notin {f, s} PROVE j[i] = 0
      OBVIOUS
    <3>1. Area(n.items[i]) = Area(l.items[i]) + g[i]
      BY <1>19, <1>20, <2>1
    <3>2. i \notin ids => g[i] = 0
      BY <2>1
    <3> QED
      BY <2>2, <2>4, <3>1, <3>2
  <2>6. j["controls"] + j["chat"] + j["checkedOut"] + j["active"] + j["lurkers"] = j[f] + j[s]
    BY <1>8, <2>5, TwoOfFive
  <2>7. j[f] + j[s] = 0 - Area(k)
    <3>1. (f = id /\ s = target) \/ (f = target /\ s = id)
      BY <1>8
    <3>2. N(f) + N(s) = Area(rect)
      BY <1>2, <1>8, <1>16, <1>19, <1>20
    <3>3. Area(rect) = A(target) + g[target]
      BY <1>2, <1>6, <2>1
    <3>4. A(id) = Area(k) /\ g[id] = 0
      BY <1>2, <2>1
    <3>5. j[f] = N(f) - A(f) - g[f] /\ j[s] = N(s) - A(s) - g[s]
      BY <2>4
    <3>6. N(f) \in Int /\ N(s) \in Int /\ A(f) \in Int /\ A(s) \in Int /\ g[f] \in Int /\ g[s] \in Int
      BY <2>3
    <3>7. A(id) \in Int /\ A(target) \in Int /\ g[target] \in Int
      BY <2>3
    <3> HIDE DEF A, N, k
    <3>8. CASE f = id /\ s = target
      BY <3>2, <3>3, <3>4, <3>5, <3>6, <3>7, <3>8
    <3>9. CASE f = target /\ s = id
      <4>1. j[f] = N(f) - A(target) - g[target] /\ j[s] = N(s) - A(id) - g[id]
        BY <3>5, <3>9
      <4>2. PICK nf \in Int, ns \in Int, at \in Int, ai \in Int, gt \in Int :
                nf = N(f) /\ ns = N(s) /\ at = A(target) /\ ai = A(id) /\ gt = g[target]
        BY <3>6, <3>7
      <4>3. PICK jf \in Int, js \in Int : jf = j[f] /\ js = j[s]
        OBVIOUS
      <4>4. jf = nf - at - gt /\ js = ns - ai - 0
        BY <3>4, <4>1, <4>2, <4>3
      <4>5. nf + ns = at + gt
        BY <3>2, <3>3, <4>2
      <4>6. jf + js = 0 - ai
        BY <4>4, <4>5
      <4> QED
        BY <3>4, <4>2, <4>3, <4>6
    <3> QED
      BY <3>1, <3>8, <3>9
  <2>8. Area(k) \in Int /\ Area(k) >= 0
    <3>1. \A y, z \in Nat : y * z \in Nat
      OBVIOUS
    <3>2. k.w \in Nat /\ k.h \in Nat
      BY <1>4 DEF Rects
    <3> HIDE DEF k
    <3> QED
      BY <3>1, <3>2 DEF Area
  <2>9. /\ Covered(l, ids) = A("controls") + A("chat") + A("checkedOut") + A("active") + A("lurkers")
        /\ Covered(n, ids) = N("controls") + N("chat") + N("checkedOut") + N("active") + N("lurkers")
    BY FiveAre
  <2>10. /\ N("controls") = j["controls"] + A("controls") + g["controls"] /\ N("chat") = j["chat"] + A("chat") + g["chat"]
         /\ N("checkedOut") = j["checkedOut"] + A("checkedOut") + g["checkedOut"]
         /\ N("active") = j["active"] + A("active") + g["active"]
            /\ N("lurkers") = j["lurkers"] + A("lurkers") + g["lurkers"]
    <3>1. \A i \in Modules : N(i) = j[i] + A(i) + g[i]
      <4> HIDE DEF A, N
      <4> QED
        BY <2>3, <2>4
    <3> HIDE DEF A, N
    <3> QED
      BY <3>1, PanelsAre
  <2>11. \A i \in Modules : A(i) \in Int /\ g[i] \in Int /\ j[i] \in Int
    BY <2>3
  <2> HIDE DEF A, N, k
  <2>12. PICK all \in Int : all = g["controls"] + g["chat"] + g["checkedOut"] + g["active"] + g["lurkers"] /\ (all = 0
         \/ all = Area(k))
    BY <2>1, <2>8
  <2>13. Covered(n, ids) = Covered(l, ids) + all - Area(k)
    BY <2>6, <2>7, <2>8, <2>9, <2>10, <2>11, <2>12, PanelsAre
  <2>14. Covered(l, ids) \in Int
    BY <2>9, <2>11, PanelsAre
  <2> QED
    BY <2>8, <2>12, <2>13, <2>14
<1>26. ASSUME k["w"] > 0, k["h"] > 0
       PROVE  \/ \A i \in Modules : i \notin {id, target} => n.items[i] = l.items[i]
              \/ \E i \in Modules : n.items[i]["w"] # l.items[i]["w"] \/ n.items[i]["h"] # l.items[i]["h"]
  <2> SUFFICES ASSUME NEW i \in Modules, i \notin {id, target}, n.items[i] # l.items[i]
               PROVE  n.items[i]["w"] # l.items[i]["w"] \/ n.items[i]["h"] # l.items[i]["h"]
    OBVIOUS
  <2>1. n.items[i] = left[i]
    BY <1>8, <1>19, <1>20
  <2>2. PICK u \in {"w", "h"} : left[i][u] = l.items[i][u] + k[u]
    BY <1>5, <2>1
  <2>3. k[u] \in Int /\ k[u] > 0 /\ l.items[i][u] \in Int
    BY <1>4, <1>26 DEF Rects
  <2>4. left[i][u] # l.items[i][u]
    <3> HIDE DEF k
    <3> QED
      BY <2>2, <2>3
  <2> QED
    BY <2>1, <2>4
<1> QED
  BY <1>2, <1>20, <1>21, <1>22, <1>23, <1>25, <1>26 DEF ids

-----------------------------------------------------------------------------
(* The panels come to rest on the grid. *)

\* A boundary that is moved keeps what is on either side as large as it must be.
LEMMA SplitSturdy ==
    ASSUME NEW c \in Contexts, NEW l \in Grids, NEW b, NEW to \in Int,
           NEW n \in Split(l, b, to, c), Sturdy(l, c)
    PROVE  n \in Grids /\ n.collapsed = l.collapsed /\ Sturdy(n, c)
<1>1. PICK x \in Boundaries(l, Visible(l, c)) : \E line \in Int :
          /\ n \in Grids /\ n.collapsed = l.collapsed /\ Fits(n, c)
          /\ SplitAt(l, n, x, line)
          /\ \A i \in x.before : line >= l.items[i][x.axis] + Smallest(i, c)[Size(x.axis)]
          /\ \A i \in x.after : line <= End(l.items[i], x.axis) - Smallest(i, c)[Size(x.axis)]
  BY SplitIs
<1>2. PICK line \in Int :
          /\ n \in Grids /\ n.collapsed = l.collapsed /\ Fits(n, c)
          /\ SplitAt(l, n, x, line)
          /\ \A i \in x.before : line >= l.items[i][x.axis] + Smallest(i, c)[Size(x.axis)]
          /\ \A i \in x.after : line <= End(l.items[i], x.axis) - Smallest(i, c)[Size(x.axis)]
  BY <1>1
<1>3. /\ x \in [axis : Axes, at : Int, before : SUBSET Modules, after : SUBSET Modules]
      /\ \A i \in x.before : End(l.items[i], x.axis) = x.at
      /\ \A i \in x.after : l.items[i][x.axis] = x.at
  <2>1. Visible(l, c) \in SUBSET Modules
    BY DEF Visible
  <2> QED
    BY <2>1, BoundaryIs
<1> SUFFICES ASSUME c.screen = "phonePortrait", HasControls(c), l.items["controls"]["h"] >= 6
             PROVE  n.items["controls"]["h"] >= 6
  BY <1>2 DEF Sturdy
<1> DEFINE r == l.items["controls"]
           q == n.items["controls"]
<1>4. "controls" \in Modules
  BY PanelsAre
<1>5. r \in Rects /\ Smallest("controls", c)["h"] = 6
  BY <1>4, SmallestIs DEF Grids, Arranged
<1>6. r["y"] \in Int /\ r["h"] \in Int
  BY <1>5 DEF Rects
<1>7. CASE x.axis = "x"
  <2>1. Size(x.axis) = "w" /\ "h" \in Fields
    BY <1>7 DEF Size, Fields
  <2>2. q["h"] = r["h"]
    BY <1>2, <1>4, <1>7, <2>1 DEF SplitAt
  <2> QED
    BY <2>2
<1>8. CASE x.axis = "y"
  <2>1. Size(x.axis) = "h" /\ End(r, "y") = r["y"] + r["h"]
    BY <1>8 DEF Size, End
  <2>2. CASE "controls" \in x.before
    <3>1. q["h"] = r["h"] + line - x.at /\ x.at = r["y"] + r["h"] /\ line >= r["y"] + 6
      BY <1>2, <1>3, <1>4, <1>5, <1>8, <2>1, <2>2 DEF SplitAt
    <3> QED
      BY <1>6, <3>1
  <2>3. CASE "controls" \in x.after /\ "controls" \notin x.before
    <3>1. q["h"] = r["h"] - (line - x.at)
      BY <1>2, <1>4, <2>1, <2>3, Zenon DEF SplitAt
    <3>2. x.at = r["y"]
      BY <1>3, <1>8, <2>3
    <3>3. line <= r["y"] + r["h"] - 6
      <4>1. line <= End(l.items["controls"], x.axis) - Smallest("controls", c)[Size(x.axis)]
        BY <1>2, <2>3
      <4>2. End(l.items["controls"], x.axis) = r["y"] + r["h"]
        BY <1>8, <2>1
      <4>3. Smallest("controls", c)[Size(x.axis)] = 6
        BY <1>5, <2>1
      <4> HIDE DEF r
      <4> QED
        BY <1>6, <4>1, <4>2, <4>3
    <3> QED
      BY <1>6, <3>1, <3>2, <3>3
  <2>4. CASE "controls" \notin x.after /\ "controls" \notin x.before
    <3>1. q = r
      BY <1>2, <1>4, <2>4 DEF SplitAt
    <3> QED
      BY <3>1
  <2> QED
    BY <2>2, <2>3, <2>4
<1> QED
  BY <1>3, <1>7, <1>8 DEF Axes

\* What is stored, for each kind of role and each screen.
RoleKinds == {LayoutRole(r) : r \in AllRoles}
Buckets == [RoleKinds -> [AllScreens -> Layouts \cup {None}]]

LEMMA SavingIs ==
    ASSUME NEW c \in Contexts, saved \in Buckets, NEW l \in Grids
    PROVE  /\ LayoutRole(c.role) \in RoleKinds /\ c.screen \in AllScreens
           /\ Saving(l, c) \in Buckets
<1>1. LayoutRole(c.role) \in RoleKinds /\ c.screen \in AllScreens
  BY ContextIs DEF RoleKinds
<1>2. PICK n : n = Normalized(l, c)
  OBVIOUS
<1>3. n \in Layouts
  BY <1>2, BroughtIs DEF Layouts, Brought
<1>4. Saving(l, c) = [saved EXCEPT ![LayoutRole(c.role)][c.screen] = n]
  BY <1>2 DEF Saving
<1> QED
  BY <1>1, <1>3, <1>4 DEF Buckets

LEMMA BucketHas ==
    ASSUME NEW bucket \in Buckets, NEW c \in Contexts
    PROVE  bucket[LayoutRole(c.role)][c.screen] \in Layouts \cup {None}
<1>1. LayoutRole(c.role) \in RoleKinds /\ c.screen \in AllScreens
  BY ContextIs DEF RoleKinds
<1> QED
  BY <1>1 DEF Buckets

\* One screen of one kind of role is given a layout.
LEMMA BucketWith ==
    ASSUME NEW bucket \in Buckets, NEW c \in Contexts, NEW l \in Layouts
    PROVE  [bucket EXCEPT ![LayoutRole(c.role)][c.screen] = l] \in Buckets
<1>1. LayoutRole(c.role) \in RoleKinds /\ c.screen \in AllScreens
  BY ContextIs DEF RoleKinds
<1> QED
  BY <1>1 DEF Buckets

\* What holds of a drag: it began with panels of some size; that of a corner is on no phone, and
\* Station Controls had room to be six rows high; and while role and window stay as they were
\* Station Controls of a phone keeps six rows.
DragSound ==
    drag # None =>
        /\ \A i \in Modules : drag.from.items[i]["w"] >= 0 /\ drag.from.items[i]["h"] >= 0
        /\ drag.kind \in {"move", "size"} => drag.id \in Modules
        /\ drag.kind = "split" => drag.boundary.at \in Int
        /\ drag.kind = "size" => ~Phone(ctx) /\ drag.from.items["controls"].y <= 39
        /\ drag.steady => /\ Sturdy(layout, ctx) /\ Sturdy(drag.from, ctx)
                          /\ drag.preview # None => Sturdy(drag.preview, ctx)

LayoutInv ==
    /\ ctx \in Contexts /\ layout \in Grids /\ saved \in Buckets
    /\ drag \in Drags \cup {None}
    /\ edits \in 0 .. MaxEdits /\ loads \in 0 .. MaxLoads
    /\ drag = None => Brought(layout, ctx)
    /\ DragSound

\* A step after which nothing is dragged, and during which it was not turned or relabelled,
\* leaves the panels on the grid.
Lands ==
    drag' = None /\ (drag = None \/ drag.kind = "size" \/ (drag.steady /\ ctx'.role = ctx.role))
        => Settled(layout', ctx')

LEMMA SturdyIsRoomy == \A l, c : Sturdy(l, c) => Roomy(l.items, c)
  BY DEF Sturdy, Roomy

LEMMA BroughtIsSturdy == \A l, c : Brought(l, c) => Sturdy(l, c)
  BY DEF Brought, Fixed, Sturdy

LEMMA SettledIsBrought == \A l, c : Settled(l, c) => Brought(l, c)
  BY DEF Settled, Brought, AtRest

LEMMA BroughtHasSize ==
    ASSUME NEW c \in Contexts, NEW l, Brought(l, c), NEW i \in Modules
    PROVE  l.items[i]["w"] >= 2 /\ l.items[i]["h"] >= 2
<1>1. l.items[i] \in Rects /\ AtRest(l.items, i, c)
  BY DEF Brought, Grids, Arranged
<1>2. PICK r \in Rects : r = l.items[i]
  BY <1>1
<1>3. RestsAt(r, i, c) \/ (r.h = 6 /\ RestsAt([r EXCEPT !.h = 4], i, c))
  BY <1>1, <1>2 DEF AtRest
<1>4. CASE RestsAt(r, i, c)
  <2>1. MinRows(i, c) \in 2..5 /\ r.w \in Int /\ r.h \in Int
    BY ContextIs DEF Rects
  <2> QED
    BY <1>2, <1>4, <2>1 DEF RestsAt
<1>5. CASE r.h = 6 /\ RestsAt([r EXCEPT !.h = 4], i, c)
  <2>1. [r EXCEPT !.h = 4].w = r.w
    BY DEF Rects
  <2>2. [r EXCEPT !.h = 4].w >= 2
    BY <1>5 DEF RestsAt
  <2> QED
    BY <1>2, <1>5, <2>1, <2>2
<1> QED
  BY <1>3, <1>4, <1>5

\* What an edit puts in place and saves.
LEMMA PutIs ==
    ASSUME LayoutInv, NEW l \in Grids, Put(l)
    PROVE  /\ layout' \in Grids /\ saved' \in Buckets /\ Brought(layout', ctx)
           /\ Sturdy(l, ctx) => Settled(layout', ctx)
<1>1. ctx \in Contexts /\ saved \in Buckets /\ l \in Layouts
  BY DEF LayoutInv, Layouts
<1>2. layout' = Normalized(l, ctx) /\ saved' = Saving(l, ctx)
  BY DEF Put
<1>3. Saving(l, ctx) \in Buckets
  BY <1>1, SavingIs
<1>4. Brought(Normalized(l, ctx), ctx) /\ (Sturdy(l, ctx) => Settled(Normalized(l, ctx), ctx))
  BY <1>1, BroughtIs, SturdyIsRoomy
<1> QED
  BY <1>2, <1>3, <1>4 DEF Brought

\* Such an edit, by keys.
LEMMA KeysPut ==
    ASSUME LayoutInv, ScreensAssumption, Keys, NEW l \in Grids, Put(l), Sturdy(l, ctx)
    PROVE  LayoutInv' /\ Lands
<1>1. layout' \in Grids /\ saved' \in Buckets /\ Brought(layout', ctx) /\ Settled(layout', ctx)
  BY PutIs
<1>2. ctx' = ctx /\ drag' = drag /\ drag = None /\ edits < MaxEdits /\ edits' = edits + 1 /\ loads' = loads
  BY DEF Keys, Edits
<1>3. edits' \in 0 .. MaxEdits
  BY <1>2 DEF LayoutInv, ScreensAssumption
<1> QED
  BY <1>1, <1>2, <1>3 DEF LayoutInv, Lands, DragSound

LEMMA BroughtSettles ==
    ASSUME NEW c \in Contexts, NEW l, Brought(l, c)
    PROVE  /\ Settled(Normalized(l, c), c) /\ Sturdy(Normalized(l, c), c)
           /\ Normalized(l, c) \in Grids
<1>1. l \in Grids /\ l \in Layouts /\ Roomy(l.items, c)
  BY BroughtIsRoomy DEF Brought, Layouts
<1>2. Settled(Normalized(l, c), c)
  BY <1>1, BroughtIs
<1> QED
  BY <1>2, SettledIsBrought, BroughtIsSturdy DEF Settled

LEMMA ToggleKeeps ==
    ASSUME LayoutInv, ScreensAssumption, NEW id \in Modules, Toggle(id)
    PROVE  LayoutInv' /\ Lands
<1>1. PICK n : n = Normalized(layout, ctx)
  OBVIOUS
<1>2. PICK l : l = [n EXCEPT !.collapsed[id] = ~@]
  OBVIOUS
<1>3. Keys /\ Put(l)
  BY <1>1, <1>2 DEF Toggle
<1>4. n \in Grids /\ Sturdy(n, ctx)
  BY <1>1, <1>3, BroughtSettles DEF LayoutInv, Keys
<1>5. l \in Grids /\ l.items = n.items
  BY <1>2, <1>4 DEF Grids, Arranged
<1>6. Sturdy(l, ctx)
  BY <1>4, <1>5 DEF Sturdy
<1> QED
  BY <1>3, <1>5, <1>6, KeysPut

\* A panel is replaced by one that is no lower.
LEMMA ReplacedSturdy ==
    ASSUME NEW c, NEW l \in Grids, NEW id \in Modules, NEW r \in Rects,
           Sturdy(l, c), r.h = l.items[id].h
    PROVE  Sturdy(Replaced(l, id, r), c)
<1>1. PICK n : n = Replaced(l, id, r)
  OBVIOUS
<1>2. n.items[id] = r /\ \A i \in Modules : i # id => n.items[i] = l.items[i]
  BY <1>1, ReplacedIs
<1>3. "controls" \in Modules
  BY PanelsAre
<1> QED
  BY <1>1, <1>2, <1>3 DEF Sturdy

\* A panel moved, or sized, within the grid.
LEMMA MoveByIs ==
    ASSUME ctx \in Contexts, NEW n \in Grids, NEW id \in Modules, NEW dx \in Int, NEW dy \in Int
    PROVE  LET r == n.items[id]
               q == [r EXCEPT !.x = Clamp(@ + dx, 0, Columns - r.w),
                              !.y = Clamp(@ + dy, 0, Rows(ctx) - r.h)]
           IN  q \in Rects /\ q.h = r.h
<1> DEFINE r == n.items[id]
           q == [r EXCEPT !.x = Clamp(@ + dx, 0, Columns - r.w),
                          !.y = Clamp(@ + dy, 0, Rows(ctx) - r.h)]
<1>4. r \in Rects
  BY DEF Grids, Arranged
<1>5. PICK x \in Int : x = Clamp(r.x + dx, 0, Columns - r.w)
  BY <1>4 DEF Clamp, Columns, Rects
<1>6. PICK y \in Int : y = Clamp(r.y + dy, 0, Rows(ctx) - r.h)
  <2>1. Rows(ctx) \in Int /\ r.y \in Int /\ r.h \in Int
    BY <1>4, ContextIs DEF Rects
  <2> HIDE DEF r
  <2> QED
    BY <2>1 DEF Clamp
<1>7. q \in Rects /\ q.h = r.h
  <2>1. q = [[r EXCEPT !.x = x] EXCEPT !.y = y]
    BY <1>4, <1>5, <1>6, Zenon DEF Rects
  <2>2. PICK e : e = [r EXCEPT !.x = x]
    OBVIOUS
  <2>3. e \in Rects /\ e.h = r.h
    BY <1>4, <2>2 DEF Rects
  <2>4. [e EXCEPT !.y = y] \in Rects /\ [e EXCEPT !.y = y].h = e.h
    BY <2>3 DEF Rects
  <2> HIDE DEF q
  <2> QED
    BY <2>1, <2>2, <2>3, <2>4
<1> HIDE DEF q
<1> QED
  BY <1>7, Zenon DEF q

LEMMA MoveByKeeps ==
    ASSUME LayoutInv, ScreensAssumption, NEW id \in Modules, NEW dx \in Int, NEW dy \in Int,
           MoveBy(id, dx, dy)
    PROVE  LayoutInv' /\ Lands
<1>1. PICK n : n = Normalized(layout, ctx)
  OBVIOUS
<1> DEFINE r == n.items[id]
           q == [r EXCEPT !.x = Clamp(@ + dx, 0, Columns - r.w),
                          !.y = Clamp(@ + dy, 0, Rows(ctx) - r.h)]
<1>2. Keys /\ Put(Replaced(n, id, q))
  BY <1>1 DEF MoveBy
<1>3. n \in Grids /\ Sturdy(n, ctx)
  BY <1>1, <1>2, BroughtSettles DEF LayoutInv, Keys
<1>4. q \in Rects /\ q.h = r.h
  <2>1. ctx \in Contexts
    BY DEF LayoutInv
  <2> QED
    BY <1>3, <2>1, MoveByIs, Zenon
<1> HIDE DEF q
<1>8. Replaced(n, id, q) \in Grids /\ Sturdy(Replaced(n, id, q), ctx)
  BY <1>3, <1>4, ReplacedIs, ReplacedSturdy
<1> QED
  BY <1>2, <1>8, KeysPut

LEMMA ResizeByIs ==
    ASSUME ctx \in Contexts, NEW n \in Grids, NEW id \in Modules, NEW dw \in Int, NEW dh \in Int
    PROVE  LET r == n.items[id]
               w == Clamp(r.w + dw, MinColumns, Columns)
               wanted == IF r.h + dh < MinRows(id, ctx) THEN MinRows(id, ctx) ELSE r.h + dh
               h == IF wanted > Rows(ctx) - r.y THEN Rows(ctx) - r.y ELSE wanted
           IN  Rect(IF r.x > Columns - w THEN Columns - w ELSE r.x, r.y, w, h) \in Rects
<1> DEFINE r == n.items[id]
           w == Clamp(r.w + dw, MinColumns, Columns)
           wanted == IF r.h + dh < MinRows(id, ctx) THEN MinRows(id, ctx) ELSE r.h + dh
           h == IF wanted > Rows(ctx) - r.y THEN Rows(ctx) - r.y ELSE wanted
           q == Rect(IF r.x > Columns - w THEN Columns - w ELSE r.x, r.y, w, h)
<1>4. r \in Rects
  BY DEF Grids, Arranged
<1>5. q \in Rects
  <2>1. r.x \in Int /\ r.y \in Int /\ r.w \in Int /\ r.h \in Int
    BY <1>4 DEF Rects
  <2>2. Rows(ctx) \in Int /\ MinRows(id, ctx) \in Int
    BY ContextIs
  <2> HIDE DEF r
  <2>3. w \in Int
    BY <2>1 DEF Clamp, MinColumns, Columns
  <2>4. wanted \in Int
    BY <2>1, <2>2
  <2>5. h \in Int
    <3> HIDE DEF wanted
    <3> QED
      BY <2>1, <2>2, <2>4
  <2> HIDE DEF w, h
  <2> QED
    BY <2>1, <2>3, <2>5 DEF Rect, Rects, Columns
<1> QED
  BY <1>5, Zenon

\* No phone: Station Controls has no such height.
LEMMA NoPhone == ~Phone(ctx) => \A l : Sturdy(l, ctx)
  BY DEF Phone, Sturdy

LEMMA ResizeByKeeps ==
    ASSUME LayoutInv, ScreensAssumption, NEW id \in Modules, NEW dw \in Int, NEW dh \in Int,
           ResizeBy(id, dw, dh)
    PROVE  LayoutInv' /\ Lands
<1>1. PICK n : n = Normalized(layout, ctx)
  OBVIOUS
<1> DEFINE r == n.items[id]
           w == Clamp(r.w + dw, MinColumns, Columns)
           wanted == IF r.h + dh < MinRows(id, ctx) THEN MinRows(id, ctx) ELSE r.h + dh
           h == IF wanted > Rows(ctx) - r.y THEN Rows(ctx) - r.y ELSE wanted
           q == Rect(IF r.x > Columns - w THEN Columns - w ELSE r.x, r.y, w, h)
<1>2. Keys /\ ~Phone(ctx) /\ Put(Replaced(n, id, q))
  BY <1>1 DEF ResizeBy
<1>3. n \in Grids
  BY <1>1, <1>2, BroughtSettles DEF LayoutInv, Keys
<1>5. q \in Rects
  <2>1. ctx \in Contexts
    BY DEF LayoutInv
  <2> QED
    BY <1>3, <2>1, ResizeByIs, Zenon
<1> HIDE DEF q
<1>6. Replaced(n, id, q) \in Grids
  BY <1>3, <1>5, ReplacedIs
<1> QED
  BY <1>2, <1>6, KeysPut, NoPhone

LEMMA ResetKeeps ==
    ASSUME LayoutInv, ScreensAssumption, NEW id \in Modules, Reset(id)
    PROVE  LayoutInv' /\ Lands
<1>1. PICK n : n = Normalized(layout, ctx)
  OBVIOUS
<1>2. PICK q : q = Default(ctx).items[id]
  OBVIOUS
<1>3. Keys /\ ~Phone(ctx) /\ Put(Replaced(n, id, q))
  BY <1>1, <1>2 DEF Reset
<1>4. n \in Grids
  BY <1>1, <1>3, BroughtSettles DEF LayoutInv, Keys
<1>5. q \in Rects
  <2>1. Default(ctx) \in Grids
    BY DefaultIs DEF LayoutInv, Settled
  <2> QED
    BY <1>2, <2>1 DEF Grids, Arranged
<1>6. Replaced(n, id, q) \in Grids
  BY <1>4, <1>5, ReplacedIs
<1> QED
  BY <1>3, <1>6, KeysPut, NoPhone

\* What the handles of the boundaries are of.
LEMMA SplittersAre ==
    ASSUME LayoutInv, drag = None, NEW b \in Splitters
    PROVE  /\ b \in [axis : Axes, at : Int, before : SUBSET Modules, after : SUBSET Modules]
           /\ Shown(Normalized(layout, ctx), ctx) \in Grids
           /\ Sturdy(Shown(Normalized(layout, ctx), ctx), ctx)
           /\ \A i \in Modules : /\ Shown(Normalized(layout, ctx), ctx).items[i]["w"] >= 2
                                       /\ Shown(Normalized(layout, ctx), ctx).items[i]["h"] >= 2
<1>1. PICK n : n = Normalized(layout, ctx)
  OBVIOUS
<1>2. n \in Grids /\ Settled(n, ctx) /\ Sturdy(n, ctx) /\ Brought(n, ctx)
  BY <1>1, BroughtSettles, SettledIsBrought DEF LayoutInv
<1>3. PICK l : l = Shown(n, ctx)
  OBVIOUS
<1>4. l \in Grids /\ \A i \in Modules : l.items[i]["w"] = n.items[i]["w"] /\ l.items[i]["h"] = n.items[i]["h"]
  BY <1>2, <1>3, ShownIs
<1>5. b \in Boundaries(l, Visible(l, ctx))
  BY <1>1, <1>3 DEF Splitters
<1>6. Visible(l, ctx) \in SUBSET Modules
  BY DEF Visible
<1>7. b \in [axis : Axes, at : Int, before : SUBSET Modules, after : SUBSET Modules]
  BY <1>4, <1>5, <1>6, BoundaryIs
<1>8. Sturdy(l, ctx)
  <2>1. "controls" \in Modules
    BY PanelsAre
  <2> QED
    BY <1>2, <1>4, <2>1 DEF Sturdy
<1>9. \A i \in Modules : l.items[i]["w"] >= 2 /\ l.items[i]["h"] >= 2
  BY <1>2, <1>4, BroughtHasSize DEF LayoutInv
<1> QED
  BY <1>1, <1>3, <1>4, <1>7, <1>8, <1>9

LEMMA KeySplitterKeeps ==
    ASSUME LayoutInv, ScreensAssumption, NEW by \in Int, KeySplitter(by)
    PROVE  LayoutInv' /\ Lands
<1>1. PICK l : l = Shown(Normalized(layout, ctx), ctx)
  OBVIOUS
<1>2. PICK b \in Splitters : \E next \in Split(l, b, b.at + by, ctx) :
          Put(Applied(layout, next, ctx))
  BY <1>1 DEF KeySplitter
<1>3. PICK next \in Split(l, b, b.at + by, ctx) : Put(Applied(layout, next, ctx))
  BY <1>2
<1>4. Keys /\ drag = None
  BY DEF KeySplitter, Keys
<1>5. l \in Grids /\ Sturdy(l, ctx) /\ b.at \in Int
  BY <1>1, <1>4, SplittersAre
<1>6. PICK to \in Int : to = b.at + by
  BY <1>5
<1>7. next \in Grids /\ Sturdy(next, ctx)
  BY <1>3, <1>5, <1>6, SplitSturdy DEF LayoutInv
<1>8. PICK n : n = Applied(layout, next, ctx)
  OBVIOUS
<1>9. n \in Grids /\ Sturdy(n, ctx)
  BY <1>7, <1>8, AppliedIs DEF LayoutInv
<1> QED
  BY <1>3, <1>4, <1>8, <1>9, KeysPut

\* A drag that begins.
LEMMA BeganIs ==
    ASSUME ScreensAssumption, NEW from \in Grids, NEW kind \in {"move", "size", "split"}
    PROVE  LET d == Dragging(kind, from)
           IN  /\ \A id \in Modules : [d EXCEPT !.id = id] \in Drags
               /\ \A id \in Modules, edge \in SUBSET {"n", "e", "s", "w"} :
                      [d EXCEPT !.id = id, !.edge = edge] \in Drags
               /\ \A b \in [axis : Axes, at : Int, before : SUBSET Modules, after : SUBSET Modules] :
                      [d EXCEPT !.boundary = b] \in Drags
BY Zenon DEF Dragging, Drags, Axes

LEMMA GrabKeeps ==
    ASSUME LayoutInv, ScreensAssumption, NEW id \in Modules, Grab(id)
    PROVE  LayoutInv' /\ Lands
<1>1. PICK n : n = Normalized(layout, ctx)
  OBVIOUS
<1>2. PICK d : d = [Dragging("move", n) EXCEPT !.id = id]
  OBVIOUS
<1>3. /\ drag = None /\ drag' = d /\ edits < MaxEdits /\ edits' = edits + 1
      /\ layout' = layout /\ saved' = saved /\ ctx' = ctx /\ loads' = loads
  BY <1>1, <1>2 DEF Grab, Grabs, Edits
<1>4. n \in Grids /\ Sturdy(n, ctx) /\ Sturdy(layout, ctx) /\ Brought(n, ctx)
  BY <1>1, <1>3, BroughtSettles, BroughtIsSturdy, SettledIsBrought DEF LayoutInv
<1>5. d \in Drags
  BY <1>2, <1>4, BeganIs, Zenon
<1>6. /\ d.kind = "move" /\ d.from = n /\ d.id = id /\ d.preview = None
  BY <1>2 DEF Dragging
<1>7. \A i \in Modules : n.items[i]["w"] >= 0 /\ n.items[i]["h"] >= 0
  BY <1>4, BroughtHasSize DEF LayoutInv, Grids, Arranged, Rects
<1>8. d # None
  BY <1>5 DEF ScreensAssumption
<1>9. DragSound'
  BY <1>3, <1>4, <1>6, <1>7, <1>8 DEF DragSound
<1>10. edits' \in 0 .. MaxEdits
  BY <1>3 DEF LayoutInv, ScreensAssumption
<1> QED
  BY <1>3, <1>5, <1>8, <1>9, <1>10 DEF LayoutInv, Lands

LEMMA GrabEdgeKeeps ==
    ASSUME LayoutInv, ScreensAssumption, NEW id \in Modules, NEW edge \in EdgesOf,
           GrabEdge(id, edge)
    PROVE  LayoutInv' /\ Lands
<1>1. PICK n : n = Normalized(layout, ctx)
  OBVIOUS
<1>2. PICK d : d = [Dragging("size", n) EXCEPT !.id = id, !.edge = edge]
  OBVIOUS
<1>3. /\ drag = None /\ drag' = d /\ edits < MaxEdits /\ edits' = edits + 1 /\ ~Phone(ctx)
      /\ layout' = layout /\ saved' = saved /\ ctx' = ctx /\ loads' = loads
  BY <1>1, <1>2 DEF GrabEdge, Grabs, Edits
<1>4. n \in Grids /\ Settled(n, ctx) /\ Sturdy(n, ctx) /\ Sturdy(layout, ctx) /\ Brought(n, ctx)
  BY <1>1, <1>3, BroughtSettles, BroughtIsSturdy, SettledIsBrought DEF LayoutInv
<1>5. d \in Drags
  <2>1. edge \in SUBSET {"n", "e", "s", "w"}
    BY DEF EdgesOf
  <2> QED
    BY <1>2, <1>4, <2>1, BeganIs, Zenon
<1>6. /\ d.kind = "size" /\ d.from = n /\ d.id = id /\ d.preview = None
  BY <1>2 DEF Dragging
<1>7. \A i \in Modules : n.items[i]["w"] >= 0 /\ n.items[i]["h"] >= 0
  BY <1>4, BroughtHasSize DEF LayoutInv, Grids, Arranged, Rects
<1>8. d # None
  BY <1>5 DEF ScreensAssumption
<1>9. n.items["controls"].y <= 39
  <2>1. "controls" \in Modules
    BY PanelsAre
  <2>2. PICK r \in Rects : r = n.items["controls"]
    BY <1>4, <2>1 DEF Grids, Arranged
  <2>3. r.y \in Int /\ r.h \in Int /\ r.y + r.h <= Rows(ctx) /\ r.h >= MinRows("controls", ctx)
    BY <1>4, <2>1, <2>2 DEF Settled, RestsAt, Rects
  <2>4. Rows(ctx) \in {20, 24} /\ MinRows("controls", ctx) \in 2..5
    BY <1>3, <2>1, ContextIs DEF LayoutInv, Phone
  <2> QED
    BY <2>2, <2>3, <2>4
<1>10. DragSound'
  BY <1>3, <1>4, <1>6, <1>7, <1>8, <1>9 DEF DragSound, Phone
<1>11. edits' \in 0 .. MaxEdits
  BY <1>3 DEF LayoutInv, ScreensAssumption
<1> QED
  BY <1>3, <1>5, <1>8, <1>10, <1>11 DEF LayoutInv, Lands

LEMMA GrabSplitterKeeps ==
    ASSUME LayoutInv, ScreensAssumption, GrabSplitter
    PROVE  LayoutInv' /\ Lands
<1>1. PICK l : l = Shown(Normalized(layout, ctx), ctx)
  OBVIOUS
<1>2. PICK b \in Splitters : drag' = [Dragging("split", l) EXCEPT !.boundary = b]
  BY <1>1 DEF GrabSplitter
<1>3. PICK d : d = [Dragging("split", l) EXCEPT !.boundary = b]
  OBVIOUS
<1>4. /\ drag = None /\ drag' = d /\ edits < MaxEdits /\ edits' = edits + 1
      /\ layout' = layout /\ saved' = saved /\ ctx' = ctx /\ loads' = loads
  BY <1>2, <1>3 DEF GrabSplitter, Grabs, Edits
<1>5. /\ b \in [axis : Axes, at : Int, before : SUBSET Modules, after : SUBSET Modules]
      /\ l \in Grids /\ Sturdy(l, ctx)
      /\ \A i \in Modules : l.items[i]["w"] >= 2 /\ l.items[i]["h"] >= 2
  BY <1>1, <1>4, SplittersAre
<1>6. d \in Drags
  BY <1>3, <1>5, BeganIs, Zenon
<1>7. d.kind = "split" /\ d.from = l /\ d.boundary = b /\ d.preview = None
  BY <1>3 DEF Dragging
<1>8. \A i \in Modules : l.items[i]["w"] >= 0 /\ l.items[i]["h"] >= 0
  BY <1>5 DEF Grids, Arranged, Rects
<1>9. d # None /\ Sturdy(layout, ctx)
  BY <1>4, <1>6, BroughtIsSturdy DEF ScreensAssumption, LayoutInv
<1>10. b.at \in Int
  BY <1>5
<1>11. DragSound'
  BY <1>4, <1>5, <1>7, <1>8, <1>9, <1>10 DEF DragSound
<1>12. edits' \in 0 .. MaxEdits
  BY <1>4 DEF LayoutInv, ScreensAssumption
<1> QED
  BY <1>4, <1>6, <1>9, <1>11, <1>12 DEF LayoutInv, Lands

\* The panel that is dragged is held somewhere else.
LEMMA HeldKeeps ==
    ASSUME LayoutInv, ScreensAssumption, drag # None, NEW next \in Grids,
           drag.steady => Sturdy(next, ctx), drag' = [drag EXCEPT !.preview = next],
           UNCHANGED <<ctx, layout, saved, edits, loads>>
    PROVE  LayoutInv' /\ Lands
<1>1. PICK d : d = [drag EXCEPT !.preview = next]
  OBVIOUS
<1>2. drag \in Drags
  BY DEF LayoutInv
<1>3. /\ d \in Drags /\ d.preview = next
      /\ d.kind = drag.kind /\ d.from = drag.from /\ d.id = drag.id /\ d.boundary = drag.boundary
         /\ d.steady = drag.steady
  BY <1>1, <1>2 DEF Drags
<1>4. d # None /\ drag' = d
  BY <1>1, <1>3 DEF ScreensAssumption
<1>5. DragSound'
  BY <1>3, <1>4 DEF LayoutInv, DragSound
<1> QED
  BY <1>3, <1>4, <1>5 DEF LayoutInv, Lands

LEMMA HoldKeeps ==
    ASSUME LayoutInv, ScreensAssumption, NEW at, Hold(at)
    PROVE  LayoutInv' /\ Lands
<1>1. PICK n : n = Normalized(drag.from, ctx)
  OBVIOUS
<1>2. /\ drag # None /\ drag.kind = "move" /\ UNCHANGED <<ctx, saved, edits, loads, layout>>
      /\ \E p, prior : \E next \in Placed(n, drag.id, p, prior, ctx) :
            drag' = [drag EXCEPT !.preview = next]
  BY <1>1, Zenon DEF Hold, Holds
<1>3. PICK p, prior : \E next \in Placed(n, drag.id, p, prior, ctx) :
          drag' = [drag EXCEPT !.preview = next]
  BY <1>2
<1>4. PICK next \in Placed(n, drag.id, p, prior, ctx) : drag' = [drag EXCEPT !.preview = next]
  BY <1>3
<1>5. drag.id \in Modules /\ drag.from \in Grids /\ ctx \in Contexts
  BY <1>2 DEF LayoutInv, DragSound, Drags
<1>6. n \in Grids /\ Sturdy(n, ctx)
  BY <1>1, <1>5, BroughtIs, BroughtIsSturdy DEF Layouts, Brought
<1>7. PICK id \in Modules : id = drag.id
  BY <1>5
<1>8. next \in Grids /\ \A i \in Modules : next.items[i].h = n.items[i].h
  BY <1>4, <1>5, <1>6, <1>7, PlacedIs
<1>9. Sturdy(next, ctx)
  BY <1>6, <1>8, PanelsAre DEF Sturdy
<1> QED
  BY <1>2, <1>4, <1>8, <1>9, HeldKeeps

LEMMA HoldAtEdgeKeeps ==
    ASSUME LayoutInv, ScreensAssumption, NEW panel \in Modules, NEW edge, HoldAtEdge(panel, edge)
    PROVE  LayoutInv' /\ Lands
<1>1. /\ drag # None /\ drag.kind = "move" /\ UNCHANGED <<ctx, saved, edits, loads, layout>>
  BY DEF HoldAtEdge, Holds
<1>2. PICK next \in Docked(drag.from, drag.id, panel, edge, ctx) : drag' = [drag EXCEPT !.preview = next]
  BY DEF HoldAtEdge
<1>3. /\ drag.id \in Modules /\ drag.from \in Grids /\ ctx \in Contexts
      /\ drag.from.items[drag.id]["w"] >= 0 /\ drag.from.items[drag.id]["h"] >= 0
      /\ drag.steady => Sturdy(drag.from, ctx)
  BY <1>1 DEF LayoutInv, DragSound, Drags
<1>4. PICK l \in Grids : l = drag.from
  BY <1>3
<1>5. PICK id \in Modules : id = drag.id
  BY <1>3
<1>6. next \in Grids /\ (Sturdy(l, ctx) => Sturdy(next, ctx))
  BY <1>2, <1>3, <1>4, <1>5, DockedIs
<1> QED
  BY <1>1, <1>2, <1>3, <1>4, <1>6, HeldKeeps

\* Where edges that are pulled take a panel: but on a tablet held upright it still rests there.
LEMMA PulledIs ==
    ASSUME NEW c \in Contexts, NEW id \in Modules, NEW edge, NEW dx \in Int, NEW dy \in Int,
           NEW was \in Rects, NEW r \in Rects
    PROVE  LET q == Pulled(was, r, id, edge, dx, dy, c)
           IN  /\ q \in Rects
               /\ r = was /\ RestsAt(was, id, c) /\ c.screen # "tabletPortrait" => RestsAt(q, id, c)
<1> DEFINE least == MinRows(id, c)
           rows == Rows(c)
           right == was.x + was.w
           w == IF "w" \in edge
                THEN LET v == IF was.w - dx < MinColumns THEN MinColumns ELSE was.w - dx
                     IN IF v > right THEN right ELSE v
                ELSE IF "e" \in edge
                THEN LET v == IF was.w + dx < MinColumns THEN MinColumns ELSE was.w + dx
                     IN IF v > Columns - r.x THEN Columns - r.x ELSE v
                ELSE r.w
           bottom == was.y + was.h
           bound == IF bottom < least THEN 0 ELSE bottom - least
           v == Clamp(was.y + dy, 0, bound)
           top == IF c.screen = "tabletPortrait" /\ id \in {"chat", "active"} /\ v \in 4 .. 6 THEN 5 ELSE v
           end == Clamp(bottom + dy, IF r.y + least > rows THEN rows ELSE r.y + least, rows)
           q == Rect(IF "w" \in edge THEN right - w ELSE r.x,
                     IF "n" \in edge THEN top ELSE r.y, w,
                     IF "n" \in edge THEN bottom - top
                     ELSE IF "s" \in edge THEN end - r.y ELSE r.h)
<1>1. /\ r.x \in Int /\ r.y \in Int /\ r.w \in Int /\ r.h \in Int
      /\ was.x \in Int /\ was.y \in Int /\ was.w \in Int /\ was.h \in Int
  BY DEF Rects
<1>2. rows \in Int /\ least \in Int
  BY ContextIs
<1>3. q = Pulled(was, r, id, edge, dx, dy, c)
  BY Zenon DEF Pulled
<1> HIDE DEF least, rows
<1>4. right \in Int /\ right = was.x + was.w /\ bottom \in Int /\ bottom = was.y + was.h
  BY <1>1
<1> HIDE DEF right, bottom
<1>5. /\ w \in Int
      /\ "w" \notin edge => r.x + w <= 24 \/ w = r.w
      /\ "w" \in edge => w <= right
      /\ right >= 2 /\ 24 - r.x >= 2 /\ r.w >= 2 => w >= 2
  BY <1>1, <1>4 DEF MinColumns, Columns
<1>6. bound \in Int /\ (bottom >= least => bound = bottom - least)
  BY <1>2, <1>4
<1> HIDE DEF bound
<1>7. v \in Int /\ (bound >= 0 => v >= 0 /\ v <= bound)
  BY <1>1, <1>6 DEF Clamp
<1> HIDE DEF v
<1>8. top \in Int /\ (c.screen # "tabletPortrait" => top = v)
  BY <1>7
<1>9. end \in Int /\ (r.y + least <= rows => end >= r.y + least /\ end <= rows)
  BY <1>1, <1>2, <1>4 DEF Clamp
<1> HIDE DEF w, top, end
<1>10. q \in Rects
  BY <1>1, <1>4, <1>5, <1>8, <1>9 DEF Rect, Rects
<1>11. ASSUME r = was, RestsAt(was, id, c), c.screen # "tabletPortrait"
       PROVE  RestsAt(q, id, c)
  <2>1. was.x >= 0 /\ was.y >= 0 /\ was.x + was.w <= 24 /\ was.y + was.h <= rows /\ was.w >= 2 /\ was.h >= least
    BY <1>11 DEF RestsAt, rows, least
  <2>2. w >= 2 /\ ("w" \in edge => right - w >= 0 /\ right <= 24) /\ ("w" \notin edge => r.x + w <= 24)
    BY <1>1, <1>4, <1>5, <1>11, <2>1
  <2>3. "n" \in edge => top >= 0 /\ bottom - top >= least /\ bottom <= rows
    BY <1>1, <1>2, <1>4, <1>6, <1>7, <1>8, <1>11, <2>1
  <2>4. "s" \in edge => end - r.y >= least /\ end <= rows
    BY <1>1, <1>2, <1>9, <1>11, <2>1
  <2>5. PICK x \in Int : x = IF "w" \in edge THEN right - w ELSE r.x
    BY <1>1, <1>4, <1>5
  <2>6. PICK y \in Int : y = IF "n" \in edge THEN top ELSE r.y
    BY <1>1, <1>8
  <2>7. PICK h \in Int : h = IF "n" \in edge THEN bottom - top ELSE IF "s" \in edge THEN end - r.y ELSE r.h
    BY <1>1, <1>4, <1>8, <1>9
  <2>8. x >= 0 /\ x + w <= 24
    BY <1>1, <1>4, <1>5, <1>11, <2>1, <2>2, <2>5
  <2>9. y >= 0 /\ y + h <= rows /\ h >= least
    BY <1>1, <1>2, <1>4, <1>8, <1>9, <1>11, <2>1, <2>3, <2>4, <2>6, <2>7
  <2>10. q = Rect(x, y, w, h)
    BY <2>5, <2>6, <2>7
  <2>11. q.x = x /\ q.y = y /\ q.w = w /\ q.h = h
    BY <2>10, Zenon DEF Rect
  <2> HIDE DEF q
  <2> QED
    BY <2>2, <2>8, <2>9, <2>11 DEF RestsAt, rows, least
<1> HIDE DEF q
<1> QED
  BY <1>3, <1>10, <1>11

LEMMA PullEdgeKeeps ==
    ASSUME LayoutInv, ScreensAssumption, NEW dx \in Int, NEW dy \in Int, PullEdge(dx, dy)
    PROVE  LayoutInv' /\ Lands
<1>1. /\ drag # None /\ drag.kind = "size" /\ drag' = drag /\ UNCHANGED <<ctx, saved, edits, loads>>
  BY DEF PullEdge, Holds
<1>2. /\ drag.id \in Modules /\ drag.from \in Grids /\ ctx \in Contexts /\ ~Phone(ctx)
  BY <1>1 DEF LayoutInv, DragSound, Drags
<1>3. PICK l \in Grids : l = drag.from
  BY <1>2
<1>4. PICK id \in Modules : id = drag.id
  BY <1>2
<1>5. PICK r \in Rects : r = Normalized(l, ctx).items[id]
  <2>1. Normalized(l, ctx) \in Grids
    BY <1>2, <1>3, BroughtIs DEF Layouts, Brought
  <2> QED
    BY <2>1 DEF Grids, Arranged
<1>6. PICK q : q = Pulled(l.items[id], r, id, drag.edge, dx, dy, ctx)
  OBVIOUS
<1>7. q \in Rects
  <2>1. l.items[id] \in Rects
    BY DEF Grids, Arranged
  <2> QED
    BY <1>2, <1>6, <2>1, PulledIs
<1>8. layout' = Replaced(l, id, q)
  BY <1>3, <1>4, <1>5, <1>6 DEF PullEdge
<1>11. layout' \in Grids
  BY <1>7, <1>8, ReplacedIs
<1>12. Sturdy(layout', ctx)
  BY <1>2, NoPhone
<1>13. DragSound'
  BY <1>1, <1>12 DEF LayoutInv, DragSound
<1> QED
  BY <1>1, <1>11, <1>13 DEF LayoutInv, Lands

LEMMA PullSplitterKeeps ==
    ASSUME LayoutInv, ScreensAssumption, NEW by \in Int, PullSplitter(by)
    PROVE  LayoutInv' /\ Lands
<1>1. /\ drag # None /\ drag.kind = "split" /\ drag' = drag /\ UNCHANGED <<ctx, saved, edits, loads>>
  BY DEF PullSplitter, Holds
<1>2. PICK next \in Split(drag.from, drag.boundary, drag.boundary.at + by, ctx) :
          layout' = Applied(layout, next, ctx)
  BY DEF PullSplitter
<1>3. drag.from \in Grids /\ ctx \in Contexts /\ layout \in Grids /\ drag.boundary.at \in Int
  BY <1>1 DEF LayoutInv, DragSound, Drags
<1>4. PICK l \in Grids : l = drag.from
  BY <1>3
<1>5. PICK to \in Int : to = drag.boundary.at + by
  BY <1>3
<1>6. next \in Grids
  BY <1>2, <1>3, <1>4, <1>5, SplitIs
<1>7. Sturdy(l, ctx) => Sturdy(next, ctx)
  BY <1>2, <1>3, <1>4, <1>5, SplitSturdy
<1>8. layout' \in Grids /\ (Sturdy(next, ctx) => Sturdy(layout', ctx))
  BY <1>2, <1>3, <1>6, AppliedIs
<1>9. DragSound'
  BY <1>1, <1>4, <1>7, <1>8 DEF LayoutInv, DragSound
<1> QED
  BY <1>1, <1>8, <1>9 DEF LayoutInv, Lands

LEMMA ReleaseKeeps ==
    ASSUME LayoutInv, ScreensAssumption, Release
    PROVE  LayoutInv' /\ Lands
<1>1. PICK l : l = IF drag.kind = "move" /\ drag.preview # None THEN drag.preview ELSE layout
  OBVIOUS
<1>2. /\ drag # None /\ drag' = None /\ UNCHANGED <<ctx, edits, loads>>
      /\ Put(l) \/ (layout' = Normalized(l, ctx) /\ UNCHANGED saved)
  BY <1>1 DEF Release, Ends
<1>3. l \in Grids /\ ctx \in Contexts /\ saved \in Buckets
  BY <1>1, <1>2 DEF LayoutInv, Drags
<1>4. layout' \in Grids /\ saved' \in Buckets /\ Brought(layout', ctx) /\ (Sturdy(l, ctx) => Settled(layout', ctx))
  <2>1. CASE Put(l)
    BY <1>3, <2>1, PutIs
  <2>2. CASE layout' = Normalized(l, ctx) /\ UNCHANGED saved
    BY <1>3, <2>2, BroughtIs, SturdyIsRoomy DEF Layouts, Brought
  <2> QED
    BY <1>2, <2>1, <2>2
<1>5. drag.kind = "size" \/ drag.steady => Sturdy(l, ctx)
  BY <1>1, <1>2, NoPhone DEF LayoutInv, DragSound
<1> QED
  BY <1>2, <1>4, <1>5 DEF LayoutInv, Lands, DragSound

LEMMA CancelKeeps ==
    ASSUME LayoutInv, ScreensAssumption, Cancel
    PROVE  LayoutInv' /\ Lands
<1>1. PICK l : l = IF drag.kind = "split" THEN Applied(layout, drag.from, ctx) ELSE drag.from
  OBVIOUS
<1>2. /\ drag # None /\ drag' = None /\ UNCHANGED <<ctx, edits, loads>>
      /\ layout' = Normalized(l, ctx)
      /\ saved' = IF drag.kind = "size" THEN Saving(drag.from, ctx) ELSE saved
  BY <1>1 DEF Cancel, Ends
<1>3. ctx \in Contexts /\ drag.from \in Grids /\ layout \in Grids /\ saved \in Buckets
  BY <1>2 DEF LayoutInv, Drags
<1>4. l \in Grids /\ (Sturdy(drag.from, ctx) => Sturdy(l, ctx))
  BY <1>1, <1>3, AppliedIs
<1>5. Brought(layout', ctx) /\ (Sturdy(l, ctx) => Settled(layout', ctx))
  BY <1>2, <1>3, <1>4, BroughtIs, SturdyIsRoomy DEF Layouts
<1>6. saved' \in Buckets
  BY <1>2, <1>3, SavingIs
<1>7. drag.kind = "size" \/ drag.steady => Sturdy(drag.from, ctx)
  BY <1>2, NoPhone DEF LayoutInv, DragSound
<1> QED
  BY <1>2, <1>4, <1>5, <1>6, <1>7 DEF LayoutInv, Lands, DragSound, Brought

LEMMA UnsteadyIs ==
    ASSUME ScreensAssumption, NEW d \in Drags \cup {None}
    PROVE  LET u == Unsteady(d)
           IN  /\ u \in Drags \cup {None} /\ (u = None <=> d = None)
               /\ d # None => /\ u.kind = d.kind /\ u.from = d.from /\ u.id = d.id /\ u.boundary = d.boundary
                              /\ ~u.steady
<1>1. CASE d = None
  BY <1>1 DEF Unsteady
<1>2. CASE d # None
  <2>1. PICK u : u = [d EXCEPT !.steady = FALSE]
    OBVIOUS
  <2>2. /\ u \in Drags /\ u.kind = d.kind /\ u.from = d.from /\ u.id = d.id /\ u.boundary = d.boundary
        /\ ~u.steady
    BY <1>2, <2>1 DEF Drags
  <2>3. Unsteady(d) = u
    BY <1>2, <2>1 DEF Unsteady
  <2> QED
    BY <1>2, <2>2, <2>3 DEF ScreensAssumption
<1> QED
  BY <1>1, <1>2

\* The window or the role becomes another one.
LEMMA OtherContext ==
    ASSUME ScreensAssumption, NEW c \in Contexts
    PROVE  /\ \A s \in Screens \cap AllScreens : /\ [c EXCEPT !.screen = s] \in Contexts
                                    /\ [c EXCEPT !.screen = s].role = c.role /\ [c EXCEPT !.screen = s].screen = s
                                    /\ [c EXCEPT !.screen = s].low = c.low
           /\ \A r \in Roles : /\ [c EXCEPT !.role = r] \in Contexts
                               /\ [c EXCEPT !.role = r].role = r /\ [c EXCEPT !.role = r].screen = c.screen
           /\ \A rows \in {2, 4} : /\ [c EXCEPT !.low = rows] \in Contexts
                                   /\ [c EXCEPT !.low = rows].role = c.role
                                   /\ [c EXCEPT !.low = rows].screen = c.screen
BY DEF Contexts, ScreensAssumption

\* The layout of a role and a screen that begin to be used.
LEMMA ActiveIs ==
    ASSUME NEW c \in Contexts, NEW bucket \in Buckets
    PROVE  /\ Settled(Normalized(Activated(bucket, c), c), c)
           /\ Normalized(Activated(bucket, c), c) \in Grids
           /\ Normalized(Activated(bucket, c), c) \in Layouts
<1>1. bucket[LayoutRole(c.role)][c.screen] \in Layouts \cup {None}
  BY BucketHas
<1>2. Settled(Normalized(Activated(bucket, c), c), c)
  BY <1>1, ActivatedIs
<1> QED
  BY <1>2 DEF Settled, Layouts

LEMMA ReloadKeeps ==
    ASSUME LayoutInv, ScreensAssumption, Reload
    PROVE  LayoutInv' /\ Lands
<1>1. PICK n : n = Normalized(Activated(saved, ctx), ctx)
  OBVIOUS
<1>2. /\ loads < MaxLoads /\ loads' = loads + 1 /\ edits' = edits /\ drag' = None /\ ctx' = ctx
      /\ layout' = n /\ saved' = [saved EXCEPT ![LayoutRole(ctx.role)][ctx.screen] = n]
  BY <1>1 DEF Reload, Happens
<1>3. ctx \in Contexts /\ saved \in Buckets
  BY DEF LayoutInv
<1>4. Settled(n, ctx) /\ n \in Grids /\ n \in Layouts
  BY <1>1, <1>3, ActiveIs
<1>5. saved' \in Buckets
  BY <1>2, <1>3, <1>4, BucketWith
<1>6. loads' \in 0 .. MaxLoads
  BY <1>2 DEF LayoutInv, ScreensAssumption
<1> QED
  BY <1>2, <1>4, <1>5, <1>6, SettledIsBrought DEF LayoutInv, Lands, DragSound

LEMMA LowWindowKeeps ==
    ASSUME LayoutInv, ScreensAssumption, NEW rows \in {2, 4}, LowWindow(rows)
    PROVE  LayoutInv' /\ Lands
<1>1. PICK c : c = [ctx EXCEPT !.low = rows]
  OBVIOUS
<1>2. c \in Contexts /\ c.screen = ctx.screen /\ c.role = ctx.role /\ ctx.screen = "desktop"
  BY <1>1, OtherContext DEF LayoutInv, LowWindow
<1>3. /\ loads < MaxLoads /\ loads' = loads + 1 /\ edits' = edits /\ ctx' = c /\ saved' = saved
      /\ layout' = IF drag # None /\ drag.kind = "move" THEN layout ELSE Normalized(layout, c)
      /\ drag' = Unsteady(drag)
  BY <1>1 DEF LowWindow, Happens
<1>4. layout \in Grids /\ layout \in Layouts
  BY DEF LayoutInv, Layouts
<1>5. Sturdy(layout, c)
  BY <1>2 DEF Sturdy
<1>6. Settled(Normalized(layout, c), c) /\ Normalized(layout, c) \in Grids
  BY <1>2, <1>4, <1>5, BroughtIs, SturdyIsRoomy DEF Settled
<1>7. PICK u : u = Unsteady(drag)
  OBVIOUS
<1>8. /\ u \in Drags \cup {None} /\ (u = None <=> drag = None)
      /\ drag # None => /\ u.kind = drag.kind /\ u.from = drag.from /\ u.id = drag.id /\ u.boundary = drag.boundary
                        /\ ~u.steady
  BY <1>7, UnsteadyIs DEF LayoutInv
<1>9. loads' \in 0 .. MaxLoads
  BY <1>3 DEF LayoutInv, ScreensAssumption
<1>10. DragSound'
  BY <1>2, <1>3, <1>7, <1>8 DEF LayoutInv, DragSound, Phone
<1>11. layout' \in Grids /\ (drag' = None => Settled(layout', ctx'))
  BY <1>3, <1>4, <1>6, <1>7, <1>8
<1> QED
  BY <1>2, <1>3, <1>7, <1>8, <1>9, <1>10, <1>11, SettledIsBrought DEF LayoutInv, Lands

LEMMA ResetScreenKeeps ==
    ASSUME LayoutInv, ScreensAssumption, NEW s \in Screens, ResetScreen(s)
    PROVE  LayoutInv' /\ Lands
<1>1. PICK c : c = [ctx EXCEPT !.screen = s]
  OBVIOUS
<1>2. PICK plain : plain = Normalized(Default(c), c)
  OBVIOUS
<1>3. PICK l : l = IF s = ctx.screen THEN plain ELSE layout
  OBVIOUS
<1>4. PICK n : n = Normalized(l, ctx)
  OBVIOUS
<1>5. PICK k : k = LayoutRole(ctx.role)
  OBVIOUS
<1>6. /\ loads < MaxLoads /\ loads' = loads + 1 /\ edits' = edits /\ drag = None /\ ctx' = ctx /\ drag' = drag
      /\ layout' = n
      /\ saved' = [saved EXCEPT ![k] = [[@ EXCEPT ![s] = plain] EXCEPT ![ctx.screen] = n]]
  BY <1>1, <1>2, <1>3, <1>4, <1>5 DEF ResetScreen, Happens
<1>7. /\ ctx \in Contexts /\ saved \in Buckets /\ layout \in Grids /\ Brought(layout, ctx)
      /\ s \in AllScreens
  BY <1>6 DEF LayoutInv, ScreensAssumption
<1>8. c \in Contexts
  BY <1>1, <1>7, OtherContext
<1>9. c = ctx \/ s # ctx.screen
  BY <1>1, <1>7 DEF Contexts
<1>10. Settled(plain, c) /\ plain \in Layouts /\ plain \in Grids
  <2>1. Settled(Default(c), c)
    BY <1>8, DefaultIs
  <2>2. plain = Default(c)
    BY <1>2, <1>8, <2>1, BroughtIs DEF Settled, Layouts
  <2> QED
    BY <2>1, <2>2 DEF Settled, Layouts
<1>11. l \in Grids /\ Brought(l, ctx)
  BY <1>3, <1>7, <1>9, <1>10, SettledIsBrought
<1>12. Settled(n, ctx) /\ n \in Grids /\ n \in Layouts
  BY <1>4, <1>7, <1>11, BroughtSettles DEF Layouts
<1>13. saved' \in Buckets
  <2>1. k \in RoleKinds /\ ctx.screen \in AllScreens
    BY <1>5, <1>7, ContextIs DEF RoleKinds
  <2>2. saved[k] \in [AllScreens -> Layouts \cup {None}]
    BY <1>7, <2>1 DEF Buckets
  <2>3. [[saved[k] EXCEPT ![s] = plain] EXCEPT ![ctx.screen] = n] \in [AllScreens -> Layouts \cup {None}]
    BY <1>7, <1>10, <1>12, <2>1, <2>2
  <2> QED
    BY <1>6, <1>7, <2>1, <2>3 DEF Buckets
<1>14. loads' \in 0 .. MaxLoads
  BY <1>6 DEF LayoutInv, ScreensAssumption
<1> QED
  BY <1>6, <1>12, <1>13, <1>14, SettledIsBrought DEF LayoutInv, Lands, DragSound

LEMMA RotateKeeps ==
    ASSUME LayoutInv, ScreensAssumption, NEW s \in Screens, Rotate(s)
    PROVE  LayoutInv' /\ Lands
<1>1. PICK c : c = [ctx EXCEPT !.screen = s]
  OBVIOUS
<1>2. PICK left : left = IF drag # None /\ drag.kind = "split" THEN Applied(layout, drag.from, ctx) ELSE layout
  OBVIOUS
<1>3. PICK kept : kept = Saving(left, ctx)
  OBVIOUS
<1>4. PICK next : next = Normalized(Activated(kept, c), c)
  OBVIOUS
<1>5. PICK stops : stops = (drag # None /\ (drag.kind = "split" \/ (drag.kind = "size" /\ Phone(c))))
  OBVIOUS
<1>6. PICK shown : shown = IF stops /\ drag.kind = "size" THEN Normalized(drag.from, c) ELSE next
  OBVIOUS
<1>7. /\ loads < MaxLoads /\ loads' = loads + 1 /\ edits' = edits /\ ctx' = c /\ s # ctx.screen
      /\ layout' = shown
      /\ saved' = [kept EXCEPT ![LayoutRole(c.role)][s] = shown]
      /\ drag' = IF stops THEN None ELSE Unsteady(drag)
  BY <1>1, <1>2, <1>3, <1>4, <1>5, <1>6, Zenon DEF Rotate, Happens
<1>8. /\ ctx \in Contexts /\ saved \in Buckets /\ layout \in Grids
      /\ s \in AllScreens /\ drag \in Drags \cup {None}
  BY DEF LayoutInv, ScreensAssumption
<1>9. c \in Contexts /\ c.screen = s
  BY <1>1, <1>8, OtherContext
<1>10. left \in Grids
  BY <1>2, <1>8, AppliedIs DEF Drags
<1>11. kept \in Buckets
  BY <1>3, <1>8, <1>10, SavingIs
<1>12. Settled(next, c) /\ next \in Layouts /\ next \in Grids
  BY <1>4, <1>9, <1>11, ActiveIs
<1>13. Settled(shown, c) /\ shown \in Layouts /\ shown \in Grids
  <2>1. ASSUME stops, drag.kind = "size" PROVE Settled(Normalized(drag.from, c), c)
    <3>1. drag # None /\ drag.from \in Grids
      BY <1>5, <1>8, <2>1 DEF Drags
    <3>2. Roomy(drag.from.items, c)
      BY <2>1, <3>1 DEF LayoutInv, DragSound, Roomy
    <3> QED
      BY <1>9, <3>1, <3>2, BroughtIs DEF Layouts
  <2>2. Settled(shown, c)
    BY <1>6, <1>12, <2>1
  <2> QED
    BY <2>2 DEF Settled, Layouts
<1>14. saved' \in Buckets
  BY <1>7, <1>9, <1>11, <1>13, BucketWith
<1>15. PICK u : u = Unsteady(drag)
  OBVIOUS
<1>16. /\ u \in Drags \cup {None} /\ (u = None <=> drag = None)
       /\ drag # None => /\ u.kind = drag.kind /\ u.from = drag.from /\ u.id = drag.id /\ u.boundary = drag.boundary
                         /\ ~u.steady
  BY <1>8, <1>15, UnsteadyIs
<1>17. drag' \in Drags \cup {None}
  BY <1>7, <1>15, <1>16
<1>18. DragSound'
  <2>1. CASE stops
    BY <1>7, <2>1 DEF DragSound
  <2>2. CASE ~stops
    <3>1. drag' = u
      BY <1>7, <1>15, <2>2
    <3> SUFFICES ASSUME drag # None PROVE DragSound'
      BY <1>16, <3>1 DEF DragSound
    <3>2. drag.kind = "size" => ~Phone(c)
      BY <1>5, <2>2
    <3> QED
      BY <1>7, <1>16, <3>1, <3>2 DEF LayoutInv, DragSound
  <2> QED
    BY <1>5, <2>1, <2>2
<1>19. loads' \in 0 .. MaxLoads
  BY <1>7 DEF LayoutInv, ScreensAssumption
<1> QED
  BY <1>7, <1>9, <1>13, <1>14, <1>17, <1>18, <1>19, SettledIsBrought DEF LayoutInv, Lands

LEMMA RelabelKeeps ==
    ASSUME LayoutInv, ScreensAssumption, NEW r \in Roles, Relabel(r)
    PROVE  LayoutInv' /\ Lands
<1>1. PICK c : c = [ctx EXCEPT !.role = r]
  OBVIOUS
<1>2. PICK kept : kept = Saving(layout, ctx)
  OBVIOUS
<1>3. PICK next : next = Normalized(Activated(kept, c), c)
  OBVIOUS
<1>4. PICK stops : stops = (drag # None /\ drag.kind = "split")
  OBVIOUS
<1>5. /\ loads < MaxLoads /\ loads' = loads + 1 /\ edits' = edits /\ ctx' = c /\ r # ctx.role
      /\ layout' = IF stops THEN Normalized(Applied(next, drag.from, c), c) ELSE next
      /\ saved' = [kept EXCEPT ![LayoutRole(r)][c.screen] = next]
      /\ drag' = IF stops THEN None ELSE Unsteady(drag)
  BY <1>1, <1>2, <1>3, <1>4, Zenon DEF Relabel, Happens
<1>6. /\ ctx \in Contexts /\ saved \in Buckets /\ layout \in Grids /\ drag \in Drags \cup {None}
  BY DEF LayoutInv
<1>7. c \in Contexts /\ c.role = r /\ c.screen = ctx.screen
  BY <1>1, <1>6, OtherContext
<1>8. kept \in Buckets
  BY <1>2, <1>6, SavingIs
<1>9. Settled(next, c) /\ next \in Layouts /\ next \in Grids
  BY <1>3, <1>7, <1>8, ActiveIs
<1>10. saved' \in Buckets
  BY <1>5, <1>7, <1>8, <1>9, BucketWith
<1>11. PICK u : u = Unsteady(drag)
  OBVIOUS
<1>12. /\ u \in Drags \cup {None} /\ (u = None <=> drag = None)
       /\ drag # None => /\ u.kind = drag.kind /\ u.from = drag.from /\ u.id = drag.id /\ u.boundary = drag.boundary
                         /\ ~u.steady
  BY <1>6, <1>11, UnsteadyIs
<1>13. layout' \in Grids /\ (drag' = None => Brought(layout', c)) /\ (drag = None => Settled(layout', c))
  <2>1. CASE stops
    <3>1. drag.from \in Grids
      BY <1>4, <1>6, <2>1 DEF Drags
    <3>2. PICK a : a = Applied(next, drag.from, c)
      OBVIOUS
    <3>3. a \in Grids
      BY <1>7, <1>9, <3>1, <3>2, AppliedIs
    <3>4. Brought(Normalized(a, c), c)
      BY <1>7, <3>3, BroughtIs DEF Layouts
    <3> QED
      BY <1>4, <1>5, <2>1, <3>2, <3>4 DEF Brought
  <2>2. CASE ~stops
    BY <1>5, <1>9, <2>2, SettledIsBrought
  <2> QED
    BY <1>4, <2>1, <2>2
<1>14. drag' \in Drags \cup {None}
  BY <1>5, <1>11, <1>12
<1>15. DragSound'
  <2>1. CASE stops
    BY <1>5, <2>1 DEF DragSound
  <2>2. CASE ~stops
    <3>1. drag' = u
      BY <1>5, <1>11, <2>2
    <3> SUFFICES ASSUME drag # None PROVE DragSound'
      BY <1>12, <3>1 DEF DragSound
    <3> QED
      BY <1>5, <1>7, <1>12, <3>1 DEF LayoutInv, DragSound, Phone
  <2> QED
    BY <1>4, <2>1, <2>2
<1>16. loads' \in 0 .. MaxLoads
  BY <1>5 DEF LayoutInv, ScreensAssumption
<1>17. drag' = None /\ (drag = None \/ drag.kind = "size" \/ (drag.steady /\ ctx'.role = ctx.role)) => drag = None
  BY <1>4, <1>5, <1>7, <1>11, <1>12
<1> QED
  BY <1>5, <1>7, <1>10, <1>13, <1>14, <1>15, <1>16, <1>17 DEF LayoutInv, Lands

LEMMA LayoutStart == ScreensAssumption /\ Init => LayoutInv /\ Settled(layout, ctx)
<1> SUFFICES ASSUME ScreensAssumption, Init PROVE LayoutInv /\ Settled(layout, ctx)
  OBVIOUS
<1>1. ScreensAssumption
  OBVIOUS
<1> DEFINE Empty(r, s, old) == [p \in {LayoutRole(x) : x \in AllRoles} |-> [t \in AllScreens |->
                                   IF p = LayoutRole(r) THEN Migrated(old, r, t) ELSE None]]
<1>2. PICK r \in Roles, s \in Screens, old \in Older \cup {[t \in AllScreens |-> None]} :
          LET c == [role |-> r, screen |-> s, low |-> 2]
              n == Normalized(Activated(Empty(r, s, old), c), c)
          IN  /\ ctx = c /\ layout = n
              /\ saved = [Empty(r, s, old) EXCEPT ![LayoutRole(r)][s] = n]
              /\ drag = None /\ edits = 0 /\ loads = 0
  BY Zenon DEF Init
<1>3. PICK bucket : bucket = Empty(r, s, old)
  OBVIOUS
<1>4. bucket \in Buckets
  <2>1. \A t \in AllScreens : old[t] \in Layouts \cup {None}
    BY <1>1 DEF ScreensAssumption, Layouts
  <2>2. \A t \in AllScreens : Migrated(old, r, t) \in Layouts \cup {None}
    BY <2>1 DEF Migrated
  <2> QED
    BY <1>3, <2>2 DEF Buckets, RoleKinds
<1>5. ctx \in Contexts /\ ctx.role = r /\ ctx.screen = s
  BY <1>1, <1>2 DEF Contexts, ScreensAssumption
<1>6. layout = Normalized(Activated(bucket, ctx), ctx)
  BY <1>2, <1>3
<1>7. Settled(layout, ctx) /\ layout \in Grids /\ layout \in Layouts
  BY <1>4, <1>5, <1>6, ActiveIs
<1>8. saved = [bucket EXCEPT ![LayoutRole(ctx.role)][ctx.screen] = layout]
  BY <1>2, <1>3, <1>5
<1>9. saved \in Buckets
  BY <1>4, <1>5, <1>7, <1>8, BucketWith
<1>10. drag = None /\ edits \in 0 .. MaxEdits /\ loads \in 0 .. MaxLoads
  BY <1>1, <1>2 DEF ScreensAssumption
<1> QED
  BY <1>5, <1>7, <1>9, <1>10, SettledIsBrought DEF LayoutInv, DragSound

LEMMA LayoutKept == ScreensAssumption /\ LayoutInv /\ [Next]_vars => LayoutInv' /\ (UNCHANGED vars \/ Lands)
<1> SUFFICES ASSUME ScreensAssumption, LayoutInv, [Next]_vars
             PROVE  LayoutInv' /\ (UNCHANGED vars \/ Lands)
  OBVIOUS
<1>1. ScreensAssumption
  OBVIOUS
<1>2. CASE UNCHANGED vars
  <2>1. ctx' = ctx /\ layout' = layout /\ saved' = saved /\ drag' = drag /\ edits' = edits /\ loads' = loads
    BY <1>2 DEF vars
  <2> QED
    BY <1>2, <2>1 DEF LayoutInv, DragSound
<1>3. CASE Edit
  <2>1. \A d \in {-1, 1, 0} : d \in Int
    OBVIOUS
  <2>2. \A d \in Shifts : d \in Int
    BY <1>1 DEF ScreensAssumption
  <2>3. ASSUME NEW id \in Modules, Toggle(id) \/ Reset(id) PROVE LayoutInv' /\ Lands
    BY <1>1, <2>3, ToggleKeeps, ResetKeeps
  <2>4. ASSUME NEW id \in Modules, NEW d \in {-1, 1},
               \/ MoveBy(id, d, 0) \/ MoveBy(id, 0, d)
               \/ ResizeBy(id, d, 0) \/ ResizeBy(id, 0, d)
        PROVE  LayoutInv' /\ Lands
    BY <1>1, <2>4, MoveByKeeps, ResizeByKeeps
  <2>5. ASSUME NEW d \in {-1, 1}, KeySplitter(d) PROVE LayoutInv' /\ Lands
    BY <1>1, <2>5, KeySplitterKeeps
  <2>6. ASSUME NEW id \in Modules, Grab(id) \/ \E edge \in EdgesOf : GrabEdge(id, edge)
        PROVE  LayoutInv' /\ Lands
    BY <1>1, <2>6, GrabKeeps, GrabEdgeKeeps
  <2>7. ASSUME NEW at \in Drops, Hold(at) PROVE LayoutInv' /\ Lands
    BY <1>1, <2>7, HoldKeeps
  <2>8. ASSUME NEW panel \in Modules, NEW edge \in Sides, HoldAtEdge(panel, edge)
        PROVE  LayoutInv' /\ Lands
    BY <1>1, <2>8, HoldAtEdgeKeeps
  <2>9. ASSUME NEW dx \in Shifts, NEW dy \in Shifts, PullEdge(dx, dy) PROVE LayoutInv' /\ Lands
    BY <1>1, <2>2, <2>9, PullEdgeKeeps
  <2>10. ASSUME NEW d \in Shifts, PullSplitter(d) PROVE LayoutInv' /\ Lands
    BY <1>1, <2>2, <2>10, PullSplitterKeeps
  <2> QED
    BY <1>1, <1>3, <2>3, <2>4, <2>5, <2>6, <2>7, <2>8, <2>9, <2>10, GrabSplitterKeeps, ReleaseKeeps, CancelKeeps,
       Zenon
       DEF Edit
<1>4. CASE Next /\ ~Edit
  BY <1>1, <1>4, RotateKeeps, ResetScreenKeeps, LowWindowKeeps, RelabelKeeps, ReloadKeeps, Zenon DEF Next
<1> QED
  BY <1>2, <1>3, <1>4

LEMMA LayoutTyped == LayoutInv => TypeOK
<1> SUFFICES ASSUME LayoutInv PROVE TypeOK
  OBVIOUS
<1>1. ASSUME drag = None, NEW id \in Modules
      PROVE  \/ Rests(layout, id, ctx)
             \/ /\ id = "controls" /\ ctx.screen = "phonePortrait"
                /\ layout.items[id].h = 6 /\ Rests([layout EXCEPT !.items[id].h = 4], id, ctx)
  <2>1. AtRest(layout.items, id, ctx)
    BY <1>1 DEF LayoutInv, Brought
  <2>2. [layout EXCEPT !.items[id].h = 4].items[id] = [layout.items[id] EXCEPT !.h = 4]
    BY DEF LayoutInv, Grids, Arranged
  <2> QED
    BY <2>1, <2>2, RestsIs DEF AtRest
<1> QED
  BY <1>1 DEF LayoutInv, TypeOK

LEMMA PanelsLand ==
    ScreensAssumption /\ LayoutInv /\ [Next]_vars => [ComesToRest]_vars
BY LayoutKept, RestsIs DEF ComesToRest, Lands, Settled, vars

-----------------------------------------------------------------------------
(* No panel is put over another, or moved by the way. *)

\* But for Station Controls, on a tablet held upright, what rests stays as it is.
Kept(r, id, c) ==
    /\ RestsAt(r, id, c)
    /\ id = "controls" /\ c.screen = "tabletPortrait" /\ HasControls(c) => r.y = 0 /\ r.h = 5

LEMMA NormalizedKeeps ==
    ASSUME NEW c \in Contexts, c.screen # "phonePortrait", NEW l \in Grids, NEW i \in Modules
    PROVE  /\ Kept(l.items[i], i, c) => Normalized(l, c).items[i] = l.items[i]
           /\ RestsAt(l.items[i], i, c) /\ l.items["controls"].h = 5 =>
                  /\ Normalized(l, c).items[i].w = l.items[i].w
                  /\ Normalized(l, c).items[i].h = l.items[i].h
           /\ RestsAt(l.items[i], i, c) /\ ~HasControls(c) => Normalized(l, c).items[i] = l.items[i]
<1> DEFINE f == [id \in Modules |-> Fit(id, l.items[id], c)]
<1>1. PICK n : n = WithControls(f, c)
  OBVIOUS
<1>2. Normalized(l, c).items = n
  <2>1. l \in Layouts
    BY DEF Layouts
  <2>2. Upgraded(l, c) = l.items
    BY <2>1, UpgradedIs
  <2> QED
    BY <1>1, <2>2, Zenon DEF Normalized
<1>3. l.items[i] \in Rects /\ f[i] \in Rects /\ (RestsAt(l.items[i], i, c) => f[i] = l.items[i])
  BY FitIs DEF Grids, Arranged
<1>8. f \in [Modules -> Rects]
  BY FitIs DEF Grids, Arranged
<1> HIDE DEF f
<1>4. CASE HasControls(c) /\ c.screen = "tabletPortrait"
  <2>1. n = [id \in Modules |-> IF id = "controls" THEN [f[id] EXCEPT !.h = 5, !.y = 0] ELSE f[id]]
    BY <1>1, <1>4, <1>8, PanelsAre DEF WithControls
  <2>2. CASE i # "controls"
    <3>1. n[i] = f[i]
      BY <2>1, <2>2, Zenon
    <3> QED
      BY <1>2, <1>3, <1>4, <3>1 DEF Kept
  <2>3. CASE i = "controls"
    <3>1. PICK q \in Rects : q = f[i]
      BY <1>3
    <3>2. n[i] = [q EXCEPT !.h = 5, !.y = 0]
      BY <2>1, <2>3, <3>1, Zenon
    <3>3. q.h = 5 /\ q.y = 0 => n[i] = q
      BY <3>2, Zenon DEF Rects
    <3>4. n[i].w = q.w /\ n[i].h = 5
      BY <3>2 DEF Rects
    <3> QED
      BY <1>2, <1>3, <1>4, <2>3, <3>1, <3>3, <3>4 DEF Kept
  <2> QED
    BY <2>2, <2>3
<1>5. CASE ~(HasControls(c) /\ c.screen = "tabletPortrait")
  <2>1. n = f
    BY <1>1, <1>5, <1>8, PanelsAre DEF WithControls
  <2> QED
    BY <1>2, <1>3, <2>1 DEF Kept
<1> QED
  BY <1>4, <1>5

LEMMA SettledKept ==
    ASSUME NEW c, NEW l, Settled(l, c), NEW i \in Modules
    PROVE  Kept(l.items[i], i, c)
  BY DEF Settled, Fixed, Kept

\* A boundary that is moved takes from one side what it gives to the other.
LEMMA SplitClear ==
    ASSUME NEW c \in Contexts, NEW l, Settled(l, c), NEW b, NEW to \in Int,
           NEW n \in Split(l, b, to, c)
    PROVE  /\ n \in Grids /\ n.collapsed = l.collapsed /\ Fits(n, c)
           /\ \A i \in Modules : RestsAt(n.items[i], i, c)
           /\ \A i \in Modules : i \notin Visible(l, c) => n.items[i] = l.items[i]
           /\ Covered(n, Visible(l, c)) = Covered(l, Visible(l, c))
<1> DEFINE ids == Visible(l, c)
<1>1. l \in Grids /\ \A i \in Modules : l.items[i] \in Rects /\ RestsAt(l.items[i], i, c)
  BY DEF Settled, Grids, Arranged
<1>2. PICK x \in Boundaries(l, ids) : \E line \in Int :
          /\ n \in Grids /\ n.collapsed = l.collapsed /\ Fits(n, c)
          /\ SplitAt(l, n, x, line)
          /\ \A i \in x.before : line >= l.items[i][x.axis] + Smallest(i, c)[Size(x.axis)]
          /\ \A i \in x.after : line <= End(l.items[i], x.axis) - Smallest(i, c)[Size(x.axis)]
  BY <1>1, SplitIs
<1>3. PICK line \in Int :
          /\ n \in Grids /\ n.collapsed = l.collapsed /\ Fits(n, c)
          /\ SplitAt(l, n, x, line)
          /\ \A i \in x.before : line >= l.items[i][x.axis] + Smallest(i, c)[Size(x.axis)]
          /\ \A i \in x.after : line <= End(l.items[i], x.axis) - Smallest(i, c)[Size(x.axis)]
  BY <1>2
<1>4. ids \in SUBSET Modules
  BY DEF Visible
<1>5. /\ x \in [axis : Axes, at : Int, before : SUBSET Modules, after : SUBSET Modules]
      /\ x.before \subseteq ids /\ x.after \subseteq ids /\ x.before # {} /\ x.after # {}
      /\ \A i \in x.before : End(l.items[i], x.axis) = x.at
      /\ \A i \in x.after : l.items[i][x.axis] = x.at
  BY <1>1, <1>4, BoundaryIs
<1> DEFINE axis == x.axis
           size == Size(axis)
           cross == Cross(axis)
           across == Size(cross)
<1>6. /\ axis \in Axes /\ cross \in Axes /\ cross # axis /\ Axes = {axis, cross}
      /\ Fields = {axis, cross, size, across} /\ axis # size /\ axis # across /\ cross # size /\ cross # across
         /\ size # across
  BY <1>5 DEF Axes, Fields, Size, Cross
<1>7. \A i \in Modules : /\ \A f \in Fields : l.items[i][f] \in Int
                         /\ End(l.items[i], axis) = l.items[i][axis] + l.items[i][size]
                         /\ End(l.items[i], cross) = l.items[i][cross] + l.items[i][across]
                         /\ End(n.items[i], axis) = n.items[i][axis] + n.items[i][size]
                         /\ End(n.items[i], cross) = n.items[i][cross] + n.items[i][across]
  BY <1>1, FieldsAre DEF End
<1>8. \A i \in Modules : /\ Inside(l.items[i], c) /\ l.items[i]["w"] >= 2 /\ l.items[i]["h"] >= MinRows(i, c)
  BY <1>1, InsideIs
<1>9. \A i \in Modules : n.items[i] \in Rects
  BY <1>3 DEF Grids, Arranged
<1>10. \A i \in Modules : /\ Smallest(i, c)[size] \in Int /\ Smallest(i, c)[size] >= 2
                          /\ Smallest(i, c)["w"] = 2 /\ Smallest(i, c)["h"] >= MinRows(i, c)
                          /\ Smallest(i, c)["h"] \in Int /\ MinRows(i, c) \in Int
  <2>1. \A i \in Modules : MinRows(i, c) \in Int
    BY ContextIs
  <2>2. \A i \in Modules : Smallest(i, c)[Size(axis)] \in 2..6
    BY <1>6, SmallestIs
  <2> QED
    BY <2>1, <2>2, SmallestIs
<1>11. Bound(axis, c) \in Int
  BY ContextIs DEF Bound
<1> HIDE DEF axis, size, cross, across
<1>12. line >= 0 /\ line <= Bound(axis, c)
  <2>1. PICK i \in Modules : i \in x.before
    BY <1>4, <1>5
  <2>2. PICK j \in Modules : j \in x.after
    BY <1>4, <1>5
  <2>3. l.items[i][axis] >= 0 /\ End(l.items[j], axis) <= Bound(axis, c)
    BY <1>6, <1>8 DEF Inside
  <2>4. line >= l.items[i][axis] + Smallest(i, c)[size] /\ line <= End(l.items[j], axis) - Smallest(j, c)[size]
    BY <1>3, <2>1, <2>2 DEF axis, size
  <2>5. l.items[i][axis] \in Int /\ End(l.items[j], axis) \in Int
    BY <1>6, <1>7
  <2> QED
    BY <1>10, <1>11, <2>3, <2>4, <2>5
<1>13. ASSUME NEW i \in Modules, i \in x.before
       PROVE  /\ n.items[i][size] = line - l.items[i][axis] /\ n.items[i][size] >= Smallest(i, c)[size]
              /\ n.items[i][axis] = l.items[i][axis] /\ n.items[i][cross] = l.items[i][cross]
              /\ n.items[i][across] = l.items[i][across]
              /\ n.items[i][size] = l.items[i][size] + (line - x.at)
  <2>1. n.items[i][size] = l.items[i][size] + line - x.at /\ \A f \in Fields : f # size => n.items[i][f] = l.items[i][f]
    BY <1>3, <1>13, Zenon DEF SplitAt, size, axis
  <2>2. x.at = l.items[i][axis] + l.items[i][size] /\ x.at \in Int
    BY <1>5, <1>7, <1>13 DEF axis
  <2>3. line >= l.items[i][axis] + Smallest(i, c)[size]
    BY <1>3, <1>13 DEF axis, size
  <2>4. l.items[i][axis] \in Int /\ l.items[i][size] \in Int
    BY <1>6, <1>7
  <2> QED
    BY <1>6, <1>10, <2>1, <2>2, <2>3, <2>4
<1>14. ASSUME NEW i \in Modules, i \in x.after
       PROVE  /\ i \notin x.before
              /\ n.items[i][axis] = line /\ n.items[i][size] = End(l.items[i], axis) - line
              /\ n.items[i][size] >= Smallest(i, c)[size]
              /\ n.items[i][cross] = l.items[i][cross] /\ n.items[i][across] = l.items[i][across]
              /\ n.items[i][size] = l.items[i][size] - (line - x.at)
  <2>1. l.items[i][axis] \in Int /\ l.items[i][size] \in Int /\ l.items[i][size] >= 2
    <3>1. l.items[i]["h"] >= 2 /\ l.items[i]["w"] >= 2
      <4>1. MinRows(i, c) \in 2..5 /\ l.items[i]["h"] \in Int
        BY <1>7, ContextIs DEF Fields
      <4> QED
        BY <1>8, <4>1
    <3>2. size \in {"w", "h"}
      BY <1>6 DEF size, Axes, Size
    <3> QED
      BY <1>6, <1>7, <3>1, <3>2
  <2>2. x.at = l.items[i][axis] /\ End(l.items[i], axis) = l.items[i][axis] + l.items[i][size]
    BY <1>5, <1>7, <1>14 DEF axis
  <2>3. i \notin x.before
    <3>1. i \in x.before => End(l.items[i], axis) = x.at
      BY <1>5 DEF axis
    <3> QED
      BY <2>1, <2>2, <3>1
  <2>4. n.items[i][axis] = line /\ n.items[i][size] = l.items[i][size] - (line - x.at)
        /\ \A f \in Fields : f \notin {size, axis} => n.items[i][f] = l.items[i][f]
    BY <1>3, <1>14, <2>3, Zenon DEF SplitAt, size, axis
  <2>5. line <= End(l.items[i], axis) - Smallest(i, c)[size]
    BY <1>3, <1>14 DEF axis, size
  <2> QED
    BY <1>6, <1>10, <2>1, <2>2, <2>3, <2>4, <2>5
<1>15. ASSUME NEW i \in Modules, i \notin x.before, i \notin x.after
       PROVE  n.items[i] = l.items[i]
  BY <1>3, <1>15 DEF SplitAt
<1>16. ASSUME NEW i \in Modules PROVE RestsAt(n.items[i], i, c)
  <2>1. /\ l.items[i][axis] >= 0 /\ l.items[i][cross] >= 0
        /\ l.items[i][axis] + l.items[i][size] <= Bound(axis, c)
           /\ l.items[i][cross] + l.items[i][across] <= Bound(cross, c)
    BY <1>6, <1>7, <1>8 DEF Inside
  <2>2. ASSUME i \in x.before \/ i \in x.after PROVE RestsAt(n.items[i], i, c)
    <3>1. End(n.items[i], axis) <= Bound(axis, c) /\ End(n.items[i], cross) <= Bound(cross, c)
          /\ n.items[i][axis] >= 0 /\ n.items[i][cross] >= 0
      <4>1. l.items[i][axis] \in Int /\ l.items[i][size] \in Int
        BY <1>6, <1>7
      <4>2. CASE i \in x.before
        BY <1>7, <1>11, <1>12, <1>13, <2>1, <4>1, <4>2
      <4>3. CASE i \in x.after
        BY <1>7, <1>11, <1>12, <1>14, <2>1, <4>1, <4>3
      <4> QED
        BY <2>2, <4>2, <4>3
    <3>2. Inside(n.items[i], c)
      BY <1>6, <3>1 DEF Inside
    <3>3. n.items[i][size] >= Smallest(i, c)[size] /\ n.items[i][across] = l.items[i][across]
      BY <1>13, <1>14, <2>2
    <3>4. n.items[i]["w"] >= 2 /\ n.items[i]["h"] >= MinRows(i, c)
      <4>1. n.items[i]["h"] \in Int /\ n.items[i]["w"] \in Int
        BY <1>9 DEF Rects
      <4>2. CASE size = "w" /\ across = "h"
        BY <1>8, <1>10, <3>3, <4>1, <4>2
      <4>3. CASE size = "h" /\ across = "w"
        BY <1>8, <1>10, <3>3, <4>1, <4>3
      <4>4. (size = "w" /\ across = "h") \/ (size = "h" /\ across = "w")
        BY <1>6 DEF size, across, Axes, Size, cross, Cross
      <4> QED
        BY <4>2, <4>3, <4>4
    <3> QED
      BY <1>9, <3>2, <3>4, InsideIs
  <2> QED
    BY <1>1, <1>15, <2>2
<1>17. Covered(n, ids) = Covered(l, ids)
  <2> DEFINE by == line - x.at
             cr(i) == l.items[i][across]
             B(i) == IF i \in x.before THEN cr(i) ELSE 0
             F(i) == IF i \in x.after THEN cr(i) ELSE 0
             A(i) == IF i \in ids THEN Area(l.items[i]) ELSE 0
             N(i) == IF i \in ids THEN Area(n.items[i]) ELSE 0
  <2>1. by \in Int /\ \A i \in Modules : cr(i) \in Int /\ B(i) \in Int /\ F(i) \in Int
    BY <1>5, <1>6, <1>7
  <2>2. \A i \in Modules : Area(l.items[i]) = l.items[i][size] * cr(i)
        /\ Area(n.items[i]) = n.items[i][size] * n.items[i][across]
    <3>1. (size = "w" /\ across = "h") \/ (size = "h" /\ across = "w")
      BY <1>6 DEF size, across, Axes, Size, cross, Cross
    <3>2. \A v, u \in Int : v * u = u * v
      OBVIOUS
    <3>3. \A i \in Modules : l.items[i]["w"] \in Int /\ l.items[i]["h"] \in Int /\ n.items[i]["w"] \in Int
          /\ n.items[i]["h"] \in Int
      BY <1>7, <1>9 DEF Fields, Rects
    <3> QED
      BY <3>1, <3>2, <3>3 DEF Area
  <2>3. \A i \in Modules : N(i) \in Int /\ A(i) \in Int /\ N(i) = A(i) + by * B(i) - by * F(i)
    <3> SUFFICES ASSUME NEW i \in Modules PROVE N(i) \in Int /\ A(i) \in Int /\ N(i) = A(i) + by * B(i) - by * F(i)
      OBVIOUS
    <3>1. PICK s \in Int : s = l.items[i][size]
      BY <1>6, <1>7
    <3>2. PICK k \in Int : k = cr(i)
      BY <2>1
    <3>3. PICK y \in Int : y = by
      BY <2>1
    <3>4. \A p, q, r \in Int : (p + q) * r = p * r + q * r /\ (p - q) * r = p * r - q * r
      OBVIOUS
    <3>5. y * 0 = 0 /\ s * k \in Int /\ y * k \in Int
      OBVIOUS
    <3>6. CASE i \in x.before
      <4>1. i \in ids /\ i \notin x.after
        BY <1>5, <1>14, <3>6
      <4>2. Area(n.items[i]) = (s + y) * k /\ Area(l.items[i]) = s * k
        BY <1>13, <2>2, <3>1, <3>2, <3>3, <3>6
      <4>3. (s + y) * k = s * k + y * k
        BY <3>4
      <4> QED
        BY <3>2, <3>3, <3>5, <3>6, <4>1, <4>2, <4>3
    <3>7. CASE i \in x.after
      <4>1. i \in ids /\ i \notin x.before
        BY <1>5, <1>14, <3>7
      <4>2. Area(n.items[i]) = (s - y) * k /\ Area(l.items[i]) = s * k
        BY <1>14, <2>2, <3>1, <3>2, <3>3, <3>7
      <4>3. (s - y) * k = s * k - y * k
        BY <3>4
      <4> QED
        BY <3>2, <3>3, <3>5, <3>7, <4>1, <4>2, <4>3
    <3>8. CASE i \notin x.before /\ i \notin x.after
      <4>1. n.items[i] = l.items[i] /\ Area(l.items[i]) = s * k
        BY <1>15, <2>2, <3>1, <3>2, <3>8
      <4> QED
        BY <3>2, <3>3, <3>5, <3>8, <4>1
    <3> QED
      BY <3>6, <3>7, <3>8
  <2>4. /\ Covered(l, ids) = A("controls") + A("chat") + A("checkedOut") + A("active") + A("lurkers")
        /\ Covered(n, ids) = N("controls") + N("chat") + N("checkedOut") + N("active") + N("lurkers")
    BY FiveAre
  <2>5. B("controls") + B("chat") + B("checkedOut") + B("active") + B("lurkers")
        = F("controls") + F("chat") + F("checkedOut") + F("active") + F("lurkers")
    <3>1. Together(l, across, x.before) = Together(l, across, x.after)
      BY <1>1, <1>2, <1>4, BoundaryTiles DEF across, cross, axis
    <3>2. /\ Together(l, across, x.before) = B("controls") + B("chat") + B("checkedOut") + B("active") + B("lurkers")
          /\ Together(l, across, x.after) = F("controls") + F("chat") + F("checkedOut") + F("active") + F("lurkers")
      BY FiveAre
    <3> HIDE DEF B, F
    <3> QED
      BY <3>1, <3>2
  <2> HIDE DEF by, B, F, A, N
  <2>6. \A y, b1, b2, b3, b4, b5, f1, f2, f3, f4, f5, a1, a2, a3, a4, a5 \in Int :
            b1 + b2 + b3 + b4 + b5 = f1 + f2 + f3 + f4 + f5 =>
            (a1 + y * b1 - y * f1) + (a2 + y * b2 - y * f2) + (a3 + y * b3 - y * f3)
            + (a4 + y * b4 - y * f4) + (a5 + y * b5 - y * f5) = a1 + a2 + a3 + a4 + a5
    BY SMTT(60)
  <2>7. PICK y \in Int : y = by
    BY <2>1
  <2>8. PICK b1 \in Int, b2 \in Int, b3 \in Int, b4 \in Int, b5 \in Int :
            b1 = B("controls") /\ b2 = B("chat") /\ b3 = B("checkedOut") /\ b4 = B("active") /\ b5 = B("lurkers")
    BY <2>1, PanelsAre
  <2>9. PICK f1 \in Int, f2 \in Int, f3 \in Int, f4 \in Int, f5 \in Int :
            f1 = F("controls") /\ f2 = F("chat") /\ f3 = F("checkedOut") /\ f4 = F("active") /\ f5 = F("lurkers")
    BY <2>1, PanelsAre
  <2>10. PICK a1 \in Int, a2 \in Int, a3 \in Int, a4 \in Int, a5 \in Int :
            a1 = A("controls") /\ a2 = A("chat") /\ a3 = A("checkedOut") /\ a4 = A("active") /\ a5 = A("lurkers")
    BY <2>3, PanelsAre
  <2>11. Covered(n, ids) = (a1 + y * b1 - y * f1) + (a2 + y * b2 - y * f2) + (a3 + y * b3 - y * f3)
                    + (a4 + y * b4 - y * f4) + (a5 + y * b5 - y * f5)
    BY <2>3, <2>4, <2>7, <2>8, <2>9, <2>10, PanelsAre
  <2>12. b1 + b2 + b3 + b4 + b5 = f1 + f2 + f3 + f4 + f5
    BY <2>5, <2>8, <2>9
  <2>13. Covered(l, ids) = a1 + a2 + a3 + a4 + a5
    BY <2>4, <2>10
  <2> QED
    BY <2>6, <2>11, <2>12, <2>13
<1>18. \A i \in Modules : i \notin ids => n.items[i] = l.items[i]
  BY <1>5, <1>15
<1> QED
  BY <1>3, <1>16, <1>17, <1>18 DEF ids

\* The same panels are seen.
LEMMA SeenIs ==
    ASSUME NEW l, NEW n, NEW c, n.collapsed = l.collapsed
    PROVE  Visible(n, c) = Visible(l, c)
  BY DEF Visible

\* What panels cover is a number, and depends on their sizes only.
LEMMA CoveredIs ==
    ASSUME NEW l \in Grids, NEW n \in Grids, NEW ids \in SUBSET Modules
    PROVE  /\ Covered(l, ids) \in Int
           /\ (\A i \in Modules : n.items[i]["w"] = l.items[i]["w"] /\ n.items[i]["h"] = l.items[i]["h"])
                  => Covered(n, ids) = Covered(l, ids)
<1> DEFINE A(i) == IF i \in ids THEN Area(l.items[i]) ELSE 0
           N(i) == IF i \in ids THEN Area(n.items[i]) ELSE 0
<1>1. /\ Covered(l, ids) = A("controls") + A("chat") + A("checkedOut") + A("active") + A("lurkers")
      /\ Covered(n, ids) = N("controls") + N("chat") + N("checkedOut") + N("active") + N("lurkers")
  BY FiveAre
<1>2. \A i \in Modules : A(i) \in Int
  BY DEF Area, Grids, Arranged, Rects
<1>3. A("controls") \in Int /\ A("chat") \in Int /\ A("checkedOut") \in Int /\ A("active") \in Int /\ A("lurkers") \in Int
  BY <1>2, PanelsAre
<1>4. ASSUME \A i \in Modules : n.items[i]["w"] = l.items[i]["w"] /\ n.items[i]["h"] = l.items[i]["h"]
      PROVE  \A i \in Modules : N(i) = A(i)
  BY <1>4 DEF Area
<1>5. ASSUME \A i \in Modules : N(i) = A(i)
      PROVE  Covered(n, ids) = Covered(l, ids)
  <2> HIDE DEF A, N
  <2> QED
    BY <1>1, <1>5, PanelsAre
<1> HIDE DEF A, N
<1> QED
  BY <1>1, <1>3, <1>4, <1>5

\* What is brought to a grid that is not a phone's held upright rests there.
LEMMA WideSettles ==
    ASSUME NEW c \in Contexts, c.screen # "phonePortrait", NEW l, Brought(l, c)
    PROVE  Settled(l, c) /\ l \in Grids /\ Normalized(l, c) = l
<1>1. Settled(l, c)
  BY DEF Brought, Settled, AtRest
<1>2. l \in Grids /\ l \in Layouts
  BY DEF Brought, Layouts
<1> QED
  BY <1>1, <1>2, BroughtIs

\* Where the panel that is moved is shown: in the grid, over no other, and most often alone or
\* in exchange with one.
Ready(p, l, c) ==
    LET n == Normalized(p, c)
        ids == Visible(l, c)
    IN  /\ p \in Grids /\ p.collapsed = l.collapsed /\ Fits(p, c)
        /\ \A i \in Modules : RestsAt(p.items[i], i, c)
        /\ \A i \in Modules : i \notin ids => n.items[i] = l.items[i]
        /\ Covered(n, ids) <= Covered(l, ids)
        /\ \/ \E i, j \in Modules : \A o \in Modules : o \notin {i, j} => n.items[o] = l.items[o]
           \/ \E i \in Modules : n.items[i]["w"] # l.items[i]["w"] \/ n.items[i]["h"] # l.items[i]["h"]

LEMMA DockedReady ==
    ASSUME NEW c \in Contexts, c.screen # "phonePortrait", NEW l, Settled(l, c),
           NEW id \in Modules, NEW panel \in Modules,
           NEW edge, NEW p \in Docked(l, id, panel, edge, c), Locked(p, c)
    PROVE  Ready(p, l, c)
<1>1. l \in Grids /\ \A i \in Modules : RestsAt(l.items[i], i, c)
  BY DEF Settled
<1>2. l.items[id]["w"] > 0 /\ l.items[id]["h"] > 0
  <2>1. l.items[id]["w"] >= 2 /\ l.items[id]["h"] >= 2
    BY SettledIsBrought, BroughtHasSize
  <2>2. l.items[id]["w"] \in Int /\ l.items[id]["h"] \in Int
    BY <1>1 DEF Grids, Arranged, Rects
  <2> QED
    BY <2>1, <2>2
<1>3. l.items[id]["w"] >= 0 /\ l.items[id]["h"] >= 0
  BY <1>1, <1>2 DEF Grids, Arranged, Rects
<1>4. /\ p \in Grids /\ p.collapsed = l.collapsed /\ Fits(p, c)
      /\ \A i \in Modules : i \notin Visible(l, c) => p.items[i] = l.items[i]
      /\ \A i \in Visible(l, c) : RestsAt(p.items[i], i, c)
      /\ Covered(p, Visible(l, c)) <= Covered(l, Visible(l, c))
      /\ \/ \A i \in Modules : i \notin {id, panel} => p.items[i] = l.items[i]
         \/ \E i \in Modules : p.items[i]["w"] # l.items[i]["w"] \/ p.items[i]["h"] # l.items[i]["h"]
  <2>1. Visible(l, c) \subseteq Modules
    BY DEF Visible
  <2>2. \A i \in Visible(l, c) : RestsAt(l.items[i], i, c)
    BY <1>1, <2>1
  <2> QED
    BY <1>1, <1>2, <1>3, <2>2, DockedIs
<1>5. \A i \in Modules : RestsAt(p.items[i], i, c)
  BY <1>1, <1>4
<1>6. Settled(p, c)
  BY <1>4, <1>5 DEF Settled, Fixed, Locked
<1>7. Normalized(p, c) = p
  BY <1>6, WideSettles, SettledIsBrought
<1> QED
  BY <1>4, <1>5, <1>7 DEF Ready

LEMMA OverlapBoth == \A r, s \in Rects : Overlap(r, s) <=> Overlap(s, r)
  BY DEF Overlap, Rects

LEMMA PlacedReady ==
    ASSUME NEW c \in Contexts, c.screen # "phonePortrait", NEW l, Settled(l, c),
           NEW id \in Visible(l, c), NEW at, NEW prior, NEW p \in Placed(l, id, at, prior, c)
    PROVE  Ready(p, l, c)
<1> DEFINE ids == Visible(l, c)
           n == Normalized(p, c)
<1>1. l \in Grids /\ \A i \in Modules : RestsAt(l.items[i], i, c) /\ Kept(l.items[i], i, c)
  BY SettledKept DEF Settled
<1>2. ids \subseteq Modules /\ id \in Modules
  BY DEF Visible
<1>3. /\ p \in Grids /\ p.collapsed = l.collapsed
      /\ \A i \in Modules : p.items[i].w = l.items[i].w /\ p.items[i].h = l.items[i].h
      /\ p \in Swaps(l, id, at, c) \/ Freed(l, p, id, c)
  BY <1>1, <1>2, PlacedIs
<1>4. Visible(p, c) = ids
  BY <1>3, SeenIs
<1>5. \A i \in Modules : p.items[i] \in Rects /\ l.items[i] \in Rects
  BY <1>1, <1>3 DEF Grids, Arranged
<1> HIDE DEF ids
<1>6. /\ Fits(p, c) /\ \A i \in Modules : InGrid(p.items[i], c)
      /\ \E j \in ids : \A o \in Modules : o \notin {id, j} => p.items[o] = l.items[o]
  <2>1. \A i \in Modules : InGrid(l.items[i], c)
    BY <1>1, <1>5, InsideIs
  <2>2. CASE p \in Swaps(l, id, at, c)
    <3>1. PICK j \in ids \ {id} : /\ Traded(l, p, id, j) /\ Fits(p, c)
                                  /\ InGrid(p.items[id], c) /\ InGrid(p.items[j], c)
      BY <1>1, <1>2, <2>2, SwapsIs DEF ids
    <3> QED
      BY <2>1, <3>1 DEF Traded
  <2>3. CASE Freed(l, p, id, c)
    <3>1. /\ p.items[id].x \in 0 .. 24 - l.items[id].w /\ p.items[id].y \in 0 .. Rows(c) - l.items[id].h
          /\ \A i \in Modules : i # id => p.items[i] = l.items[i]
          /\ CollisionFree(l.items, ids \ {id})
          /\ \A o \in ids \ {id} : ~Overlap(p.items[id], l.items[o])
      BY <2>3 DEF Freed, ids
    <3>2. InGrid(p.items[id], c)
      <4>1. PICK r \in Rects : r = p.items[id]
        BY <1>2, <1>5
      <4>2. Rows(c) \in Int /\ l.items[id].w \in Int /\ l.items[id].h \in Int
        BY <1>2, <1>5, ContextIs DEF Rects
      <4>3. r.x \in 0 .. 24 - r.w /\ r.y \in 0 .. Rows(c) - r.h /\ r.w \in Int /\ r.h \in Int
        BY <1>2, <1>3, <3>1, <4>1 DEF Rects
      <4> QED
        BY <4>1, <4>2, <4>3 DEF InGrid, Columns
    <3>3. ASSUME NEW i \in ids, NEW j \in ids, i # j PROVE ~Overlap(p.items[i], p.items[j])
      <4>1. i \in Modules /\ j \in Modules
        BY <1>2, <3>3
      <4>2. CASE i # id /\ j # id
        BY <3>1, <3>3, <4>1, <4>2 DEF CollisionFree
      <4>3. CASE i = id
        BY <3>1, <3>3, <4>1, <4>3
      <4>4. CASE j = id
        <5>1. ~Overlap(p.items[j], p.items[i])
          BY <3>1, <3>3, <4>1, <4>4
        <5> QED
          BY <1>5, <4>1, <5>1, OverlapBoth
      <4> QED
        BY <4>2, <4>3, <4>4
    <3>4. Fits(p, c)
      BY <1>4, <3>3 DEF Fits, CollisionFree
    <3>5. id \in ids
      BY DEF ids
    <3> QED
      BY <2>1, <3>1, <3>2, <3>4, <3>5
  <2> QED
    BY <1>3, <2>2, <2>3
<1>7. \A i \in Modules : RestsAt(p.items[i], i, c)
  <2> SUFFICES ASSUME NEW i \in Modules PROVE RestsAt(p.items[i], i, c)
    OBVIOUS
  <2>1. l.items[i].w >= 2 /\ l.items[i].h >= MinRows(i, c)
    BY <1>1 DEF RestsAt
  <2>2. p.items[i]["w"] >= 2 /\ p.items[i]["h"] >= MinRows(i, c)
    BY <1>3, <2>1
  <2> QED
    BY <1>5, <1>6, <2>2, InsideIs
<1>8. n \in Grids
  BY <1>3, BroughtIs DEF Layouts, Brought
<1>9. \A i \in Modules : n.items[i]["w"] = l.items[i]["w"] /\ n.items[i]["h"] = l.items[i]["h"]
  <2>1. CASE Fixed(p.items, c)
    <3>1. Settled(p, c)
      BY <1>3, <1>7, <2>1 DEF Settled
    <3>2. n = p
      BY <3>1, WideSettles, SettledIsBrought
    <3> QED
      BY <1>3, <3>2
  <2>2. CASE ~Fixed(p.items, c)
    <3>1. HasControls(c) /\ c.screen = "tabletPortrait"
      BY <2>2 DEF Fixed
    <3>2. l.items["controls"].h = 5
      BY <3>1 DEF Settled, Fixed
    <3>3. p.items["controls"].h = 5
      BY <1>3, <3>2, PanelsAre
    <3> QED
      BY <1>3, <1>7, <3>3, NormalizedKeeps
  <2> QED
    BY <2>1, <2>2
<1>10. \A i \in Modules : p.items[i] = l.items[i] => n.items[i] = l.items[i]
  <2> SUFFICES ASSUME NEW i \in Modules, p.items[i] = l.items[i] PROVE n.items[i] = l.items[i]
    OBVIOUS
  <2>1. Kept(p.items[i], i, c)
    BY <1>1
  <2> QED
    BY <1>3, <2>1, NormalizedKeeps
<1>11. Covered(n, ids) = Covered(l, ids) /\ Covered(l, ids) \in Int
  BY <1>1, <1>2, <1>8, <1>9, CoveredIs
<1>12. PICK j \in ids : \A o \in Modules : o \notin {id, j} => p.items[o] = l.items[o]
  BY <1>6
<1>13. id \in ids
  BY DEF ids
<1>14. Covered(n, ids) <= Covered(l, ids)
  BY <1>11
<1>15. \A i \in Modules : i \notin ids => n.items[i] = l.items[i]
  BY <1>10, <1>12, <1>13
<1>16. \E i, j1 \in Modules : \A o \in Modules : o \notin {i, j1} => n.items[o] = l.items[o]
  BY <1>2, <1>10, <1>12
<1> HIDE DEF n
<1> QED
  BY <1>3, <1>6, <1>7, <1>14, <1>15, <1>16 DEF Ready, n, ids

\* What holds of a drag that is where it began, on no phone held upright: what it changed.
WideDrag ==
    drag # None /\ drag.steady =>
        LET ids == Visible(layout, ctx)
        IN  /\ Settled(drag.from, ctx) /\ layout.collapsed = drag.from.collapsed
            /\ drag.kind = "move" => /\ layout = drag.from /\ drag.id \in ids
                                     /\ drag.preview # None => Ready(drag.preview, drag.from, ctx)
            /\ drag.kind = "size" => /\ drag.id \in ids
                                     /\ \A i \in Modules : i # drag.id => layout.items[i] = drag.from.items[i]
            /\ drag.kind = "split" => /\ Settled(layout, ctx) /\ Covered(layout, ids) = Covered(drag.from, ids)
                                      /\ \A i \in Modules : i \notin ids => layout.items[i] = drag.from.items[i]

WideInv == LayoutInv /\ WideDrag /\ ctx.screen # "phonePortrait"

\* Few members: none, one or two.
LEMMA FewAre ==
    ASSUME NEW S, NEW i, NEW j, S \subseteq {i, j}
    PROVE  Cardinality(S) <= 2 /\ (i = j => Cardinality(S) <= 1)
<1>1. IsFiniteSet({i}) /\ Cardinality({i}) = 1
  BY FS_Singleton
<1>2. IsFiniteSet({i, j}) /\ Cardinality({i, j}) <= 2
  <2>1. IsFiniteSet({i} \cup {j})
        /\ Cardinality({i} \cup {j}) = IF j \in {i} THEN Cardinality({i}) ELSE Cardinality({i}) + 1
    BY <1>1, FS_AddElement
  <2>2. {i} \cup {j} = {i, j}
    OBVIOUS
  <2> QED
    BY <1>1, <2>1, <2>2
<1>3. Cardinality(S) \in Nat /\ Cardinality(S) <= Cardinality({i, j}) /\ Cardinality({i, j}) \in Nat
  BY <1>2, FS_Subset, FS_CardinalityType
<1>4. i = j => {i, j} = {i}
  OBVIOUS
<1> QED
  BY <1>1, <1>2, <1>3, <1>4

\* A step that only one panel's place or size changes in.
LEMMA OneStays ==
    ASSUME LayoutInv, NEW id \in Visible(layout, ctx),
           \A i \in Modules : i # id => layout'.items[i] = layout.items[i]
    PROVE  LeavesOthers
<1> DEFINE changed == {i \in Modules : layout'.items[i] # layout.items[i]}
<1>1. changed \subseteq {id, id}
  OBVIOUS
<1>2. Cardinality(changed) <= 1
  BY <1>1, FewAre
<1>3. changed \subseteq Visible(layout, ctx)
  BY <1>1
<1> QED
  BY <1>2, <1>3, Zenon DEF LeavesOthers

\* A step that leaves what is hidden and how much is covered.
LEMMA ManyStay ==
    ASSUME LayoutInv, drag = None \/ drag.kind # "move",
           \A i \in Modules : i \notin Visible(layout, ctx) => layout'.items[i] = layout.items[i],
           Covered(layout', Visible(layout, ctx)) = Covered(layout, Visible(layout, ctx))
    PROVE  LeavesOthers
<1> DEFINE changed == {i \in Modules : layout'.items[i] # layout.items[i]}
<1>1. changed \subseteq Visible(layout, ctx)
  OBVIOUS
<1> QED
  BY <1>1, Zenon DEF LeavesOthers

\* The end of a move.
LEMMA MoveStays ==
    ASSUME LayoutInv, drag # None, drag.kind = "move", layout' \in Grids,
           \A i \in Modules : i \notin Visible(layout, ctx) => layout'.items[i] = layout.items[i],
           Covered(layout', Visible(layout, ctx)) <= Covered(layout, Visible(layout, ctx)),
           \/ \E i, j \in Modules : \A o \in Modules : o \notin {i, j} => layout'.items[o] = layout.items[o]
           \/ \E i \in Modules : \/ layout'.items[i]["w"] # layout.items[i]["w"]
                                 \/ layout'.items[i]["h"] # layout.items[i]["h"]
    PROVE  LeavesOthers
<1> DEFINE changed == {i \in Modules : layout'.items[i] # layout.items[i]}
           ids == Visible(layout, ctx)
           size(l, i) == <<l.items[i].w, l.items[i].h>>
           resized == \E i \in changed : size(layout', i) # size(layout, i)
<1>1. changed \subseteq ids
  OBVIOUS
<1>2. Covered(layout', ids) \in Int /\ Covered(layout, ids) \in Int
  <2>1. ids \in SUBSET Modules /\ layout \in Grids
    BY DEF Visible, LayoutInv
  <2> QED
    BY <2>1, CoveredIs
<1>3. resized \/ Cardinality(changed) <= 2
  <2>1. CASE \E i, j \in Modules : \A o \in Modules : o \notin {i, j} => layout'.items[o] = layout.items[o]
    <3>1. PICK i \in Modules, j \in Modules :
              \A o \in Modules : o \notin {i, j} => layout'.items[o] = layout.items[o]
      BY <2>1
    <3>2. changed \subseteq {i, j}
      BY <3>1
    <3> HIDE DEF changed
    <3> QED
      BY <3>2, FewAre
  <2>2. CASE \E i \in Modules : \/ layout'.items[i]["w"] # layout.items[i]["w"]
                                \/ layout'.items[i]["h"] # layout.items[i]["h"]
    <3>1. PICK i \in Modules : \/ layout'.items[i]["w"] # layout.items[i]["w"]
                               \/ layout'.items[i]["h"] # layout.items[i]["h"]
      BY <2>2
    <3>2. i \in changed
      BY <3>1
    <3>3. size(layout', i) # size(layout, i)
      BY <3>1
    <3> HIDE DEF changed, size
    <3>4. resized
      BY <3>2, <3>3
    <3> QED
      BY <3>4
  <2> QED
    BY <2>1, <2>2
<1>4. Covered(layout', ids) = Covered(layout, ids) \/ Covered(layout', ids) < Covered(layout, ids)
  <2>1. PICK a \in Int, b \in Int : a = Covered(layout', ids) /\ b = Covered(layout, ids)
    BY <1>2
  <2>2. a <= b
    BY <2>1
  <2> HIDE DEF ids
  <2> QED
    BY <2>1, <2>2
<1> QED
  BY <1>1, <1>3, <1>4, Zenon DEF LeavesOthers

LEMMA SettledSound ==
    ASSUME NEW c \in Contexts, NEW l, Settled(l, c), Fits(l, c)
    PROVE  Sound(l, c)
  BY RestsIs DEF Settled, Sound, Visible

\* Keys: nothing is dragged, and what is there is as it is shown.
LEMMA KeysWide ==
    ASSUME WideInv, Keys
    PROVE  /\ ctx \in Contexts /\ ctx' = ctx /\ drag = None
           /\ layout \in Grids /\ Settled(layout, ctx) /\ Normalized(layout, ctx) = layout
           /\ WideDrag'
<1>1. drag = None /\ drag' = drag /\ ctx' = ctx
  BY DEF Keys, Edits
<1>2. ctx \in Contexts /\ Brought(layout, ctx) /\ ctx.screen # "phonePortrait"
  BY <1>1 DEF WideInv, LayoutInv
<1>3. WideDrag'
  BY <1>1 DEF WideDrag
<1> QED
  BY <1>1, <1>2, <1>3, WideSettles

\* An edit by keys that leaves no panel over another.
LEMMA KeysClear ==
    ASSUME WideInv, Keys, Settled(layout', ctx'), Sound(layout, ctx) => Fits(layout', ctx)
    PROVE  StaysClear
<1>1. ctx \in Contexts /\ ctx' = ctx
  BY KeysWide
<1>2. Fits(layout', ctx) => Sound(layout', ctx)
  BY <1>1, SettledSound
<1> QED
  BY <1>2 DEF StaysClear

LEMMA ToggleWide ==
    ASSUME WideInv, ScreensAssumption, NEW id \in Modules, Toggle(id)
    PROVE  WideDrag' /\ StaysClear /\ LeavesOthers
<1>1. PICK l : l = [layout EXCEPT !.collapsed[id] = ~@]
  OBVIOUS
<1>2. Keys
  BY DEF Toggle
<1>3. /\ ctx \in Contexts /\ ctx' = ctx /\ drag = None
      /\ layout \in Grids /\ Settled(layout, ctx) /\ Normalized(layout, ctx) = layout
      /\ WideDrag'
  BY <1>2, KeysWide
<1>4. Put(l) /\ (l.collapsed[id] \/ Fits(Normalized(l, ctx), ctx))
  BY <1>1, <1>3 DEF Toggle
<1>5. /\ l \in Grids /\ l.items = layout.items
      /\ \A i \in Modules : i # id => l.collapsed[i] = layout.collapsed[i]
  BY <1>1, <1>3 DEF Grids, Arranged
<1>6. Settled(l, ctx)
  BY <1>3, <1>5 DEF Settled
<1>7. Normalized(l, ctx) = l /\ layout' = l
  <2>1. Normalized(l, ctx) = l
    BY <1>3, <1>6, WideSettles, SettledIsBrought DEF WideInv
  <2> QED
    BY <1>4, <2>1 DEF Put
<1>8. Fits(layout, ctx) => Fits(l, ctx)
  <2>1. CASE l.collapsed[id]
    <3>1. Visible(l, ctx) \subseteq Visible(layout, ctx)
      BY <1>5, <2>1 DEF Visible
    <3> QED
      BY <1>5, <3>1 DEF Fits, CollisionFree
  <2>2. CASE ~l.collapsed[id]
    BY <1>4, <1>7, <2>2
  <2> QED
    BY <2>1, <2>2
<1>9. StaysClear
  BY <1>2, <1>3, <1>6, <1>7, <1>8, KeysClear DEF Sound
<1>10. Covered(layout', Visible(layout, ctx)) = Covered(layout, Visible(layout, ctx))
  <2>1. Visible(layout, ctx) \in SUBSET Modules
    BY DEF Visible
  <2> QED
    BY <1>3, <1>5, <1>7, <2>1, CoveredIs
<1>11. LeavesOthers
  BY <1>3, <1>5, <1>7, <1>10, ManyStay DEF WideInv
<1> QED
  BY <1>3, <1>9, <1>11

\* A panel put somewhere else by keys.
LEMMA ReplaceWide ==
    ASSUME WideInv, Keys, NEW id \in Visible(layout, ctx), NEW q \in Rects,
           Put(Replaced(layout, id, q)), Settled(layout', ctx'),
           Fits(Normalized(Replaced(layout, id, q), ctx), ctx)
    PROVE  WideDrag' /\ StaysClear /\ LeavesOthers
<1>1. /\ ctx \in Contexts /\ ctx' = ctx /\ drag = None
      /\ layout \in Grids /\ Settled(layout, ctx) /\ WideDrag' /\ ctx.screen # "phonePortrait"
  BY KeysWide DEF WideInv
<1>2. PICK n : n = Replaced(layout, id, q)
  OBVIOUS
<1>3. id \in Modules
  BY DEF Visible
<1>4. n \in Grids /\ \A i \in Modules : i # id => n.items[i] = layout.items[i]
  BY <1>1, <1>2, <1>3, ReplacedIs
<1>5. layout' = Normalized(n, ctx)
  BY <1>2 DEF Put
<1>6. \A i \in Modules : i # id => layout'.items[i] = layout.items[i]
  <2> SUFFICES ASSUME NEW i \in Modules, i # id PROVE layout'.items[i] = layout.items[i]
    OBVIOUS
  <2>1. Kept(n.items[i], i, ctx)
    BY <1>1, <1>4, SettledKept
  <2> QED
    BY <1>1, <1>4, <1>5, <2>1, NormalizedKeeps
<1>7. LeavesOthers
  BY <1>6, OneStays DEF WideInv
<1>8. StaysClear
  BY <1>2, <1>5, KeysClear
<1> QED
  BY <1>1, <1>7, <1>8

LEMMA MoveByWide ==
    ASSUME WideInv, ScreensAssumption, NEW id \in Modules, NEW dx \in Int, NEW dy \in Int,
           MoveBy(id, dx, dy)
    PROVE  WideDrag' /\ StaysClear /\ LeavesOthers
<1> DEFINE r == layout.items[id]
           q == [r EXCEPT !.x = Clamp(@ + dx, 0, Columns - r.w),
                          !.y = Clamp(@ + dy, 0, Rows(ctx) - r.h)]
<1>1. Keys
  BY DEF MoveBy
<1>2. ctx \in Contexts /\ layout \in Grids /\ Normalized(layout, ctx) = layout /\ drag = None /\ ctx' = ctx
  BY <1>1, KeysWide
<1>3. /\ id \in Visible(layout, ctx) /\ Put(Replaced(layout, id, q))
      /\ Fits(Normalized(Replaced(layout, id, q), ctx), ctx)
  BY <1>2 DEF MoveBy
<1>4. q \in Rects
  BY <1>2, MoveByIs, Zenon
<1>5. Settled(layout', ctx')
  <2>1. LayoutInv' /\ Lands
    BY MoveByKeeps DEF WideInv
  <2>2. drag' = None
    BY <1>1, <1>2 DEF Keys
  <2> QED
    BY <1>2, <2>1, <2>2 DEF Lands
<1> HIDE DEF q
<1> QED
  BY <1>1, <1>3, <1>4, <1>5, ReplaceWide

LEMMA ResizeByWide ==
    ASSUME WideInv, ScreensAssumption, NEW id \in Modules, NEW dw \in Int, NEW dh \in Int,
           ResizeBy(id, dw, dh)
    PROVE  WideDrag' /\ StaysClear /\ LeavesOthers
<1> DEFINE r == layout.items[id]
           w == Clamp(r.w + dw, MinColumns, Columns)
           wanted == IF r.h + dh < MinRows(id, ctx) THEN MinRows(id, ctx) ELSE r.h + dh
           h == IF wanted > Rows(ctx) - r.y THEN Rows(ctx) - r.y ELSE wanted
           q == Rect(IF r.x > Columns - w THEN Columns - w ELSE r.x, r.y, w, h)
<1>1. Keys
  BY DEF ResizeBy
<1>2. ctx \in Contexts /\ layout \in Grids /\ Normalized(layout, ctx) = layout /\ drag = None /\ ctx' = ctx
  BY <1>1, KeysWide
<1>3. /\ id \in Visible(layout, ctx) /\ Put(Replaced(layout, id, q))
      /\ Fits(Normalized(Replaced(layout, id, q), ctx), ctx)
  BY <1>2 DEF ResizeBy
<1>4. q \in Rects
  BY <1>2, ResizeByIs, Zenon
<1>5. Settled(layout', ctx')
  <2>1. LayoutInv' /\ Lands
    BY ResizeByKeeps DEF WideInv
  <2>2. drag' = None
    BY <1>1, <1>2 DEF Keys
  <2> QED
    BY <1>2, <2>1, <2>2 DEF Lands
<1> HIDE DEF q
<1> QED
  BY <1>1, <1>3, <1>4, <1>5, ReplaceWide

LEMMA ResetWide ==
    ASSUME WideInv, ScreensAssumption, NEW id \in Modules, Reset(id)
    PROVE  WideDrag' /\ StaysClear /\ LeavesOthers
<1>1. PICK q : q = Default(ctx).items[id]
  OBVIOUS
<1>2. Keys
  BY DEF Reset
<1>3. /\ ctx \in Contexts /\ layout \in Grids /\ Normalized(layout, ctx) = layout /\ drag = None
      /\ ctx' = ctx /\ Settled(layout, ctx) /\ ctx.screen # "phonePortrait"
  BY <1>2, KeysWide DEF WideInv
<1>4. PICK n : n = Replaced(layout, id, q)
  OBVIOUS
<1>5. id \in Visible(layout, ctx) /\ Put(n) /\ Fits(n, ctx)
  BY <1>1, <1>3, <1>4 DEF Reset
<1>6. Settled(Default(ctx), ctx)
  BY <1>3, DefaultIs
<1>7. q \in Rects /\ RestsAt(q, id, ctx)
  BY <1>1, <1>6 DEF Settled, Grids, Arranged
<1>8. n \in Grids /\ n.items[id] = q /\ \A i \in Modules : i # id => n.items[i] = layout.items[i]
  BY <1>3, <1>4, <1>7, ReplacedIs
<1>9. Settled(n, ctx)
  <2>1. \A i \in Modules : RestsAt(n.items[i], i, ctx)
    BY <1>3, <1>7, <1>8 DEF Settled
  <2>2. "controls" \in Modules
    BY PanelsAre
  <2>3. n.items["controls"] \in {layout.items["controls"], Default(ctx).items["controls"]}
    BY <1>1, <1>8, <2>2
  <2>4. Fixed(n.items, ctx)
    BY <1>3, <1>6, <2>3 DEF Settled, Fixed
  <2> QED
    BY <1>8, <2>1, <2>4 DEF Settled
<1>10. Normalized(n, ctx) = n /\ layout' = n
  <2>1. Normalized(n, ctx) = n
    BY <1>3, <1>9, WideSettles, SettledIsBrought
  <2> QED
    BY <1>5, <2>1 DEF Put
<1> QED
  BY <1>2, <1>3, <1>4, <1>5, <1>7, <1>9, <1>10, ReplaceWide

\* What a boundary that is moved leaves, on no phone held upright.
LEMMA AppliedWide ==
    ASSUME NEW c \in Contexts, c.screen # "phonePortrait", NEW l, Settled(l, c), NEW b, NEW to \in Int,
           NEW next \in Split(l, b, to, c), NEW k, k.collapsed = l.collapsed
    PROVE  LET n == Applied(k, next, c)
           IN  \/ n = k
               \/ /\ Settled(n, c) /\ n.collapsed = k.collapsed /\ Fits(n, c)
                  /\ \A i \in Modules : i \notin Visible(k, c) => n.items[i] = l.items[i]
                  /\ Covered(n, Visible(k, c)) = Covered(l, Visible(k, c))
<1>1. PICK n : n = Applied(k, next, c)
  OBVIOUS
<1>2. n = IF ~Locked(next, c) THEN k ELSE next
  BY <1>1, Zenon DEF Applied
<1>3. Visible(k, c) = Visible(l, c)
  BY SeenIs
<1>4. CASE Locked(next, c)
  <2>1. /\ next \in Grids /\ next.collapsed = l.collapsed /\ Fits(next, c)
        /\ \A i \in Modules : RestsAt(next.items[i], i, c)
        /\ \A i \in Modules : i \notin Visible(l, c) => next.items[i] = l.items[i]
        /\ Covered(next, Visible(l, c)) = Covered(l, Visible(l, c))
    BY SplitClear
  <2>2. Settled(next, c)
    BY <1>4, <2>1 DEF Settled, Fixed, Locked
  <2> QED
    BY <1>1, <1>2, <1>3, <1>4, <2>1, <2>2
<1> QED
  BY <1>1, <1>2, <1>4

LEMMA KeySplitterWide ==
    ASSUME WideInv, ScreensAssumption, NEW by \in Int, KeySplitter(by)
    PROVE  WideDrag' /\ StaysClear /\ LeavesOthers
<1>1. Keys
  BY DEF KeySplitter
<1>2. /\ ctx \in Contexts /\ layout \in Grids /\ Normalized(layout, ctx) = layout /\ drag = None
      /\ ctx' = ctx /\ Settled(layout, ctx) /\ ctx.screen # "phonePortrait" /\ WideDrag' /\ LayoutInv
  BY <1>1, KeysWide DEF WideInv
<1>3. Shown(layout, ctx) = layout
  BY <1>2, ShownIs
<1>4. PICK b \in Splitters : \E next \in Split(layout, b, b.at + by, ctx) :
          Put(Applied(layout, next, ctx))
  BY <1>2, <1>3 DEF KeySplitter
<1>5. PICK next \in Split(layout, b, b.at + by, ctx) : Put(Applied(layout, next, ctx))
  BY <1>4
<1>6. b.at \in Int
  BY <1>2, SplittersAre
<1>7. PICK to \in Int : to = b.at + by
  BY <1>6
<1>8. PICK n : n = Applied(layout, next, ctx)
  OBVIOUS
<1>9. \/ n = layout
      \/ /\ Settled(n, ctx) /\ n.collapsed = layout.collapsed /\ Fits(n, ctx)
         /\ \A i \in Modules : i \notin Visible(layout, ctx) => n.items[i] = layout.items[i]
         /\ Covered(n, Visible(layout, ctx)) = Covered(layout, Visible(layout, ctx))
  BY <1>2, <1>5, <1>7, <1>8, AppliedWide
<1>10. Settled(n, ctx)
  BY <1>2, <1>9
<1>11. layout' = n
  <2>1. Normalized(n, ctx) = n
    BY <1>2, <1>10, WideSettles, SettledIsBrought
  <2> QED
    BY <1>5, <1>8, <2>1 DEF Put
<1>12. StaysClear
  BY <1>1, <1>2, <1>9, <1>10, <1>11, KeysClear DEF Sound
<1>13. LeavesOthers
  BY <1>2, <1>9, <1>11, ManyStay
<1> QED
  BY <1>2, <1>12, <1>13

\* Nothing is changed yet.
LEMMA GrabsWide ==
    ASSUME WideInv, Grabs
    PROVE  /\ ctx \in Contexts /\ ctx' = ctx /\ drag = None /\ layout' = layout
           /\ layout \in Grids /\ Settled(layout, ctx) /\ Normalized(layout, ctx) = layout
           /\ Shown(layout, ctx) = layout /\ StaysClear /\ LeavesOthers
<1>1. drag = None /\ layout' = layout /\ ctx' = ctx
  BY DEF Grabs, Edits
<1>2. ctx \in Contexts /\ Brought(layout, ctx) /\ ctx.screen # "phonePortrait"
  BY <1>1 DEF WideInv, LayoutInv
<1>3. layout \in Grids /\ Settled(layout, ctx) /\ Normalized(layout, ctx) = layout
  BY <1>2, WideSettles
<1>4. Shown(layout, ctx) = layout
  BY <1>2, <1>3, ShownIs
<1>5. StaysClear /\ LeavesOthers
  BY <1>1, Zenon DEF StaysClear, LeavesOthers
<1> QED
  BY <1>1, <1>2, <1>3, <1>4, <1>5

LEMMA GrabWide ==
    ASSUME WideInv, ScreensAssumption, NEW id \in Modules, Grab(id)
    PROVE  WideDrag' /\ StaysClear /\ LeavesOthers
<1>1. Grabs
  BY DEF Grab
<1>2. /\ ctx' = ctx /\ layout' = layout /\ Settled(layout, ctx) /\ Normalized(layout, ctx) = layout
      /\ StaysClear /\ LeavesOthers
  BY <1>1, GrabsWide
<1>3. PICK d : d = [Dragging("move", layout) EXCEPT !.id = id]
  OBVIOUS
<1>4. drag' = d /\ id \in Visible(layout, ctx)
  BY <1>2, <1>3 DEF Grab
<1>5. d.kind = "move" /\ d.from = layout /\ d.id = id /\ d.preview = None
  BY <1>3 DEF Dragging
<1>6. WideDrag'
  BY <1>2, <1>4, <1>5 DEF WideDrag
<1> QED
  BY <1>2, <1>6

LEMMA GrabEdgeWide ==
    ASSUME WideInv, ScreensAssumption, NEW id \in Modules, NEW edge \in EdgesOf,
           GrabEdge(id, edge)
    PROVE  WideDrag' /\ StaysClear /\ LeavesOthers
<1>1. Grabs
  BY DEF GrabEdge
<1>2. /\ ctx' = ctx /\ layout' = layout /\ Settled(layout, ctx) /\ Normalized(layout, ctx) = layout
      /\ StaysClear /\ LeavesOthers
  BY <1>1, GrabsWide
<1>3. PICK d : d = [Dragging("size", layout) EXCEPT !.id = id, !.edge = edge]
  OBVIOUS
<1>4. drag' = d /\ id \in Visible(layout, ctx)
  BY <1>2, <1>3 DEF GrabEdge
<1>5. d.kind = "size" /\ d.from = layout /\ d.id = id
  BY <1>3 DEF Dragging
<1>6. WideDrag'
  BY <1>2, <1>4, <1>5 DEF WideDrag
<1> QED
  BY <1>2, <1>6

LEMMA GrabSplitterWide ==
    ASSUME WideInv, ScreensAssumption, GrabSplitter
    PROVE  WideDrag' /\ StaysClear /\ LeavesOthers
<1>1. Grabs
  BY DEF GrabSplitter
<1>2. /\ ctx' = ctx /\ layout' = layout /\ Settled(layout, ctx) /\ Normalized(layout, ctx) = layout
      /\ Shown(layout, ctx) = layout /\ StaysClear /\ LeavesOthers
  BY <1>1, GrabsWide
<1>3. PICK b \in Splitters : drag' = [Dragging("split", layout) EXCEPT !.boundary = b]
  BY <1>2 DEF GrabSplitter
<1>4. PICK d : d = [Dragging("split", layout) EXCEPT !.boundary = b]
  OBVIOUS
<1>5. d.kind = "split" /\ d.from = layout
  BY <1>4 DEF Dragging
<1>6. WideDrag'
  BY <1>2, <1>3, <1>4, <1>5 DEF WideDrag
<1> QED
  BY <1>2, <1>6

\* The panel is shown at another place, and nothing else is changed.
LEMMA HeldWide ==
    ASSUME WideInv, drag # None, drag.kind = "move", UNCHANGED <<ctx, layout>>,
           NEW next, drag' = [drag EXCEPT !.preview = next],
           drag.steady => Ready(next, drag.from, ctx)
    PROVE  WideDrag' /\ StaysClear /\ LeavesOthers
<1>1. PICK d : d = [drag EXCEPT !.preview = next]
  OBVIOUS
<1>2. drag \in Drags
  BY DEF WideInv, LayoutInv
<1>3. d.preview = next /\ d.kind = drag.kind /\ d.from = drag.from /\ d.id = drag.id /\ d.steady = drag.steady
  BY <1>1, <1>2 DEF Drags
<1>4. WideDrag'
  BY <1>1, <1>3 DEF WideInv, WideDrag
<1>5. StaysClear /\ LeavesOthers
  BY Zenon DEF StaysClear, LeavesOthers
<1> QED
  BY <1>4, <1>5

LEMMA HoldWide ==
    ASSUME WideInv, ScreensAssumption, NEW at, Hold(at)
    PROVE  WideDrag' /\ StaysClear /\ LeavesOthers
<1>1. PICK n : n = Normalized(drag.from, ctx)
  OBVIOUS
<1>2. /\ drag # None /\ drag.kind = "move" /\ UNCHANGED <<ctx, layout>>
      /\ \E p, prior : \E next \in Placed(n, drag.id, p, prior, ctx) :
            drag' = [drag EXCEPT !.preview = next]
  BY <1>1, Zenon DEF Hold, Holds
<1>3. PICK p, prior : \E next \in Placed(n, drag.id, p, prior, ctx) :
          drag' = [drag EXCEPT !.preview = next]
  BY <1>2
<1>4. PICK next \in Placed(n, drag.id, p, prior, ctx) : drag' = [drag EXCEPT !.preview = next]
  BY <1>3
<1>5. ctx \in Contexts /\ ctx.screen # "phonePortrait"
  BY DEF WideInv, LayoutInv
<1>6. ASSUME drag.steady PROVE Ready(next, drag.from, ctx)
  <2>1. Settled(drag.from, ctx) /\ layout = drag.from /\ drag.id \in Visible(layout, ctx)
    BY <1>2, <1>6 DEF WideInv, WideDrag
  <2>2. n = drag.from
    BY <1>1, <1>5, <2>1, WideSettles, SettledIsBrought
  <2>3. PICK l : l = drag.from
    OBVIOUS
  <2>4. PICK id \in Visible(l, ctx) : id = drag.id
    BY <2>1, <2>3
  <2>5. Ready(next, l, ctx)
    BY <1>4, <1>5, <2>1, <2>2, <2>3, <2>4, PlacedReady
  <2> QED
    BY <2>3, <2>5
<1> QED
  BY <1>2, <1>4, <1>6, HeldWide

LEMMA HoldAtEdgeWide ==
    ASSUME WideInv, ScreensAssumption, NEW panel \in Modules, NEW edge, HoldAtEdge(panel, edge)
    PROVE  WideDrag' /\ StaysClear /\ LeavesOthers
<1>1. /\ drag # None /\ drag.kind = "move" /\ UNCHANGED <<ctx, layout>>
  BY DEF HoldAtEdge, Holds
<1>2. PICK next \in Docked(drag.from, drag.id, panel, edge, ctx) :
          Locked(next, ctx) /\ drag' = [drag EXCEPT !.preview = next]
  BY DEF HoldAtEdge
<1>3. ctx \in Contexts /\ ctx.screen # "phonePortrait" /\ drag.id \in Modules
  BY <1>1 DEF WideInv, LayoutInv, DragSound
<1>4. ASSUME drag.steady PROVE Ready(next, drag.from, ctx)
  <2>1. Settled(drag.from, ctx)
    BY <1>1, <1>4 DEF WideInv, WideDrag
  <2>2. PICK l : l = drag.from
    OBVIOUS
  <2>3. PICK id \in Modules : id = drag.id
    BY <1>3
  <2>4. Ready(next, l, ctx)
    BY <1>2, <1>3, <2>1, <2>2, <2>3, DockedReady
  <2> QED
    BY <2>2, <2>4
<1> QED
  BY <1>1, <1>2, <1>4, HeldWide

\* A drag across a turn or a change of role: neither property says anything of its steps.
LEMMA UnsteadyStep ==
    ASSUME drag # None, ~drag.steady
    PROVE  StaysClear /\ LeavesOthers
  BY Zenon DEF StaysClear, LeavesOthers

\* What is known of a drag that is where it began.
LEMMA DraggedIs ==
    ASSUME WideInv, drag # None, drag.steady
    PROVE  /\ ctx \in Contexts /\ ctx.screen # "phonePortrait" /\ layout \in Grids
           /\ drag.from \in Grids /\ Settled(drag.from, ctx) /\ Normalized(drag.from, ctx) = drag.from
           /\ layout.collapsed = drag.from.collapsed
           /\ Visible(drag.from, ctx) = Visible(layout, ctx)
           /\ drag.kind \in {"move", "size", "split"}
<1>1. ctx \in Contexts /\ ctx.screen # "phonePortrait" /\ layout \in Grids /\ drag \in Drags
  BY DEF WideInv, LayoutInv
<1>2. Settled(drag.from, ctx) /\ layout.collapsed = drag.from.collapsed
  BY DEF WideInv, WideDrag
<1>3. drag.from \in Grids /\ Normalized(drag.from, ctx) = drag.from
  BY <1>1, <1>2, WideSettles, SettledIsBrought
<1>4. Visible(drag.from, ctx) = Visible(layout, ctx)
  BY <1>2, SeenIs
<1>5. drag.kind \in {"move", "size", "split"}
  BY <1>1 DEF Drags
<1> QED
  BY <1>1, <1>2, <1>3, <1>4, <1>5

LEMMA PullEdgeWide ==
    ASSUME WideInv, ScreensAssumption, NEW dx \in Int, NEW dy \in Int, PullEdge(dx, dy)
    PROVE  WideDrag' /\ StaysClear /\ LeavesOthers
<1>1. drag # None /\ drag.kind = "size" /\ drag' = drag /\ ctx' = ctx
  BY DEF PullEdge, Holds
<1>2. CASE ~drag.steady
  <2>1. WideDrag'
    BY <1>1, <1>2 DEF WideDrag
  <2> QED
    BY <1>1, <1>2, <2>1, UnsteadyStep
<1>3. CASE drag.steady
  <2>1. /\ ctx \in Contexts /\ drag.from \in Grids /\ Settled(drag.from, ctx)
        /\ Normalized(drag.from, ctx) = drag.from /\ layout.collapsed = drag.from.collapsed
    BY <1>1, <1>3, DraggedIs
  <2>2. PICK l : l = drag.from
    OBVIOUS
  <2>3. /\ drag.id \in Visible(layout, ctx)
        /\ \A i \in Modules : i # drag.id => layout.items[i] = l.items[i]
    BY <1>1, <1>3, <2>2 DEF WideInv, WideDrag
  <2>4. PICK id \in Visible(layout, ctx) : id = drag.id
    BY <2>3
  <2>5. id \in Modules
    BY DEF Visible
  <2>6. PICK was \in Rects : was = l.items[id]
    BY <2>1, <2>2, <2>5 DEF Grids, Arranged
  <2>7. PICK q : q = Pulled(was, was, id, drag.edge, dx, dy, ctx)
    OBVIOUS
  <2>8. layout' = Replaced(l, id, q) /\ Fits(Replaced(l, id, q), ctx)
    BY <2>1, <2>2, <2>4, <2>6, <2>7 DEF PullEdge
  <2>9. RestsAt(was, id, ctx)
    BY <2>1, <2>2, <2>5, <2>6 DEF Settled
  <2>10. q \in Rects /\ (ctx.screen # "tabletPortrait" => RestsAt(q, id, ctx))
    BY <2>1, <2>5, <2>7, <2>9, PulledIs
  <2>11. /\ layout'.collapsed = l.collapsed /\ layout'.items[id] = q
         /\ \A i \in Modules : i # id => layout'.items[i] = l.items[i]
    BY <2>1, <2>2, <2>5, <2>8, <2>10, ReplacedIs
  <2>12. Visible(layout', ctx) = Visible(layout, ctx)
    BY <2>1, <2>2, <2>11, SeenIs
  <2>13. WideDrag'
    BY <1>1, <2>1, <2>2, <2>4, <2>11, <2>12 DEF WideDrag
  <2>14. \A i \in Modules : i # id => layout'.items[i] = layout.items[i]
    BY <2>3, <2>4, <2>11
  <2>15. LeavesOthers
    BY <2>14, OneStays DEF WideInv
  <2>16. ctx.screen # "tabletPortrait" => Sound(layout', ctx)
    <3> SUFFICES ASSUME ctx.screen # "tabletPortrait" PROVE Sound(layout', ctx)
      OBVIOUS
    <3>1. \A i \in Modules : RestsAt(layout'.items[i], i, ctx)
      BY <2>1, <2>2, <2>10, <2>11 DEF Settled
    <3>2. \A i \in Visible(layout', ctx) : Rests(layout', i, ctx)
      BY <3>1, RestsIs DEF Visible
    <3> QED
      BY <2>8, <3>2 DEF Sound
  <2>17. StaysClear
    BY <1>1, <2>16 DEF StaysClear, Corrected
  <2> QED
    BY <2>13, <2>15, <2>17
<1> QED
  BY <1>2, <1>3

LEMMA PullSplitterWide ==
    ASSUME WideInv, ScreensAssumption, NEW by \in Int, PullSplitter(by)
    PROVE  WideDrag' /\ StaysClear /\ LeavesOthers
<1>1. drag # None /\ drag.kind = "split" /\ drag' = drag /\ ctx' = ctx
  BY DEF PullSplitter, Holds
<1>2. CASE ~drag.steady
  <2>1. WideDrag'
    BY <1>1, <1>2 DEF WideDrag
  <2> QED
    BY <1>1, <1>2, <2>1, UnsteadyStep
<1>3. CASE drag.steady
  <2>1. /\ ctx \in Contexts /\ ctx.screen # "phonePortrait" /\ Settled(drag.from, ctx)
        /\ layout.collapsed = drag.from.collapsed
    BY <1>1, <1>3, DraggedIs
  <2>2. /\ Settled(layout, ctx)
        /\ Covered(layout, Visible(layout, ctx)) = Covered(drag.from, Visible(layout, ctx))
        /\ \A i \in Modules : i \notin Visible(layout, ctx) => layout.items[i] = drag.from.items[i]
    BY <1>1, <1>3 DEF WideInv, WideDrag
  <2>3. PICK next \in Split(drag.from, drag.boundary, drag.boundary.at + by, ctx) :
            layout' = Applied(layout, next, ctx)
    BY DEF PullSplitter
  <2>4. PICK to \in Int : to = drag.boundary.at + by
    BY <1>1 DEF WideInv, LayoutInv, DragSound
  <2>5. PICK l : l = drag.from
    OBVIOUS
  <2>6. \/ layout' = layout
        \/ /\ Settled(layout', ctx) /\ layout'.collapsed = layout.collapsed /\ Fits(layout', ctx)
           /\ \A i \in Modules : i \notin Visible(layout, ctx) => layout'.items[i] = l.items[i]
           /\ Covered(layout', Visible(layout, ctx)) = Covered(l, Visible(layout, ctx))
    BY <2>1, <2>3, <2>4, <2>5, AppliedWide
  <2>7. /\ Settled(layout', ctx) /\ layout'.collapsed = layout.collapsed
        /\ \A i \in Modules : i \notin Visible(layout, ctx) => layout'.items[i] = layout.items[i]
        /\ Covered(layout', Visible(layout, ctx)) = Covered(layout, Visible(layout, ctx))
    BY <2>2, <2>5, <2>6
  <2>8. Visible(layout', ctx) = Visible(layout, ctx)
    BY <2>7, SeenIs
  <2>9. WideDrag'
    BY <1>1, <2>1, <2>2, <2>7, <2>8 DEF WideDrag
  <2>10. LeavesOthers
    BY <1>1, <2>7, ManyStay DEF WideInv
  <2>11. layout' # layout => Sound(layout', ctx)
    BY <2>1, <2>6, SettledSound
  <2>12. StaysClear
    BY <2>11 DEF StaysClear
  <2> QED
    BY <2>9, <2>10, <2>12
<1> QED
  BY <1>2, <1>3

\* What is put back where it was.
LEMMA SameStep == layout' = layout => StaysClear /\ LeavesOthers
  BY Zenon DEF StaysClear, LeavesOthers

LEMMA ReleaseWide ==
    ASSUME WideInv, ScreensAssumption, Release
    PROVE  WideDrag' /\ StaysClear /\ LeavesOthers
<1>1. PICK l : l = IF drag.kind = "move" /\ drag.preview # None THEN drag.preview ELSE layout
  OBVIOUS
<1>2. drag # None /\ drag' = None /\ ctx' = ctx /\ layout' = Normalized(l, ctx)
  BY <1>1 DEF Release, Ends, Put
<1>3. WideDrag'
  BY <1>2 DEF WideDrag
<1>4. LayoutInv /\ layout' \in Grids
  BY ReleaseKeeps DEF WideInv, LayoutInv
<1> SUFFICES ASSUME drag.steady PROVE StaysClear /\ LeavesOthers
  BY <1>2, <1>3, UnsteadyStep
<1>5. /\ ctx \in Contexts /\ ctx.screen # "phonePortrait" /\ Settled(drag.from, ctx)
      /\ layout.collapsed = drag.from.collapsed /\ layout \in Grids
      /\ drag.kind \in {"move", "size", "split"}
  BY <1>2, DraggedIs
<1>6. CASE drag.kind = "move" /\ drag.preview # None
  <2>1. PICK p : p = drag.preview
    OBVIOUS
  <2>2. layout = drag.from /\ Ready(p, layout, ctx) /\ layout' = Normalized(p, ctx)
    BY <1>1, <1>2, <1>6, <2>1 DEF WideInv, WideDrag
  <2>3. LeavesOthers
    <3>1. /\ \A i \in Modules : i \notin Visible(layout, ctx) => layout'.items[i] = layout.items[i]
          /\ Covered(layout', Visible(layout, ctx)) <= Covered(layout, Visible(layout, ctx))
          /\ \/ \E i, j \in Modules : \A o \in Modules : o \notin {i, j} => layout'.items[o] = layout.items[o]
             \/ \E i \in Modules : \/ layout'.items[i]["w"] # layout.items[i]["w"]
                                   \/ layout'.items[i]["h"] # layout.items[i]["h"]
      BY <2>2, Zenon DEF Ready
    <3> QED
      BY <1>2, <1>4, <1>6, <3>1, MoveStays
  <2>4. ctx.screen # "tabletPortrait" => Sound(layout', ctx)
    <3> SUFFICES ASSUME ctx.screen # "tabletPortrait" PROVE Sound(layout', ctx)
      OBVIOUS
    <3>1. p \in Grids /\ Fits(p, ctx) /\ \A i \in Modules : RestsAt(p.items[i], i, ctx)
      BY <2>2, Zenon DEF Ready
    <3>2. Settled(p, ctx)
      BY <1>5, <3>1 DEF Settled, Fixed
    <3>3. layout' = p
      BY <1>5, <2>2, <3>2, WideSettles, SettledIsBrought
    <3> QED
      BY <1>5, <3>1, <3>2, <3>3, SettledSound
  <2>5. StaysClear
    BY <1>2, <2>4 DEF StaysClear, Corrected
  <2> QED
    BY <2>3, <2>5
<1>7. CASE drag.kind = "split" \/ (drag.kind = "move" /\ drag.preview = None)
  <2>1. Settled(layout, ctx) /\ l = layout
    BY <1>1, <1>2, <1>5, <1>7 DEF WideInv, WideDrag
  <2>2. layout' = layout
    BY <1>2, <1>5, <2>1, WideSettles, SettledIsBrought
  <2> QED
    BY <2>2, SameStep
<1>8. CASE drag.kind = "size"
  <2>1. PICK from : from = drag.from
    OBVIOUS
  <2>2. l = layout /\ drag.id \in Visible(layout, ctx)
        /\ \A i \in Modules : i # drag.id => layout.items[i] = from.items[i]
    BY <1>1, <1>2, <1>8, <2>1 DEF WideInv, WideDrag
  <2>3. PICK id \in Visible(layout, ctx) : id = drag.id
    BY <2>2
  <2>4. \A i \in Modules : i # id => layout'.items[i] = layout.items[i]
    <3> SUFFICES ASSUME NEW i \in Modules, i # id PROVE layout'.items[i] = layout.items[i]
      OBVIOUS
    <3>1. Kept(layout.items[i], i, ctx)
      BY <1>5, <2>1, <2>2, <2>3, SettledKept
    <3> QED
      BY <1>2, <1>5, <2>2, <3>1, NormalizedKeeps
  <2>5. LeavesOthers
    BY <1>4, <2>4, OneStays
  <2>6. ASSUME ctx.screen # "tabletPortrait", Sound(layout, ctx)
        PROVE  layout' = layout
    <3>1. \A i \in Modules : RestsAt(layout.items[i], i, ctx)
      <4> SUFFICES ASSUME NEW i \in Modules PROVE RestsAt(layout.items[i], i, ctx)
        OBVIOUS
      <4>1. CASE i = id
        BY <2>6, <4>1, RestsIs DEF Sound
      <4>2. CASE i # id
        BY <1>5, <2>1, <2>2, <2>3, <4>2 DEF Settled
      <4> QED
        BY <4>1, <4>2
    <3>2. Settled(layout, ctx)
      BY <1>5, <2>6, <3>1 DEF Settled, Fixed
    <3> QED
      BY <1>2, <1>5, <2>2, <3>2, WideSettles, SettledIsBrought
  <2>7. StaysClear
    BY <1>2, <2>6 DEF StaysClear, Corrected
  <2> QED
    BY <2>5, <2>7
<1> QED
  BY <1>5, <1>6, <1>7, <1>8

LEMMA CancelWide ==
    ASSUME WideInv, ScreensAssumption, Cancel
    PROVE  WideDrag' /\ StaysClear /\ LeavesOthers
<1>1. PICK l : l = IF drag.kind = "split" THEN Applied(layout, drag.from, ctx) ELSE drag.from
  OBVIOUS
<1>2. drag # None /\ drag' = None /\ ctx' = ctx /\ layout' = Normalized(l, ctx)
  BY <1>1 DEF Cancel, Ends
<1>3. WideDrag'
  BY <1>2 DEF WideDrag
<1>4. LayoutInv
  BY DEF WideInv
<1> SUFFICES ASSUME drag.steady PROVE StaysClear /\ LeavesOthers
  BY <1>2, <1>3, UnsteadyStep
<1>5. /\ ctx \in Contexts /\ ctx.screen # "phonePortrait" /\ Settled(drag.from, ctx)
      /\ Normalized(drag.from, ctx) = drag.from /\ layout \in Grids /\ drag.from \in Grids
      /\ drag.kind \in {"move", "size", "split"}
  BY <1>2, DraggedIs
<1>6. layout' = drag.from => StaysClear
  BY <1>2, Zenon DEF StaysClear
<1>7. CASE drag.kind = "move"
  <2>1. layout' = layout
    BY <1>1, <1>2, <1>5, <1>7 DEF WideInv, WideDrag
  <2> QED
    BY <2>1, SameStep
<1>8. CASE drag.kind = "size"
  <2>1. layout' = drag.from
    BY <1>1, <1>2, <1>5, <1>8
  <2>2. PICK id \in Visible(layout, ctx) : id = drag.id
    BY <1>2, <1>8 DEF WideInv, WideDrag
  <2>3. \A i \in Modules : i # id => layout'.items[i] = layout.items[i]
    BY <1>2, <1>8, <2>1, <2>2 DEF WideInv, WideDrag
  <2>4. LeavesOthers
    BY <1>4, <2>3, OneStays
  <2> QED
    BY <1>6, <2>1, <2>4
<1>9. CASE drag.kind = "split"
  <2>1. /\ Settled(layout, ctx)
        /\ Covered(layout, Visible(layout, ctx)) = Covered(drag.from, Visible(layout, ctx))
        /\ \A i \in Modules : i \notin Visible(layout, ctx) => layout.items[i] = drag.from.items[i]
    BY <1>2, <1>9 DEF WideInv, WideDrag
  <2>2. l \in {layout, drag.from}
    BY <1>1, <1>5, <1>9, AppliedIs
  <2>3. layout' = l
    BY <1>2, <1>5, <2>1, <2>2, WideSettles, SettledIsBrought
  <2>4. CASE layout' = layout
    BY <2>4, SameStep
  <2>5. CASE layout' = drag.from
    <3>1. LeavesOthers
      BY <1>4, <1>9, <2>1, <2>5, ManyStay
    <3> QED
      BY <1>6, <2>5, <3>1
  <2> QED
    BY <2>2, <2>3, <2>4, <2>5
<1> QED
  BY <1>5, <1>7, <1>8, <1>9

\* The page, its window, its role or its defaults change: it is no edit, and a drag that goes on is not steady.
LEMMA HappensWide ==
    ASSUME LayoutInv, ScreensAssumption,
           \/ \E s \in Screens : Rotate(s) \/ ResetScreen(s)
           \/ \E rows \in {2, 4} : LowWindow(rows)
           \/ \E r \in Roles : Relabel(r)
           \/ Reload
    PROVE  WideDrag' /\ StaysClear /\ LeavesOthers
<1>1. PICK u : u = Unsteady(drag)
  OBVIOUS
<1>2. u = None \/ ~u.steady
  <2>1. drag \in Drags \cup {None}
    BY DEF LayoutInv
  <2> QED
    BY <1>1, <2>1, UnsteadyIs
<1>3. Happens /\ drag' \in {None, u}
  <2>1. ASSUME NEW s \in Screens, Rotate(s) PROVE Happens /\ drag' \in {None, u}
    BY <1>1, <2>1, Zenon DEF Rotate
  <2>2. ASSUME NEW r \in Roles, Relabel(r) PROVE Happens /\ drag' \in {None, u}
    BY <1>1, <2>2, Zenon DEF Relabel
  <2>3. ASSUME NEW rows \in {2, 4}, LowWindow(rows) PROVE Happens /\ drag' \in {None, u}
    BY <1>1, <2>3, Zenon DEF LowWindow
  <2>4. ASSUME NEW s \in Screens, ResetScreen(s) PROVE Happens /\ drag' \in {None, u}
    <3>1. Happens /\ drag = None /\ drag' = drag
      BY <2>4, Zenon DEF ResetScreen
    <3> QED
      BY <3>1
  <2>5. Reload => Happens /\ drag' \in {None, u}
    BY Zenon DEF Reload
  <2> QED
    BY <2>1, <2>2, <2>3, <2>4, <2>5
<1>4. loads' # loads
  BY <1>3 DEF Happens, LayoutInv
<1>5. WideDrag'
  BY <1>2, <1>3 DEF WideDrag
<1> QED
  BY <1>4, <1>5 DEF StaysClear, LeavesOthers

LEMMA EditWide ==
    ASSUME WideInv, ScreensAssumption, Edit
    PROVE  WideDrag' /\ StaysClear /\ LeavesOthers
<1>1. \A d \in Shifts : d \in Int
  BY DEF ScreensAssumption
<1>2. ASSUME NEW id \in Modules, Toggle(id) \/ Reset(id) PROVE WideDrag' /\ StaysClear /\ LeavesOthers
  BY <1>2, ToggleWide, ResetWide
<1>3. ASSUME NEW id \in Modules, NEW d \in {-1, 1},
             \/ MoveBy(id, d, 0) \/ MoveBy(id, 0, d)
             \/ ResizeBy(id, d, 0) \/ ResizeBy(id, 0, d)
      PROVE  WideDrag' /\ StaysClear /\ LeavesOthers
  BY <1>3, MoveByWide, ResizeByWide
<1>4. ASSUME NEW d \in {-1, 1}, KeySplitter(d) PROVE WideDrag' /\ StaysClear /\ LeavesOthers
  BY <1>4, KeySplitterWide
<1>5. ASSUME NEW id \in Modules, Grab(id) \/ \E edge \in EdgesOf : GrabEdge(id, edge)
      PROVE  WideDrag' /\ StaysClear /\ LeavesOthers
  BY <1>5, GrabWide, GrabEdgeWide
<1>6. ASSUME NEW at \in Drops, Hold(at) PROVE WideDrag' /\ StaysClear /\ LeavesOthers
  BY <1>6, HoldWide
<1>7. ASSUME NEW panel \in Modules, NEW edge \in Sides, HoldAtEdge(panel, edge)
      PROVE  WideDrag' /\ StaysClear /\ LeavesOthers
  BY <1>7, HoldAtEdgeWide
<1>8. ASSUME NEW dx \in Shifts, NEW dy \in Shifts, PullEdge(dx, dy) PROVE WideDrag' /\ StaysClear /\ LeavesOthers
  BY <1>1, <1>8, PullEdgeWide
<1>9. ASSUME NEW d \in Shifts, PullSplitter(d) PROVE WideDrag' /\ StaysClear /\ LeavesOthers
  BY <1>1, <1>9, PullSplitterWide
<1> QED
  BY <1>2, <1>3, <1>4, <1>5, <1>6, <1>7, <1>8, <1>9, GrabSplitterWide, ReleaseWide, CancelWide, Zenon DEF Edit

\* An edit leaves role and window as they are.
LEMMA EditStays ==
    ASSUME Edit
    PROVE  ctx' = ctx
<1>1. Keys \/ Grabs \/ Ends \/ (\E kind : Holds(kind)) => ctx' = ctx
  BY DEF Keys, Grabs, Edits, Holds, Ends
<1>2. ASSUME NEW id, Toggle(id) \/ Reset(id) PROVE ctx' = ctx
  BY <1>1, <1>2 DEF Toggle, Reset
<1>3. ASSUME NEW id, NEW dx, NEW dy, MoveBy(id, dx, dy) \/ ResizeBy(id, dx, dy) PROVE ctx' = ctx
  BY <1>1, <1>3 DEF MoveBy, ResizeBy
<1>4. ASSUME NEW by, KeySplitter(by) \/ PullSplitter(by) PROVE ctx' = ctx
  BY <1>1, <1>4 DEF KeySplitter, PullSplitter
<1>5. ASSUME NEW id, NEW edge, Grab(id) \/ GrabEdge(id, edge) PROVE ctx' = ctx
  BY <1>1, <1>5 DEF Grab, GrabEdge
<1>9. GrabSplitter => ctx' = ctx
  BY <1>1, Zenon DEF GrabSplitter
<1>6. ASSUME NEW at, Hold(at) PROVE ctx' = ctx
  BY <1>1, <1>6, Zenon DEF Hold
<1>7. ASSUME NEW x, NEW y, HoldAtEdge(x, y) \/ PullEdge(x, y) PROVE ctx' = ctx
  BY <1>1, <1>7 DEF HoldAtEdge, PullEdge
<1>8. Release \/ Cancel => ctx' = ctx
  BY <1>1 DEF Release, Cancel
<1> QED
  BY <1>2, <1>3, <1>4, <1>5, <1>6, <1>7, <1>8, <1>9, Zenon DEF Edit

PanelsInv == LayoutInv /\ (ctx.screen # "phonePortrait" => WideDrag)

LEMMA PanelsStart == ScreensAssumption /\ Init => PanelsInv
<1> SUFFICES ASSUME ScreensAssumption, Init PROVE LayoutInv /\ WideDrag
  BY DEF PanelsInv
<1>1. drag = None
  BY Zenon DEF Init
<1> QED
  BY <1>1, LayoutStart DEF WideDrag

LEMMA PanelsKept ==
    ScreensAssumption /\ PanelsInv /\ [Next]_vars => PanelsInv' /\ (ctx.screen # "phonePortrait" => StaysClear
        /\ LeavesOthers)
<1> SUFFICES ASSUME ScreensAssumption, PanelsInv, [Next]_vars
             PROVE  PanelsInv' /\ (ctx.screen # "phonePortrait" => StaysClear /\ LeavesOthers)
  OBVIOUS
<1>1. ScreensAssumption
  OBVIOUS
<1>2. LayoutInv /\ LayoutInv'
  BY LayoutKept DEF PanelsInv
<1>3. CASE UNCHANGED vars
  <2>1. ctx' = ctx /\ layout' = layout /\ drag' = drag
    BY <1>3 DEF vars
  <2>2. ctx.screen # "phonePortrait" => WideDrag'
    BY <2>1 DEF PanelsInv, WideDrag
  <2> QED
    BY <1>2, <2>1, <2>2, SameStep DEF PanelsInv
<1>4. CASE Edit
  BY <1>1, <1>2, <1>4, EditStays, EditWide DEF PanelsInv, WideInv
<1>5. CASE Next /\ ~Edit
  <2>1. \/ \E s \in Screens : Rotate(s) \/ ResetScreen(s)
        \/ \E rows \in {2, 4} : LowWindow(rows)
        \/ \E r \in Roles : Relabel(r)
        \/ Reload
    BY <1>5, Zenon DEF Next
  <2> QED
    BY <1>1, <1>2, <2>1, HappensWide DEF PanelsInv
<1> QED
  BY <1>3, <1>4, <1>5
=============================================================================
