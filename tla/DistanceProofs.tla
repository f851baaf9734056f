--------------------------- MODULE DistanceProofs ---------------------------
(***************************************************************************)
(* That the boxes lose no rule within the distance, for every candidate,   *)
(* every distance and every ruleset.  Of the geometry of the sphere only   *)
(* SphereAssumption is used; what is proved is that widening the bounds of *)
(* several points, clamping them at the poles, splitting them at the       *)
(* antimeridian and asking the two indexes keep every point of every arc   *)
(* that is near enough.                                                    *)
(***************************************************************************)
EXTENDS Distance, OrderLemmas

LEMMA Units ==
  /\ Quarter \in Nat /\ Quarter >= 1
  /\ HalfTurn \in Nat /\ HalfTurn = 2 * Quarter
  /\ Turn \in Nat /\ Turn = 4 * Quarter
BY DistanceAssumption DEF HalfTurn, Turn

\* Thousandths keep the order of units.
LEMMA MilliOrder ==
  /\ \A m \in Int : Milli(m) \in Int
  /\ \A m, n \in Int : /\ m <= n <=> Milli(m) <= Milli(n)
                       /\ Milli(m + n) = Milli(m) + Milli(n)
                       /\ Milli(m - n) = Milli(m) - Milli(n)
BY DEF Milli

\* The points of a candidate and of an arc are positions.
LEMMA PointsArePositions ==
  /\ \A s \in Points : s # {} /\ s \subseteq Positions
  /\ \A r \in RuleIds : Arcs[r] # {} /\ Arcs[r] \subseteq Positions
  /\ \A r \in RuleIds : Vertices[r] # {} /\ Vertices[r] \subseteq Positions
BY DistanceAssumption

LEMMA PositionType ==
  ASSUME NEW p \in Positions
  PROVE  /\ p.x \in Int /\ -HalfTurn <= p.x /\ p.x <= HalfTurn
         /\ p.y \in Int /\ -Quarter <= p.y /\ p.y <= Quarter
<1>1. p.x \in -HalfTurn..HalfTurn /\ p.y \in -Quarter..Quarter
  BY Zenon DEF Positions
<1>2. QED  BY <1>1, Units

\* The cosine of a latitude: not negative, and smaller farther from the equator.
LEMMA CosineOfLatitude ==
  ASSUME NEW n \in 0..Quarter
  PROVE  /\ Cos(n) \in Nat
         /\ \A k \in 0..Quarter : n <= k => Cos(k) <= Cos(n)
<1>1. \A k \in 0..Quarter : Cos(k) = Cosines[k + 1]
  BY Units, SMT DEF Cos, Abs
<1>2. \A k \in 0..Quarter : Cosines[k + 1] \in Thousandths
  <2> SUFFICES ASSUME NEW k \in 0..Quarter  PROVE Cosines[k + 1] \in Thousandths
    OBVIOUS
  <2>1. k + 1 \in 1..Len(Cosines)
    BY DistanceAssumption, Units DEF Quarter
  <2>2. \A i \in 1..Len(Cosines) : Cosines[i] \in Thousandths
    BY DistanceAssumption
  <2>3. QED  BY <2>1, <2>2, Zenon
<1>3. \A k \in 0..Quarter : n <= k => Cosines[n + 1] >= Cosines[k + 1]
  <2> SUFFICES ASSUME NEW k \in 0..Quarter, n <= k
               PROVE  Cosines[n + 1] >= Cosines[k + 1]
    OBVIOUS
  <2>1. n + 1 \in 1..(Quarter + 1) /\ k + 1 \in 1..(Quarter + 1) /\ n + 1 <= k + 1
    BY Units
  <2>2. QED  BY <2>1, DistanceAssumption
<1>4. \A k \in 0..Quarter : Cos(k) \in Nat
  <2>1. Thousandths \subseteq Nat
    BY DEF Thousandths
  <2>2. QED  BY <1>1, <1>2, <2>1, Zenon
<1>5. ASSUME NEW k \in 0..Quarter, n <= k  PROVE Cos(k) <= Cos(n)
  <2>1. Cosines[n + 1] >= Cosines[k + 1] /\ Cos(k) = Cosines[k + 1]
        /\ Cos(n) = Cosines[n + 1]
    BY <1>1, <1>3, <1>5
  <2>2. Cos(n) \in Nat /\ Cos(k) \in Nat
    BY <1>4
  <2>3. QED  BY <2>1, <2>2
<1>6. QED  BY <1>4, <1>5

-----------------------------------------------------------------------------
LEMMA LeastGreatest ==
  ASSUME NEW a \in Int, NEW b \in Int, NEW S \in SUBSET (a..b), S # {}
  PROVE  /\ Least(S) \in S /\ \A k \in S : Least(S) <= k
         /\ Greatest(S) \in S /\ \A k \in S : Greatest(S) >= k
<1> S \in SUBSET Int /\ \A k \in S : a <= k /\ k <= b
  OBVIOUS
<1>1. \E m \in S : \A k \in S : m <= k
  BY LeastExists
<1>2. \E m \in S : \A k \in S : m >= k
  <2>1. \E m \in S : \A k \in S : k <= m
    BY GreatestExists
  <2>2. PICK m \in S : \A k \in S : k <= m
    BY <2>1
  <2>3. \A k \in S : m >= k
    BY <2>2
  <2>4. QED  BY <2>3
<1>3. Least(S) \in S /\ \A k \in S : Least(S) <= k
  BY <1>1, Zenon DEF Least
<1>4. Greatest(S) \in S /\ \A k \in S : Greatest(S) >= k
  BY <1>2, Zenon DEF Greatest
<1>5. QED  BY <1>3, <1>4

\* The bounding rectangle of some points has each of them.
LEMMA BoundsContain ==
  ASSUME NEW S \in SUBSET Positions, S # {}
  PROVE  LET b == Bounds(S) IN
         /\ b.minX \in Int /\ b.maxX \in Int /\ b.minY \in Int /\ b.maxY \in Int
         /\ \A p \in S : /\ b.minX <= Milli(p.x) /\ Milli(p.x) <= b.maxX
                         /\ b.minY <= Milli(p.y) /\ Milli(p.y) <= b.maxY
         /\ -Milli(Quarter) <= b.minY /\ b.maxY <= Milli(Quarter)
<1> DEFINE xs == {Milli(p.x) : p \in S}
           ys == {Milli(p.y) : p \in S}
<1>1. \A p \in S : /\ p.x \in Int /\ -HalfTurn <= p.x /\ p.x <= HalfTurn
                   /\ p.y \in Int /\ -Quarter <= p.y /\ p.y <= Quarter
  BY PositionType
<1>2. xs # {} /\ ys # {}
  OBVIOUS
<1>3. xs \in SUBSET ((-Milli(HalfTurn))..Milli(HalfTurn))
  BY <1>1, Units DEF Milli
<1>4. ys \in SUBSET ((-Milli(Quarter))..Milli(Quarter))
  BY <1>1, Units DEF Milli
<1>5. \A p \in S : Milli(p.x) \in xs /\ Milli(p.y) \in ys
  OBVIOUS
<1>6. /\ Bounds(S).minX = Least(xs) /\ Bounds(S).maxX = Greatest(xs)
      /\ Bounds(S).minY = Least(ys) /\ Bounds(S).maxY = Greatest(ys)
  BY DEF Bounds, Rect
<1> HIDE DEF xs, ys
<1>7. /\ Least(xs) \in xs /\ \A k \in xs : Least(xs) <= k
      /\ Greatest(xs) \in xs /\ \A k \in xs : Greatest(xs) >= k
  <2>1. -Milli(HalfTurn) \in Int /\ Milli(HalfTurn) \in Int
    BY Units, MilliOrder
  <2>2. QED  BY <1>2, <1>3, <2>1, LeastGreatest
<1>8. /\ Least(ys) \in ys /\ \A k \in ys : Least(ys) <= k
      /\ Greatest(ys) \in ys /\ \A k \in ys : Greatest(ys) >= k
  <2>1. -Milli(Quarter) \in Int /\ Milli(Quarter) \in Int
    BY Units, MilliOrder
  <2>2. QED  BY <1>2, <1>4, <2>1, LeastGreatest
<1>9. \A p \in S : /\ Least(xs) <= Milli(p.x) /\ Milli(p.x) <= Greatest(xs)
                   /\ Least(ys) <= Milli(p.y) /\ Milli(p.y) <= Greatest(ys)
  BY <1>5, <1>7, <1>8, Zenon
<1>10. /\ Least(xs) \in Int /\ Greatest(xs) \in Int
       /\ Least(ys) \in (-Milli(Quarter))..Milli(Quarter)
       /\ Greatest(ys) \in (-Milli(Quarter))..Milli(Quarter)
  <2>1. Least(xs) \in (-Milli(HalfTurn))..Milli(HalfTurn)
        /\ Greatest(xs) \in (-Milli(HalfTurn))..Milli(HalfTurn)
        /\ Least(ys) \in (-Milli(Quarter))..Milli(Quarter)
        /\ Greatest(ys) \in (-Milli(Quarter))..Milli(Quarter)
    BY <1>3, <1>4, <1>7, <1>8, Zenon
  <2>2. QED  BY <2>1
<1>11. /\ Least(ys) \in Int /\ Greatest(ys) \in Int
       /\ -Milli(Quarter) <= Least(ys) /\ Greatest(ys) <= Milli(Quarter)
  BY <1>10, Units, MilliOrder
<1>12. QED  BY <1>6, <1>9, <1>10, <1>11, Zenon

-----------------------------------------------------------------------------
\* A quotient grows as its divisor shrinks.
LEMMA DivisionGrows ==
  ASSUME NEW a \in Nat, NEW c \in Nat, NEW d \in Nat, 0 < c, c <= d
  PROVE  a \div d <= a \div c
<1> DEFINE q == a \div d
           r == a \div c
<1>1. q \in Nat /\ r \in Nat
  OBVIOUS
<1>2. q * d <= a /\ a < (r + 1) * c
  OBVIOUS
<1> HIDE DEF q, r
<1>3. q * c <= q * d
  BY <1>1
<1>4. ASSUME q >= r + 1  PROVE FALSE
  <2>1. (r + 1) * c <= q * c
    BY <1>1, <1>4
  <2>2. (r + 1) * c \in Int /\ q * c \in Int /\ q * d \in Int
    BY <1>1
  <2>3. QED  BY <1>2, <1>3, <2>1, <2>2
<1>5. QED  BY <1>1, <1>4 DEF q, r

\* A distance is wider in longitude farther from the equator.
LEMMA WidenedGrows ==
  ASSUME NEW radius \in Nat, NEW a \in Nat, NEW b \in Nat, a <= b
  PROVE  /\ Widened(radius, b) \in Nat
         /\ Widened(radius, a) <= Widened(radius, b) \/ Widened(radius, b) = Milli(Turn)
<1> DEFINE k == Lesser(a, Quarter)
           m == Lesser(b, Quarter)
<1>1. k \in 0..Quarter /\ m \in 0..Quarter /\ k <= m
  BY Units DEF Lesser
<1>2. Cos(k) \in Nat /\ Cos(m) \in Nat /\ Cos(m) <= Cos(k)
  BY <1>1, CosineOfLatitude
<1>3. CASE Cos(m) > 0
  <2>1. Widened(radius, b) = (1000000 * radius) \div Cos(m)
        /\ Widened(radius, a) = (1000000 * radius) \div Cos(k)
    BY <1>2, <1>3 DEF Widened
  <2>2. 1000000 * radius \in Nat
    OBVIOUS
  <2>3. (1000000 * radius) \div Cos(m) \in Nat
    BY <1>2, <1>3, <2>2
  <2>4. QED  BY <1>2, <1>3, <2>1, <2>2, <2>3, DivisionGrows
<1>4. CASE Cos(m) = 0
  BY <1>4, Units DEF Widened, Milli
<1>5. QED  BY <1>2, <1>3, <1>4

\* A latitude clamped at the poles is still beyond those between them.
LEMMA ClampKeeps ==
  ASSUME NEW n \in Int, NEW y \in -Quarter..Quarter
  PROVE  /\ Clamp(n) \in Int
         /\ n <= Milli(y) => Clamp(n) <= Milli(y)
         /\ Milli(y) <= n => Milli(y) <= Clamp(n)
<1>1. /\ Milli(y) \in Int /\ Milli(Quarter) \in Int
      /\ -Milli(Quarter) <= Milli(y) /\ Milli(y) <= Milli(Quarter)
  BY Units DEF Milli
<1>2. QED  BY <1>1 DEF Clamp, Greater, Lesser

LEMMA AbsNat ==
  ASSUME NEW n \in Int
  PROVE  Abs(n) \in Nat /\ n <= Abs(n) /\ -n <= Abs(n)
BY DEF Abs

\* The envelope of a candidate has what is near one of its points, but for whole
\* turns: the longitudes of all its points are widened by what the latitude
\* farthest from the equator needs.
LEMMA EnvelopeCovers ==
  ASSUME NEW points \in Points, NEW radius \in Radii, NEW p \in points,
         NEW r \in RuleIds, NEW q \in Arcs[r], Near(p, q, radius)
  PROVE  LET e == expand_envelope(Bounds(points), radius) IN
         /\ e.minX \in Int /\ e.maxX \in Int /\ e.minY \in Int /\ e.maxY \in Int
         /\ e.minY <= Milli(q.y) /\ Milli(q.y) <= e.maxY
         /\ \E shift \in {-Turn, 0, Turn} :
              e.minX < Milli(q.x + shift) /\ Milli(q.x + shift) < e.maxX
<1> DEFINE b == Bounds(points)
           e == expand_envelope(b, radius)
           latMin == b.minY - Milli(radius)
           latMax == b.maxY + Milli(radius)
           latitude == Greater(Abs(latMin), Abs(latMax)) \div 1000
           dLon == Widened(radius, latitude)
<1>1. radius \in Nat /\ radius >= 1
  BY DistanceAssumption, Units
<1>2. p \in Positions /\ q \in Positions
  BY PointsArePositions
<1>3. /\ p.x \in Int /\ -HalfTurn <= p.x /\ p.x <= HalfTurn
      /\ p.y \in Int /\ -Quarter <= p.y /\ p.y <= Quarter
      /\ q.x \in Int /\ -HalfTurn <= q.x /\ q.x <= HalfTurn
      /\ q.y \in Int /\ -Quarter <= q.y /\ q.y <= Quarter
  BY <1>2, PositionType
<1>4. /\ b.minX \in Int /\ b.maxX \in Int /\ b.minY \in Int /\ b.maxY \in Int
      /\ b.minX <= Milli(p.x) /\ Milli(p.x) <= b.maxX
      /\ b.minY <= Milli(p.y) /\ Milli(p.y) <= b.maxY
  <2>1. points # {} /\ points \in SUBSET Positions
    BY PointsArePositions
  <2> HIDE DEF b
  <2>2. b = Bounds(points)
    BY DEF b
  <2>3. QED  BY <2>1, <2>2, BoundsContain
<1>5. /\ e.minX = b.minX - dLon /\ e.maxX = b.maxX + dLon
      /\ e.minY = Clamp(latMin) /\ e.maxY = Clamp(latMax)
  BY DEF expand_envelope, Rect
<1> HIDE DEF b, e
<1>6. /\ Abs(q.y - p.y) <= radius
      /\ \E shift \in {-Turn, 0, Turn} :
           Milli(Abs(q.x + shift - p.x)) < Widened(radius, Abs(p.y) + radius)
  <2>1. p \in UNION Points /\ q \in UNION {Arcs[s] : s \in RuleIds}
    OBVIOUS
  <2>2. QED  BY <2>1, SphereAssumption, Zenon
<1>7. latMin \in Int /\ latMax \in Int /\ Milli(radius) \in Int
  BY <1>1, <1>4 DEF Milli
<1>8. latitude \in Nat /\ Abs(p.y) + radius \in Nat /\ Abs(p.y) + radius <= latitude
  <2>1. Abs(latMin) \in Nat /\ Abs(latMax) \in Nat
    BY <1>7, AbsNat
  <2>2. Milli(Abs(p.y) + radius) <= Greater(Abs(latMin), Abs(latMax))
    BY <1>1, <1>3, <1>4 DEF Milli, Abs, Greater
  <2> HIDE DEF latMin, latMax
  <2>3. QED  BY <1>1, <1>3, <2>1, <2>2 DEF Milli, Abs, Greater
<1> HIDE DEF latitude
<1>9. dLon \in Nat /\ (dLon = Milli(Turn)
                       \/ Widened(radius, Abs(p.y) + radius) <= dLon)
  BY <1>1, <1>8, WidenedGrows
<1> HIDE DEF dLon
<1>10. \E shift \in {-Turn, 0, Turn} : Milli(Abs(q.x + shift - p.x)) < dLon
  <2>1. CASE dLon = Milli(Turn)
    <3>1. \E shift \in {-Turn, 0, Turn} : Abs(q.x + shift - p.x) < Turn
      BY <1>3, Units DEF Abs
    <3>2. PICK shift \in {-Turn, 0, Turn} : Abs(q.x + shift - p.x) < Turn
      BY <3>1
    <3>3. Abs(q.x + shift - p.x) \in Int
      BY <1>3, Units DEF Abs
    <3>4. QED  BY <2>1, <3>2, <3>3, Units DEF Milli
  <2>2. CASE Widened(radius, Abs(p.y) + radius) <= dLon
    <3>1. PICK shift \in {-Turn, 0, Turn} :
            Milli(Abs(q.x + shift - p.x)) < Widened(radius, Abs(p.y) + radius)
      BY <1>6
    <3>2. Milli(Abs(q.x + shift - p.x)) \in Int
      BY <1>3, Units DEF Abs, Milli
    <3>3. Widened(radius, Abs(p.y) + radius) \in Nat
      BY <1>1, <1>8, WidenedGrows
    <3>4. QED  BY <1>9, <2>2, <3>1, <3>2, <3>3
  <2>3. QED  BY <1>9, <2>1, <2>2
<1>11. \E shift \in {-Turn, 0, Turn} :
         e.minX < Milli(q.x + shift) /\ Milli(q.x + shift) < e.maxX
  <2>1. PICK shift \in {-Turn, 0, Turn} : Milli(Abs(q.x + shift - p.x)) < dLon
    BY <1>10
  <2>2. shift \in Int
    BY Units
  <2>3. e.minX < Milli(q.x + shift) /\ Milli(q.x + shift) < e.maxX
    BY <1>3, <1>4, <1>5, <1>9, <2>1, <2>2 DEF Milli, Abs
  <2>4. QED  BY <2>3
<1>12. e.minY <= Milli(q.y) /\ Milli(q.y) <= e.maxY /\ e.minY \in Int /\ e.maxY \in Int
  <2>1. latMin <= Milli(q.y) /\ Milli(q.y) <= latMax
    BY <1>1, <1>3, <1>4, <1>6 DEF Milli, Abs
  <2>2. q.y \in -Quarter..Quarter
    BY <1>3, Units
  <2> HIDE DEF latMin, latMax
  <2>3. QED  BY <1>5, <1>7, <2>1, <2>2, ClampKeeps
<1>13. e.minX \in Int /\ e.maxX \in Int
  BY <1>4, <1>5, <1>9
<1>14. QED  BY <1>11, <1>12, <1>13 DEF e, b

\* What lies across the antimeridian is in the piece that was split off.
LEMMA WrappedCovers ==
  ASSUME NEW e, e.minX \in Int, e.maxX \in Int,
         e = Rect(e.minX, e.minY, e.maxX, e.maxY),
         NEW x \in Int, -HalfTurn <= x, x <= HalfTurn,
         \E shift \in {-Turn, 0, Turn} :
           e.minX < Milli(x + shift) /\ Milli(x + shift) < e.maxX
  PROVE  \E w \in Wrapped(e) : /\ w.minX <= Milli(x) /\ Milli(x) <= w.maxX
                               /\ w.minY = e.minY /\ w.maxY = e.maxY
<1>1. Milli(x) \in Int /\ West <= Milli(x) /\ Milli(x) <= East
      /\ West \in Int /\ East \in Int
  BY Units DEF Milli, West, East
<1>2. CASE e.minX < Milli(x) /\ Milli(x) < e.maxX
  BY <1>1, <1>2 DEF Wrapped
<1>3. CASE e.minX < Milli(x - Turn) /\ Milli(x - Turn) < e.maxX
  <2> DEFINE w == [e EXCEPT !.minX = e.minX + Milli(Turn), !.maxX = East]
  <2>1. e.minX < West /\ e.minX + Milli(Turn) <= Milli(x)
    BY <1>3, Units DEF Milli, West
  <2>2. w \in Wrapped(e)
    BY <2>1 DEF Wrapped
  <2>3. w.minX = e.minX + Milli(Turn) /\ w.maxX = East
        /\ w.minY = e.minY /\ w.maxY = e.maxY
    BY DEF Rect
  <2> HIDE DEF w
  <2>4. QED  BY <1>1, <2>1, <2>2, <2>3
<1>4. CASE e.minX < Milli(x + Turn) /\ Milli(x + Turn) < e.maxX
  <2> DEFINE w == [e EXCEPT !.minX = West, !.maxX = e.maxX - Milli(Turn)]
  <2>1. e.maxX > East /\ Milli(x) <= e.maxX - Milli(Turn)
    BY <1>4, Units DEF Milli, East
  <2>2. w \in Wrapped(e)
    BY <2>1 DEF Wrapped
  <2>3. w.minX = West /\ w.maxX = e.maxX - Milli(Turn)
        /\ w.minY = e.minY /\ w.maxY = e.maxY
    BY DEF Rect
  <2> HIDE DEF w
  <2>4. QED  BY <1>1, <2>1, <2>2, <2>3
<1>5. x + 0 = x /\ x + (-Turn) = x - Turn
  BY Units
<1>6. QED  BY <1>2, <1>3, <1>4, <1>5

\* A rule with a point of its arcs in an envelope is returned by one of the two
\* indexes: the box of the arcs is in the second, or in the box of the first.
LEMMA IndexesReturn ==
  ASSUME NEW r \in RuleIds, NEW q \in Arcs[r], NEW w,
         w.minX \in Int, w.maxX \in Int, w.minY \in Int, w.maxY \in Int,
         w.minX <= Milli(q.x), Milli(q.x) <= w.maxX,
         w.minY <= Milli(q.y), Milli(q.y) <= w.maxY
  PROVE  r \in extend_distance_hits(w, FringeEntries)
<1> DEFINE a == Bounds(Arcs[r])
           b == PlanarBox(r)
<1>1. q \in Positions /\ Arcs[r] # {} /\ Arcs[r] \in SUBSET Positions
      /\ Vertices[r] # {} /\ Vertices[r] \in SUBSET Positions
  BY PointsArePositions
<1>2. /\ a.minX \in Int /\ a.maxX \in Int /\ a.minY \in Int /\ a.maxY \in Int
      /\ a.minX <= Milli(q.x) /\ Milli(q.x) <= a.maxX
      /\ a.minY <= Milli(q.y) /\ Milli(q.y) <= a.maxY
  BY <1>1, BoundsContain
<1>3. b.minX \in Int /\ b.maxX \in Int /\ b.minY \in Int /\ b.maxY \in Int
  BY <1>1, BoundsContain DEF PlanarBox
<1>4. Milli(q.x) \in Int /\ Milli(q.y) \in Int
  BY <1>1, PositionType, MilliOrder
<1>5. CASE contains_rect(b, a)
  <2>1. rects_intersect(b, w)
    <3> HIDE DEF a, b
    <3>1. QED  BY <1>2, <1>3, <1>4, <1>5 DEF contains_rect, rects_intersect
  <2>2. [rect |-> b, id |-> r] \in PlanarEntries
    BY DEF PlanarEntries
  <2>3. r \in QueryEnvelope(PlanarEntries, w)
    <3> HIDE DEF b
    <3>1. QED  BY <2>1, <2>2 DEF QueryEnvelope
  <2>4. QED  BY <2>3 DEF extend_distance_hits
<1>6. CASE ~contains_rect(b, a)
  <2>1. rects_intersect(a, w)
    <3> HIDE DEF a
    <3>1. QED  BY <1>2, <1>4 DEF rects_intersect
  <2>2. [rect |-> a, id |-> r] \in FringeEntries
    BY <1>6 DEF FringeEntries, fringe_box
  <2>3. r \in QueryEnvelope(FringeEntries, w)
    <3> HIDE DEF a
    <3>1. QED  BY <2>1, <2>2 DEF QueryEnvelope
  <2>4. QED  BY <2>3 DEF extend_distance_hits
<1>7. QED  BY <1>5, <1>6

LEMMA BoundsOfOne ==
  ASSUME NEW p \in Positions
  PROVE  /\ Bounds({p}).minX = Milli(p.x) /\ Bounds({p}).maxX = Milli(p.x)
         /\ Bounds({p}).minY = Milli(p.y) /\ Bounds({p}).maxY = Milli(p.y)
<1>1. {Milli(k.x) : k \in {p}} = {Milli(p.x)} /\ {Milli(k.y) : k \in {p}} = {Milli(p.y)}
  OBVIOUS
<1>2. \A n \in Int : Least({n}) = n /\ Greatest({n}) = n
  BY DEF Least, Greatest
<1>3. Milli(p.x) \in Int /\ Milli(p.y) \in Int
  BY PositionType, MilliOrder
<1>4. /\ Bounds({p}).minX = Least({Milli(p.x)}) /\ Bounds({p}).maxX = Greatest({Milli(p.x)})
      /\ Bounds({p}).minY = Least({Milli(p.y)}) /\ Bounds({p}).maxY = Greatest({Milli(p.y)})
  BY <1>1 DEF Bounds, Rect
<1>5. QED  BY <1>2, <1>3, <1>4

\* The envelope of a candidate has the candidate.
LEMMA EnvelopeKeeps ==
  ASSUME NEW points \in Points, NEW radius \in Radii, NEW p \in points
  PROVE  LET e == expand_envelope(Bounds(points), radius) IN
         /\ e.minX \in Int /\ e.maxX \in Int /\ e.minY \in Int /\ e.maxY \in Int
         /\ e.minX <= Milli(p.x) /\ Milli(p.x) <= e.maxX
         /\ e.minY <= Milli(p.y) /\ Milli(p.y) <= e.maxY
<1> DEFINE b == Bounds(points)
           e == expand_envelope(b, radius)
           latMin == b.minY - Milli(radius)
           latMax == b.maxY + Milli(radius)
           latitude == Greater(Abs(latMin), Abs(latMax)) \div 1000
           dLon == Widened(radius, latitude)
<1>1. radius \in Nat /\ Milli(radius) \in Nat
  BY DistanceAssumption, Units DEF Milli
<1>2. p.y \in -Quarter..Quarter /\ Milli(p.x) \in Int /\ Milli(p.y) \in Int
  <2>1. p \in Positions
    BY PointsArePositions
  <2>2. p.x \in Int /\ p.y \in Int /\ -Quarter <= p.y /\ p.y <= Quarter
    BY <2>1, PositionType
  <2>3. QED  BY <2>2, Units DEF Milli
<1>3. /\ b.minX \in Int /\ b.maxX \in Int /\ b.minY \in Int /\ b.maxY \in Int
      /\ b.minX <= Milli(p.x) /\ Milli(p.x) <= b.maxX
      /\ b.minY <= Milli(p.y) /\ Milli(p.y) <= b.maxY
  <2>1. points # {} /\ points \in SUBSET Positions
    BY PointsArePositions
  <2> HIDE DEF b
  <2>2. b = Bounds(points)
    BY DEF b
  <2>3. QED  BY <2>1, <2>2, BoundsContain
<1>4. /\ e.minX = b.minX - dLon /\ e.maxX = b.maxX + dLon
      /\ e.minY = Clamp(latMin) /\ e.maxY = Clamp(latMax)
  BY DEF expand_envelope, Rect
<1> HIDE DEF b, e
<1>5. latMin \in Int /\ latMax \in Int /\ latMin <= Milli(p.y) /\ Milli(p.y) <= latMax
  BY <1>1, <1>2, <1>3
<1> HIDE DEF latMin, latMax
<1>6. latitude \in Nat
  <2>1. Greater(Abs(latMin), Abs(latMax)) \in Nat
    BY <1>5, AbsNat DEF Greater
  <2>2. QED  BY <2>1
<1> HIDE DEF latitude
<1>7. dLon \in Nat
  <2>1. latitude <= latitude
    BY <1>6
  <2>2. QED  BY <1>1, <1>6, <2>1, WidenedGrows
<1> HIDE DEF dLon
<1>8. e.minX \in Int /\ e.maxX \in Int /\ e.minX <= Milli(p.x) /\ Milli(p.x) <= e.maxX
  BY <1>2, <1>3, <1>4, <1>7
<1>9. e.minY \in Int /\ e.maxY \in Int /\ e.minY <= Milli(p.y) /\ Milli(p.y) <= e.maxY
  BY <1>2, <1>4, <1>5, ClampKeeps
<1>10. QED  BY <1>8, <1>9 DEF e, b

\* What the indexes return for the envelope and its pieces is every rule within
\* the distance.
LEMMA HitsHaveWithin ==
  ASSUME NEW points \in Points, NEW radius \in Radii, NEW r \in RuleIds,
         WithinDistance(points, r, radius)
  PROVE  \E w \in Wrapped(expand_envelope(Bounds(points), radius)) :
           r \in extend_distance_hits(w, FringeEntries)
<1> DEFINE e == expand_envelope(Bounds(points), radius)
<1>1. PICK p \in points : \/ rects_intersect(PlanarBox(r), Bounds({p}))
                         \/ \E q \in Arcs[r] : Near(p, q, radius)
  BY DEF WithinDistance
<1>2. CASE rects_intersect(PlanarBox(r), Bounds({p}))
  <2> DEFINE b == PlanarBox(r)
  <2>1. p \in Positions /\ Milli(p.x) \in Int /\ Milli(p.y) \in Int
    BY PointsArePositions, PositionType, MilliOrder
  <2>2. /\ b.minX <= Milli(p.x) /\ b.maxX >= Milli(p.x)
        /\ b.minY <= Milli(p.y) /\ b.maxY >= Milli(p.y)
    <3>1. /\ Bounds({p}).minX = Milli(p.x) /\ Bounds({p}).maxX = Milli(p.x)
          /\ Bounds({p}).minY = Milli(p.y) /\ Bounds({p}).maxY = Milli(p.y)
      BY <2>1, BoundsOfOne
    <3> HIDE DEF b
    <3>2. QED  BY <1>2, <3>1 DEF rects_intersect, b
  <2>3. b.minX \in Int /\ b.maxX \in Int /\ b.minY \in Int /\ b.maxY \in Int
    BY PointsArePositions, BoundsContain DEF PlanarBox
  <2>4. [rect |-> b, id |-> r] \in PlanarEntries
    BY DEF PlanarEntries
  <2>5. /\ e.minX \in Int /\ e.maxX \in Int /\ e.minY \in Int /\ e.maxY \in Int
        /\ e.minX <= Milli(p.x) /\ Milli(p.x) <= e.maxX
        /\ e.minY <= Milli(p.y) /\ Milli(p.y) <= e.maxY
    BY EnvelopeKeeps
  <2> HIDE DEF b, e
  <2>6. rects_intersect(b, e)
    BY <2>1, <2>2, <2>3, <2>5 DEF rects_intersect
  <2>7. r \in extend_distance_hits(e, FringeEntries)
    BY <2>4, <2>6 DEF QueryEnvelope, extend_distance_hits
  <2>8. e \in Wrapped(e)
    BY DEF Wrapped
  <2>9. QED  BY <2>7, <2>8 DEF e
<1>3. ASSUME NEW q \in Arcs[r], Near(p, q, radius)
      PROVE  \E w \in Wrapped(e) : r \in extend_distance_hits(w, FringeEntries)
  <2>1. /\ e.minX \in Int /\ e.maxX \in Int /\ e.minY \in Int /\ e.maxY \in Int
        /\ e.minY <= Milli(q.y) /\ Milli(q.y) <= e.maxY
        /\ \E shift \in {-Turn, 0, Turn} :
             e.minX < Milli(q.x + shift) /\ Milli(q.x + shift) < e.maxX
    BY <1>3, EnvelopeCovers
  <2>2. e = Rect(e.minX, e.minY, e.maxX, e.maxY)
    BY DEF expand_envelope, Rect
  <2>3. q.x \in Int /\ -HalfTurn <= q.x /\ q.x <= HalfTurn
    BY PointsArePositions, PositionType
  <2> HIDE DEF e
  <2>4. PICK w \in Wrapped(e) : /\ w.minX <= Milli(q.x) /\ Milli(q.x) <= w.maxX
                               /\ w.minY = e.minY /\ w.maxY = e.maxY
    BY <2>1, <2>2, <2>3, WrappedCovers
  <2>5. w.minX \in Int /\ w.maxX \in Int
    <3>1. Milli(Turn) \in Int /\ West \in Int /\ East \in Int
      BY Units DEF Milli, West, East
    <3>2. DOMAIN e = {"minX", "minY", "maxX", "maxY"}
      BY <2>2 DEF Rect
    <3>3. \/ w = e
          \/ w = [e EXCEPT !.minX = e.minX + Milli(Turn), !.maxX = East]
          \/ w = [e EXCEPT !.minX = West, !.maxX = e.maxX - Milli(Turn)]
      BY DEF Wrapped
    <3>4. CASE w = e
      BY <2>1, <3>4
    <3>5. CASE w = [e EXCEPT !.minX = e.minX + Milli(Turn), !.maxX = East]
      <4>1. w.minX = e.minX + Milli(Turn) /\ w.maxX = East
        BY <3>2, <3>5, Zenon
      <4>2. QED  BY <2>1, <3>1, <4>1
    <3>6. CASE w = [e EXCEPT !.minX = West, !.maxX = e.maxX - Milli(Turn)]
      <4>1. w.minX = West /\ w.maxX = e.maxX - Milli(Turn)
        BY <3>2, <3>6, Zenon
      <4>2. QED  BY <2>1, <3>1, <4>1
    <3>7. QED  BY <3>3, <3>4, <3>5, <3>6
  <2>6. r \in extend_distance_hits(w, FringeEntries)
    BY <2>1, <2>4, <2>5, IndexesReturn
  <2>7. QED  BY <2>6
<1>4. QED  BY <1>1, <1>2, <1>3

-----------------------------------------------------------------------------
\* There is no fringe index but that of the ruleset, and an answer is of the
\* rules within its distance.
DistanceInv ==
  /\ fringe_index \subseteq {FringeEntries}
  /\ \/ answer = Unanswered
     \/ /\ answer.points \in Points /\ answer.distance \in Radii
        /\ answer.within = {r \in RuleIds :
                              WithinDistance(answer.points, r, answer.distance)}

LEMMA DistanceInvHolds == Spec => []DistanceInv
<1>1. Init => DistanceInv
  BY DEF Init, DistanceInv
<1>2. DistanceInv /\ [Next]_vars => DistanceInv'
  <2> SUFFICES ASSUME DistanceInv, [Next]_vars  PROVE DistanceInv'
    OBVIOUS
  <2>1. ASSUME NEW points \in Points, NEW radius \in Radii,
               AdmitWithinDistance(points, radius)
        PROVE  DistanceInv'
    <3>1. GetOrInit = {FringeEntries}
      BY DEF DistanceInv, GetOrInit
    <3>2. fringe_index' = {FringeEntries}
      BY <2>1, <3>1 DEF AdmitWithinDistance
    <3> DEFINE hits == UNION {extend_distance_hits(e, FringeEntries) :
                                e \in Wrapped(expand_envelope(Bounds(points), radius))}
    <3>3. answer' = [points |-> points, distance |-> radius,
                     within |-> {r \in hits : WithinDistance(points, r, radius)}]
      <4>1. UNION GetOrInit = FringeEntries
        BY <3>1
      <4>2. QED  BY <2>1, <4>1, Zenon DEF AdmitWithinDistance
    <3>4. hits \subseteq RuleIds
      BY DEF extend_distance_hits, QueryEnvelope, PlanarEntries, FringeEntries
    <3>5. \A r \in RuleIds : WithinDistance(points, r, radius) => r \in hits
      BY HitsHaveWithin
    <3> HIDE DEF hits
    <3>6. {r \in hits : WithinDistance(points, r, radius)}
            = {r \in RuleIds : WithinDistance(points, r, radius)}
      BY <3>4, <3>5
    <3>7. QED  BY <3>2, <3>3, <3>6 DEF DistanceInv
  <2>2. CASE Collect
    BY <2>2 DEF DistanceInv, Collect
  <2>3. CASE UNCHANGED vars
    BY <2>3 DEF DistanceInv, vars
  <2>4. QED  BY <2>1, <2>2, <2>3 DEF Next
<1>3. QED  BY <1>1, <1>2, PTL DEF Spec

\* The variables have their types: the index of a ruleset is built once, from
\* the boxes of its arcs, and serves every later query.
THEOREM DistanceTypeCorrect == Spec => []DistanceTypeOK
<1>1. DistanceInv => DistanceTypeOK
  <2> SUFFICES ASSUME DistanceInv  PROVE DistanceTypeOK
    OBVIOUS
  <2>1. fringe_index = {} \/ fringe_index = {FringeEntries}
    BY DEF DistanceInv
  <2>2. Cardinality(fringe_index) <= 1
    <3>1. CASE fringe_index = {}
      BY <3>1, FS_EmptySet
    <3>2. CASE fringe_index = {FringeEntries}
      <4>1. Cardinality({FringeEntries}) = 1
        BY FS_Singleton
      <4>2. QED  BY <3>2, <4>1
    <3>3. QED  BY <2>1, <3>1, <3>2
  <2>3. answer.points \in Points \cup {{}} /\ answer.within \subseteq RuleIds
    BY DEF DistanceInv, Unanswered
  <2>4. QED  BY <2>1, <2>2, <2>3 DEF DistanceTypeOK
<1>2. QED  BY <1>1, DistanceInvHolds, PTL

\* "A within-N rule is never dropped": whatever the candidate, the rules and the
\* distance, the answer has every rule within it and no other.
THEOREM RulesAreNeverDropped == Spec => []NeverDrops
<1>1. DistanceInv => NeverDrops
  BY DEF DistanceInv, NeverDrops
<1>2. QED  BY <1>1, DistanceInvHolds, PTL
=============================================================================
