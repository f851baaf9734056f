------------------------------ MODULE Distance ------------------------------
(***************************************************************************)
(* withinDistance: the pre-filter that must not lose a rule, and the exact *)
(* check behind it (admit_within_distance and expand_envelope of           *)
(* core/src/runtime/evaluate.rs, core/src/indexing/spatial_index.rs,       *)
(* core/src/model/spherical_envelope.rs).                                  *)
(*                                                                         *)
(* Angles are counted in units of which a quarter turn has Quarter, the    *)
(* sides of rectangles in thousandths of it.  A rule is a rectangle of     *)
(* longitudes and latitudes, given by its vertices, and the points at      *)
(* which the great circles of its edges are sampled, which may lie outside *)
(* its planar box.                                                         *)
(***************************************************************************)
EXTENDS Integers, Sequences, FiniteSets

CONSTANTS Cosines,   \* the cosine of 0, 1, .. Quarter units, in thousandths
          Vertices,  \* the vertices of each rule
          Arcs,      \* the vertices and the sampled points of its edges
          Points,    \* bound: the sets of points a candidate may have
          Radii      \* bound: the distances of the queries, in units

Thousandths == 0..1000

Quarter  == Len(Cosines) - 1
HalfTurn == 2 * Quarter
Turn     == 4 * Quarter

RuleIds == DOMAIN Vertices

Positions == [x : -HalfTurn..HalfTurn, y : -Quarter..Quarter]

ASSUME DistanceAssumption ==
  /\ Quarter \in Nat \ {0}
  /\ Cosines \in Seq(Thousandths)
  /\ \A a, b \in 1..(Quarter + 1) : a <= b => Cosines[a] >= Cosines[b]
  /\ \A r \in RuleIds : /\ Vertices[r] # {} /\ Vertices[r] \subseteq Arcs[r]
                        /\ Arcs[r] \subseteq Positions
  /\ \A s \in Points : s # {} /\ s \subseteq Positions
  /\ Radii \subseteq 1..Quarter

VARIABLES fringe_index,  \* the OnceLock of the ruleset: at most one index
          answer         \* the rules admitted for the candidate just evaluated

vars == <<fringe_index, answer>>

Unanswered == [points |-> {}, distance |-> 0, within |-> {}]

-----------------------------------------------------------------------------
Abs(n)    == IF n < 0 THEN -n ELSE n
Lesser(a, b)  == IF a < b THEN a ELSE b
Greater(a, b) == IF a > b THEN a ELSE b

Least(S)    == CHOOSE n \in S : \A k \in S : n <= k
Greatest(S) == CHOOSE n \in S : \A k \in S : n >= k

\* The sides of rectangles are counted in thousandths of a unit.
Milli(n) == 1000 * n

Rect(minX, minY, maxX, maxY) ==
  [minX |-> minX, minY |-> minY, maxX |-> maxX, maxY |-> maxY]

\* The bounding rectangle of some points.
Bounds(points) ==
  LET xs == {Milli(p.x) : p \in points}  ys == {Milli(p.y) : p \in points} IN
  Rect(Least(xs), Least(ys), Greatest(xs), Greatest(ys))

PlanarBox(r) == Bounds(Vertices[r])

\* cos and sin of an angle of up to a whole turn.
Cos(angle) ==
  LET a == Abs(angle)
      b == IF a > HalfTurn THEN Turn - a ELSE a
  IN  IF b <= Quarter THEN Cosines[b + 1] ELSE -Cosines[HalfTurn - b + 1]
Sin(angle) == Cos(Quarter - angle)

\* Whether two points of the sphere are at most an angle apart: the cosine of
\* the angle between them, in 10^-9, against that of the radius.
Near(p, q, radius) ==
  1000 * Sin(p.y) * Sin(q.y) + Cos(p.y) * Cos(q.y) * Cos(p.x - q.x)
    >= 1000000 * Cos(radius)

contains_rect(outer, inner) ==
  /\ inner.minX >= outer.minX /\ inner.maxX <= outer.maxX
  /\ inner.minY >= outer.minY /\ inner.maxY <= outer.maxY

rects_intersect(a, b) ==
  /\ a.minX <= b.maxX /\ a.maxX >= b.minX
  /\ a.minY <= b.maxY /\ a.maxY >= b.minY

\* min_haversine_distance(...) <= distance: 0 inside the rule, else the distance
\* to the closest point of its edges.
WithinDistance(points, r, radius) ==
  \E p \in points :
    \/ rects_intersect(PlanarBox(r), Bounds({p}))
    \/ \E q \in Arcs[r] : Near(p, q, radius)

\* One box per rule whose arcs leave the planar box; none for the others.  The
\* margin added to the box covers what lies between two samples.
fringe_box(r) ==
  LET box == Bounds(Arcs[r]) IN
  IF contains_rect(PlanarBox(r), box) THEN {} ELSE {box}

Clamp(n) == Greater(-Milli(Quarter), Lesser(Milli(Quarter), n))

\* The width in longitude of a radius, by the cosine of a latitude in units.
Widened(radius, latitude) ==
  LET cosine == Cos(Lesser(latitude, Quarter)) IN
  IF cosine > 0 THEN (1000000 * radius) \div cosine ELSE Milli(Turn)

\* What the spherical geometry of the cosines is relied on for: points within a
\* distance differ by no more than it in latitude and, going the shorter way
\* round, by less in longitude than the distance is wide at the latitude it
\* reaches.
ASSUME SphereAssumption ==
  \A p \in UNION Points, q \in UNION {Arcs[r] : r \in RuleIds}, radius \in Radii :
    Near(p, q, radius) =>
      /\ Abs(q.y - p.y) <= radius
      /\ \E shift \in {-Turn, 0, Turn} :
           Milli(Abs(q.x + shift - p.x)) < Widened(radius, Abs(p.y) + radius)

\* Mutant: the longitudes are widened by what they need at the candidate.
ExpandAtCandidate(bbox, radius) ==
  LET dLon == Widened(radius, Greater(Abs(bbox.minY), Abs(bbox.maxY)) \div 1000)
  IN  Rect(bbox.minX - dLon, Clamp(bbox.minY - Milli(radius)),
           bbox.maxX + dLon, Clamp(bbox.maxY + Milli(radius)))

\* The longitudes are widened by what the latitude farthest from the equator
\* needs.
expand_envelope(bbox, radius) ==
  LET latMin == bbox.minY - Milli(radius)
      latMax == bbox.maxY + Milli(radius)
      dLon   == Widened(radius, Greater(Abs(latMin), Abs(latMax)) \div 1000)
  IN  Rect(bbox.minX - dLon, Clamp(latMin), bbox.maxX + dLon, Clamp(latMax))

West == -Milli(HalfTurn)
East == Milli(HalfTurn)

\* Mutant: what lies across +180 is not queried.
WrappedWest(e) ==
  {e} \cup (IF e.minX < West
              THEN {[e EXCEPT !.minX = e.minX + Milli(Turn), !.maxX = East]} ELSE {})

\* The envelope and what of it lies across the antimeridian.
Wrapped(e) ==
  {e} \cup (IF e.minX < West
              THEN {[e EXCEPT !.minX = e.minX + Milli(Turn), !.maxX = East]} ELSE {})
      \cup (IF e.maxX > East
              THEN {[e EXCEPT !.minX = West, !.maxX = e.maxX - Milli(Turn)]} ELSE {})

-----------------------------------------------------------------------------
\* query_envelope_into, of either index.
QueryEnvelope(entries, envelope) ==
  {entry.id : entry \in {n \in entries : rects_intersect(n.rect, envelope)}}

PlanarEntries == {[rect |-> PlanarBox(r), id |-> r] : r \in RuleIds}
FringeEntries == UNION {{[rect |-> b, id |-> r] : b \in fringe_box(r)} : r \in RuleIds}

\* Mutant: the planar boxes are indexed twice.
GetOrInitPlanar == IF fringe_index = {} THEN {PlanarEntries} ELSE fringe_index

\* fringe_index.get_or_init, by the first distance query.
GetOrInit == IF fringe_index = {} THEN {FringeEntries} ELSE fringe_index

extend_distance_hits(envelope, fringe) ==
  QueryEnvelope(PlanarEntries, envelope) \cup QueryEnvelope(fringe, envelope)

AdmitWithinDistance(points, radius) ==
  LET hits == UNION {extend_distance_hits(e, UNION GetOrInit) :
                       e \in Wrapped(expand_envelope(Bounds(points), radius))}
  IN /\ answer = Unanswered
     /\ fringe_index' = GetOrInit
     /\ answer' = [points |-> points, distance |-> radius,
                   within |-> {r \in hits : WithinDistance(points, r, radius)}]

Collect == answer # Unanswered /\ answer' = Unanswered /\ UNCHANGED fringe_index

Init == fringe_index = {} /\ answer = Unanswered

Next ==
  \/ \E points \in Points, radius \in Radii : AdmitWithinDistance(points, radius)
  \/ Collect

Spec == Init /\ [][Next]_vars

-----------------------------------------------------------------------------
DistanceTypeOK ==
  /\ fringe_index \subseteq {FringeEntries} /\ Cardinality(fringe_index) <= 1
  /\ answer.points \in Points \cup {{}}
  /\ answer.within \subseteq RuleIds

\* "A within-N rule is never dropped": what the indexes return is checked
\* exactly, and every rule within the distance is among it, for one point or
\* several, over the poles and across the antimeridian, for arcs that leave
\* their rule's box.
NeverDrops ==
  answer # Unanswered =>
    answer.within = {r \in RuleIds : WithinDistance(answer.points, r, answer.distance)}
=============================================================================
