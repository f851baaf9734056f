----------------------------- MODULE MCDistance -----------------------------
(***************************************************************************)
(* Distance for TLC.  A unit is 5 degrees; candidates and rules are on a   *)
(* grid of 10 degrees and the radii between its points, so that no         *)
(* distance is a tie the thousandths of the cosines could not decide.      *)
(***************************************************************************)
EXTENDS Distance

MCCosines == <<1000, 996, 985, 966, 940, 906, 866, 819, 766, 707, 643, 574, 500,
               423, 342, 259, 174, 87, 0>>

Point(x, y) == [x |-> x, y |-> y]
Even(a, b) == {n \in a..b : n % 2 = 0}
Meridian(x, y1, y2) == {Point(x, y) : y \in Even(y1, y2)}

Corners(x1, y1, x2, y2) == {Point(x, y) : x \in {x1, x2}, y \in {y1, y2}}

\* Edges of 60 degrees to either side at 50 and 60 degrees north: their arcs
\* reach 67 and 74.
NordicArcs == Meridian(-12, 10, 12) \cup Meridian(12, 10, 12)
                \cup {Point(x, 14) : x \in Even(-8, 8)}

\* Edges half a turn long, over the pole.
PolarArcs == Meridian(0, 12, 18) \cup Meridian(36, 12, 18)

\* Beside the antimeridian, on either side.
EastArcs == {Point(x, y) : x \in Even(30, 36), y \in {-4, 4}}
              \cup Meridian(30, -4, 4) \cup Meridian(36, -4, 4)
WestArcs == {Point(x, y) : x \in Even(-36, -32), y \in {6, 8}}

\* Vertices on both sides of it: the rectangle goes the long way round, its
\* edges the short one.
AcrossArcs == {Point(x, y) : x \in {-36, -34, 34, 36}, y \in {0, 2}}

\* With two vertices at the south pole.
AntarcticArcs == Meridian(-6, -18, -16) \cup Meridian(-2, -18, -16) \cup {Point(-4, -16)}

MCVertices == <<Corners(-12, 10, 12, 12), Corners(0, 12, 36, 14), Corners(30, -4, 36, 4),
                Corners(-36, 6, -32, 8), Corners(-34, 0, 34, 2), Corners(-6, -18, -2, -16)>>
MCArcs == <<NordicArcs, PolarArcs, EastArcs, WestArcs, AcrossArcs, AntarcticArcs>>

Grid == {Point(x, y) : x \in Even(-36, 36), y \in Even(-18, 18)}

\* A point anywhere, and two points of a coarser grid.
Coarse == {p \in Grid : p.x % 12 = 0 /\ p.y % 4 = 2}
MCPoints == {{p} : p \in Grid} \cup {{p, q} : p, q \in Coarse}
=============================================================================
