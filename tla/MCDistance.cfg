\* Every candidate of the grid against the rules where a box filter goes wrong.
CONSTANTS
  Cosines <- MCCosines
  Vertices <- MCVertices
  Arcs <- MCArcs
  Points <- MCPoints
  Radii = {3, 7}
SPECIFICATION Spec
INVARIANT DistanceTypeOK
INVARIANT NeverDrops
