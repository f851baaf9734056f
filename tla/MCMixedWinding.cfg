\* A MultiPolygon candidate with one clockwise component.
CONSTANTS
  IntLimit = 8
  NaN = 100
  RuleCount = 3
  Footprint <- MCFootprint
  Rulesets <- MCRulesets
  Queries <- MCQueries
  Geometries <- WoundApart
  Fringed = {2, 3}
  Wrapped = {1, 2}
SPECIFICATION Spec
INVARIANT RatiosAreAtMostOne
