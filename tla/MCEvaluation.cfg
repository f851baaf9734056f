\* Three rules, of which two overlap: enough for a stale buffer, a rule hit by
\* two index queries, a tie, a key with several providers and a double count.
CONSTANTS
  IntLimit = 8
  NaN = 100
  RuleCount = 3
  Footprint <- MCFootprint
  Rulesets <- MCRulesets
  Queries <- MCQueries
  Geometries <- WoundAlike
  Fringed = {2}
  Wrapped = {1, 2}
SPECIFICATION Spec
INVARIANT TypeOK
INVARIANT MatchesAreExact
INVARIANT MasksTellTheOutcome
INVARIANT WinnerHasPrecedence
INVARIANT FirstProviderWins
INVARIANT AggregatesDescribeApplicable
INVARIANT SharesAreOfTheCandidate
