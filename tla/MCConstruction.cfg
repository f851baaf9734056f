\* Two rulesets, one after the other: a saved one is loaded, or one replaces
\* another while the caller holds a rule id of the first.
CONSTANTS
  IntLimit = 40
  NaN = 1000
  Documents <- MCDocuments
  Programs <- MCPrograms
  Ids = {1, 2, 3}
  MaxBuilds = 2
  None = None
SPECIFICATION Spec
CHECK_DEADLOCK FALSE
INVARIANT TypeOK
INVARIANT SavedRulesetsLoad
INVARIANT LookupFindsTheRule
INVARIANT HandlesNameTheirRule
INVARIANT PriorityFaultsAgree
