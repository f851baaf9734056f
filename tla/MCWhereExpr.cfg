\* Two rules, each value spelled in every way, from GeoJSON and from canonical
\* rulesets the engine has written.
CONSTANTS
  IntLimit = 40
  NaN = 1000
  RuleDocuments <- Rulesets
  Wheres <- Clauses
  Fields <- MCFields
  WindowField = "x"
  HandWritten = FALSE
  None = None
SPECIFICATION Spec
INVARIANT TypeOK
INVARIANT IndexAdmitsWhatAScanAdmits
INVARIANT MismatchesDoNotMatch
INVARIANT EqualityIsOfValues
