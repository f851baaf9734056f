\* Canonical rulesets written by hand or by another program.
CONSTANTS
  IntLimit = 40
  NaN = 1000
  RuleDocuments <- Rulesets
  Wheres <- Clauses
  Fields <- MCFields
  WindowField = "x"
  HandWritten = TRUE
  None = None
SPECIFICATION Spec
INVARIANT EqualityIsOfValues
