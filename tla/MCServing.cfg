\* Two threads, three calls each: a thread can query, see the ruleset replaced
\* (by itself or by the other) and query again with a memo that is warm.
CONSTANTS
  Threads = {t1, t2}
  NoThread = NoThread
  MaxCalls = 3
  RuleIndexes = {i1, i2}
  BatchSize = 2
SPECIFICATION ServingSpec
SYMMETRY Symmetry
INVARIANT ServingTypeOK
INVARIANT SlotsBelongToKey
INVARIANT BatchSeesOneRuleset
PROPERTY SlotsAreFilledOnce
