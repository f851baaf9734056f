\* Three threads, two calls each: two replacements race, with a third thread
\* looking on before, between and after them.
CONSTANTS
  Threads = {t1, t2, t3}
  NoThread = NoThread
  MaxCalls = 2
SPECIFICATION Spec
SYMMETRY Symmetry
INVARIANT TypeOK
INVARIANT ReportDescribesPublished
INVARIANT IdsIdentify
INVARIANT WaitsAreShort
PROPERTY ImplementsAtomicEngine
