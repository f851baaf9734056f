\* Liveness needs the threads told apart: no symmetry.
CONSTANTS
  Threads = {t1, t2, t3}
  NoThread = NoThread
  MaxCalls = 1
SPECIFICATION FairSpec
PROPERTY SnapshotsDoNotWaitForBuilds
PROPERTY SwapsDoNotWaitForQueries
