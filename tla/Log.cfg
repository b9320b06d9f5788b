SPECIFICATION Spec
CONSTANTS
  Threads = {t1, t2}
  Dbgs = {d1}
  Files = {f1}
  Levels = {1, 4}
  NULL = NULL
INVARIANT ErrorsToStderr
CHECK_DEADLOCK FALSE
