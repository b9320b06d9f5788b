\* Two workers and the main thread add, delete and modify timers of their own.
SPECIFICATION FairSpec
CONSTANTS
  Main = Main
  w1 = w1
  w2 = w2
  t1 = t1
  t2 = t2
  t3 = t3
  Workers = {w1, w2}
  Timers = {t1, t2, t3}
  owner <- ThreeOwners
  OpsOf <- ThreeUses
  ExpiriesOf <- OneExpiry
  Readings = {0, 3}
  Fini = TRUE
  Loop = "timeval"
  NSEC_PER_SEC = 4
  NSEC_PER_USEC = 2
  ULONG_MAX = 15
  Infinity = 32
  HEAP_DEFAULT_SIZE = 2
  HEAP_DEFAULT_INCREASE_SIZE = 1
  QueueBound = 3
  NoThread = NoThread
  NoTimer = NoTimer
CHECK_DEADLOCK FALSE
INVARIANTS
  TypeOK
  QueueIsActive
  NoMissedReschedule
  TimesExact
PROPERTY MainWakes
