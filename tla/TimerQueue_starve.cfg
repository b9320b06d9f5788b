\* The main thread adds its timer again, for later, whenever it has fired.
SPECIFICATION FairSpec
CONSTANTS
  Main = Main
  w1 = w1
  w2 = w2
  t1 = t1
  t2 = t2
  t3 = t3
  Workers = {w1}
  Timers = {t1, t2}
  owner <- WorkerAndMain
  OpsOf <- AddOnly
  ExpiriesOf <- MainLater
  Readings = {0}
  Fini = FALSE
  Loop = "timespec"
  NSEC_PER_SEC = 4
  NSEC_PER_USEC = 2
  ULONG_MAX = 15
  Infinity = 32
  HEAP_DEFAULT_SIZE = 1
  HEAP_DEFAULT_INCREASE_SIZE = 1
  QueueBound = 3
  NoThread = NoThread
  NoTimer = NoTimer
PROPERTY EveryTimerFires
