\* The loop of timer_next_timeout, which lowers the signal last.
SPECIFICATION Spec
CONSTANTS
  Main = Main
  w1 = w1
  w2 = w2
  t1 = t1
  t2 = t2
  t3 = t3
  Workers = {w1}
  Timers = {t1}
  owner <- WorkerAndMain
  OpsOf <- AddOnly
  ExpiriesOf <- TwoExpiries
  Readings = {0}
  Fini = FALSE
  Loop = "usec"
  NSEC_PER_SEC = 4
  NSEC_PER_USEC = 2
  ULONG_MAX = 15
  Infinity = 32
  HEAP_DEFAULT_SIZE = 1
  HEAP_DEFAULT_INCREASE_SIZE = 1
  QueueBound = 2
  NoThread = NoThread
  NoTimer = NoTimer
INVARIANT NoMissedReschedule
