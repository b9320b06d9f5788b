\* Four threads share three buffers, so that the pool is often exhausted.
SPECIFICATION RingSpec
CONSTANTS
  Threads = {t1, t2, t3, t4}
  Bufs = {b1, b2, b3}
  NoThread = NoThread
  NoBuf = NoBuf
SYMMETRY Symmetry
INVARIANTS
  TypeOK
  RefsCounted
  Exclusive
  NoLeak
  RingsHold
