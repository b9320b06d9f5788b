\* All kinds of threads, all outcomes of poll().
SPECIFICATION FairSpec
CONSTANTS
  Raisers = {r1, r2}
  Waiters = {w1, w2, w3}
  Clearers = {c1}
  Timeouts = {"finite", "infinite"}
  Interrupts = TRUE
INVARIANTS
  TypeOK
  PipeBounded
  WaitingCounts
PROPERTIES
  ImplementsEvent
  RaiseWakes
  DestroyReleases
CHECK_DEADLOCK FALSE
