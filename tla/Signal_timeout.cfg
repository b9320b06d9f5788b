\* One waiter that polls with a finite timeout, one raiser.
SPECIFICATION FairSpec
CONSTANTS
  Raisers = {r1}
  Waiters = {w1}
  Clearers = {}
  Timeouts = {"finite"}
  Interrupts = FALSE
PROPERTY EveryRaiseWakes
CHECK_DEADLOCK FALSE
