\* Owners hash and unhash, everybody looks up, holds, puts and walks, the table goes away.
SPECIFICATION FairSpec
CONSTANTS
  Threads = {t1, t2}
  Elems = {e1, e2}
  Keys = {0, 1, 2}
  mask = 1
  Ops = {"hash", "unhash", "lookup", "hold", "foreach", "foreach_read", "fini"}
  hashfn <- IdentityHash
  band <- BitAnd
  NoElem = NoElem
  NoThread = NoThread
CHECK_DEADLOCK FALSE
INVARIANTS
  TypeOK
  RefsCounted
  NoUseAfterFree
  KeysUnique
  WalkInChain
  ForeachComplete
PROPERTIES
  CountTracks
  LocksReleased
