\* Two threads that refer to an element find it hashed and unhash it.
SPECIFICATION Spec
CONSTANTS
  Threads = {t1, t2}
  Elems = {e1}
  Keys = {0}
  mask = 0
  Ops = {"hash", "unhash", "unhash_any", "lookup"}
  hashfn <- IdentityHash
  band <- BitAnd
  NoElem = NoElem
  NoThread = NoThread
INVARIANT NoUseAfterFree
