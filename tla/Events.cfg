SPECIFICATION FairSpec
CONSTANTS
  f1 = f1
  f2 = f2
  a = a
  b = b
  NoObject = NoObject
  Fds <- TwoFds
  Objects <- TwoObjects
  Masks <- OneshotAndLevel
  MaxEvents = 2
INVARIANTS
  TypeOK
  InterestHeld
  NoStaleInterest
  Revocable
PROPERTY
  Served
