\* Seven nodes with keys from four, so that there are duplicates: the first trees
\* whose links a rotation below the root has spoilt, and that are used after it.
SPECIFICATION FairSpec
CONSTANTS
  MaxNodes = 7
  Keys = {1, 2, 3, 4}
  key_compare <- MemCmp
CHECK_DEADLOCK FALSE
INVARIANTS
  TypeOK
  RootBlack
  NoRedRed
  PrintRestores
PROPERTY CallsReturn
