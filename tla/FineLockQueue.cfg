\* Two threads on three pages (the walk has modulus 8 and skips the values
\* beyond the queue); walks of every queue size up to 40.
CONSTANTS
  Threads = {t1, t2}
  Main = t1
  QSize = 3
  PageTag <- MCPageTag
  Calls <- MCCalls
  None = none
  MaxHeld = 2
  MaxSize = 40
SPECIFICATION FairSpec
INVARIANTS
  TypeOK
  LockIsOwnership
  FailIsJustified
PROPERTIES
  GetReturns
  ImplementsPagePool
