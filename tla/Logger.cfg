\* Two workers and main, a queue of two lines, nobody asserts.
CONSTANTS
  Main = m
  Workers = {w1, w2}
  kMaxQueueSize = 2
  Asserts = {}
  Faults = {"write", "create"}
  MaxLines = 2
  MaxSpurious = 1
SPECIFICATION Spec
INVARIANTS
  TypeOK
  LinesInOrder
  FlushedAtStop
  QueueBound
PROPERTY
  ProcessEnds
\* The process exits; a state in which all wait violates ProcessEnds.
CHECK_DEADLOCK FALSE
