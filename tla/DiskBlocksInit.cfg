\* The DiskThread as it is written, with one reader.
CONSTANTS
  Readers = {r1}
  Addr = {a1, a2}
  Block = {b1, b2, b3}
  Pattern = {p1}
  None = none
  QueueSize = 1
  Marks = {FALSE}
SPECIFICATION Spec
INVARIANTS
  InFlightIsInitialized
CHECK_DEADLOCK FALSE
