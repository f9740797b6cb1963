\* Two readers, four addresses, three blocks in flight, with a DiskThread that
\* marks its blocks as its comment says and with one that does not.
CONSTANTS
  Readers = {r1, r2}
  Addr = {a1, a2, a3, a4}
  Block = {b1, b2, b3, b4}
  Pattern = {p1, p2}
  None = none
  QueueSize = 2
  Marks = {TRUE, FALSE}
SYMMETRY Symmetry
SPECIFICATION Spec
INVARIANTS
  WriterReadsItsOwn
  TableConsistent
  ReferencesAreHolders
  TableIsInFlight
\* The process ends, or dies of a null pointer.
CHECK_DEADLOCK FALSE
