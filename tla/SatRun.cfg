\* Two threads: two that compete for empty pages, one that drains the valid
\* pages when it is stopped beside one that copies, one that copies beside one
\* that keeps pages in a file, and so on.  Five pages are the fewest with two
\* that are marked empty.
CONSTANTS
  Threads = {t1, t2}
  Page = {p1, p2, p3, p4, p5}
  Pattern = {a, b}
  Crews = {{"copy"}, {"copy", "check"}, {"copy", "file"}, {"net", "invert"},
           {"file", "check"}}
  DiskPages = 2
  MaxFaults = 1
  None = None
SYMMETRY Symmetry
SPECIFICATION Spec
INVARIANTS
  TypeOK
  FillFillsAll
  NoFalseError
  PassMeansChecked
  CorruptionIsReported
