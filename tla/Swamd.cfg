\* Two slots, every failure, one file left behind.
CONSTANTS
  numchunks = 2
  chunksz = 2
  lower = 5
  upper = 5
  Files = {f1, f2, f3}
  TemplateOk = TRUE
  Bases = {0, 4, 8}
  IntMax = 7
  Faults = {"meminfo", "statfs", "nospace", "mkstemp", "write", "swapon",
            "swapoff", "unlink", "signal"}
  MaxLost = 1
SPECIFICATION FairSpec
INVARIANTS
  TypeOK
  BooksAreRight
  SwapOffIsValid
PROPERTIES
  ShortageIsAnswered
  Settles
