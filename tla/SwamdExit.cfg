\* A signal while addswap() is at work.
CONSTANTS
  numchunks = 2
  chunksz = 2
  lower = 5
  upper = 5
  Files = {f1, f2, f3}
  TemplateOk = TRUE
  Bases = {0, 4, 8}
  IntMax = 7
  Faults = {"signal"}
  MaxLost = 1
SPECIFICATION FairSpec
INVARIANT CleanExit
