\* The template as shipped, with a C library that wants six X's; nothing fails.
CONSTANTS
  numchunks = 2
  chunksz = 2
  lower = 5
  upper = 5
  Files = {f1, f2, f3}
  TemplateOk = FALSE
  Bases = {0, 4, 8}
  IntMax = 7
  Faults = {}
  MaxLost = 1
SPECIFICATION FairSpec
PROPERTY ShortageAddsFile
