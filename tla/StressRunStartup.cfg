\* A signal while the parent is still forking.
CONSTANTS
  NumRuns = 1
  PerRun = 2
  OptionSets = {{"timeout"}}
  Faults = {}
  MaxSignals = 1
  MaxSoftKills = 5
SPECIFICATION Spec
INVARIANT ParentCleansUp
