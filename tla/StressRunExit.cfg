\* The OOM killer strikes a running instance.
CONSTANTS
  NumRuns = 1
  PerRun = 2
  OptionSets = {{"timeout"}}
  Faults = {"oom"}
  MaxSignals = 0
  MaxSoftKills = 5
SPECIFICATION Spec
INVARIANT ExitIsDocumented
