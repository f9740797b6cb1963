\* The affinity loop of --aggressive reaps a failed instance.
CONSTANTS
  NumRuns = 1
  PerRun = 2
  OptionSets = {{"timeout", "aggressive"}}
  Faults = {"FAILURE"}
  MaxSignals = 0
  MaxSoftKills = 5
SPECIFICATION Spec
INVARIANT FailureIsReported
