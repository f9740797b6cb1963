\* A stressor fails and leaves its bogo-op counter in the non-ready state.
CONSTANTS
  NumRuns = 1
  PerRun = 2
  OptionSets = {{"timeout"}}
  Faults = {"FAILURE", "UNTRUSTWORTHY"}
  MaxSignals = 0
  MaxSoftKills = 5
SPECIFICATION Spec
INVARIANT FailureIsReported
