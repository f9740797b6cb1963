\* The second instance fails while the parent waits for the first.
CONSTANTS
  NumRuns = 1
  PerRun = 2
  OptionSets = {{"abort"}}
  Faults = {"FAILURE"}
  MaxSignals = 0
  MaxSoftKills = 5
SPECIFICATION FairSpec
PROPERTY AbortStopsAll
CHECK_DEADLOCK FALSE
