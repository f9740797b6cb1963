\* Two instances in parallel: failures, a signal, timeouts, all interleavings.
CONSTANTS
  NumRuns = 1
  PerRun = 2
  OptionSets = {{"timeout"}, {"max_ops"}, {"timeout", "abort"}, {"timeout", "aggressive"}}
  Faults = {"FAILURE", "fork", "oom"}
  MaxSignals = 1
  MaxSoftKills = 1
SPECIFICATION FairSpec
INVARIANTS
  ReapedBeforeReport
  ExitStatusIsHonest
PROPERTIES
  RunEnds
  SignalEndsRun
\* An instance without a timeout may stress for ever.
CHECK_DEADLOCK FALSE
