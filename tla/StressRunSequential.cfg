\* Two stressors one after the other, everything may go wrong.
CONSTANTS
  NumRuns = 2
  PerRun = 1
  OptionSets = {{"timeout", "abort", "max_ops"}, {"timeout", "aggressive", "max_ops"},
                {"timeout", "no_group", "max_ops"}, {"dry_run"}}
  Faults = {"FAILURE", "NO_RESOURCE", "NOT_IMPLEMENTED", "UNTRUSTWORTHY",
            "fork", "handler", "oom", "sys_exit", "affinity"}
  MaxSignals = 2
  MaxSoftKills = 1
SPECIFICATION Spec
INVARIANTS
  TypeOK
  OneStressorAtATime
  ReapedBeforeReport
  ExitStatusIsHonest
