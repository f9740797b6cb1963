\* Three workers that all start; every order of pause, resume, stop and leaving.
CONSTANTS
  Workers = {w1, w2, w3}
  Control = control
  HAVE_PTHREAD_BARRIERS = TRUE
  SpawnMayFail = FALSE
SPECIFICATION FairSpec
INVARIANTS
  TypeOK
  PauseIsQuiet
  BarrierIdleWhenRebuilt
  NoWaitOnDeadBarrier
  ThresholdMatchesGroup
PROPERTIES
  PauseReturns
  RunTerminates
  ImplementsPauseService
