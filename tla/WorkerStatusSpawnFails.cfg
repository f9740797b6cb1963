\* A worker that was counted but never started: PauseWorkers() hangs.
CONSTANTS
  Workers = {w1, w2}
  Control = control
  HAVE_PTHREAD_BARRIERS = TRUE
  SpawnMayFail = TRUE
SPECIFICATION FairSpec
PROPERTY PauseReturns
CHECK_DEADLOCK FALSE
