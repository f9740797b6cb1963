\* The Android build has no barrier: PauseWorkers() returns too early.
CONSTANTS
  Workers = {w1, w2}
  Control = control
  HAVE_PTHREAD_BARRIERS = FALSE
  SpawnMayFail = FALSE
SPECIFICATION Spec
INVARIANT PauseIsQuiet
