\* One thread, each pose after the one before by more than the clocks differ.
SPECIFICATION Spec
CONSTANTS
  Horizon = 8
  MaxUpdates = 2
  Offsets = {0, 1}
  Threads = FALSE
  Forward = TRUE
INVARIANTS
  FreshAfterUpdate
  FirstPoseOnCameraClock
\* readings end at the horizon
CHECK_DEADLOCK FALSE
