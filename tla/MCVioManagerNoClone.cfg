\* Late images with zero velocity updates: the clone of an image that is triangulated is missing.
SPECIFICATION Spec
CONSTANTS
  f1 = f1
  f2 = f2
  Settings <- LateAndStill
  Stamps = {1, 2, 3}
  Cams = {0, 1}
  Feats = {f1}
  max_clone_size = 1
  max_slam_features = 1
  max_msckf_in_update = 1
  MinClones = 1
  RequiredMeas = 1
  SlamFrom = 0
  InitWindow = 1
  zupt_only_at_beginning = FALSE
INVARIANT CloneOfImageExists
\* the stamps are used up in the end
CHECK_DEADLOCK FALSE
