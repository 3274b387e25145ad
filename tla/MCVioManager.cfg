\* One camera: landmarks compete for one place, tracks for one place in the update; still or
\* moving.  Two cameras, images of one or of both: late ones, or still ones.
SPECIFICATION Spec
CONSTANTS
  f1 = f1
  f2 = f2
  Settings <- MCSettings
  Stamps = {1, 2, 3, 4, 5, 6, 7}
  Cams = {0, 1}
  Feats = {f1, f2}
  max_clone_size = 2
  max_slam_features = 1
  max_msckf_in_update = 1
  MinClones = 2
  RequiredMeas = 1
  SlamFrom = 0
  InitWindow = 1
  zupt_only_at_beginning = FALSE
INVARIANTS
  SlamBudget
  LostLandmarksMarginalized
  UnclonedBounded
  MeasurementsUsedOnce
  NeverStops
PROPERTY ImplementsSlidingWindow
\* the stamps are used up in the end
CHECK_DEADLOCK FALSE
