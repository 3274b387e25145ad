SPECIFICATION InitializerSpec
CONSTANTS
  c0 = c0
  c1 = c1
  Views <- MCViews
  FirstReading = 4
  LastReading = 12
  MaxDelay = 1
  Reserve = 3
  feat_thresh = 1
  init_disparity = TRUE
  init_static = TRUE
  init_dyn_use = TRUE
  wait_for_jerk = TRUE
  init_window_time = 6
  init_max_features = 1
  init_dyn_num_pose = 2
  min_num_meas = 2
  min_valid_features = 1
  calib_camimu_dt = 1
  MaxUncovered = 0
INVARIANTS
  SystemComplete
  ReadingsReachBack
  FactorsReadAsWritten
CHECK_DEADLOCK FALSE
