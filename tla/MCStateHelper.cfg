\* Blocks of sizes 4 (IMU), 3 (clone), 2, 3, 1, 3, 1 (calibration), 2 (landmark).
SPECIFICATION Spec
CONSTANTS
  f1 = f1
  f2 = f2
  tag = tag
  Stamps = {0, 1, 2, 3, 4, 5}
  Feats <- MCFeats
  Aruco = {tag}
  NumCalib = 5
  NumIntrinsics = 1
  CalibSize <- MCCalibSize
  ImuSize = 4
  PoseSize = 3
  FeatSize = 2
  max_clone_size = 2
  EnoughClones = 2
  Cams = {1, 2}
  Pose <- MCPose
  Intrinsics <- MCIntrinsics
  Relative = TRUE
  FullSize = 2
  Inspected = {0, 1, 2}
  MaxMeas = 2
  Updated <- MCUpdated
INVARIANTS
  TypeOK
  BlocksDescribeVariables
  RowsPartitioned
  ContainersAgree
  AnchorsInWindow
  NeverExits
  WindowBounded
  LinearizationsReadAsWritten
PROPERTY CovarianceIsSlidingWindow
\* the stamps are used up in the end
CHECK_DEADLOCK FALSE
