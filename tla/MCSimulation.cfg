SPECIFICATION FairSimulationSpec
CONSTANTS
  Programs = {"run_simulation", "test_dynamic_init"}
  Trajectories <- MCTrajectories
  Rates <- MCRates
  MinDt = 3
  MaxStill = 2
  MapStep = 6
  num_cameras = 2
  num_pts = 1
  calib_camimu_dt = 1
  Perturbed = {0, 1, 2, 3}
INVARIANT IdsOfOneCamera
PROPERTIES ImagesWithinReadings SimulationEnds
\* the programs end
CHECK_DEADLOCK FALSE
