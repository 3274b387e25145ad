---------------------------- MODULE MCSimulation ----------------------------
(***************************************************************************)
(* A steady trajectory and an uneven one, with gaps that the spline must   *)
(* bridge.                                                                 *)
(***************************************************************************)
EXTENDS Simulation

MCTrajectories == {{0, 2, 4, 6, 8, 10, 12, 14, 16, 18}, {1, 2, 9, 10, 18, 21}}

MCRates == {[imu |-> 1, cam |-> 2], [imu |-> 2, cam |-> 3], [imu |-> 1, cam |-> 3]}
=============================================================================
