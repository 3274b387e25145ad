---------------------------- MODULE MCPropagator ----------------------------
(***************************************************************************)
(* Propagator with an estimate of the clocks' difference that changes by   *)
(* one step, and with the camera's clock far ahead of the IMU's.           *)
(***************************************************************************)
EXTENDS Propagator

OneStep   == {0, 1}
StepAhead == {-1, 0}
FarAhead  == {-4, -3}
=============================================================================
