------------------------- MODULE StaticInitializer -------------------------
(***************************************************************************)
(* StaticInitializer::initialize (ov_init/src/static/): the platform stood *)
(* still, so the mean of the readings shows gravity and the biases.  The   *)
(* readings are their stamps; whether they vary more than init_imu_thresh  *)
(* in either half of the window is given.                                  *)
(***************************************************************************)
EXTENDS Filter

\* The readings less than halves of half a window older than the newest, from that age on.
Half(imu, window, halves) ==
  Kept(imu, {t \in Nat : LET age == 2 * (Last(imu) - t)
                         IN  halves * window <= age /\ age < (halves + 1) * window})

window_1to0(imu, window) == Half(imu, window, 0)
window_2to1(imu, window) == Half(imu, window, 1)

\* Both halves of the window can be filled.
HasWindow(imu, window) ==
  /\ Len(imu) >= 2
  /\ Last(imu) - Head(imu) >= window
  /\ Len(window_1to0(imu, window)) >= 2 /\ Len(window_2to1(imu, window)) >= 2

\* A jerk ends a stand, or there is only the stand.
StoodStill(excited_1to0, excited_2to1, wait_for_jerk) ==
  IF wait_for_jerk THEN excited_1to0 /\ ~excited_2to1 ELSE ~excited_1to0 /\ ~excited_2to1

\* The time of the initial state: the newest reading that the mean is of.
static_timestamp(imu, window) == Last(window_2to1(imu, window))
=============================================================================
