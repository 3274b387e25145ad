------------------------------ MODULE Bspline ------------------------------
(***************************************************************************)
(* Where a trajectory's B-spline has poses                                 *)
(* (ov_core/src/sim/BsplineSE3.cpp).  A trajectory is the stamps of its    *)
(* poses; the poses themselves are left out.                               *)
(***************************************************************************)
EXTENDS Integers, Sequences, FiniteSets, FiniteSetsExt

CONSTANT MinDt     \* control points are at least 0.05 s apart

\* The mean step of the trajectory (a whole number of ticks here), or MinDt.
ControlDt(traj) == Max({MinDt, (Max(traj) - Min(traj)) \div (Cardinality(traj) - 1)})

\* The poses at t or before and after t: none, or <<t0, t1>>.
find_bounding_poses(t, poses) ==
  LET older == {p \in poses : p <= t}
      newer == {p \in poses : p > t}
  IN  IF older = {} \/ newer = {} THEN <<>> ELSE <<Max(older), Min(newer)>>

\* feed_trajectory: control points at equal distances, while there are bounding poses.
\* The last pose of the trajectory is not used.
ControlPoints(traj) ==
  LET poses == traj \ {Max(traj)}
      steps == 0..((Max(traj) - Min(traj)) \div ControlDt(traj))
  IN  {t \in {Min(traj) + k * ControlDt(traj) : k \in steps} : find_bounding_poses(t, poses) # <<>>}

\* timestamp_start: "we need at least two older control points".
SplineStart(traj) == Min(traj) + 2 * ControlDt(traj)

\* The points around t and those beside them: none, or four.
find_bounding_control_points(t, points) ==
  LET b == find_bounding_poses(t, points)
  IN  IF b = <<>> \/ b[1] = Min(points) \/ b[2] = Max(points) THEN <<>>
      ELSE <<Max({p \in points : p < b[1]}), b[1], b[2], Min({p \in points : p > b[2]})>>

\* get_pose, get_velocity and get_acceleration return true.
HasPose(points, t) == find_bounding_control_points(t, points) # <<>>
=============================================================================
