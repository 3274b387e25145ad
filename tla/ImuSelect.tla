----------------------------- MODULE ImuSelect -----------------------------
(***************************************************************************)
(* Propagator::select_imu_readings (ov_msckf/src/state/Propagator.cpp):    *)
(* the readings to integrate between two instants, with one interpolated   *)
(* at either end.                                                          *)
(*                                                                         *)
(* A reading of the buffer is its time stamp.  A selected one is an        *)
(* instant and the buffered readings its value is made from: one of them   *)
(* if the instant is that reading's, two if it is a blend of both, none if *)
(* the blend is 0/0.                                                       *)
(***************************************************************************)
EXTENDS Filter

Raw(t) == [timestamp |-> t, from |-> {t}]

\* interpolate_data, also outside of [a, b].
interpolate_data(a, b, t) ==
  [timestamp |-> t, from |-> IF a = b THEN {} ELSE IF t \in {a, b} THEN {t} ELSE {a, b}]

\* CASE 1, the start of the period: it is between two readings.
IsStart(imu, i, time0) == imu[i] < time0 /\ time0 < imu[i + 1]

\* Mistake: the reading just before the end is left out.
IsMiddleStrict(imu, i, time0, time1) ==
  ~IsStart(imu, i, time0) /\ imu[i] >= time0 /\ imu[i + 1] < time1

\* CASE 2, its middle.
IsMiddle(imu, i, time0, time1) ==
  ~IsStart(imu, i, time0) /\ imu[i] >= time0 /\ imu[i + 1] <= time1

\* CASE 3, its end.
IsEnd(imu, i, time0, time1) ==
  ~IsStart(imu, i, time0) /\ ~IsMiddle(imu, i, time0, time1) /\ time1 < imu[i + 1]

\* The loop breaks at the first CASE 3.
Iterations(imu, time0, time1) ==
  LET all  == 1..(Len(imu) - 1)
      ends == {i \in all : IsEnd(imu, i, time0, time1)}
  IN  IF ends = {} THEN Len(imu) - 1 ELSE Min(ends)

\* What the loop appends at the end of the period.
AtEnd(imu, i, time1) ==
  IF imu[i] > time1 THEN IF i = 1 THEN <<>> ELSE <<interpolate_data(imu[i - 1], imu[i], time1)>>
  ELSE IF imu[i] = time1 THEN <<Raw(time1)>>
  ELSE <<Raw(imu[i]), interpolate_data(imu[i], imu[i + 1], time1)>>

\* What iteration i of the loop appends.
Appended(imu, i, time0, time1) ==
  CASE IsStart(imu, i, time0)         -> <<interpolate_data(imu[i], imu[i + 1], time0)>>
    [] IsMiddle(imu, i, time0, time1) -> <<Raw(imu[i])>>
    [] IsEnd(imu, i, time0, time1)    -> AtEnd(imu, i, time1)
    [] OTHER                          -> <<>>

Collected(imu, time0, time1) ==
  FlattenSeq([i \in 1..Iterations(imu, time0, time1) |-> Appended(imu, i, time0, time1)])

\* The last two readings are stretched to the end of the period if it is not reached.
Stretched(imu, data, time1) ==
  IF data = <<>> \/ Last(data).timestamp = time1 THEN data
  ELSE Append(data, interpolate_data(imu[Len(imu) - 1], imu[Len(imu)], time1))

\* Of neighbours with the same time the last stays.
WithoutZeroDt(data) ==
  FlattenSeq([i \in DOMAIN data |->
    IF i # Len(data) /\ data[i].timestamp = data[i + 1].timestamp THEN <<>> ELSE <<data[i]>>])

select_imu_readings(imu, time0, time1) ==
  IF imu = <<>> THEN <<>> ELSE WithoutZeroDt(Stretched(imu, Collected(imu, time0, time1), time1))

\* InitializerHelper::select_imu_readings: the same without the stretch, so that the end
\* of the period may not be reached.
select_within(imu, time0, time1) ==
  IF imu = <<>> THEN <<>> ELSE WithoutZeroDt(Collected(imu, time0, time1))

\* dt_summed: the time that integrating them covers.
TimeCovered(data) ==
  IF Len(data) < 2 THEN 0 ELSE Last(data).timestamp - Head(data).timestamp
=============================================================================
