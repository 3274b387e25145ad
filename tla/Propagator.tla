----------------------------- MODULE Propagator -----------------------------
(***************************************************************************)
(* The IMU side of the filter: the buffers of the propagator and of the    *)
(* zero velocity updater (Propagator.h, UpdaterZeroVelocity.h), how long   *)
(* they keep readings (VioManager::feed_measurement_imu), and what each    *)
(* image integrates of them (Propagator::propagate_and_clone,              *)
(* UpdaterZeroVelocity::try_update).                                       *)
(*                                                                         *)
(* Images are stamped in the camera's clock, readings in the IMU's; the    *)
(* estimate t_off of their difference changes with every update.           *)
(***************************************************************************)
EXTENDS ImuSelect

CONSTANTS
  Slack,            \* the 0.10 s that are kept in reserve
  Horizon,          \* the time up to which readings come
  MaxGap,           \* at most this far from one reading to the next
  Offsets,          \* values of the estimate calib_dt_CAMtoIMU
  MaxDrift,         \* how much one update changes it
  InitWindow,       \* init_window_time
  max_clone_size,
  Buffered          \* images wait for the readings up to their time

Unset == 100        \* have_last_prop_time_offset = false

ASSUME PropagatorAssumption ==
  /\ Slack \in Nat /\ Horizon \in Nat /\ MaxGap \in Nat \ {0}
  /\ MaxDrift \in Nat /\ InitWindow \in Nat
  /\ Offsets \subseteq Int \ {Unset} /\ max_clone_size \in Nat \ {0}
  /\ Buffered \in BOOLEAN

VARIABLES
  try_zupt,         \* params.try_zupt
  newest,           \* the last reading fed, -1 before the first
  imu_data, zupt_imu_data,
  is_initialized_vio, timestamp, clones,
  t_off,            \* state->_calib_dt_CAMtoIMU
  prop_offset, zupt_offset, \* last_prop_time_offset of the propagator, of the updater
  integrated,       \* IMU time up to which readings went into the state
  gap,              \* IMU time the last propagation left out (or took twice, if < 0)
  crashed           \* the assertion on the integrated time failed

offsets == <<t_off, prop_offset, zupt_offset>>
vars == <<try_zupt, newest, imu_data, zupt_imu_data, is_initialized_vio, timestamp, clones, offsets,
          integrated, gap, crashed>>

Init ==
  /\ try_zupt \in BOOLEAN
  /\ newest = -1 /\ imu_data = <<>> /\ zupt_imu_data = <<>>
  /\ is_initialized_vio = FALSE /\ timestamp = -1 /\ clones = {}
  /\ t_off \in Offsets /\ prop_offset = Unset /\ zupt_offset = Unset
  /\ integrated = -1 /\ gap = 0 /\ crashed = FALSE

-----------------------------------------------------------------------------
\* clean_old_imu_measurements.
Cleaned(imu, oldest) == IF oldest < 0 THEN imu ELSE Kept(imu, Nat \ 0..(oldest - 1))

\* Mistake: readings are kept from the newest clone on.
FromNewestClone(t) ==
  IF ~is_initialized_vio THEN t - InitWindow + t_off - Slack
  ELSE IF clones = {} THEN -1 ELSE timestamp + 1

\* What is needed are readings from the oldest clone on, before the initialization from
\* the beginning of its window on.
OldestTime(t) ==
  IF ~is_initialized_vio THEN t - InitWindow + t_off - Slack
  ELSE IF clones = {} \/ Min(clones) > timestamp THEN -1 ELSE Min(clones)

Stored(imu, t) == Append(imu, t)

\* feed_measurement_imu.
FeedImu(t) ==
  /\ ~crashed
  /\ newest < t /\ (newest # -1 => t <= newest + MaxGap)
  /\ newest' = t
  /\ imu_data' = Cleaned(Stored(imu_data, t), OldestTime(t) - Slack)
  /\ zupt_imu_data' = IF is_initialized_vio /\ try_zupt
                      THEN Cleaned(Stored(zupt_imu_data, t), OldestTime(t) - Slack)
                      ELSE zupt_imu_data
  /\ UNCHANGED <<try_zupt, is_initialized_vio, timestamp, clones, offsets, integrated,
                 gap, crashed>>

\* try_to_initialize succeeds at a reading of the window (static initializer) or
\* the newest image's time (dynamic); the next image finds that.
Initialize(s) ==
  /\ ~is_initialized_vio
  /\ imu_data # <<>> /\ s + t_off \in Head(imu_data)..newest
  /\ s > newest - InitWindow
  /\ is_initialized_vio' = TRUE
  /\ timestamp' = s /\ integrated' = s + t_off
  /\ UNCHANGED <<try_zupt, newest, imu_data, zupt_imu_data, clones, offsets, gap, crashed>>

\* run_dataset feeds an image once a reading is newer; the images fed for one reading are
\* compared with the estimate t_off had before the first of them.
ImageReady(t) ==
  /\ ~crashed /\ is_initialized_vio /\ timestamp < t
  /\ Buffered => \E o \in Offsets : o - t_off \in -MaxDrift..MaxDrift /\ t < newest - o

ZuptOffset == IF zupt_offset = Unset THEN t_off ELSE zupt_offset

\* Mistake: the offset of the last propagation is not kept.
CurrentOffset == t_off

PropOffset == IF prop_offset = Unset THEN t_off ELSE prop_offset

\* An update changes t_off with the rest of the state.
Drift == t_off' \in {o \in Offsets : o - t_off \in -MaxDrift..MaxDrift}

\* The image at t is still: the updater takes the time between, and cleans both buffers.
ZeroVelocityUpdate(t) ==
  /\ ImageReady(t) /\ try_zupt
  /\ Len(select_imu_readings(zupt_imu_data, timestamp + ZuptOffset, t + t_off)) >= 2
  /\ zupt_offset' = t_off
  /\ timestamp' = t /\ integrated' = t + t_off
  /\ Drift
  /\ imu_data' = Cleaned(imu_data, t + t_off' - Slack)
  /\ zupt_imu_data' = Cleaned(zupt_imu_data, t + t_off' - Slack)
  /\ UNCHANGED <<try_zupt, newest, is_initialized_vio, clones, prop_offset, gap, crashed>>

\* It is not, or there are no readings to tell: propagate, clone and update.  The
\* updater was offered the image, unless it is disabled or this is the first image.
Propagate(t) ==
  /\ ImageReady(t)
  /\ zupt_offset' \in IF try_zupt THEN {t_off} \cup (IF clones = {} THEN {zupt_offset} ELSE {})
                      ELSE {zupt_offset}
  /\ LET time0 == timestamp + PropOffset
         time1 == t + t_off
         data  == select_imu_readings(imu_data, time0, time1)
     IN  /\ crashed' = (TimeCovered(data) # time1 - time0)
         /\ gap' = time0 - integrated
         /\ integrated' = time1
  /\ timestamp' = t
  /\ prop_offset' = t_off
  /\ Drift
  /\ clones' = IF Cardinality(clones) = max_clone_size
               THEN (clones \cup {t}) \ {Min(clones)} ELSE clones \cup {t}
  /\ UNCHANGED <<try_zupt, newest, imu_data, zupt_imu_data, is_initialized_vio>>

Next ==
  \E t \in 0..Horizon :
    FeedImu(t) \/ Initialize(t) \/ ZeroVelocityUpdate(t) \/ Propagate(t)

Spec == Init /\ [][Next]_vars
-----------------------------------------------------------------------------
\* The piecewise linear signal through the readings.
Signal(imu, t) ==
  IF t \in ToSet(imu) THEN Raw(t)
  ELSE [timestamp |-> t, from |-> {Max({r \in ToSet(imu) : r < t}), Min({r \in ToSet(imu) : r > t})}]

Selection(imu, time0, time1) ==
  LET between == Kept(imu, (time0 + 1)..(time1 - 1))
  IN  <<Signal(imu, time0)>> \o [i \in DOMAIN between |-> Raw(between[i])] \o <<Signal(imu, time1)>>

\* Of whatever is in the buffer, for whatever period: where the buffer reaches around it,
\* select_imu_readings gives the signal at both ends and every reading in between, once;
\* elsewhere what it gives still ends at the end of the period, goes forward without a zero
\* dt (the noise is divided by dt) and has no value 0/0 ("we should just stretch the last
\* measurement").
SelectsTheSignal ==
  \A time0 \in 0..Horizon : \A time1 \in (time0 + 1)..Horizon :
    LET data == select_imu_readings(imu_data, time0, time1)
    IN  imu_data # <<>> =>
          IF Head(imu_data) <= time0 /\ time1 <= Last(imu_data)
          THEN data = Selection(imu_data, time0, time1)
          ELSE /\ \A i \in 1..(Len(data) - 1) : data[i].timestamp < data[i + 1].timestamp
               /\ data # <<>> => Head(data).timestamp >= time0 /\ Last(data).timestamp = time1
               /\ \A i \in DOMAIN data : data[i].from # {}

\* "assert(std::abs((time1 - time0) - dt_summed) < 1e-4)": what is integrated for an
\* image covers the whole time between it and the last; no reading needed for that was
\* deleted before, though the buffer is cut with a stamp of the other clock.
IntegratesWholePeriod == ~crashed

\* The readings between two images go into the state once: the period integrated for an
\* image starts in the IMU's clock where the one before ended, also when the estimate of
\* the clocks' difference changed between them.  So it is without zero velocity updates.
NoGapWithoutZupt == ~try_zupt => gap = 0

\* "collect all imu readings that occured between the *current* state time and the new
\* time": so it is always.
NoGapBetweenPeriods == gap = 0
=============================================================================
