--------------------------- MODULE DatasetRunner ---------------------------
(***************************************************************************)
(* The playback loop of ov_frontend/src/run_dataset.cpp: messages come in  *)
(* the order they were logged, two cameras' frames are paired, images wait *)
(* for a newer IMU reading, and what is left in the queue is fed after the *)
(* last message.  A message has the time it was logged at and the stamp    *)
(* its sensor gave it; in a recording these may differ.                    *)
(***************************************************************************)
EXTENDS Integers, Sequences, SequencesExt

CONSTANTS
  Rigs,            \* numbers of cameras
  Times,           \* stamps and log times
  MaxLatency,      \* a message is logged at most this long after its stamp
  ClockOffsets,    \* values of the estimate calib_dt_CAMtoIMU
  Stale,           \* the 0.5 s that an unmatched frame is kept
  Flush            \* the 1.0 s after the last reading that are still fed

ASSUME RunnerAssumption ==
  /\ Rigs \subseteq Nat \ {0} /\ Times \subseteq Nat
  /\ ClockOffsets \subseteq Int /\ ClockOffsets # {}
  /\ MaxLatency \in Nat /\ Stale \in Nat /\ Flush \in Nat

VARIABLES
  num_cams,        \* of the recording
  log,             \* logTime of the message last read
  last_imu_time,
  camera_queue,    \* images, as [stamp, sensor_ids, stamps]
  pending_pairs,   \* logTime -> the frames waiting for their partner
  frames,          \* all <<camera, stamp>> read
  fed,             \* the images fed to the VioManager
  finished

Cams == 0..(num_cams - 1)

stereo_pair == num_cams = 2

vars == <<num_cams, log, last_imu_time, camera_queue, pending_pairs, frames, fed,
          finished>>

Init ==
  /\ num_cams \in Rigs
  /\ log = 0 /\ last_imu_time = -1 /\ camera_queue = <<>>
  /\ pending_pairs = [k \in {} |-> <<>>]
  /\ frames = {} /\ fed = <<>> /\ finished = FALSE

-----------------------------------------------------------------------------
\* A message logged at l with stamp s is the next one.
NextMessage(l, s) ==
  /\ ~finished
  /\ l >= log /\ l - s \in 0..MaxLatency
  /\ log' = l

\* How many images at the front of the queue are older.
Ready(q, t) ==
  Max({0} \cup {n \in 1..Len(q) : \A i \in 1..n : q[i].timestamp < t})

\* Images older than t_imu on the camera's clock are fed.  The estimate of the clock
\* difference is read once: the filter may change it with each image it is fed.
process_camera_queue(t_imu) ==
  \E calib_dt \in ClockOffsets :
    LET n == Ready(camera_queue, t_imu - calib_dt)
    IN  /\ fed' = fed \o SubSeq(camera_queue, 1, n)
        /\ camera_queue' = SubSeq(camera_queue, n + 1, Len(camera_queue))

Imu(l, s) ==
  /\ NextMessage(l, s)
  /\ s > last_imu_time
  /\ last_imu_time' = s
  /\ process_camera_queue(s)
  /\ UNCHANGED <<num_cams, pending_pairs, frames, finished>>

\* The message made of one frame or two, with the stamp of the frame read first.
Message(F) ==
  [timestamp |-> F[1].stamp, sensor_ids |-> [i \in DOMAIN F |-> F[i].cam],
   stamps |-> {F[i].stamp : i \in DOMAIN F}]

\* A camera logs one frame at a time, with a stamp of its own.
NewFrame(c, l, s) ==
  /\ NextMessage(l, s)
  /\ <<c, s>> \notin frames
  /\ \A k \in DOMAIN pending_pairs : k = l => pending_pairs[k][1].cam # c
  /\ frames' = frames \cup {<<c, s>>}
  /\ UNCHANGED <<num_cams, last_imu_time, fed, finished>>

\* Mistake: the newest image in front.
PushFront(q, m) == <<m>> \o q

Enqueue(q, m) == Append(q, m)

\* One camera, or more than two: every frame is an image of its own.
SingleImage(c, l, s) ==
  /\ ~stereo_pair
  /\ NewFrame(c, l, s)
  /\ camera_queue' = Enqueue(camera_queue, Message(<<[cam |-> c, stamp |-> s]>>))
  /\ UNCHANGED pending_pairs

\* Camera 0 first.
BySensor(F) == IF F[1].cam > F[2].cam THEN Reverse(F) ELSE F

DropStale(p, l) == Restrict(p, {k \in DOMAIN p : l - k <= Stale})

\* The frame completes the pair of its log time, or waits for it.
StereoImage(c, l, s) ==
  /\ stereo_pair
  /\ NewFrame(c, l, s)
  /\ LET f == [cam |-> c, stamp |-> s]
     IN  IF l \in DOMAIN pending_pairs
         THEN LET F == pending_pairs[l] \o <<f>>
              IN  /\ camera_queue' =
                       Enqueue(camera_queue, [Message(BySensor(F)) EXCEPT !.timestamp = F[1].stamp])
                  /\ pending_pairs' = DropStale(Restrict(pending_pairs, DOMAIN pending_pairs \ {l}), l)
         ELSE /\ pending_pairs' = DropStale([k \in DOMAIN pending_pairs \cup {l} |->
                                       IF k = l THEN <<f>> ELSE pending_pairs[k]], l)
              /\ UNCHANGED camera_queue

\* Mistake: the queue is left as it is.
FlushNothing ==
  /\ ~finished /\ finished' = TRUE
  /\ UNCHANGED <<num_cams, log, last_imu_time, camera_queue, pending_pairs, frames, fed>>

\* After the last message.
Finish ==
  /\ ~finished /\ finished' = TRUE
  /\ IF last_imu_time > 0 THEN process_camera_queue(last_imu_time + Flush)
                          ELSE UNCHANGED <<fed, camera_queue>>
  /\ UNCHANGED <<num_cams, log, last_imu_time, pending_pairs, frames>>

Next ==
  \/ \E l, s \in Times : \/ Imu(l, s)
                         \/ \E c \in Cams : SingleImage(c, l, s) \/ StereoImage(c, l, s)
  \/ Finish

Spec == Init /\ [][Next]_vars
-----------------------------------------------------------------------------
\* Images reach the filter in the order of their stamps (it drops those that come late).
FedInOrder == \A i, j \in DOMAIN fed : i < j => fed[i].timestamp <= fed[j].timestamp

\* "pair stereo frames by exact timestamp": both frames of a pair have its stamp.
PairsShareStamp == \A i \in DOMAIN fed : fed[i].stamps = {fed[i].timestamp}

\* No image is left behind: in the end every frame (of two cameras: every one whose
\* partner was logged with it) that is not past the last reading by Flush, whatever the
\* clock difference, was fed, none twice.
EveryFrameFedOnce ==
  finished /\ last_imu_time > 0 =>
    \A f \in frames :
      /\ \A d \in ClockOffsets : f[2] + d < last_imu_time + Flush
      /\ stereo_pair => {<<0, f[2]>>, <<1, f[2]>>} \subseteq frames
      =>
        Cardinality({i \in DOMAIN fed : fed[i].timestamp = f[2] /\ Contains(fed[i].sensor_ids, f[1])}) = 1
=============================================================================
