---------------------------- MODULE OfflineProofs ----------------------------
(***************************************************************************)
(* Proofs about the programs around the filter, each for any recording,    *)
(* results or trajectory: DatasetRunner, which feeds it a recording;       *)
(* McapReader, which reads one; Evaluation, of what it estimated; and      *)
(* Simulation, which makes up what it is fed.                              *)
(***************************************************************************)
EXTENDS DatasetRunner, McapReader, Evaluation, Simulation, DataFacts, FiniteSetTheorems

-----------------------------------------------------------------------------
(***************************************************************************)
(* Finite sets of numbers, and sequences as sets.                          *)
(***************************************************************************)
LEMMA LargestExists ==
  \A n \in Nat : \A S \in SUBSET Int :
    IsFiniteSet(S) /\ Cardinality(S) = n + 1 => \E m \in S : \A y \in S : y <= m
<1> DEFINE N == {n \in Nat : \A S \in SUBSET Int :
      IsFiniteSet(S) /\ Cardinality(S) = n + 1 => \E m \in S : \A y \in S : y <= m}
<1>1. 0 \in N
  <2> SUFFICES ASSUME NEW S \in SUBSET Int, IsFiniteSet(S), Cardinality(S) = 0 + 1
               PROVE  \E m \in S : \A y \in S : y <= m
    OBVIOUS
  <2>1. PICK x : S = {x}
    BY FS_Singleton
  <2> QED BY <2>1
<1>2. ASSUME NEW n \in Nat, n \in N PROVE n + 1 \in N
  <2> SUFFICES ASSUME NEW S \in SUBSET Int, IsFiniteSet(S), Cardinality(S) = n + 1 + 1
               PROVE  \E m \in S : \A y \in S : y <= m
    OBVIOUS
  <2>1. PICK x : x \in S
    BY FS_EmptySet
  <2>2. IsFiniteSet(S \ {x}) /\ Cardinality(S \ {x}) = n + 1
    BY <2>1, FS_RemoveElement
  <2>3. PICK m \in S \ {x} : \A y \in S \ {x} : y <= m
    BY <1>2, <2>2
  <2>4. \A y \in S : y <= m \/ y = x
    BY <2>3
  <2>5. CASE x <= m
    BY <2>3, <2>4, <2>5
  <2>6. CASE m <= x
    <3>1. \A y \in S : y <= x
      BY <2>1, <2>3, <2>4, <2>6
    <3> QED BY <2>1, <3>1
  <2> QED BY <2>1, <2>3, <2>5, <2>6
<1> HIDE DEF N
<1>3. Nat \subseteq N
  BY <1>1, <1>2, Inductive
<1> QED BY <1>3 DEF N

LEMMA MaxOfFinite ==
  ASSUME NEW S \in SUBSET Int, IsFiniteSet(S), S # {}
  PROVE  Max(S) \in S /\ \A y \in S : y <= Max(S)
<1>1. Cardinality(S) \in Nat /\ Cardinality(S) # 0
  BY FS_CardinalityType, FS_EmptySet
<1>2. Cardinality(S) - 1 \in Nat /\ Cardinality(S) = (Cardinality(S) - 1) + 1
  BY <1>1
<1>3. \E x \in S : \A y \in S : y <= x
  BY <1>2, LargestExists
<1>4. \E x \in S : \A y \in S : x >= y
  BY <1>3
<1>5. Max(S) \in S /\ \A y \in S : Max(S) >= y
  BY <1>4 DEF Max
<1> QED BY <1>5

LEMMA ToSetAppend ==
  ASSUME NEW T, NEW s \in Seq(T), NEW x \in T
  PROVE  ToSet(Append(s, x)) = ToSet(s) \cup {x}
<1> DEFINE r == Append(s, x)
<1>1. Len(s) \in Nat /\ r \in Seq(T) /\ DOMAIN r = 1..(Len(s) + 1) /\ DOMAIN s = 1..Len(s)
  OBVIOUS
<1>2. \A i \in 1..Len(s) : r[i] = s[i]
  OBVIOUS
<1>3. r[Len(s) + 1] = x
  OBVIOUS
<1> HIDE DEF r
<1>4. \A i \in 1..(Len(s) + 1) : i \in 1..Len(s) \/ i = Len(s) + 1
  BY <1>1
<1>5. \A y \in ToSet(r) : y \in ToSet(s) \cup {x}
  BY <1>1, <1>2, <1>3, <1>4 DEF ToSet
<1>6. \A y \in ToSet(s) \cup {x} : y \in ToSet(r)
  <2>1. \A i \in 1..Len(s) : i \in 1..(Len(s) + 1)
    BY <1>1
  <2> QED BY <1>1, <1>2, <1>3, <2>1 DEF ToSet
<1> QED BY <1>5, <1>6 DEF r

-----------------------------------------------------------------------------
(***************************************************************************)
(* Dataset runner: what process_camera_queue takes from the queue.         *)
(***************************************************************************)
Msgs == [timestamp : Nat, sensor_ids : Seq(Nat), stamps : SUBSET Nat]

\* The images taken are the longest beginning of the queue with stamps before t.
LEMMA ReadyImages ==
  ASSUME NEW q \in Seq(Msgs), NEW t \in Int
  PROVE  /\ Ready(q, t) \in 0..Len(q)
         /\ \A i \in 1..Ready(q, t) : q[i].timestamp < t
         /\ Ready(q, t) < Len(q) => ~(q[Ready(q, t) + 1].timestamp < t)
<1> DEFINE S == {0} \cup {n \in 1..Len(q) : \A i \in 1..n : q[i].timestamp < t}
<1>1. Len(q) \in Nat /\ S \in SUBSET (0..Len(q)) /\ S # {}
  OBVIOUS
<1>2. Ready(q, t) \in S /\ \A y \in S : y <= Ready(q, t)
  BY <1>1, MaxOfBounded DEF Ready
<1>3. \A i \in 1..Ready(q, t) : q[i].timestamp < t
  BY <1>2
<1>4. ASSUME Ready(q, t) < Len(q), q[Ready(q, t) + 1].timestamp < t PROVE FALSE
  <2> DEFINE m == Ready(q, t) + 1
  <2>1. m \in 1..Len(q) /\ \A i \in 1..m : i = m \/ i \in 1..Ready(q, t)
    BY <1>1, <1>2, <1>4
  <2>2. m \in S
    BY <1>3, <1>4, <2>1
  <2> QED BY <1>1, <1>2, <2>2
<1> QED BY <1>1, <1>2, <1>3, <1>4

-----------------------------------------------------------------------------
(***************************************************************************)
(* The images, fed and waiting, in the order they were put together.       *)
(***************************************************************************)
Images == fed \o camera_queue

RunnerTyped ==
  /\ num_cams \in Nat /\ log \in Nat /\ last_imu_time \in Int
  /\ camera_queue \in Seq(Msgs) /\ fed \in Seq(Msgs)
  /\ frames \subseteq Cams \X Nat

\* They are in order, and none is past the message last read.
ImagesInOrder ==
  /\ \A i, j \in DOMAIN Images : i < j => Images[i].timestamp <= Images[j].timestamp
  /\ \A i \in DOMAIN Images : Images[i].timestamp <= log

\* A frame without its partner waits for it, at least while messages of its time come.
PartnersWait ==
  /\ \A c \in Cams, s \in Nat : <<c, s>> \in frames => s <= log
  /\ \A k \in DOMAIN pending_pairs :
       /\ k \in Nat
       /\ \E c \in Cams : /\ pending_pairs[k] = <<[cam |-> c, stamp |-> k]>>
                          /\ \A d \in Cams : <<d, k>> \in frames <=> d = c
  /\ stereo_pair => \A c \in Cams :
       <<c, log>> \in frames /\ (\E d \in Cams : <<d, log>> \notin frames) =>
         log \in DOMAIN pending_pairs

\* The frame, and that of the other camera of a pair, has been read.
WholePair(c, s) == <<c, s>> \in frames /\ (stereo_pair => \A d \in Cams : <<d, s>> \in frames)

Shows(m, c, s) == m.timestamp = s /\ Contains(m.sensor_ids, c)

\* Of every such frame there is one image.
OneImagePerFrame ==
  \A c \in Cams, s \in Nat :
    /\ WholePair(c, s) <=> \E i \in DOMAIN Images : Shows(Images[i], c, s)
    /\ \A i, j \in DOMAIN Images : Shows(Images[i], c, s) /\ Shows(Images[j], c, s) => i = j

\* What is left in the end is too late to be fed.
RestIsLate ==
  finished /\ last_imu_time > 0 =>
    \E d \in ClockOffsets :
      \A i \in DOMAIN camera_queue : camera_queue[i].timestamp >= last_imu_time + Flush - d

NoPairs == ~stereo_pair => DOMAIN pending_pairs = {}

RunnerInv ==
  RunnerTyped /\ ImagesInOrder /\ NoPairs /\ PartnersWait /\ OneImagePerFrame /\ RestIsLate

LEMMA RunnerInit == Init => RunnerInv
<1> SUFFICES ASSUME Init PROVE RunnerInv
  OBVIOUS
<1>1. RunnerTyped /\ Images = <<>> /\ frames = {} /\ ~finished
  BY RunnerAssumption DEF Init, RunnerTyped, Images
<1>2. PartnersWait /\ NoPairs
  BY <1>1 DEF Init, PartnersWait, NoPairs
<1> QED BY <1>1, <1>2 DEF RunnerInv, ImagesInOrder, OneImagePerFrame, RestIsLate, WholePair

-----------------------------------------------------------------------------
\* Images that are fed stay in their places.
LEMMA FeedingKeepsImages ==
  ASSUME RunnerTyped, NEW t \in Int, process_camera_queue(t)
  PROVE  /\ camera_queue' \in Seq(Msgs) /\ fed' \in Seq(Msgs)
         /\ Images' = Images
         /\ \E d \in ClockOffsets : camera_queue' # <<>> => camera_queue'[1].timestamp >= t - d
<1>1. camera_queue \in Seq(Msgs) /\ fed \in Seq(Msgs)
  BY DEF RunnerTyped
<1>2. PICK d \in ClockOffsets :
        /\ fed' = fed \o SubSeq(camera_queue, 1, Ready(camera_queue, t - d))
        /\ camera_queue' = SubSeq(camera_queue, Ready(camera_queue, t - d) + 1, Len(camera_queue))
  BY DEF process_camera_queue
<1>3. t - d \in Int
  BY RunnerAssumption
<1> DEFINE n == Ready(camera_queue, t - d)
<1>4. /\ n \in 0..Len(camera_queue)
      /\ n < Len(camera_queue) => ~(camera_queue[n + 1].timestamp < t - d)
  BY <1>1, <1>3, ReadyImages
<1>5. /\ fed' = fed \o SubSeq(camera_queue, 1, n)
      /\ camera_queue' = SubSeq(camera_queue, n + 1, Len(camera_queue))
  BY <1>2
<1> HIDE DEF n
<1>6. camera_queue' \in Seq(Msgs) /\ fed' \in Seq(Msgs)
  BY <1>1, <1>4, <1>5
<1>7. Images' = Images
  BY <1>1, <1>4, <1>5, CutInTwo DEF Images
<1>8. ASSUME camera_queue' # <<>> PROVE camera_queue'[1].timestamp >= t - d
  <2>1. n < Len(camera_queue) /\ camera_queue'[1] = camera_queue[n + 1]
    BY <1>1, <1>4, <1>5, <1>8
  <2>2. camera_queue[n + 1] \in Msgs
    BY <1>1, <1>4, <2>1
  <2>3. camera_queue[n + 1].timestamp \in Int
    BY <2>2 DEF Msgs
  <2> QED BY <1>3, <1>4, <2>1, <2>3
<1> QED BY <1>6, <1>7, <1>8

\* An image is put behind the others.
LEMMA EnqueuingKeepsImages ==
  ASSUME RunnerTyped, NEW m \in Msgs, camera_queue' = Enqueue(camera_queue, m), fed' = fed
  PROVE  /\ camera_queue' \in Seq(Msgs) /\ fed' \in Seq(Msgs)
         /\ Images \in Seq(Msgs) /\ Images' = Append(Images, m)
<1>1. camera_queue \in Seq(Msgs) /\ fed \in Seq(Msgs)
  BY DEF RunnerTyped
<1>2. camera_queue' = camera_queue \o <<m>> /\ <<m>> \in Seq(Msgs)
  BY <1>1, AppendIsConcat DEF Enqueue
<1>3. \A x, y, z \in Seq(Msgs) : (x \o y) \o z = x \o (y \o z)
  BY ConcatAssociative
<1>4. Images' = Images \o <<m>>
  BY <1>1, <1>2, <1>3 DEF Images
<1>5. Images \in Seq(Msgs)
  BY <1>1 DEF Images
<1> QED BY <1>1, <1>2, <1>4, <1>5, AppendIsConcat

\* The order, with an image of the time of the message just read behind the others.
LEMMA OrderExtends ==
  ASSUME RunnerInv, NEW m \in Msgs, Images \in Seq(Msgs),
         m.timestamp >= log, log' = m.timestamp,
         Images' = Images \/ Images' = Append(Images, m)
  PROVE  ImagesInOrder'
<1>1. /\ \A i, j \in DOMAIN Images : i < j => Images[i].timestamp <= Images[j].timestamp
      /\ \A i \in DOMAIN Images : Images[i].timestamp <= log
      /\ log \in Nat /\ m.timestamp \in Nat
      /\ \A i \in DOMAIN Images : Images[i].timestamp \in Nat
  <2>1. \A i \in DOMAIN Images : Images[i] \in Msgs
    OBVIOUS
  <2> QED BY <2>1 DEF RunnerInv, ImagesInOrder, RunnerTyped, Msgs
<1>2. CASE Images' = Images
  BY <1>1, <1>2 DEF ImagesInOrder
<1>3. CASE Images' = Append(Images, m)
  <2>1. /\ DOMAIN Images' = DOMAIN Images \cup {Len(Images) + 1}
        /\ DOMAIN Images = 1..Len(Images) /\ Len(Images) \in Nat
        /\ \A i \in DOMAIN Images : Images'[i] = Images[i]
        /\ Images'[Len(Images) + 1] = m
    BY <1>3
  <2>2. \A i \in DOMAIN Images' : Images'[i].timestamp <= log'
    BY <1>1, <2>1
  <2>3. \A i, j \in DOMAIN Images' : i < j => Images'[i].timestamp <= Images'[j].timestamp
    BY <1>1, <2>1
  <2> QED BY <2>2, <2>3 DEF ImagesInOrder
<1> QED BY <1>2, <1>3

\* One image for every frame, with one of frames that had none behind the others.
LEMMA OneImageExtends ==
  ASSUME RunnerInv, NEW m \in Msgs, Images \in Seq(Msgs), Images' = Append(Images, m),
         Cams' = Cams,
         \A c \in Cams, s \in Nat : WholePair(c, s)' <=> WholePair(c, s) \/ Shows(m, c, s),
         \A c \in Cams, s \in Nat : ~(WholePair(c, s) /\ Shows(m, c, s))
  PROVE  OneImagePerFrame'
<1>1. /\ DOMAIN Images' = DOMAIN Images \cup {Len(Images) + 1}
      /\ DOMAIN Images = 1..Len(Images) /\ Len(Images) \in Nat
      /\ \A i \in DOMAIN Images : Images'[i] = Images[i]
      /\ Images'[Len(Images) + 1] = m
  OBVIOUS
<1>2. SUFFICES ASSUME NEW c \in Cams, NEW s \in Nat
               PROVE  /\ WholePair(c, s)' <=> \E i \in DOMAIN Images' : Shows(Images'[i], c, s)
                      /\ \A i, j \in DOMAIN Images' :
                           Shows(Images'[i], c, s) /\ Shows(Images'[j], c, s) => i = j
  BY DEF OneImagePerFrame, Shows
<1>3. /\ WholePair(c, s) <=> \E i \in DOMAIN Images : Shows(Images[i], c, s)
      /\ \A i, j \in DOMAIN Images : Shows(Images[i], c, s) /\ Shows(Images[j], c, s) => i = j
  BY DEF RunnerInv, OneImagePerFrame
<1>4. (\E i \in DOMAIN Images' : Shows(Images'[i], c, s))
        <=> (\E i \in DOMAIN Images : Shows(Images[i], c, s)) \/ Shows(m, c, s)
  BY <1>1
<1>5. WholePair(c, s)' <=> \E i \in DOMAIN Images' : Shows(Images'[i], c, s)
  BY <1>3, <1>4
<1>6. ASSUME NEW i \in DOMAIN Images', NEW j \in DOMAIN Images',
             Shows(Images'[i], c, s), Shows(Images'[j], c, s)
      PROVE  i = j
  <2>1. CASE Shows(m, c, s)
    <3>1. \A k \in DOMAIN Images : ~Shows(Images[k], c, s)
      BY <2>1, <1>3
    <3> QED BY <3>1, <1>1, <1>6
  <2>2. CASE ~Shows(m, c, s)
    BY <2>2, <1>1, <1>3, <1>6
  <2> QED BY <2>1, <2>2
<1> QED BY <1>5, <1>6

-----------------------------------------------------------------------------
(***************************************************************************)
(* The steps.                                                              *)
(***************************************************************************)
\* A message's time is its stamp.
LoggedAtStamp == MaxLatency = 0

LEMMA MessageTime ==
  ASSUME LoggedAtStamp, RunnerTyped, NEW l \in Times, NEW s \in Times, NextMessage(l, s)
  PROVE  l \in Nat /\ s = l /\ log <= l /\ log' = l /\ ~finished
  BY RunnerAssumption DEF LoggedAtStamp, NextMessage, RunnerTyped

LEMMA ImuKeepsRunner ==
  ASSUME LoggedAtStamp, RunnerInv, NEW l \in Times, NEW s \in Times, Imu(l, s)
  PROVE  RunnerInv'
<1>1. l \in Nat /\ s = l /\ log <= l /\ log' = l /\ ~finished /\ log \in Nat
  BY MessageTime DEF RunnerInv, Imu, RunnerTyped
<1>2. camera_queue' \in Seq(Msgs) /\ fed' \in Seq(Msgs) /\ Images' = Images
  BY <1>1, FeedingKeepsImages DEF Imu, RunnerInv
<1>3. UNCHANGED <<num_cams, pending_pairs, frames, finished>> /\ last_imu_time' = l
  BY <1>1 DEF Imu
<1>4. RunnerTyped'
  BY <1>1, <1>2, <1>3 DEF RunnerInv, RunnerTyped, Cams
<1>5. ImagesInOrder'
  <2>1. \A i \in DOMAIN Images : Images[i] \in Msgs
    BY DEF RunnerInv, RunnerTyped, Images
  <2>2. \A i \in DOMAIN Images : Images[i].timestamp \in Nat /\ Images[i].timestamp <= log
    BY <2>1 DEF RunnerInv, ImagesInOrder, Msgs
  <2> QED BY <1>1, <1>2, <2>2 DEF RunnerInv, ImagesInOrder
<1>6. PartnersWait'
  <2>1. \A c \in Cams, t \in Nat : <<c, t>> \in frames => t <= log
    BY DEF RunnerInv, PartnersWait
  <2>2. CASE l = log
    BY <2>2, <1>1, <1>3 DEF RunnerInv, PartnersWait, Cams, stereo_pair
  <2>3. CASE l # log
    <3>1. \A c \in Cams : <<c, l>> \notin frames
      BY <2>1, <2>3, <1>1
    <3> QED BY <3>1, <2>1, <1>1, <1>3 DEF RunnerInv, PartnersWait, Cams, stereo_pair
  <2> QED BY <2>2, <2>3
<1>7. OneImagePerFrame'
  BY <1>2, <1>3 DEF RunnerInv, OneImagePerFrame, WholePair, Cams, stereo_pair
<1>8. NoPairs'
  BY <1>3 DEF RunnerInv, NoPairs, stereo_pair
<1> QED BY <1>1, <1>3, <1>4, <1>5, <1>6, <1>7, <1>8 DEF RunnerInv, RestIsLate

\* In an ordered queue, all wait if the first does.
LEMMA FinishKeepsRunner == ASSUME RunnerInv, Finish PROVE RunnerInv'
<1>1. UNCHANGED <<num_cams, log, last_imu_time, pending_pairs, frames>> /\ finished'
  BY DEF Finish
<1>2. last_imu_time \in Int /\ camera_queue \in Seq(Msgs) /\ fed \in Seq(Msgs)
  BY DEF RunnerInv, RunnerTyped
<1>3. /\ camera_queue' \in Seq(Msgs) /\ fed' \in Seq(Msgs) /\ Images' = Images
      /\ last_imu_time > 0 => \E d \in ClockOffsets :
           camera_queue' # <<>> => camera_queue'[1].timestamp >= last_imu_time + Flush - d
  <2>1. CASE last_imu_time > 0
    <3>1. process_camera_queue(last_imu_time + Flush) /\ last_imu_time + Flush \in Int
      BY <2>1, <1>2, RunnerAssumption DEF Finish
    <3>2. /\ camera_queue' \in Seq(Msgs) /\ fed' \in Seq(Msgs) /\ Images' = Images
          /\ \E d \in ClockOffsets :
               camera_queue' # <<>> => camera_queue'[1].timestamp >= (last_imu_time + Flush) - d
      BY <3>1, FeedingKeepsImages DEF RunnerInv
    <3> QED BY <3>2, <1>2, RunnerAssumption
  <2>2. CASE ~(last_imu_time > 0)
    BY <2>2, <1>2 DEF Finish, Images
  <2> QED BY <2>1, <2>2
<1>4. RunnerTyped' /\ ImagesInOrder' /\ NoPairs' /\ PartnersWait' /\ OneImagePerFrame'
  BY <1>1, <1>3 DEF RunnerInv, NoPairs, RunnerTyped, ImagesInOrder, PartnersWait, OneImagePerFrame, WholePair,
                    Cams, stereo_pair
<1>5. RestIsLate'
  <2>1. CASE ~(last_imu_time > 0)
    BY <2>1, <1>1 DEF RestIsLate
  <2>2. CASE last_imu_time > 0
    <3>1. PICK d \in ClockOffsets :
            camera_queue' # <<>> => camera_queue'[1].timestamp >= last_imu_time + Flush - d
      BY <1>3, <2>2
    <3>2. ASSUME NEW i \in DOMAIN camera_queue'
          PROVE  camera_queue'[i].timestamp >= last_imu_time + Flush - d
      <4>1. /\ i \in 1..Len(camera_queue') /\ camera_queue' # <<>>
            /\ 1 \in 1..Len(camera_queue')
            /\ camera_queue'[1] \in Msgs /\ camera_queue'[i] \in Msgs
        BY <1>3, <3>2
      <4>2. /\ camera_queue'[1].timestamp >= last_imu_time + Flush - d
            /\ camera_queue'[1].timestamp \in Nat /\ camera_queue'[i].timestamp \in Nat
        BY <3>1, <4>1 DEF Msgs
      <4>3. camera_queue' \in Seq(Msgs) /\ fed' \in Seq(Msgs) /\ Images' = fed' \o camera_queue'
        BY <1>3 DEF Images
      <4>4. /\ Len(fed') \in Nat /\ Len(fed') + 1 \in DOMAIN Images' /\ Len(fed') + i \in DOMAIN Images'
            /\ Images'[Len(fed') + 1] = camera_queue'[1]
            /\ Images'[Len(fed') + i] = camera_queue'[i]
        BY <4>1, <4>3, ConcatProperties
      <4>5. i = 1 \/ Len(fed') + 1 < Len(fed') + i
        BY <4>1, <4>4
      <4>6. camera_queue'[1].timestamp <= camera_queue'[i].timestamp
        BY <1>4, <4>2, <4>4, <4>5 DEF ImagesInOrder
      <4> QED BY <4>2, <4>6, <1>2, RunnerAssumption
    <3> QED BY <1>1, <3>1, <3>2 DEF RestIsLate
  <2> QED BY <2>1, <2>2
<1> QED BY <1>4, <1>5 DEF RunnerInv

\* A frame read now is not past.
LEMMA FrameRead ==
  ASSUME LoggedAtStamp, RunnerInv, NEW l \in Times, NEW s \in Times, NEW c \in Cams,
         NewFrame(c, l, s)
  PROVE  /\ l \in Nat /\ s = l /\ log <= l /\ log \in Nat /\ log' = l /\ c \in Nat
         /\ ~finished /\ ~finished' /\ <<c, l>> \notin frames /\ frames' = frames \cup {<<c, l>>}
         /\ UNCHANGED <<num_cams, last_imu_time, fed>>
         /\ frames' \subseteq Cams \X Nat
         /\ \A d \in Cams, t \in Nat : <<d, t>> \in frames' => t <= l
<1>1. l \in Nat /\ s = l /\ log <= l /\ log' = l /\ ~finished /\ log \in Nat
  BY MessageTime DEF RunnerInv, RunnerTyped, NewFrame
<1>2. /\ <<c, l>> \notin frames /\ frames' = frames \cup {<<c, l>>}
      /\ UNCHANGED <<num_cams, last_imu_time, fed, finished>>
  BY <1>1 DEF NewFrame
<1>3. c \in Nat /\ frames' \subseteq Cams \X Nat
  BY <1>1, <1>2 DEF RunnerInv, RunnerTyped, Cams
<1>4. \A d \in Cams, t \in Nat : <<d, t>> \in frames' => t <= l
  BY <1>1, <1>2 DEF RunnerInv, PartnersWait
<1> QED BY <1>1, <1>2, <1>3, <1>4

LEMMA SingleKeepsRunner ==
  ASSUME LoggedAtStamp, RunnerInv, NEW l \in Times, NEW s \in Times, NEW c \in Cams,
         SingleImage(c, l, s)
  PROVE  RunnerInv'
<1> DEFINE m == Message(<<[cam |-> c, stamp |-> l]>>)
<1>1. /\ l \in Nat /\ s = l /\ log <= l /\ log \in Nat /\ log' = l /\ c \in Nat
      /\ ~finished' /\ <<c, l>> \notin frames /\ frames' = frames \cup {<<c, l>>}
      /\ UNCHANGED <<num_cams, last_imu_time, fed>>
      /\ frames' \subseteq Cams \X Nat
      /\ \A d \in Cams, t \in Nat : <<d, t>> \in frames' => t <= l
  BY FrameRead DEF SingleImage
<1>2. /\ camera_queue' = Enqueue(camera_queue, m) /\ pending_pairs' = pending_pairs
      /\ ~stereo_pair
  BY <1>1 DEF SingleImage
<1>3. m \in Msgs /\ m.timestamp = l /\ \A d \in Nat : Contains(m.sensor_ids, d) <=> d = c
  BY <1>1 DEF Message, Msgs, Contains
<1> HIDE DEF m
<1>4. /\ camera_queue' \in Seq(Msgs) /\ fed' \in Seq(Msgs)
      /\ Images \in Seq(Msgs) /\ Images' = Append(Images, m)
  BY <1>1, <1>2, <1>3, EnqueuingKeepsImages DEF RunnerInv
<1>5. RunnerTyped' /\ Cams' = Cams /\ ~stereo_pair'
  BY <1>1, <1>2, <1>4 DEF RunnerInv, RunnerTyped, Cams, stereo_pair
<1>6. ImagesInOrder'
  <2>1. m.timestamp >= log /\ log' = m.timestamp
    BY <1>1, <1>3
  <2> QED BY <2>1, <1>3, <1>4, OrderExtends
<1>7. PartnersWait'
  <2>1. \A k \in DOMAIN pending_pairs' : FALSE
    BY <1>2 DEF RunnerInv, NoPairs
  <2> QED BY <2>1, <1>1, <1>2, <1>5 DEF PartnersWait
<1>8. OneImagePerFrame'
  <2>1. \A d \in Cams : d \in Nat
    BY DEF Cams
  <2>2. \A d \in Cams, t \in Nat : Shows(m, d, t) <=> d = c /\ t = l
    BY <1>1, <1>3, <2>1 DEF Shows
  <2>3. \A d \in Cams, t \in Nat : WholePair(d, t)' <=> WholePair(d, t) \/ (d = c /\ t = l)
    BY <1>1, <1>2, <1>5 DEF WholePair
  <2>4. ~WholePair(c, l)
    BY <1>1 DEF WholePair
  <2> QED BY <1>3, <1>4, <1>5, <2>2, <2>3, <2>4, OneImageExtends
<1>9. NoPairs'
  BY <1>2, <1>5 DEF RunnerInv, NoPairs
<1> QED BY <1>1, <1>5, <1>6, <1>7, <1>8, <1>9 DEF RunnerInv, RestIsLate

\* The message made of both frames shows both cameras.
LEMMA PairShowsBoth ==
  ASSUME NEW c \in {0, 1}, NEW e \in {0, 1}, c # e, NEW l \in Nat,
         NEW F, F = <<[cam |-> e, stamp |-> l], [cam |-> c, stamp |-> l]>>
  PROVE  LET m == [Message(BySensor(F)) EXCEPT !.timestamp = F[1].stamp]
         IN  m \in Msgs /\ m.timestamp = l /\ \A d \in {0, 1} : Contains(m.sensor_ids, d)
<1> DEFINE G == BySensor(F)
           M == Message(G)
<1>1. /\ F[1] = [cam |-> e, stamp |-> l] /\ F[2] = [cam |-> c, stamp |-> l]
      /\ F[1].cam = e /\ F[2].cam = c /\ F[1].stamp = l /\ Len(F) = 2
  OBVIOUS
<1>2. G = <<[cam |-> 0, stamp |-> l], [cam |-> 1, stamp |-> l]>>
  <2>1. CASE e = 0
    <3>1. c = 1 /\ ~(0 > 1)
      BY <2>1
    <3> QED BY <2>1, <3>1, <1>1 DEF BySensor
  <2>2. CASE e = 1
    <3>1. Reverse(F) = [i \in 1..2 |-> F[(2 - i) + 1]]
      BY <1>1 DEF Reverse
    <3>2. Reverse(F) = <<F[2], F[1]>>
      BY <3>1
    <3>3. c = 0 /\ 1 > 0
      BY <2>2
    <3> QED BY <2>2, <3>2, <3>3, <1>1 DEF BySensor
  <2> QED BY <2>1, <2>2
<1> HIDE DEF G
<1>3. M.sensor_ids = <<0, 1>> /\ M.timestamp = l /\ M.stamps = {l}
  BY <1>2 DEF Message
<1>4. M = [timestamp |-> M.timestamp, sensor_ids |-> M.sensor_ids, stamps |-> M.stamps]
  BY DEF Message
<1> HIDE DEF M
<1>5. M \in Msgs
  <2>1. <<0, 1>> \in Seq(Nat) /\ {l} \in SUBSET Nat
    OBVIOUS
  <2> QED BY <2>1, <1>3, <1>4 DEF Msgs
<1>6. [M EXCEPT !.timestamp = F[1].stamp] = M
  BY <1>1, <1>3, <1>4
<1>7. \A d \in {0, 1} : Contains(M.sensor_ids, d)
  BY <1>3 DEF Contains
<1> QED BY <1>3, <1>5, <1>6, <1>7 DEF M, G

LEMMA StereoKeepsRunner ==
  ASSUME LoggedAtStamp, RunnerInv, NEW l \in Times, NEW s \in Times, NEW c \in Cams,
         StereoImage(c, l, s)
  PROVE  RunnerInv'
<1>1. /\ l \in Nat /\ s = l /\ log <= l /\ log \in Nat /\ log' = l
      /\ ~finished' /\ <<c, l>> \notin frames /\ frames' = frames \cup {<<c, l>>}
      /\ UNCHANGED <<num_cams, last_imu_time, fed>>
      /\ frames' \subseteq Cams \X Nat
      /\ \A d \in Cams, t \in Nat : <<d, t>> \in frames' => t <= l
  BY FrameRead DEF StereoImage
<1>2. stereo_pair /\ stereo_pair' /\ Cams = {0, 1} /\ Cams' = Cams
  BY <1>1 DEF StereoImage, stereo_pair, Cams
<1>3. /\ \A d \in Cams, t \in Nat : <<d, t>> \in frames' <=> <<d, t>> \in frames \/ (d = c /\ t = l)
      /\ NoPairs'
  BY <1>1, <1>2 DEF NoPairs
<1>4. /\ \A k \in DOMAIN pending_pairs :
           /\ k \in Nat
           /\ \E d \in Cams : /\ pending_pairs[k] = <<[cam |-> d, stamp |-> k]>>
                              /\ \A e \in Cams : <<e, k>> \in frames <=> e = d
      /\ \A d \in Cams : <<d, log>> \in frames /\ <<c, log>> \notin frames =>
           log \in DOMAIN pending_pairs
      /\ \A d \in Cams, t \in Nat : <<d, t>> \in frames => t <= log
  BY <1>2 DEF RunnerInv, PartnersWait
<1>5. CASE l \in DOMAIN pending_pairs
  <2>1. PICK e \in Cams : /\ pending_pairs[l] = <<[cam |-> e, stamp |-> l]>>
                          /\ \A d \in Cams : <<d, l>> \in frames <=> d = e
    BY <1>4, <1>5
  <2>2. e # c
    BY <1>1, <2>1
  <2> DEFINE F == pending_pairs[l] \o <<[cam |-> c, stamp |-> l]>>
             m == [Message(BySensor(F)) EXCEPT !.timestamp = F[1].stamp]
  <2>3. m \in Msgs /\ m.timestamp = l /\ \A d \in Cams : Contains(m.sensor_ids, d)
    <3>1. F = <<[cam |-> e, stamp |-> l], [cam |-> c, stamp |-> l]>>
      BY <2>1, PairOf
    <3> HIDE DEF F
    <3>2. c \in {0, 1} /\ e \in {0, 1} /\ l \in Nat /\ Cams = {0, 1}
      BY <1>1, <1>2
    <3> QED BY <2>2, <3>1, <3>2, PairShowsBoth
  <2>4. /\ camera_queue' = Enqueue(camera_queue, m)
        /\ pending_pairs' = DropStale(Restrict(pending_pairs, DOMAIN pending_pairs \ {l}), l)
    BY <1>1, <1>5 DEF StereoImage
  <2> HIDE DEF m
  <2>5. /\ camera_queue' \in Seq(Msgs) /\ fed' \in Seq(Msgs)
        /\ Images \in Seq(Msgs) /\ Images' = Append(Images, m)
    BY <1>1, <2>3, <2>4, EnqueuingKeepsImages DEF RunnerInv
  <2>6. RunnerTyped'
    BY <1>1, <1>2, <2>5 DEF RunnerInv, RunnerTyped
  <2>7. ImagesInOrder'
    <3>1. m.timestamp >= log /\ log' = m.timestamp
      BY <1>1, <2>3
    <3> QED BY <3>1, <2>3, <2>5, OrderExtends
  <2>8. \A k \in DOMAIN pending_pairs' :
          k \in DOMAIN pending_pairs /\ k # l /\ pending_pairs'[k] = pending_pairs[k]
    BY <2>4 DEF DropStale, Restrict
  <2>9. \A d \in Cams : <<d, l>> \in frames'
    BY <1>1, <1>2, <2>1, <2>2
  <2>10. PartnersWait'
    <3>1. ASSUME NEW k \in DOMAIN pending_pairs'
          PROVE  /\ k \in Nat
                 /\ \E d \in Cams : /\ pending_pairs'[k] = <<[cam |-> d, stamp |-> k]>>
                                    /\ \A b \in Cams : <<b, k>> \in frames' <=> b = d
      BY <1>3, <1>4, <2>8
    <3> QED BY <3>1, <1>1, <1>2, <2>9 DEF PartnersWait
  <2>11. OneImagePerFrame'
    <3>1. \A d \in Cams, t \in Nat : Shows(m, d, t) <=> t = l
      BY <2>3 DEF Shows
    <3>2. \A d \in Cams, t \in Nat : WholePair(d, t)' <=> WholePair(d, t) \/ t = l
      <4>1. ASSUME NEW d \in Cams, NEW t \in Nat, t # l PROVE WholePair(d, t)' <=> WholePair(d, t)
        BY <4>1, <1>2, <1>3 DEF WholePair
      <4> QED BY <4>1, <1>1, <1>2, <2>9 DEF WholePair
    <3>3. \A d \in Cams : ~WholePair(d, l)
      BY <1>1, <1>2 DEF WholePair
    <3> QED BY <2>3, <2>5, <1>2, <3>1, <3>2, <3>3, OneImageExtends
  <2> QED BY <1>1, <1>3, <2>6, <2>7, <2>10, <2>11 DEF RunnerInv, RestIsLate
<1>6. CASE l \notin DOMAIN pending_pairs
  <2>1. /\ camera_queue' = camera_queue
        /\ pending_pairs' = DropStale([k \in DOMAIN pending_pairs \cup {l} |->
             IF k = l THEN <<[cam |-> c, stamp |-> l]>> ELSE pending_pairs[k]], l)
    BY <1>1, <1>6 DEF StereoImage
  <2>2. \A d \in Cams : <<d, l>> \notin frames
    BY <1>1, <1>4, <1>6
  <2>3. /\ \A k \in DOMAIN pending_pairs' :
             \/ k = l /\ pending_pairs'[k] = <<[cam |-> c, stamp |-> l]>>
             \/ k \in DOMAIN pending_pairs /\ k # l /\ pending_pairs'[k] = pending_pairs[k]
        /\ l \in DOMAIN pending_pairs'
    BY <1>1, <1>6, <2>1, RunnerAssumption DEF DropStale, Restrict
  <2>4. RunnerTyped' /\ Images' = Images
    BY <1>1, <1>2, <2>1 DEF RunnerInv, RunnerTyped, Images
  <2>5. ImagesInOrder'
    <3>1. \A i \in DOMAIN Images : Images[i] \in Msgs
      BY DEF RunnerInv, RunnerTyped, Images
    <3>2. \A i \in DOMAIN Images : Images[i].timestamp \in Nat /\ Images[i].timestamp <= log
      BY <3>1 DEF RunnerInv, ImagesInOrder, Msgs
    <3> QED BY <1>1, <2>4, <3>2 DEF RunnerInv, ImagesInOrder
  <2>6. PartnersWait'
    <3>1. ASSUME NEW k \in DOMAIN pending_pairs'
          PROVE  /\ k \in Nat
                 /\ \E d \in Cams : /\ pending_pairs'[k] = <<[cam |-> d, stamp |-> k]>>
                                    /\ \A b \in Cams : <<b, k>> \in frames' <=> b = d
      <4>1. CASE k = l
        BY <4>1, <1>1, <1>3, <2>2, <2>3
      <4>2. CASE k # l
        BY <4>2, <1>3, <1>4, <2>3
      <4> QED BY <4>1, <4>2
    <3> QED BY <3>1, <1>1, <1>2, <2>3 DEF PartnersWait
  <2>7. OneImagePerFrame'
    <3>1. \A d \in Cams, t \in Nat : WholePair(d, t)' <=> WholePair(d, t)
      <4>1. \A d \in Cams, t \in Nat : t # l => (WholePair(d, t)' <=> WholePair(d, t))
        BY <1>2, <1>3 DEF WholePair
      <4>2. \A d \in Cams : ~WholePair(d, l) /\ ~WholePair(d, l)'
        <5>1. PICK b \in Cams : b # c
          BY <1>2
        <5>2. <<b, l>> \notin frames' /\ <<c, l>> \notin frames
          BY <5>1, <1>1, <1>3, <2>2
        <5> QED BY <5>2, <1>2 DEF WholePair
      <4> QED BY <4>1, <4>2
    <3> QED BY <3>1, <1>2, <2>4 DEF RunnerInv, OneImagePerFrame
  <2> QED BY <1>1, <1>3, <2>4, <2>5, <2>6, <2>7 DEF RunnerInv, RestIsLate
<1> QED BY <1>5, <1>6

LEMMA StepKeepsRunner == ASSUME LoggedAtStamp, RunnerInv, [Next]_vars PROVE RunnerInv'
<1>1. CASE UNCHANGED vars
  <2>1. /\ UNCHANGED <<num_cams, log, last_imu_time, camera_queue, pending_pairs, frames, fed, finished>>
        /\ Images' = Images /\ Cams' = Cams /\ (stereo_pair' <=> stereo_pair)
    BY <1>1 DEF vars, Images, Cams, stereo_pair
  <2>2. RunnerTyped' /\ ImagesInOrder' /\ NoPairs' /\ PartnersWait' /\ RestIsLate'
    BY <2>1 DEF RunnerInv, RunnerTyped, ImagesInOrder, NoPairs, PartnersWait, RestIsLate
  <2>3. OneImagePerFrame'
    BY <2>1 DEF RunnerInv, OneImagePerFrame, WholePair
  <2> QED BY <2>2, <2>3 DEF RunnerInv
<1>2. CASE Next
  BY <1>2, ImuKeepsRunner, SingleKeepsRunner, StereoKeepsRunner, FinishKeepsRunner DEF Next
<1> QED BY <1>1, <1>2

-----------------------------------------------------------------------------
(***************************************************************************)
(* The theorems.                                                           *)
(***************************************************************************)
LEMMA FedComesFirst ==
  ASSUME RunnerInv
  PROVE  /\ DOMAIN fed \subseteq DOMAIN Images
         /\ \A i \in DOMAIN fed : Images[i] = fed[i]
         /\ \A i \in DOMAIN Images \ DOMAIN fed :
              \E k \in DOMAIN camera_queue : Images[i] = camera_queue[k]
<1>1. /\ fed \in Seq(Msgs) /\ camera_queue \in Seq(Msgs) /\ Images = fed \o camera_queue
      /\ Len(fed) \in Nat /\ Len(camera_queue) \in Nat
  BY DEF RunnerInv, RunnerTyped, Images
<1>2. /\ DOMAIN Images = 1..(Len(fed) + Len(camera_queue)) /\ DOMAIN fed = 1..Len(fed)
      /\ DOMAIN camera_queue = 1..Len(camera_queue)
      /\ \A i \in 1..(Len(fed) + Len(camera_queue)) :
           Images[i] = IF i <= Len(fed) THEN fed[i] ELSE camera_queue[i - Len(fed)]
  BY <1>1, ConcatProperties
<1>3. ASSUME NEW i \in DOMAIN Images \ DOMAIN fed
      PROVE  \E k \in DOMAIN camera_queue : Images[i] = camera_queue[k]
  <2>1. i - Len(fed) \in DOMAIN camera_queue /\ Images[i] = camera_queue[i - Len(fed)]
    BY <1>1, <1>2, <1>3
  <2> QED BY <2>1
<1> QED BY <1>1, <1>2, <1>3

\* Where messages are logged at their stamps, images reach the filter in the order of
\* their stamps: pairs are put together in the order of their frames, and waiting for the
\* readings reorders nothing.
THEOREM OrderOfImages == ASSUME LoggedAtStamp PROVE Spec => []FedInOrder
<1>1. RunnerInv => FedInOrder
  BY FedComesFirst DEF RunnerInv, ImagesInOrder, FedInOrder
<1>2. RunnerInv /\ [Next]_vars => RunnerInv'
  BY StepKeepsRunner
<1> QED BY <1>1, <1>2, RunnerInit, PTL DEF Spec

\* There, too, no frame is lost in pairing or left in the queue, and none fed twice.
THEOREM NoImageLeftBehind == ASSUME LoggedAtStamp PROVE Spec => []EveryFrameFedOnce
<1>1. RunnerInv => EveryFrameFedOnce
  <2> SUFFICES ASSUME RunnerInv, finished, last_imu_time > 0, NEW f \in frames,
                      \A d \in ClockOffsets : f[2] + d < last_imu_time + Flush,
                      stereo_pair => {<<0, f[2]>>, <<1, f[2]>>} \subseteq frames
               PROVE  Cardinality({i \in DOMAIN fed :
                        fed[i].timestamp = f[2] /\ Contains(fed[i].sensor_ids, f[1])}) = 1
    BY DEF EveryFrameFedOnce
  <2> DEFINE c == f[1]
             s == f[2]
  <2>1. c \in Cams /\ s \in Nat /\ f = <<c, s>> /\ last_imu_time \in Int
    BY DEF RunnerInv, RunnerTyped
  <2>2. WholePair(c, s)
    <3>1. stereo_pair => Cams = {0, 1}
      BY DEF stereo_pair, Cams
    <3> QED BY <2>1, <3>1 DEF WholePair
  <2> HIDE DEF c, s
  <2>3. PICK i \in DOMAIN Images : Shows(Images[i], c, s)
    BY <2>1, <2>2 DEF RunnerInv, OneImagePerFrame
  <2>4. \A j \in DOMAIN Images : Shows(Images[j], c, s) => j = i
    BY <2>1, <2>3 DEF RunnerInv, OneImagePerFrame
  <2>5. i \in DOMAIN fed
    <3> SUFFICES ASSUME i \notin DOMAIN fed PROVE FALSE
      OBVIOUS
    <3>1. PICK k \in DOMAIN camera_queue : Images[i] = camera_queue[k]
      BY <2>3, FedComesFirst
    <3>2. PICK d \in ClockOffsets :
            Images[i].timestamp >= last_imu_time + Flush - d /\ Images[i].timestamp = s
      BY <2>3, <3>1 DEF RunnerInv, RestIsLate, Shows
    <3>3. s + d < last_imu_time + Flush
      BY DEF s
    <3> QED BY <3>2, <3>3, <2>1, RunnerAssumption
  <2>6. {j \in DOMAIN fed : Shows(fed[j], c, s)} = {i}
    BY <2>3, <2>4, <2>5, FedComesFirst
  <2>7. Cardinality({i}) = 1
    BY FS_Singleton
  <2> QED BY <2>6, <2>7 DEF Shows, c, s
<1>2. RunnerInv /\ [Next]_vars => RunnerInv'
  BY StepKeepsRunner
<1> QED BY <1>1, <1>2, RunnerInit, PTL DEF Spec

-----------------------------------------------------------------------------
(***************************************************************************)
(* Evaluation: trajectories, stamps in order.                              *)
(***************************************************************************)
LEMMA SortedExists ==
  \A n \in Nat : \A S \in SUBSET Int :
    IsFiniteSet(S) /\ Cardinality(S) = n =>
      \E s \in [1..n -> S] : \A i, j \in 1..n : i < j => s[i] < s[j]
<1> DEFINE N == {n \in Nat : \A S \in SUBSET Int :
      IsFiniteSet(S) /\ Cardinality(S) = n =>
        \E s \in [1..n -> S] : \A i, j \in 1..n : i < j => s[i] < s[j]}
<1>1. 0 \in N
  <2> SUFFICES ASSUME NEW S \in SUBSET Int
               PROVE  \E s \in [1..0 -> S] : \A i, j \in 1..0 : i < j => s[i] < s[j]
    OBVIOUS
  <2> DEFINE e == [i \in 1..0 |-> 0]
  <2>1. e \in [1..0 -> S]
    OBVIOUS
  <2>2. \A i, j \in 1..0 : i < j => e[i] < e[j]
    OBVIOUS
  <2> QED BY <2>1, <2>2
<1>2. ASSUME NEW n \in Nat, n \in N PROVE n + 1 \in N
  <2> SUFFICES ASSUME NEW S \in SUBSET Int, IsFiniteSet(S), Cardinality(S) = n + 1
               PROVE  \E s \in [1..(n + 1) -> S] : \A i, j \in 1..(n + 1) : i < j => s[i] < s[j]
    OBVIOUS
  <2>1. PICK m \in S : \A y \in S : y <= m
    BY LargestExists
  <2>2. IsFiniteSet(S \ {m}) /\ Cardinality(S \ {m}) = n
    BY FS_RemoveElement
  <2>3. PICK s \in [1..n -> S \ {m}] : \A i, j \in 1..n : i < j => s[i] < s[j]
    BY <1>2, <2>2
  <2>4. ASSUME NEW i \in 1..n PROVE s[i] \in Int /\ s[i] < m /\ s[i] \in S
    <3>1. s[i] \in S \ {m}
      BY <2>3
    <3>2. s[i] \in Int /\ m \in Int /\ s[i] <= m /\ s[i] # m /\ s[i] \in S
      BY <2>1, <3>1
    <3> QED BY <3>2
  <2> DEFINE r == [i \in 1..(n + 1) |-> IF i = n + 1 THEN m ELSE s[i]]
  <2>5. r \in [1..(n + 1) -> S]
    BY <2>4
  <2>6. ASSUME NEW i \in 1..(n + 1), NEW j \in 1..(n + 1), i < j PROVE r[i] < r[j]
    <3>1. i \in 1..n /\ r[i] = s[i]
      BY <2>6
    <3>2. CASE j = n + 1
      BY <3>1, <3>2, <2>4
    <3>3. CASE j # n + 1
      BY <3>1, <3>3, <2>3, <2>6
    <3> QED BY <3>2, <3>3
  <2> HIDE DEF r
  <2> QED BY <2>5, <2>6
<1> HIDE DEF N
<1>3. Nat \subseteq N
  BY <1>1, <1>2, Inductive
<1> QED BY <1>3 DEF N

\* A trajectory: stamps in order.
InOrder(s, S) ==
  /\ s \in Seq(S) /\ Len(s) \in Nat /\ DOMAIN s = 1..Len(s)
  /\ \A i \in 1..Len(s) : s[i] \in S
  /\ \A i, j \in 1..Len(s) : i < j => s[i] < s[j]
  /\ \A x \in S : \E i \in 1..Len(s) : s[i] = x

LEMMA SortedInOrder ==
  ASSUME NEW S \in SUBSET Int, IsFiniteSet(S)
  PROVE  InOrder(Sorted(S), S)
<1> DEFINE n == Cardinality(S)
           s == Sorted(S)
<1>1. n \in Nat
  BY FS_CardinalityType
<1>2. \E q \in [1..n -> S] : \A i, j \in 1..n : i < j => q[i] < q[j]
  BY <1>1, SortedExists
<1>3. s \in [1..n -> S] /\ \A i, j \in 1..n : i < j => s[i] < s[j]
  BY <1>2 DEF Sorted
<1> HIDE DEF s, n
<1>4. s \in Seq(S) /\ Len(s) = n /\ DOMAIN s = 1..n
  BY <1>1, <1>3
<1>5. \A i, j \in 1..n : s[i] = s[j] => i = j
  <2> SUFFICES ASSUME NEW i \in 1..n, NEW j \in 1..n, s[i] = s[j] PROVE i = j
    OBVIOUS
  <2>1. s[i] \in Int /\ s[j] \in Int
    BY <1>3
  <2>2. ~(i < j) /\ ~(j < i)
    BY <1>3, <2>1
  <2> QED BY <1>1, <2>2
<1>6. s \in Injection(1..n, S)
  BY <1>3, <1>5 DEF Injection, IsInjective
<1>7. IsFiniteSet(1..n) /\ Cardinality(1..n) = n
  BY <1>1, FS_Interval
<1>8. s \in Surjection(1..n, S)
  BY <1>6, <1>7, FS_Injection DEF n
<1>9. \A x \in S : \E i \in 1..n : s[i] = x
  BY <1>8 DEF Surjection
<1> QED BY <1>1, <1>3, <1>4, <1>9 DEF InOrder, s

LEMMA ResultFilesAre ==
  ASSUME NEW lines \in ResultFiles
  PROVE  \E S \in SUBSET EstStamps :
           /\ DOMAIN lines = 1..Len(Sorted(S)) /\ Len(lines) = Len(Sorted(S))
           /\ \A i \in 1..Len(Sorted(S)) :
                lines[i].t = Sorted(S)[i] /\ (lines[i].sound => lines[i].fields = 20)
<1>1. PICK S \in SUBSET EstStamps : lines \in {
          [i \in 1..Len(Sorted(S)) |-> Line(Sorted(S)[i], 8, FALSE)],
          [i \in 1..Len(Sorted(S)) |-> Line(Sorted(S)[i], 20, TRUE)],
          [i \in 1..Len(Sorted(S)) |-> Line(Sorted(S)[i], 20, i # Len(Sorted(S)))],
          [i \in 1..Len(Sorted(S)) |-> Line(Sorted(S)[i], IF i = 1 THEN 8 ELSE 20, i # 1)]}
  BY Zenon DEF ResultFiles
<1> DEFINE s == Sorted(S)
<1>2. InOrder(s, S)
  <2>1. S \in SUBSET Int /\ IsFiniteSet(S)
    BY EvaluationAssumption, FS_Subset
  <2> QED BY <2>1, SortedInOrder
<1>3. Len(s) \in Nat
  BY <1>2 DEF InOrder
<1> HIDE DEF s
<1>4. DOMAIN lines = 1..Len(s) /\ \A i \in 1..Len(s) :
        lines[i].t = s[i] /\ (lines[i].sound => lines[i].fields = 20)
  <2>1. CASE lines = [i \in 1..Len(s) |-> Line(s[i], 8, FALSE)]
    BY <2>1 DEF Line
  <2>2. CASE lines = [i \in 1..Len(s) |-> Line(s[i], 20, TRUE)]
    BY <2>2 DEF Line
  <2>3. CASE lines = [i \in 1..Len(s) |-> Line(s[i], 20, i # Len(s))]
    BY <2>3 DEF Line
  <2>4. CASE lines = [i \in 1..Len(s) |-> Line(s[i], IF i = 1 THEN 8 ELSE 20, i # 1)]
    BY <2>4 DEF Line
  <2> QED BY <1>1, <2>1, <2>2, <2>3, <2>4 DEF s
<1>5. Len(lines) = Len(s)
  BY <1>3, <1>4
<1> QED BY <1>4, <1>5 DEF s

-----------------------------------------------------------------------------
(***************************************************************************)
(* One pose: what the two loops find.                                      *)
(***************************************************************************)
TruthTyped ==
  /\ Len(truth) \in Nat /\ DOMAIN truth = 1..Len(truth)
  /\ \A q \in 1..Len(truth) : truth[q] \in TruthStamps
  /\ \A q, r \in 1..Len(truth) : q < r => truth[q] < truth[r]

LEMMA TruthIsInt == ASSUME TruthTyped PROVE \A q \in 1..Len(truth) : truth[q] \in Int
BY EvaluationAssumption DEF TruthTyped

LEMMA SkipsEarly ==
  ASSUME TruthTyped, NEW t \in EstStamps, NEW p \in 1..(Len(truth) + 1)
  PROVE  LET first == SkipEarly(p, t)
         IN  /\ first \in p..(Len(truth) + 1)
             /\ \A q \in p..(first - 1) : q \in 1..Len(truth) /\ truth[q] + max_difference < t
             /\ first \in 1..Len(truth) => t - truth[first] < max_difference
<1> DEFINE N == Len(truth)
           D == max_difference
           S == { q \in p..(N + 1) :
                    q \in DOMAIN truth => truth[q] >= t \/ Distance(truth[q], t) <= max_difference }
           first == SkipEarly(p, t)
<1>1. N \in Nat /\ DOMAIN truth = 1..N /\ p \in Nat /\ p >= 1 /\ p <= N + 1
  BY DEF TruthTyped
<1>2. t \in Int /\ D \in Nat /\ \A q \in 1..N : truth[q] \in Int /\ t - truth[q] # D
  <2>1. ASSUME NEW q \in 1..N PROVE truth[q] \in Int /\ t - truth[q] # D
    <3>1. truth[q] \in TruthStamps
      BY DEF TruthTyped
    <3> QED BY <3>1, EvaluationAssumption
  <2> QED BY <2>1, EvaluationAssumption
<1>3. S \in SUBSET Nat /\ N + 1 \in S
  BY <1>1
<1>4. first \in S /\ \A y \in S : first <= y
  BY <1>3, MinOfNaturals DEF SkipEarly
<1> HIDE DEF first
<1>5. first \in p..(N + 1)
  BY <1>4
<1>6. ASSUME NEW q \in p..(first - 1) PROVE q \in 1..N /\ truth[q] + D < t
  <2>1. q \in p..(N + 1) /\ q \in 1..N /\ ~(first <= q)
    BY <1>1, <1>5
  <2>2. q \notin S
    BY <1>4, <2>1
  <2>3. ~(truth[q] >= t) /\ ~(Distance(truth[q], t) <= D)
    BY <1>1, <2>1, <2>2
  <2> QED BY <1>2, <2>1, <2>3 DEF Distance
<1>7. ASSUME first \in 1..N PROVE t - truth[first] < D
  <2>1. truth[first] >= t \/ Distance(truth[first], t) <= D
    BY <1>1, <1>4, <1>7
  <2>2. truth[first] \in Int /\ t - truth[first] # D
    BY <1>2, <1>7
  <2>3. CASE truth[first] >= t
    BY <1>2, <2>2, <2>3
  <2>4. CASE truth[first] < t
    <3>1. Distance(truth[first], t) = t - truth[first] /\ ~(truth[first] >= t)
      BY <1>2, <2>2, <2>4 DEF Distance
    <3> QED BY <1>2, <2>1, <2>2, <3>1
  <2> QED BY <1>2, <2>2, <2>3, <2>4
<1> QED BY <1>5, <1>6, <1>7 DEF first

\* From the first truth that is not too early, the second loop goes to the nearest.
LEMMA StopsAtNearest ==
  ASSUME TruthTyped, NEW t \in EstStamps, NEW first \in 1..(Len(truth) + 1),
         first \in 1..Len(truth) => t - truth[first] < max_difference
  PROVE  LET stop == StopsAt(first, t)
         IN  /\ stop \in first..(Len(truth) + 1)
             /\ stop = first => \A q \in first..Len(truth) : Distance(truth[q], t) >= max_difference
             /\ stop # first =>
                  /\ stop - 1 \in first..Len(truth)
                  /\ Distance(truth[stop - 1], t) < max_difference
                  /\ \A q \in first..Len(truth) :
                       /\ q < stop - 1 => Distance(truth[stop - 1], t) < Distance(truth[q], t)
                       /\ q > stop - 1 => Distance(truth[stop - 1], t) <= Distance(truth[q], t)
<1> DEFINE N == Len(truth)
           D == max_difference
           d(q) == Distance(truth[q], t)
           best(q) == IF q = first THEN max_difference ELSE Distance(truth[q - 1], t)
           S == { q \in first..(N + 1) : q \in DOMAIN truth => Distance(truth[q], t) >= best(q) }
           stop == StopsAt(first, t)
<1>1. N \in Nat /\ DOMAIN truth = 1..N /\ first \in Nat /\ first >= 1 /\ first <= N + 1
  BY DEF TruthTyped
<1>2. t \in Int /\ D \in Nat /\ \A q \in 1..N : truth[q] \in Int
  BY TruthIsInt, EvaluationAssumption
<1>3. S \in SUBSET Nat /\ N + 1 \in S
  BY <1>1
<1>4. stop \in S /\ \A y \in S : stop <= y
  BY <1>3, MinOfNaturals DEF StopsAt
<1> HIDE DEF stop
<1>5. stop \in first..(N + 1) /\ stop \in Nat
  BY <1>1, <1>4
<1>6. \A q \in first..(stop - 1) : q \in 1..N /\ d(q) < best(q)
  <2> SUFFICES ASSUME NEW q \in first..(stop - 1) PROVE q \in 1..N /\ d(q) < best(q)
    OBVIOUS
  <2>1. q \in first..(N + 1) /\ q \in 1..N /\ ~(stop <= q)
    BY <1>1, <1>5
  <2>2. ~(d(q) >= best(q))
    BY <1>1, <1>4, <2>1
  <2>3. d(q) \in Int
    BY <1>2, <2>1 DEF Distance
  <2>4. best(q) \in Int
    <3>1. q # first => q - 1 \in 1..N
      BY <1>1, <2>1
    <3>2. q # first => d(q - 1) \in Int
      BY <1>2, <3>1 DEF Distance
    <3> QED BY <1>2, <3>2
  <2> QED BY <2>1, <2>2, <2>3, <2>4
<1>7. stop \in 1..N => d(stop) >= best(stop)
  BY <1>1, <1>4
<1>8. \A q \in 1..N : d(q) = IF truth[q] < t THEN t - truth[q] ELSE truth[q] - t
  BY DEF Distance
<1>9. \A q, r \in 1..N : q < r => truth[q] < truth[r]
  BY DEF TruthTyped
<1> HIDE DEF d, S
<1>10. ASSUME stop = first, NEW q \in first..N PROVE d(q) >= D
  <2>1. first \in 1..N /\ q \in 1..N /\ (q = first \/ first < q)
    BY <1>1
  <2>2. d(first) >= D /\ t - truth[first] < D
    BY <1>7, <1>10, <2>1
  <2>3. truth[first] >= t + D
    BY <1>2, <1>8, <2>1, <2>2
  <2>4. truth[q] >= truth[first]
    BY <1>2, <1>9, <2>1
  <2> QED BY <1>2, <1>8, <2>1, <2>3, <2>4
<1>11. ASSUME stop # first
       PROVE  /\ stop - 1 \in first..N /\ d(stop - 1) < D
              /\ \A q \in first..N : (q < stop - 1 => d(stop - 1) < d(q)) /\ (q > stop - 1 => d(stop - 1) <= d(q))
  <2> DEFINE b == stop - 1
  <2>1. b \in first..N /\ b \in 1..N /\ b \in first..(stop - 1) /\ first \in first..(stop - 1) /\ first \in 1..N
    BY <1>1, <1>5, <1>11
  <2>2. d(first) < D
    BY <1>6, <2>1
  <2>3. b # first => b - 1 \in first..N /\ b - 1 \in 1..N /\ d(b) < d(b - 1)
    <3>1. b # first => b - 1 \in first..N /\ b - 1 \in 1..N
      BY <1>1, <2>1
    <3>2. b # first => best(b) = d(b - 1)
      BY DEF d
    <3> QED BY <1>6, <2>1, <3>1, <3>2
  <2>4. b # first => truth[b - 1] < t /\ d(b) < t - truth[b - 1]
    <3>1. SUFFICES ASSUME b # first PROVE truth[b - 1] < t
      BY <1>8, <2>3
    <3>2. b - 1 \in 1..N /\ truth[b - 1] < truth[b] /\ truth[b - 1] \in Int /\ truth[b] \in Int
      BY <1>2, <1>9, <2>1, <2>3, <3>1
    <3> QED BY <1>2, <1>8, <2>1, <2>3, <3>1, <3>2
  <2>5. ASSUME NEW q \in first..N, q < b PROVE d(b) < d(q)
    <3>1. b # first /\ q \in 1..N /\ (q = b - 1 \/ q < b - 1)
      BY <1>1, <2>1, <2>5
    <3>2. truth[q] <= truth[b - 1] /\ truth[q] \in Int /\ truth[b - 1] \in Int
      BY <1>2, <1>9, <2>3, <3>1
    <3>3. d(q) = t - truth[q]
      BY <1>2, <1>8, <2>4, <3>1, <3>2
    <3>4. d(b) \in Int
      BY <1>2, <1>8, <2>1
    <3> QED BY <1>2, <2>4, <3>1, <3>2, <3>3, <3>4
  <2>6. ASSUME NEW q \in first..N, q > b PROVE d(b) <= d(q)
    <3>1. stop \in 1..N /\ q \in 1..N /\ (q = stop \/ stop < q) /\ b < stop
      BY <1>1, <1>5, <2>1, <2>6
    <3>2. d(stop) >= d(b)
      BY <1>7, <1>11, <3>1 DEF d
    <3>3. truth[b] < truth[stop] /\ truth[stop] <= truth[q]
      BY <1>2, <1>9, <2>1, <3>1
    <3>4. truth[b] \in Int /\ truth[stop] \in Int /\ truth[q] \in Int
      BY <1>2, <2>1, <3>1
    <3>5. truth[stop] >= t
      BY <1>2, <1>8, <2>1, <3>1, <3>2, <3>3, <3>4
    <3>6. d(q) = truth[q] - t /\ d(stop) = truth[stop] - t
      BY <1>2, <1>8, <3>1, <3>3, <3>4, <3>5
    <3>7. d(b) \in Int
      BY <1>2, <1>8, <2>1
    <3> QED BY <1>2, <3>2, <3>3, <3>4, <3>6, <3>7
  <2>7. d(b) < D
    <3>1. CASE b = first
      BY <2>2, <3>1
    <3>2. CASE b # first
      <4>1. first \in first..N /\ first < b
        BY <2>1, <3>2
      <4>2. d(b) < d(first) /\ d(b) \in Int /\ d(first) \in Int
        BY <1>2, <1>8, <2>1, <2>5, <4>1
      <4> QED BY <1>2, <2>2, <4>2
    <3> QED BY <3>1, <3>2
  <2> QED BY <2>1, <2>5, <2>6, <2>7
<1> QED BY <1>5, <1>10, <1>11 DEF stop, d

-----------------------------------------------------------------------------
(***************************************************************************)
(* The matches of a trajectory: those of the first n poses and where the   *)
(* pointer then is.                                                        *)
(***************************************************************************)
LinesTyped(lines) ==
  /\ Len(lines) \in Nat /\ DOMAIN lines = 1..Len(lines)
  /\ \A i \in 1..Len(lines) : lines[i].t \in EstStamps
  /\ \A i, j \in 1..Len(lines) : i < j => lines[i].t < lines[j].t

FreeTruths(P, i, t) ==
  { q \in DOMAIN truth : /\ Distance(truth[q], t) < max_difference
                         /\ \A p \in P : p[1] < i => p[2] < q }

NearestOf(free, t) ==
  { q \in free : \A r \in free :
      \/ Distance(truth[q], t) < Distance(truth[r], t)
      \/ Distance(truth[q], t) = Distance(truth[r], t) /\ q <= r }

MatchOf(P, i) == { p[2] : p \in { m \in P : m[1] = i } }

\* Matches are pairs of a pose and a truth, in the order of both, none in two pairs.
Matches(P, n) ==
  /\ P \subseteq (1..n) \X DOMAIN truth
  /\ \A p, r \in P : (p[1] < r[1] => p[2] < r[2]) /\ (p[1] = r[1] => p = r)

PointerPast(P, n, pointer, lines) ==
  /\ pointer \in 1..(Len(truth) + 1)
  /\ \A p \in P : p[2] < pointer
  /\ \A q \in 1..(pointer - 1) :
       (n > 0 /\ truth[q] + max_difference < lines[n].t) \/ \E p \in P : q <= p[2]

AllNearest(P, n, lines) ==
  \A i \in 1..n : MatchOf(P, i) = NearestOf(FreeTruths(P, i, lines[i].t), lines[i].t)

\* A pose with no truth near enough.
LEMMA NoneFree ==
  ASSUME TruthTyped, NEW lines, LinesTyped(lines), NEW n \in Nat, n + 1 \in 1..Len(lines),
         NEW P, NEW pointer, Matches(P, n), PointerPast(P, n, pointer, lines), AllNearest(P, n, lines),
         StopsAt(SkipEarly(pointer, lines[n + 1].t), lines[n + 1].t) = SkipEarly(pointer, lines[n + 1].t)
  PROVE  /\ Matches(P, n + 1)
         /\ PointerPast(P, n + 1, SkipEarly(pointer, lines[n + 1].t), lines)
         /\ AllNearest(P, n + 1, lines)
<1> DEFINE N == Len(truth)
           t == lines[n + 1].t
           first == SkipEarly(pointer, t)
<1>1. N \in Nat /\ DOMAIN truth = 1..N /\ \A q \in 1..N : truth[q] \in Int
  BY TruthIsInt DEF TruthTyped
<1>2. t \in EstStamps /\ t \in Int /\ max_difference \in Nat /\ pointer \in 1..(N + 1)
  BY EvaluationAssumption DEF LinesTyped, PointerPast
<1>3. /\ first \in pointer..(N + 1)
      /\ \A q \in pointer..(first - 1) : q \in 1..N /\ truth[q] + max_difference < t
      /\ first \in 1..N => t - truth[first] < max_difference
  BY <1>2, SkipsEarly
<1>4. first \in 1..(N + 1) /\ StopsAt(first, t) = first
  BY <1>1, <1>2, <1>3
<1>5. \A q \in first..N : Distance(truth[q], t) >= max_difference
  BY <1>2, <1>3, <1>4, StopsAtNearest
<1> HIDE DEF first, t
<1>6. n > 0 => lines[n].t \in Int /\ lines[n].t < t
  <2>1. n > 0 => n \in 1..Len(lines) /\ n < n + 1
    BY DEF LinesTyped
  <2> QED BY <2>1, EvaluationAssumption DEF LinesTyped, t
<1>7. \A q \in 1..(first - 1) : truth[q] + max_difference < t \/ \E p \in P : q <= p[2]
  <2> SUFFICES ASSUME NEW q \in 1..(first - 1)
               PROVE  truth[q] + max_difference < t \/ \E p \in P : q <= p[2]
    OBVIOUS
  <2>1. q \in 1..(pointer - 1) \/ q \in pointer..(first - 1)
    BY <1>1, <1>2, <1>3
  <2>2. CASE q \in 1..(pointer - 1)
    <3>1. (n > 0 /\ truth[q] + max_difference < lines[n].t) \/ \E p \in P : q <= p[2]
      BY <2>2 DEF PointerPast
    <3>2. truth[q] \in Int
      BY <1>1, <1>2, <2>2
    <3> QED BY <1>2, <1>6, <3>1, <3>2
  <2> QED BY <1>3, <2>1, <2>2
<1>8. FreeTruths(P, n + 1, t) = {}
  <2> SUFFICES ASSUME NEW q \in FreeTruths(P, n + 1, t) PROVE FALSE
    OBVIOUS
  <2>1. q \in 1..N /\ Distance(truth[q], t) < max_difference /\ \A p \in P : p[1] < n + 1 => p[2] < q
    BY <1>1 DEF FreeTruths
  <2>2. \A p \in P : p[1] \in 1..n /\ p[2] \in 1..N
    BY <1>1 DEF Matches
  <2>3. \A p \in P : ~(q <= p[2])
    BY <1>1, <2>1, <2>2
  <2>4. truth[q] \in Int /\ Distance(truth[q], t) \in Int
    BY <1>1, <1>2, <2>1 DEF Distance
  <2>5. CASE q \in first..N
    BY <1>2, <1>5, <2>1, <2>4, <2>5
  <2>6. CASE q \in 1..(first - 1)
    <3>1. truth[q] + max_difference < t
      BY <1>7, <2>3, <2>6
    <3> QED BY <1>2, <2>1, <2>4, <3>1 DEF Distance
  <2> QED BY <1>1, <1>4, <2>1, <2>5, <2>6
<1>9. Matches(P, n + 1)
  BY <1>1 DEF Matches
<1>10. MatchOf(P, n + 1) = {}
  <2>1. \A p \in P : p[1] # n + 1
    BY <1>1 DEF Matches
  <2> QED BY <2>1 DEF MatchOf
<1>11. NearestOf(FreeTruths(P, n + 1, t), t) = {}
  BY <1>8 DEF NearestOf
<1>12. AllNearest(P, n + 1, lines)
  <2>1. \A i \in 1..(n + 1) : i \in 1..n \/ i = n + 1
    OBVIOUS
  <2> QED BY <1>10, <1>11, <2>1 DEF AllNearest, t
<1>13. PointerPast(P, n + 1, first, lines)
  <2>1. \A p \in P : p[2] < first
    <3>1. \A p \in P : p[2] < pointer /\ p[2] \in 1..N
      BY <1>1 DEF PointerPast, Matches
    <3> QED BY <1>1, <1>2, <1>3, <3>1
  <2> QED BY <1>4, <1>7, <2>1 DEF PointerPast, t
<1> QED BY <1>9, <1>12, <1>13 DEF first, t

\* A pose with one: the nearest is matched.
LEMMA OneMatched ==
  ASSUME TruthTyped, NEW lines, LinesTyped(lines), NEW n \in Nat, n + 1 \in 1..Len(lines),
         NEW P, NEW pointer, Matches(P, n), PointerPast(P, n, pointer, lines), AllNearest(P, n, lines),
         NEW stop, stop = StopsAt(SkipEarly(pointer, lines[n + 1].t), lines[n + 1].t),
         stop # SkipEarly(pointer, lines[n + 1].t)
  PROVE  /\ Matches(P \cup {<<n + 1, stop - 1>>}, n + 1)
         /\ PointerPast(P \cup {<<n + 1, stop - 1>>}, n + 1, stop, lines)
         /\ AllNearest(P \cup {<<n + 1, stop - 1>>}, n + 1, lines)
<1> DEFINE N == Len(truth)
           t == lines[n + 1].t
           first == SkipEarly(pointer, t)
           b == stop - 1
           R == P \cup {<<n + 1, b>>}
<1>1. N \in Nat /\ DOMAIN truth = 1..N /\ \A q \in 1..N : truth[q] \in Int
  BY TruthIsInt DEF TruthTyped
<1>2. t \in EstStamps /\ t \in Int /\ max_difference \in Nat /\ pointer \in 1..(N + 1)
  BY EvaluationAssumption DEF LinesTyped, PointerPast
<1>3. /\ first \in pointer..(N + 1)
      /\ \A q \in pointer..(first - 1) : q \in 1..N /\ truth[q] + max_difference < t
      /\ first \in 1..N => t - truth[first] < max_difference
  BY <1>2, SkipsEarly
<1>4. first \in 1..(N + 1) /\ StopsAt(first, t) = stop /\ stop # first
  BY <1>1, <1>2, <1>3
<1>5. /\ stop \in first..(N + 1)
      /\ b \in first..N /\ Distance(truth[b], t) < max_difference
      /\ \A q \in first..N : /\ q < b => Distance(truth[b], t) < Distance(truth[q], t)
                             /\ q > b => Distance(truth[b], t) <= Distance(truth[q], t)
  BY <1>2, <1>3, <1>4, StopsAtNearest
<1> HIDE DEF first, t
<1>6. b \in 1..N /\ stop \in 1..(N + 1) /\ stop = b + 1 /\ b >= pointer
  BY <1>1, <1>2, <1>3, <1>5
<1> HIDE DEF b
<1>7. \A p \in P : p = <<p[1], p[2]>> /\ p[1] \in 1..n /\ p[2] \in 1..N /\ p[2] < pointer
  BY <1>1 DEF Matches, PointerPast
<1>8. \A p \in R : p \in P \/ p = <<n + 1, b>>
  OBVIOUS
<1>9. Matches(R, n + 1)
  <2>1. R \subseteq (1..(n + 1)) \X DOMAIN truth
    <3>1. \A p \in P : p \in (1..(n + 1)) \X (1..N)
      BY <1>7
    <3>2. <<n + 1, b>> \in (1..(n + 1)) \X (1..N)
      BY <1>6
    <3> QED BY <1>1, <3>1, <3>2
  <2>2. ASSUME NEW p \in R, NEW r \in R
        PROVE  (p[1] < r[1] => p[2] < r[2]) /\ (p[1] = r[1] => p = r)
    <3>1. CASE p \in P /\ r \in P
      BY <3>1 DEF Matches
    <3>2. CASE p \in P /\ r = <<n + 1, b>>
      BY <1>2, <1>6, <1>7, <3>2
    <3>3. CASE p = <<n + 1, b>> /\ r \in P
      BY <1>2, <1>6, <1>7, <3>3
    <3>4. CASE p = <<n + 1, b>> /\ r = <<n + 1, b>>
      BY <3>4
    <3> QED BY <1>8, <3>1, <3>2, <3>3, <3>4
  <2> QED BY <2>1, <2>2 DEF Matches
<1>10. PointerPast(R, n + 1, stop, lines)
  <2>1. \A p \in R : p[2] < stop
    BY <1>2, <1>6, <1>7, <1>8
  <2>2. \A q \in 1..(stop - 1) : \E p \in R : q <= p[2]
    <3>1. \A q \in 1..(stop - 1) : q <= <<n + 1, b>>[2]
      BY <1>6
    <3> QED BY <3>1
  <2> QED BY <1>6, <2>1, <2>2 DEF PointerPast
<1>11. NearestOf(FreeTruths(R, n + 1, t), t) = {b}
  <2> DEFINE F == FreeTruths(R, n + 1, t)
  <2>1. b \in F
    <3>1. \A p \in R : p[1] < n + 1 => p[2] < b
      BY <1>2, <1>6, <1>7, <1>8
    <3> QED BY <1>1, <1>5, <1>6, <3>1 DEF FreeTruths
  <2>2. ASSUME NEW q \in F PROVE q \in first..N
    <3>1. q \in 1..N /\ Distance(truth[q], t) < max_difference /\ \A p \in R : p[1] < n + 1 => p[2] < q
      BY <1>1 DEF FreeTruths
    <3>2. \A p \in P : p[2] < q
      BY <1>7, <3>1
    <3>3. truth[q] \in Int
      BY <1>1, <3>1
    <3>4. SUFFICES ASSUME q < first PROVE FALSE
      BY <1>1, <1>4, <3>1
    <3>5. truth[q] + max_difference < t
      <4>1. CASE q \in pointer..(first - 1)
        BY <1>3, <4>1
      <4>2. CASE q \in 1..(pointer - 1)
        <5>1. n > 0 /\ truth[q] + max_difference < lines[n].t
          BY <1>7, <3>1, <3>2, <4>2 DEF PointerPast
        <5>2. lines[n].t \in Int /\ lines[n].t < t
          <6>1. n \in 1..Len(lines) /\ n < n + 1
            BY <5>1 DEF LinesTyped
          <6> QED BY <6>1, EvaluationAssumption DEF LinesTyped, t
        <5> QED BY <1>2, <3>3, <5>1, <5>2
      <4> QED BY <1>2, <1>4, <3>1, <3>4, <4>1, <4>2
    <3> QED BY <1>2, <3>1, <3>3, <3>5 DEF Distance
  <2>3. \A q \in F : Distance(truth[q], t) \in Int /\ q \in Int
    <3>1. \A q \in F : q \in 1..N
      BY <1>1 DEF FreeTruths
    <3> QED BY <1>1, <1>2, <3>1 DEF Distance
  <2> HIDE DEF F
  <2>4. ASSUME NEW r \in F
        PROVE  \/ Distance(truth[b], t) < Distance(truth[r], t)
               \/ Distance(truth[b], t) = Distance(truth[r], t) /\ b <= r
    <3>1. r \in first..N /\ (r = b \/ r < b \/ r > b)
      BY <1>6, <2>2
    <3> QED BY <1>5, <2>1, <2>3, <3>1
  <2>5. ASSUME NEW q \in F, q # b
        PROVE  ~(\/ Distance(truth[q], t) < Distance(truth[b], t)
                 \/ Distance(truth[q], t) = Distance(truth[b], t) /\ q <= b)
    <3>1. q \in first..N /\ (q < b \/ q > b)
      BY <1>6, <2>2, <2>5
    <3> QED BY <1>5, <1>6, <2>1, <2>3, <3>1
  <2>6. \A q : q \in NearestOf(F, t) <=> q = b
    BY <2>1, <2>4, <2>5 DEF NearestOf
  <2> QED BY <2>6 DEF F
<1>12. MatchOf(R, n + 1) = {b}
  <2>1. \A p \in P : p[1] # n + 1
    BY <1>7
  <2>2. \A p \in R : p[1] = n + 1 <=> p = <<n + 1, b>>
    BY <1>8, <2>1
  <2>3. <<n + 1, b>> \in R /\ <<n + 1, b>>[2] = b
    OBVIOUS
  <2> QED BY <2>2, <2>3 DEF MatchOf
<1>13. ASSUME NEW i \in 1..n
       PROVE  MatchOf(R, i) = NearestOf(FreeTruths(R, i, lines[i].t), lines[i].t)
  <2>1. \A p \in R : p[1] = i <=> p \in P /\ p[1] = i
    <3>1. <<n + 1, b>>[1] # i
      OBVIOUS
    <3> QED BY <1>8, <3>1
  <2>2. {m \in R : m[1] = i} = {m \in P : m[1] = i}
    BY <2>1
  <2>3. MatchOf(R, i) = MatchOf(P, i)
    BY <2>2 DEF MatchOf
  <2>4. \A p \in R : p[1] < i => p \in P
    <3>1. ~(<<n + 1, b>>[1] < i)
      OBVIOUS
    <3> QED BY <1>8, <3>1
  <2>5. P \subseteq R
    OBVIOUS
  <2> HIDE DEF R
  <2>6. FreeTruths(R, i, lines[i].t) = FreeTruths(P, i, lines[i].t)
    BY <2>4, <2>5 DEF FreeTruths
  <2> QED BY <2>3, <2>6 DEF AllNearest
<1>14. AllNearest(R, n + 1, lines)
  <2>1. \A i \in 1..(n + 1) : i \in 1..n \/ i = n + 1
    OBVIOUS
  <2> QED BY <1>11, <1>12, <1>13, <2>1 DEF AllNearest, t
<1> QED BY <1>9, <1>10, <1>14 DEF b

-----------------------------------------------------------------------------
(***************************************************************************)
(* A whole file: perform_association, pose by pose.                        *)
(***************************************************************************)
\* The function that perform_association computes, on the first n poses.
Associates(f, lines, n) ==
  f = [i \in 0..n |-> IF i = 0 THEN [gt_pointer |-> 1, pairs |-> <<>>]
                      ELSE Associate(f[i - 1], i, lines[i].t)]

LEMMA AssociatesExists == \A n \in Nat : \A lines : \E f : Associates(f, lines, n)
<1> DEFINE S == {n \in Nat : \A lines : \E f : Associates(f, lines, n)}
           begin == [gt_pointer |-> 1, pairs |-> <<>>]
<1>1. 0 \in S
  <2> SUFFICES ASSUME NEW lines PROVE \E f : Associates(f, lines, 0)
    OBVIOUS
  <2> DEFINE g == [i \in 0..0 |-> begin]
             h == [i \in 0..0 |-> IF i = 0 THEN begin ELSE Associate(g[i - 1], i, lines[i].t)]
  <2>1. g = h
    OBVIOUS
  <2>2. Associates(g, lines, 0)
    BY <2>1 DEF Associates
  <2> QED BY <2>2
<1>2. ASSUME NEW n \in Nat, n \in S PROVE n + 1 \in S
  <2> SUFFICES ASSUME NEW lines PROVE \E f : Associates(f, lines, n + 1)
    OBVIOUS
  <2>1. PICK f : Associates(f, lines, n)
    BY <1>2
  <2> DEFINE g == [i \in 0..(n + 1) |-> IF i = n + 1 THEN Associate(f[i - 1], i, lines[i].t) ELSE f[i]]
  <2>2. \A i \in 0..n : f[i] = IF i = 0 THEN begin ELSE Associate(f[i - 1], i, lines[i].t)
    BY <2>1 DEF Associates
  <2>3. \A i \in 0..n : g[i] = f[i]
    OBVIOUS
  <2> HIDE DEF begin
  <2>4. ASSUME NEW i \in 0..(n + 1)
        PROVE  g[i] = IF i = 0 THEN begin ELSE Associate(g[i - 1], i, lines[i].t)
    <3>1. i # 0 => i - 1 \in 0..n
      OBVIOUS
    <3>2. CASE i = n + 1
      <4>1. g[i] = Associate(f[i - 1], i, lines[i].t) /\ i # 0
        BY <3>2
      <4> QED BY <4>1, <3>1, <2>3
    <3>3. CASE i # n + 1
      <4>1. i \in 0..n
        BY <3>3
      <4> QED BY <4>1, <3>1, <2>2, <2>3
    <3> QED BY <3>2, <3>3
  <2> DEFINE h == [i \in 0..(n + 1) |-> IF i = 0 THEN begin ELSE Associate(g[i - 1], i, lines[i].t)]
  <2>5. \A i \in 0..(n + 1) : g[i] = h[i]
    BY <2>4
  <2>6. g = h
    <3>1. DOMAIN g = 0..(n + 1) /\ DOMAIN h = 0..(n + 1) /\ g = [i \in 0..(n + 1) |-> g[i]]
          /\ h = [i \in 0..(n + 1) |-> h[i]]
      OBVIOUS
    <3> HIDE DEF g, h
    <3> QED BY <2>5, <3>1
  <2>7. Associates(g, lines, n + 1)
    BY <2>6 DEF Associates, begin
  <2> QED BY <2>7
<1> HIDE DEF S
<1>3. Nat \subseteq S
  BY <1>1, <1>2, Inductive
<1> QED BY <1>3 DEF S

\* Where the pass over the first n poses is.
PassedOver(found, n, lines) ==
  /\ found.pairs \in Seq(Nat \X Nat)
  /\ Matches(ToSet(found.pairs), n)
  /\ PointerPast(ToSet(found.pairs), n, found.gt_pointer, lines)
  /\ AllNearest(ToSet(found.pairs), n, lines)

LEMMA PassStarts ==
  ASSUME TruthTyped, NEW lines
  PROVE  PassedOver([gt_pointer |-> 1, pairs |-> <<>>], 0, lines)
<1> DEFINE f == [gt_pointer |-> 1, pairs |-> <<>>]
<1>1. f.pairs = <<>> /\ f.gt_pointer = 1 /\ <<>> \in Seq(Nat \X Nat)
  OBVIOUS
<1>2. ToSet(<<>>) = {}
  BY DEF ToSet
<1>3. Matches({}, 0)
  BY DEF Matches
<1>4. PointerPast({}, 0, 1, lines)
  BY DEF PointerPast, TruthTyped
<1>5. AllNearest({}, 0, lines)
  BY DEF AllNearest
<1> QED BY <1>1, <1>2, <1>3, <1>4, <1>5 DEF PassedOver

LEMMA PassGoesOn ==
  ASSUME TruthTyped, NEW lines, LinesTyped(lines), NEW n \in Nat, n + 1 \in 1..Len(lines),
         NEW found, PassedOver(found, n, lines)
  PROVE  PassedOver(Associate(found, n + 1, lines[n + 1].t), n + 1, lines)
<1> DEFINE t == lines[n + 1].t
           first == SkipEarly(found.gt_pointer, t)
           stop == StopsAt(first, t)
           P == ToSet(found.pairs)
           found2 == Associate(found, n + 1, t)
<1>1. Matches(P, n) /\ PointerPast(P, n, found.gt_pointer, lines) /\ AllNearest(P, n, lines)
      /\ found.pairs \in Seq(Nat \X Nat)
  BY DEF PassedOver
<1>2. found2.gt_pointer = stop
  BY DEF Associate, PointerAfter
<1>3. found2.pairs = IF stop > first THEN Append(found.pairs, <<n + 1, stop - 1>>) ELSE found.pairs
  BY DEF Associate
<1>4. /\ first \in 1..(Len(truth) + 1) /\ stop \in first..(Len(truth) + 1)
      /\ first \in Nat /\ stop \in Nat /\ first >= 1
  <2>1. Len(truth) \in Nat /\ t \in EstStamps /\ found.gt_pointer \in 1..(Len(truth) + 1)
    BY <1>1 DEF TruthTyped, LinesTyped, PointerPast
  <2>2. first \in found.gt_pointer..(Len(truth) + 1) /\ (first \in 1..Len(truth) => t - truth[first] < max_difference)
    BY <2>1, SkipsEarly
  <2>3. first \in 1..(Len(truth) + 1)
    BY <2>1, <2>2
  <2>4. stop \in first..(Len(truth) + 1)
    BY <2>1, <2>2, <2>3, StopsAtNearest
  <2> QED BY <2>1, <2>3, <2>4
<1>5. CASE stop = first
  <2>1. found2.pairs = found.pairs
    BY <1>3, <1>4, <1>5
  <2>2. Matches(P, n + 1) /\ PointerPast(P, n + 1, first, lines) /\ AllNearest(P, n + 1, lines)
    BY <1>1, <1>5, NoneFree
  <2> QED BY <1>1, <1>2, <1>5, <2>1, <2>2 DEF PassedOver
<1>6. CASE stop # first
  <2> DEFINE x == <<n + 1, stop - 1>>
  <2>1. stop > first /\ x \in Nat \X Nat
    BY <1>4, <1>6
  <2>2. found2.pairs = Append(found.pairs, x)
    BY <1>3, <2>1
  <2>3. ToSet(found2.pairs) = P \cup {x} /\ found2.pairs \in Seq(Nat \X Nat)
    <3> DEFINE s == found.pairs
               T == Nat \X Nat
    <3>1. s \in Seq(T) /\ x \in T
      BY <1>1, <2>1
    <3> HIDE DEF x, T, s
    <3>2. ToSet(Append(s, x)) = ToSet(s) \cup {x} /\ Append(s, x) \in Seq(T)
      BY <3>1, ToSetAppend
    <3> QED BY <2>2, <3>2 DEF s, T
  <2>4. Matches(P \cup {x}, n + 1) /\ PointerPast(P \cup {x}, n + 1, stop, lines)
        /\ AllNearest(P \cup {x}, n + 1, lines)
    BY <1>1, <1>6, OneMatched
  <2> QED BY <1>2, <2>3, <2>4 DEF PassedOver
<1> QED BY <1>5, <1>6

LEMMA AssociationPassesOver ==
  ASSUME TruthTyped, NEW lines, LinesTyped(lines)
  PROVE  \E found : PassedOver(found, Len(lines), lines) /\ perform_association(lines) = found.pairs
<1> DEFINE f == CHOOSE f : Associates(f, lines, Len(lines))
<1>1. Len(lines) \in Nat
  BY DEF LinesTyped
<1>2. Associates(f, lines, Len(lines))
  BY <1>1, AssociatesExists
<1>3. perform_association(lines) = f[Len(lines)].pairs
  BY DEF perform_association, Associates
<1> HIDE DEF f
<1>4. f[0] = [gt_pointer |-> 1, pairs |-> <<>>]
  BY <1>1, <1>2 DEF Associates
<1>5. \A n \in Nat : n + 1 \in 1..Len(lines) => f[n + 1] = Associate(f[n], n + 1, lines[n + 1].t)
  <2> SUFFICES ASSUME NEW n \in Nat, n + 1 \in 1..Len(lines)
               PROVE  f[n + 1] = Associate(f[n], n + 1, lines[n + 1].t)
    OBVIOUS
  <2>1. n + 1 \in 0..Len(lines) /\ n + 1 # 0 /\ (n + 1) - 1 = n
    OBVIOUS
  <2>2. f[n + 1] = Associate(f[(n + 1) - 1], n + 1, lines[n + 1].t)
    BY <1>2, <2>1 DEF Associates
  <2> QED BY <2>1, <2>2
<1> DEFINE S == {n \in Nat : n <= Len(lines) => PassedOver(f[n], n, lines)}
<1>6. 0 \in S
  BY <1>4, PassStarts
<1>7. ASSUME NEW n \in Nat, n \in S PROVE n + 1 \in S
  <2>1. ASSUME n + 1 <= Len(lines) PROVE PassedOver(f[n + 1], n + 1, lines)
    <3>1. n + 1 \in 1..Len(lines) /\ PassedOver(f[n], n, lines)
      BY <1>1, <1>7, <2>1
    <3> QED BY <1>5, <3>1, PassGoesOn
  <2> QED BY <2>1
<1> HIDE DEF S
<1>8. Nat \subseteq S
  BY <1>6, <1>7, Inductive
<1>9. PassedOver(f[Len(lines)], Len(lines), lines)
  BY <1>1, <1>8 DEF S
<1> QED BY <1>3, <1>9

-----------------------------------------------------------------------------
(***************************************************************************)
(* The runs of a dataset.                                                  *)
(***************************************************************************)
\* What a run keeps.
Run == [lines : ResultFiles, pairs : Seq(Nat \X Nat)]

\* A run that was matched with the truth, to the nearest.
RunMatched(r) ==
  /\ LinesTyped(r.lines)
  /\ \A i \in 1..Len(r.lines) : r.lines[i].sound => r.lines[i].fields = 20
  /\ ToSet(r.pairs) \subseteq (1..Len(r.lines)) \X DOMAIN truth
  /\ Matches(ToSet(r.pairs), Len(r.lines))
  /\ AllNearest(ToSet(r.pairs), Len(r.lines), r.lines)

LEMMA FileIsTyped ==
  ASSUME NEW lines \in ResultFiles
  PROVE  LinesTyped(lines) /\ \A i \in 1..Len(lines) : lines[i].sound => lines[i].fields = 20
<1>1. PICK S \in SUBSET EstStamps :
        /\ DOMAIN lines = 1..Len(Sorted(S)) /\ Len(lines) = Len(Sorted(S))
        /\ \A i \in 1..Len(Sorted(S)) :
             lines[i].t = Sorted(S)[i] /\ (lines[i].sound => lines[i].fields = 20)
  BY ResultFilesAre
<1>2. S \in SUBSET Int /\ IsFiniteSet(S)
  BY EvaluationAssumption, FS_Subset
<1>3. InOrder(Sorted(S), S)
  BY <1>2, SortedInOrder
<1> QED BY <1>1, <1>3 DEF InOrder, LinesTyped

LEMMA NewRunMatched ==
  ASSUME TruthTyped, NEW lines \in ResultFiles
  PROVE  LET r == [lines |-> lines, pairs |-> perform_association(lines)]
         IN  RunMatched(r) /\ r \in Run
<1> DEFINE r == [lines |-> lines, pairs |-> perform_association(lines)]
<1>1. LinesTyped(lines) /\ \A i \in 1..Len(lines) : lines[i].sound => lines[i].fields = 20
  BY FileIsTyped
<1>2. PICK found : PassedOver(found, Len(lines), lines) /\ perform_association(lines) = found.pairs
  BY <1>1, AssociationPassesOver
<1>3. r.lines = lines /\ r.pairs = found.pairs
  BY <1>2
<1>4. r \in Run
  BY <1>2 DEF Run, PassedOver
<1> HIDE DEF r
<1> QED BY <1>1, <1>2, <1>3, <1>4 DEF RunMatched, PassedOver, Matches, r

\* MatchesNearest of one run.
RunNearest(r) ==
  \A i \in DOMAIN r.lines :
    LET t == r.lines[i].t
        matches == ToSet(r.pairs)
        free == { q \in DOMAIN truth :
                    /\ Distance(truth[q], t) < max_difference
                    /\ \A p \in matches : p[1] < i => p[2] < q }
        nearest == { q \in free : \A s \in free :
                       \/ Distance(truth[q], t) < Distance(truth[s], t)
                       \/ Distance(truth[q], t) = Distance(truth[s], t) /\ q <= s }
    IN  { p[2] : p \in { m \in matches : m[1] = i } } = nearest

LEMMA MatchedIsNearest == ASSUME NEW r, RunMatched(r) PROVE RunNearest(r)
BY DEF RunMatched, LinesTyped, AllNearest, RunNearest, MatchOf, NearestOf, FreeTruths

-----------------------------------------------------------------------------
(***************************************************************************)
(* Errors are filed by the time of their truth.                            *)
(***************************************************************************)
Entry(k, p) == <<k, [time |-> truth[p[2]], of |-> p[1]]>>

Certain(r, p) == Covariances(r.lines) # {} /\ r.lines[p[1]].sound

RmseFiled == \A x : x \in rmse <=> \E k \in DOMAIN runs : \E p \in ToSet(runs[k].pairs) : x = Entry(k, p)

NeesFiled ==
  \A x : x \in nees <=> \E k \in DOMAIN runs : \E p \in ToSet(runs[k].pairs) :
           Certain(runs[k], p) /\ x = Entry(k, p)


RunsMatched == \A k \in DOMAIN runs : RunMatched(runs[k])

EvaluationInv ==
  /\ TruthTyped
  /\ runs \in Seq(Run) /\ Len(runs) <= NumRuns
  /\ RunsMatched
  /\ RmseFiled /\ NeesFiled
  /\ outcome = "done" =>
       /\ Len(runs) = NumRuns
       /\ averaged = [rmse |-> TimesOfAll(rmse), nees |-> TimesOfAll(nees)]

\* Errors in as many runs as there are files: one in each of them.
LEMMA CountIsOfRuns ==
  ASSUME NEW n \in Nat, NEW F, \A f \in F : f[1] \in 1..n, \A f, g \in F : f[1] = g[1] => f = g
  PROVE  Cardinality(F) = n <=> \A k \in 1..n : \E f \in F : f[1] = k
<1> DEFINE runOf == [f \in F |-> f[1]]
<1>1. runOf \in Injection(F, 1..n)
  BY DEF Injection, IsInjective
<1>2. IsFiniteSet(1..n) /\ Cardinality(1..n) = n
  BY FS_Interval
<1>3. Cardinality(F) = n <=> runOf \in Surjection(F, 1..n)
  BY <1>1, <1>2, FS_Injection
<1>4. runOf \in Surjection(F, 1..n) <=> \A k \in 1..n : \E f \in F : f[1] = k
  BY DEF Surjection
<1> QED BY <1>3, <1>4

LEMMA EvaluationStarts == EvaluationInit => EvaluationInv
<1> SUFFICES ASSUME EvaluationInit PROVE EvaluationInv
  OBVIOUS
<1>1. PICK S \in SUBSET TruthStamps : truth = Sorted(S) /\ outcome = IF S = {} THEN "exit" ELSE "running"
  BY DEF EvaluationInit
<1>2. S \in SUBSET Int /\ IsFiniteSet(S)
  BY EvaluationAssumption, FS_Subset
<1>3. InOrder(truth, S)
  BY <1>1, <1>2, SortedInOrder
<1>4. TruthTyped
  BY <1>3 DEF InOrder, TruthTyped
<1>5. runs = <<>> /\ runs \in Seq(Run) /\ Len(runs) = 0 /\ DOMAIN runs = {} /\ rmse = {} /\ nees = {}
  BY DEF EvaluationInit
<1>6. RmseFiled /\ NeesFiled
  BY <1>5 DEF RmseFiled, NeesFiled
<1>7. outcome # "done"
  BY <1>1
<1> QED BY <1>4, <1>5, <1>6, <1>7, EvaluationAssumption DEF EvaluationInv, RunsMatched

LEMMA RunsGrow ==
  ASSUME NEW r \in Run, runs \in Seq(Run), runs' = Append(runs, r)
  PROVE  /\ Len(runs) \in Nat /\ DOMAIN runs = 1..Len(runs)
         /\ runs' \in Seq(Run) /\ Len(runs') = Len(runs) + 1 /\ DOMAIN runs' = 1..(Len(runs) + 1)
         /\ runs'[Len(runs) + 1] = r
         /\ \A k \in DOMAIN runs : runs'[k] = runs[k]
         /\ \A k \in DOMAIN runs' : k \in DOMAIN runs \/ k = Len(runs) + 1
         /\ DOMAIN runs \subseteq DOMAIN runs'
<1> DEFINE T == Run
<1> HIDE DEF T
<1>1. r \in T /\ runs \in Seq(T)
  BY DEF T
<1>2. Append(runs, r) \in Seq(T) /\ Len(runs) \in Nat /\ DOMAIN runs = 1..Len(runs)
      /\ Len(Append(runs, r)) = Len(runs) + 1 /\ DOMAIN Append(runs, r) = 1..(Len(runs) + 1)
      /\ Append(runs, r)[Len(runs) + 1] = r /\ \A k \in DOMAIN runs : Append(runs, r)[k] = runs[k]
  BY <1>1
<1>3. runs' \in Seq(T) /\ Len(runs') = Len(runs) + 1 /\ DOMAIN runs' = 1..(Len(runs) + 1)
      /\ runs'[Len(runs) + 1] = r /\ \A k \in DOMAIN runs : runs'[k] = runs[k]
  BY <1>2
<1>4. \A k \in 1..(Len(runs) + 1) : k \in 1..Len(runs) \/ k = Len(runs) + 1
  BY <1>2
<1>5. 1..Len(runs) \subseteq 1..(Len(runs) + 1)
  BY <1>2
<1> QED BY <1>2, <1>3, <1>4, <1>5 DEF T

LEMMA MatchesStay == ASSUME RunsMatched, truth' = truth, runs' = runs PROVE RunsMatched'
BY DEF RunsMatched, RunMatched, Matches, LinesTyped, AllNearest, MatchOf, NearestOf, FreeTruths

LEMMA EvaluationInvStep == EvaluationInv /\ [EvaluationNext]_evaluationVars => EvaluationInv'
<1> SUFFICES ASSUME EvaluationInv, [EvaluationNext]_evaluationVars PROVE EvaluationInv'
  OBVIOUS
<1> USE DEF EvaluationInv
<1>1. CASE ProcessRun
  <2>1. PICK lines \in ResultFiles :
          IF IsTrajectory(lines)
          THEN LET pairs == perform_association(lines)
               IN  /\ runs' = Append(runs, [lines |-> lines, pairs |-> pairs])
                   /\ rmse' = rmse \union Filed(calculate_ate(lines, pairs))
                   /\ nees' = nees \union Filed(calculate_nees(lines, pairs))
                   /\ UNCHANGED outcome
          ELSE /\ outcome' = "exit"
               /\ UNCHANGED <<runs, rmse, nees>>
    BY <1>1, Zenon DEF ProcessRun
  <2>2. truth' = truth /\ averaged' = averaged /\ outcome = "running" /\ Len(runs) < NumRuns
    BY <1>1 DEF ProcessRun
  <2>3. TruthTyped'
    BY <2>2 DEF TruthTyped
  <2>4. CASE ~IsTrajectory(lines)
    <3>1. outcome' = "exit" /\ runs' = runs /\ rmse' = rmse /\ nees' = nees
      BY <2>1, <2>4
    <3>2. RmseFiled' /\ NeesFiled'
      BY <2>2, <3>1 DEF RmseFiled, NeesFiled, Entry, Certain, Covariances
    <3>3. RunsMatched'
      BY <2>2, <3>1, MatchesStay
    <3> QED BY <2>3, <3>1, <3>2, <3>3
  <2>5. CASE IsTrajectory(lines)
    <3> DEFINE pairs == perform_association(lines)
               r == [lines |-> lines, pairs |-> pairs]
               n == Len(runs) + 1
    <3>1. runs' = Append(runs, r) /\ outcome' = outcome
          /\ rmse' = rmse \union Filed(calculate_ate(lines, pairs))
          /\ nees' = nees \union Filed(calculate_nees(lines, pairs))
      BY <2>1, <2>5
    <3>2. r \in Run
      BY NewRunMatched
    <3>3. RunMatched(r)
      BY NewRunMatched
    <3>4. r.lines = lines /\ r.pairs = pairs
      OBVIOUS
    <3> HIDE DEF r, pairs
    <3>5. /\ Len(runs) \in Nat /\ DOMAIN runs = 1..Len(runs)
          /\ runs' \in Seq(Run) /\ Len(runs') = n /\ DOMAIN runs' = 1..n
          /\ runs'[n] = r /\ \A k \in DOMAIN runs : runs'[k] = runs[k]
          /\ \A k \in DOMAIN runs' : k \in DOMAIN runs \/ k = n
          /\ DOMAIN runs \subseteq DOMAIN runs' /\ n \in DOMAIN runs'
      <4>1. \A m \in Nat : m + 1 \in 1..(m + 1)
        OBVIOUS
      <4> QED BY <3>1, <3>2, <4>1, RunsGrow
    <3>6. Len(runs') <= NumRuns
      BY <2>2, <3>5, EvaluationAssumption
    <3>7. RunsMatched'
      <4>1. \A k \in DOMAIN runs' : RunMatched(runs'[k])
        BY <3>3, <3>5 DEF RunsMatched
      <4> QED BY <4>1, <2>2 DEF RunsMatched, RunMatched, Matches, LinesTyped, AllNearest, MatchOf, NearestOf, FreeTruths
    <3>8. \A x : x \in Filed(calculate_ate(lines, pairs)) <=> \E p \in ToSet(pairs) : x = Entry(n, p)
      BY DEF Filed, calculate_ate, TimeOf, Entry
    <3>9. \A x : x \in Filed(calculate_nees(lines, pairs)) <=>
                   \E p \in ToSet(pairs) : Certain(r, p) /\ x = Entry(n, p)
      BY <3>4 DEF Filed, calculate_nees, TimeOf, Entry, Certain, Covariances
    <3>10. RmseFiled'
      <4>1. \A x : x \in rmse' <=> \E k \in DOMAIN runs' : \E p \in ToSet(runs'[k].pairs) : x = Entry(k, p)
        BY <3>1, <3>4, <3>5, <3>8 DEF RmseFiled
      <4> QED BY <4>1, <2>2 DEF RmseFiled, Entry
    <3>11. NeesFiled'
      <4>1. \A x : x \in nees' <=> \E k \in DOMAIN runs' : \E p \in ToSet(runs'[k].pairs) :
                     Certain(runs'[k], p) /\ x = Entry(k, p)
        BY <3>1, <3>4, <3>5, <3>9 DEF NeesFiled
      <4>2. \A k, p : Entry(k, p)' = Entry(k, p)
        BY <2>2 DEF Entry
      <4> QED BY <4>1, <4>2 DEF NeesFiled, Certain, Covariances
    <3> QED BY <2>2, <2>3, <3>1, <3>5, <3>6, <3>7, <3>10, <3>11
  <2> QED BY <2>4, <2>5
<1>2. CASE FinishDataset
  <2>1. truth' = truth /\ runs' = runs /\ rmse' = rmse /\ nees' = nees /\ Len(runs) = NumRuns
        /\ averaged' = [rmse |-> TimesOfAll(rmse), nees |-> TimesOfAll(nees)]
    BY <1>2 DEF FinishDataset
  <2>2. TruthTyped' /\ RmseFiled' /\ NeesFiled'
    BY <2>1 DEF TruthTyped, RmseFiled, NeesFiled, Entry, Certain, Covariances
  <2>3. RunsMatched'
    BY <2>1, MatchesStay
  <2> QED BY <2>1, <2>2, <2>3
<1>3. CASE UNCHANGED evaluationVars
  <2>1. truth' = truth /\ runs' = runs /\ rmse' = rmse /\ nees' = nees /\ averaged' = averaged
        /\ outcome' = outcome
    BY <1>3 DEF evaluationVars
  <2>2. TruthTyped' /\ RmseFiled' /\ NeesFiled'
    BY <2>1 DEF TruthTyped, RmseFiled, NeesFiled, Entry, Certain, Covariances
  <2>3. RunsMatched'
    BY <2>1, MatchesStay
  <2> QED BY <2>1, <2>2, <2>3
<1> QED BY <1>1, <1>2, <1>3 DEF EvaluationNext

LEMMA EvaluationInvHolds == EvaluationSpec => []EvaluationInv
BY EvaluationStarts, EvaluationInvStep, PTL DEF EvaluationSpec

\* Whatever the stamps of the truth and of the estimates, the single pass over both finds for
\* every pose the nearest truth that is free, and only a truth that is near enough.
THEOREM PosesMatchNearest == EvaluationSpec => []MatchesNearest
<1>1. EvaluationInv => MatchesNearest
  <2>1. EvaluationInv => \A k \in DOMAIN runs : RunNearest(runs[k])
    BY MatchedIsNearest DEF EvaluationInv, RunsMatched
  <2> QED BY <2>1 DEF RunNearest, MatchesNearest
<1> QED BY <1>1, EvaluationInvHolds, PTL

\* The times under which some of a run's matches are filed, one entry for each match.
LEMMA TimesOfAllRuns ==
  ASSUME EvaluationInv, Len(runs) = NumRuns, NEW filed, NEW P,
         \A k \in DOMAIN runs : P[k] \subseteq ToSet(runs[k].pairs),
         \A x : x \in filed <=> \E k \in DOMAIN runs : \E p \in P[k] : x = Entry(k, p)
  PROVE  TimesOfAll(filed) =
           { t \in ToSet(truth) : \A k \in 1..NumRuns : \E p \in P[k] : truth[p[2]] = t }
<1>1. DOMAIN runs = 1..NumRuns /\ NumRuns \in Nat /\ 1 \in 1..NumRuns
  BY EvaluationAssumption DEF EvaluationInv
<1>2. \A k \in DOMAIN runs : RunMatched(runs[k])
  BY DEF EvaluationInv, RunsMatched
<1>3. DOMAIN truth = 1..Len(truth)
  BY DEF EvaluationInv, TruthTyped
<1>4. \A k \in DOMAIN runs : \A p \in P[k] : p[2] \in DOMAIN truth
  BY <1>2 DEF RunMatched
<1>5. \A k, p : Entry(k, p)[1] = k /\ Entry(k, p)[2].time = truth[p[2]]
  BY DEF Entry
<1>6. ASSUME NEW k \in DOMAIN runs, NEW p \in P[k], NEW q \in P[k], truth[p[2]] = truth[q[2]]
      PROVE  p = q
  <2>1. /\ p \in ToSet(runs[k].pairs) /\ q \in ToSet(runs[k].pairs)
        /\ p[1] \in 1..Len(runs[k].lines) /\ q[1] \in 1..Len(runs[k].lines)
        /\ Matches(ToSet(runs[k].pairs), Len(runs[k].lines))
    BY <1>2 DEF RunMatched
  <2>2. Len(truth) \in Nat /\ p[2] \in 1..Len(truth) /\ q[2] \in 1..Len(truth)
    BY <1>3, <1>4 DEF EvaluationInv, TruthTyped
  <2>3. truth[p[2]] \in Int /\ truth[q[2]] \in Int
    BY <2>2, TruthIsInt DEF EvaluationInv
  <2>4. ~(p[2] < q[2]) /\ ~(q[2] < p[2])
    BY <1>6, <2>2, <2>3 DEF EvaluationInv, TruthTyped
  <2>5. ~(p[1] < q[1]) /\ ~(q[1] < p[1]) /\ (p[1] = q[1] => p = q)
    BY <2>1, <2>4 DEF Matches
  <2>6. \A a, b \in Int : a < b \/ b < a \/ a = b
    OBVIOUS
  <2>7. p[1] \in Int /\ q[1] \in Int
    BY <2>1
  <2> QED BY <2>5, <2>6, <2>7
<1>7. ASSUME NEW t
      PROVE  Cardinality({ f \in filed : f[2].time = t }) = NumRuns <=>
               \A k \in 1..NumRuns : \E p \in P[k] : truth[p[2]] = t
  <2> DEFINE F == { f \in filed : f[2].time = t }
  <2>1. \A f : f \in F <=> \E k \in DOMAIN runs : \E p \in P[k] : f = Entry(k, p) /\ truth[p[2]] = t
    BY <1>5
  <2> HIDE DEF F
  <2>2. \A f \in F : f[1] \in 1..NumRuns
    BY <1>1, <1>5, <2>1
  <2>3. ASSUME NEW f \in F, NEW g \in F, f[1] = g[1] PROVE f = g
    <3>1. PICK k \in DOMAIN runs : \E p \in P[k] : f = Entry(k, p) /\ truth[p[2]] = t
      BY <2>1
    <3>2. PICK p \in P[k] : f = Entry(k, p) /\ truth[p[2]] = t
      BY <3>1
    <3>3. PICK l \in DOMAIN runs : \E q \in P[l] : g = Entry(l, q) /\ truth[q[2]] = t
      BY <2>1
    <3>4. PICK q \in P[l] : g = Entry(l, q) /\ truth[q[2]] = t
      BY <3>3
    <3>5. k = l
      BY <1>5, <2>3, <3>2, <3>4
    <3>6. p = q
      BY <1>6, <3>2, <3>4, <3>5
    <3> QED BY <3>2, <3>4, <3>5, <3>6
  <2>4. Cardinality(F) = NumRuns <=> \A k \in 1..NumRuns : \E f \in F : f[1] = k
    BY <1>1, <2>2, <2>3, CountIsOfRuns
  <2>5. ASSUME NEW k \in 1..NumRuns
        PROVE  (\E f \in F : f[1] = k) <=> \E p \in P[k] : truth[p[2]] = t
    BY <1>1, <1>5, <2>1
  <2> QED BY <2>4, <2>5 DEF F
<1>8. ASSUME NEW t, \A k \in 1..NumRuns : \E p \in P[k] : truth[p[2]] = t
      PROVE  t \in { f[2].time : f \in filed } /\ t \in ToSet(truth)
  <2>1. PICK p \in P[1] : truth[p[2]] = t
    BY <1>1, <1>8
  <2>2. Entry(1, p) \in filed /\ Entry(1, p)[2].time = t
    BY <1>1, <1>5, <2>1
  <2>3. p[2] \in DOMAIN truth
    BY <1>1, <1>4, <2>1
  <2> QED BY <1>3, <2>1, <2>2, <2>3 DEF ToSet
<1>9. \A t : t \in TimesOfAll(filed) <=>
        t \in { f[2].time : f \in filed } /\ Cardinality({ f \in filed : f[2].time = t }) = NumRuns
  BY DEF TimesOfAll
<1> QED BY <1>7, <1>8, <1>9

\* Whatever the runs were matched with, a time is averaged over exactly if every run has an
\* error there: the number of errors filed under a time is a number of runs.
THEOREM AveragesAreOfAllRuns == EvaluationSpec => []AveragedOverAllRuns
<1>1. ASSUME EvaluationInv, outcome = "done"
      PROVE  /\ averaged.rmse = { t \in ToSet(truth) : \A k \in 1..NumRuns :
                                   t \in { truth[p[2]] : p \in ToSet(runs[k].pairs) } }
             /\ averaged.nees = { t \in ToSet(truth) : \A k \in 1..NumRuns :
                                   t \in { truth[p[2]] : p \in { q \in ToSet(runs[k].pairs) :
                                                                   runs[k].lines[q[1]].sound } } }
  <2> DEFINE A == [k \in DOMAIN runs |-> ToSet(runs[k].pairs)]
             N == [k \in DOMAIN runs |-> { q \in ToSet(runs[k].pairs) : runs[k].lines[q[1]].sound }]
  <2>1. Len(runs) = NumRuns /\ DOMAIN runs = 1..NumRuns
        /\ averaged.rmse = TimesOfAll(rmse) /\ averaged.nees = TimesOfAll(nees)
    BY <1>1 DEF EvaluationInv
  <2>2. TimesOfAll(rmse) = { t \in ToSet(truth) : \A k \in 1..NumRuns : \E p \in A[k] : truth[p[2]] = t }
    <3>1. \A x : x \in rmse <=> \E k \in DOMAIN runs : \E p \in A[k] : x = Entry(k, p)
      BY <1>1 DEF EvaluationInv, RmseFiled
    <3>2. \A k \in DOMAIN runs : A[k] \subseteq ToSet(runs[k].pairs)
      OBVIOUS
    <3> HIDE DEF A
    <3> QED BY <1>1, <2>1, <3>1, <3>2, TimesOfAllRuns
  <2>3. TimesOfAll(nees) = { t \in ToSet(truth) : \A k \in 1..NumRuns : \E p \in N[k] : truth[p[2]] = t }
    <3>1. ASSUME NEW k \in DOMAIN runs, NEW p \in ToSet(runs[k].pairs)
          PROVE  Certain(runs[k], p) <=> runs[k].lines[p[1]].sound
      <4>1. p[1] \in 1..Len(runs[k].lines) /\ DOMAIN runs[k].lines = 1..Len(runs[k].lines)
            /\ (runs[k].lines[p[1]].sound => runs[k].lines[p[1]].fields = 20)
        BY <1>1 DEF EvaluationInv, RunsMatched, RunMatched, LinesTyped
      <4> QED BY <4>1 DEF Certain, Covariances
    <3>2. \A x : x \in nees <=> \E k \in DOMAIN runs : \E p \in N[k] : x = Entry(k, p)
      BY <1>1, <3>1 DEF EvaluationInv, NeesFiled
    <3>3. \A k \in DOMAIN runs : N[k] \subseteq ToSet(runs[k].pairs)
      OBVIOUS
    <3> HIDE DEF N
    <3> QED BY <1>1, <2>1, <3>2, <3>3, TimesOfAllRuns
  <2> QED BY <2>1, <2>2, <2>3
<1>2. EvaluationInv => AveragedOverAllRuns
  BY <1>1 DEF AveragedOverAllRuns
<1> QED BY <1>2, EvaluationInvHolds, PTL

-----------------------------------------------------------------------------
(***************************************************************************)
(* Recording reader: the messages of a unit, and where they are.           *)
(***************************************************************************)
LEMMA UnitsAre ==
  ASSUME file \in Files
  PROVE  /\ Len(file.data) \in Nat /\ Units = 1..Len(file.data)
         /\ \A u \in Units : Unit(file.data[u].messages)
BY ReaderAssumption DEF Units

LEMMA AddressIs ==
  ASSUME file \in Files, NEW a
  PROVE  a \in Addresses <=> \E u \in Units : \E k \in DOMAIN file.data[u].messages : a = <<u, k>>
<1>1. a \in Addresses <=> \E u \in Units : a \in {<<u, k>> : k \in DOMAIN file.data[u].messages}
  BY Zenon DEF Addresses
<1> QED BY <1>1

LEMMA AddressTyped ==
  ASSUME file \in Files, NEW a \in Addresses
  PROVE  /\ a[1] \in Units /\ a[2] \in DOMAIN file.data[a[1]].messages /\ a = <<a[1], a[2]>>
         /\ a[1] \in Nat /\ a[2] \in Nat /\ a[2] > 0 /\ MessageAt(a).logTime \in Nat
<1>1. PICK u \in Units : \E k \in DOMAIN file.data[u].messages : a = <<u, k>>
  BY AddressIs
<1>2. PICK k \in DOMAIN file.data[u].messages : a = <<u, k>>
  BY <1>1
<1>3. Unit(file.data[u].messages) /\ u \in Nat
  BY UnitsAre
<1>4. k \in Nat /\ k > 0 /\ file.data[u].messages[k].logTime \in Nat
  BY <1>2, <1>3 DEF Unit
<1>5. a[1] = u /\ a[2] = k
  BY <1>2
<1> QED BY <1>2, <1>3, <1>4, <1>5 DEF MessageAt

LEMMA ChunkTimes ==
  ASSUME file \in Files, NEW u \in Units
  PROVE  /\ messageStartTime(u) \in Nat /\ messageEndTime(u) \in Nat
         /\ \A k \in DOMAIN file.data[u].messages :
              /\ messageStartTime(u) <= file.data[u].messages[k].logTime
              /\ file.data[u].messages[k].logTime <= messageEndTime(u)
<1> DEFINE m == file.data[u].messages
           T == LogTimes(u)
           time == [k \in DOMAIN m |-> m[k].logTime]
<1>1. Len(m) \in Nat \ {0} /\ DOMAIN m = 1..Len(m) /\ \A k \in DOMAIN m : m[k].logTime \in Nat
  BY UnitsAre DEF Unit
<1>2. \A t : t \in T <=> \E k \in DOMAIN m : t = m[k].logTime
  BY DEF LogTimes
<1>3. IsFiniteSet(T)
  <2>1. IsFiniteSet(DOMAIN m)
    BY <1>1, FS_Interval
  <2>2. time \in Surjection(DOMAIN m, T)
    BY <1>2 DEF Surjection
  <2> QED BY <2>1, <2>2, FS_Surjection
<1>4. T \in SUBSET Nat /\ m[1].logTime \in T
  BY <1>1, <1>2
<1> HIDE DEF T
<1>5. messageStartTime(u) \in T /\ \A t \in T : messageStartTime(u) <= t
  BY <1>4, MinOfNaturals DEF messageStartTime, T
<1>6. messageEndTime(u) \in T /\ \A t \in T : t <= messageEndTime(u)
  BY <1>3, <1>4, MaxOfFinite DEF messageEndTime, T
<1> QED BY <1>2, <1>4, <1>5, <1>6

LEMMA BeforeIsAnOrder ==
  ASSUME NEW a \in Int \X Int, NEW b \in Int \X Int
  PROVE  (Before(a, b) \/ Before(b, a) \/ a = b) /\ ~(Before(a, b) /\ Before(b, a)) /\ ~Before(a, a)
<1>1. a = <<a[1], a[2]>> /\ b = <<b[1], b[2]>> /\ a[1] \in Int /\ a[2] \in Int /\ b[1] \in Int /\ b[2] \in Int
  OBVIOUS
<1> QED BY <1>1 DEF Before

LEMMA BeforeChains ==
  ASSUME NEW a \in Int \X Int, NEW b \in Int \X Int, NEW c \in Int \X Int, Before(a, b), Before(b, c)
  PROVE  Before(a, c)
<1>1. a[1] \in Int /\ a[2] \in Int /\ b[1] \in Int /\ b[2] \in Int /\ c[1] \in Int /\ c[2] \in Int
  OBVIOUS
<1> QED BY <1>1 DEF Before

-----------------------------------------------------------------------------
(***************************************************************************)
(* Recording reader: what the interval tree finds.                         *)
(***************************************************************************)
CenterOf(ivals) ==
  (Min({messageStartTime(i) : i \in ivals}) + Max({messageEndTime(i) : i \in ivals})) \div 2
LeftOf(ivals) == {i \in ivals : messageEndTime(i) < CenterOf(ivals)}
RightOf(ivals) == {i \in ivals : messageStartTime(i) > CenterOf(ivals) /\ messageEndTime(i) >= CenterOf(ivals)}
IsBucket(depth, ivals) == depth = 1 \/ Cardinality(ivals) < MinBucket
HereOf(depth, ivals) ==
  IF IsBucket(depth, ivals) THEN ivals ELSE ivals \ (LeftOf(ivals) \cup RightOf(ivals))

\* What is near in a tree of that depth, when f says so of the trees below.
NearIn(f, depth, ivals, start, stop) ==
  (IF \E i \in HereOf(depth, ivals) : stop >= messageStartTime(i) THEN HereOf(depth, ivals) ELSE {})
    \cup (IF IsBucket(depth, ivals) \/ LeftOf(ivals) = {} \/ start > CenterOf(ivals) THEN {}
          ELSE f[depth - 1][LeftOf(ivals)])
    \cup (IF IsBucket(depth, ivals) \/ RightOf(ivals) = {} \/ stop < CenterOf(ivals) THEN {}
          ELSE f[depth - 1][RightOf(ivals)])

Nears(f, n, start, stop) ==
  f = [depth \in 1..n |-> [ivals \in SUBSET Nat |-> NearIn(f, depth, ivals, start, stop)]]

LEMMA NearExists ==
  ASSUME NEW start, NEW stop
  PROVE  \A n \in Nat : \E f : Nears(f, n, start, stop)
<1> DEFINE N == {n \in Nat : \E f : Nears(f, n, start, stop)}
<1>1. 0 \in N
  <2> DEFINE e == [depth \in 1..0 |-> 0]
  <2>1. \A f : [depth \in 1..0 |-> [ivals \in SUBSET Nat |-> NearIn(f, depth, ivals, start, stop)]] = e
    OBVIOUS
  <2>2. Nears(e, 0, start, stop)
    BY <2>1 DEF Nears
  <2> QED BY <2>2
<1>2. ASSUME NEW n \in Nat, n \in N PROVE n + 1 \in N
  <2>1. PICK f : Nears(f, n, start, stop)
    BY <1>2
  <2> DEFINE g == [depth \in 1..(n + 1) |-> [ivals \in SUBSET Nat |-> NearIn(f, depth, ivals, start, stop)]]
  <2>2. DOMAIN g = 1..(n + 1)
        /\ \A depth \in 1..(n + 1) : g[depth] = [ivals \in SUBSET Nat |-> NearIn(f, depth, ivals, start, stop)]
    OBVIOUS
  <2>3. \A depth \in 1..n : depth \in 1..(n + 1)
        /\ f[depth] = [ivals \in SUBSET Nat |-> NearIn(f, depth, ivals, start, stop)]
    BY <2>1 DEF Nears
  <2> HIDE DEF g
  <2>4. \A depth \in 1..n : g[depth] = f[depth]
    BY <2>2, <2>3
  <2>5. ASSUME NEW depth \in 1..(n + 1), NEW ivals
        PROVE  NearIn(g, depth, ivals, start, stop) = NearIn(f, depth, ivals, start, stop)
    <3>1. CASE depth = 1
      <4>1. IsBucket(depth, ivals)
        BY <3>1 DEF IsBucket
      <4> QED BY <4>1 DEF NearIn
    <3>2. CASE depth # 1
      <4>1. depth - 1 \in 1..n
        BY <3>2
      <4>2. g[depth - 1] = f[depth - 1]
        BY <2>4, <4>1
      <4> QED BY <4>2 DEF NearIn
    <3> QED BY <3>1, <3>2
  <2>6. \A depth \in 1..(n + 1) : g[depth] = [ivals \in SUBSET Nat |-> NearIn(g, depth, ivals, start, stop)]
    BY <2>2, <2>5
  <2>7. g = [depth \in 1..(n + 1) |-> g[depth]]
    BY <2>2 DEF g
  <2>8. g = [depth \in 1..(n + 1) |-> [ivals \in SUBSET Nat |-> NearIn(g, depth, ivals, start, stop)]]
    BY <2>6, <2>7
  <2>9. Nears(g, n + 1, start, stop)
    BY <2>8 DEF Nears
  <2> QED BY <2>9
<1> HIDE DEF N
<1>3. Nat \subseteq N
  BY <1>1, <1>2, Inductive
<1> QED BY <1>3 DEF N

LEMMA NearIs ==
  ASSUME NEW start, NEW stop
  PROVE  \E f : Nears(f, MaxDepth, start, stop) /\ Near(start, stop) = f[MaxDepth][chunkRanges]
<1> DEFINE f == CHOOSE f : Nears(f, MaxDepth, start, stop)
<1>1. MaxDepth \in Nat
  BY DEF MaxDepth
<1>2. Nears(f, MaxDepth, start, stop)
  BY <1>1, NearExists
<1>3. Near(start, stop) = f[MaxDepth][chunkRanges]
  BY DEF Near, Nears, NearIn, HereOf, IsBucket, LeftOf, RightOf, CenterOf
<1> QED BY <1>2, <1>3

\* Of the intervals only, and every one that overlaps the period.
LEMMA NearFinds ==
  ASSUME file \in Files, NEW start \in Int, NEW stop \in Int, NEW m \in Nat, NEW f, Nears(f, m, start, stop)
  PROVE  \A n \in Nat : n \in 1..m => \A S \in SUBSET Units :
           /\ f[n][S] \subseteq S
           /\ \A u \in S : start <= messageEndTime(u) /\ messageStartTime(u) <= stop => u \in f[n][S]
<1> DEFINE Finds(n, S) ==
             /\ f[n][S] \subseteq S
             /\ \A u \in S : start <= messageEndTime(u) /\ messageStartTime(u) <= stop => u \in f[n][S]
           N == {n \in Nat : n \in 1..m => \A S \in SUBSET Units : Finds(n, S)}
<1>1. 0 \in N
  OBVIOUS
<1>2. Units \subseteq Nat /\ IsFiniteSet(Units)
  <2>1. Len(file.data) \in Int /\ Units = 1..Len(file.data)
    BY UnitsAre
  <2>2. IsFiniteSet(1..Len(file.data))
    BY <2>1, FS_Interval
  <2> QED BY <2>1, <2>2
<1>3. ASSUME NEW n \in Nat, n \in N PROVE n + 1 \in N
  <2> SUFFICES ASSUME n + 1 \in 1..m, NEW S \in SUBSET Units PROVE Finds(n + 1, S)
    OBVIOUS
  <2>1. S \in SUBSET Nat /\ LeftOf(S) \subseteq S /\ RightOf(S) \subseteq S
    BY <1>2 DEF LeftOf, RightOf
  <2>2. f[n + 1][S] = NearIn(f, n + 1, S, start, stop)
    <3>1. f[n + 1] = [ivals \in SUBSET Nat |-> NearIn(f, n + 1, ivals, start, stop)]
      BY DEF Nears
    <3> QED BY <2>1, <3>1
  <2>3. ASSUME ~IsBucket(n + 1, S)
        PROVE  Finds(n, LeftOf(S)) /\ Finds(n, RightOf(S)) /\ n + 1 - 1 = n
    <3>1. n + 1 # 1
      BY <2>3 DEF IsBucket
    <3>2. n \in 1..m
      BY <3>1
    <3>3. LeftOf(S) \in SUBSET Units /\ RightOf(S) \in SUBSET Units
      BY <2>1
    <3> QED BY <1>3, <3>2, <3>3
  <2>4. HereOf(n + 1, S) \subseteq S
    BY DEF HereOf
  <2>5. f[n + 1][S] \subseteq S
    BY <2>1, <2>2, <2>3, <2>4 DEF NearIn
  <2>6. ASSUME NEW u \in S, start <= messageEndTime(u), messageStartTime(u) <= stop PROVE u \in f[n + 1][S]
    <3>1. messageEndTime(u) \in Nat /\ messageStartTime(u) \in Nat
      BY ChunkTimes
    <3>2. CASE u \in HereOf(n + 1, S)
      BY <2>2, <2>6, <3>1, <3>2 DEF NearIn
    <3>3. CASE u \notin HereOf(n + 1, S)
      <4>1. ~IsBucket(n + 1, S) /\ (u \in LeftOf(S) \/ u \in RightOf(S))
        BY <3>3 DEF HereOf
      <4>2. CenterOf(S) \in Int
        <5> DEFINE A == {messageStartTime(i) : i \in S}
                   B == {messageEndTime(i) : i \in S}
                   g == [i \in S |-> messageEndTime(i)]
        <5>1. \A i \in S : messageStartTime(i) \in Nat /\ messageEndTime(i) \in Nat
          BY ChunkTimes
        <5>2. A \in SUBSET Nat /\ A # {} /\ B \in SUBSET Int /\ B # {}
          BY <5>1
        <5>3. IsFiniteSet(S)
          BY <1>2, FS_Subset
        <5>4. g \in Surjection(S, B)
          BY DEF Surjection
        <5>5. IsFiniteSet(B)
          BY <5>3, <5>4, FS_Surjection
        <5> HIDE DEF A, B
        <5>6. Min(A) \in A /\ Max(B) \in B
          BY <5>2, <5>5, MinOfNaturals, MaxOfFinite
        <5>7. Min(A) \in Int /\ Max(B) \in Int
          <6>1. \A x \in A : x \in Int
            BY <5>2
          <6>2. \A x \in B : x \in Int
            BY <5>2
          <6> QED BY <5>6, <6>1, <6>2, Zenon
        <5>8. CenterOf(S) = (Min(A) + Max(B)) \div 2
          BY DEF CenterOf, A, B
        <5> QED BY <5>7, <5>8
      <4>3. CASE u \in LeftOf(S)
        <5>1. u \in f[n][LeftOf(S)]
          BY <2>3, <2>6, <4>1, <4>3
        <5>2. ~(start > CenterOf(S))
          BY <2>6, <3>1, <4>2, <4>3 DEF LeftOf
        <5> QED BY <2>2, <2>3, <4>1, <4>3, <5>1, <5>2 DEF NearIn
      <4>4. CASE u \in RightOf(S)
        <5>1. u \in f[n][RightOf(S)]
          BY <2>3, <2>6, <4>1, <4>4
        <5>2. ~(stop < CenterOf(S))
          BY <2>6, <3>1, <4>2, <4>4 DEF RightOf
        <5> QED BY <2>2, <2>3, <4>1, <4>4, <5>1, <5>2 DEF NearIn
      <4> QED BY <4>1, <4>3, <4>4
    <3> QED BY <3>2, <3>3
  <2> QED BY <2>5, <2>6
<1> HIDE DEF N, Finds
<1>4. Nat \subseteq N
  BY <1>1, <1>3, Inductive
<1> QED BY <1>4 DEF N, Finds

LEMMA Overlapping ==
  ASSUME file \in Files, chunkRanges \subseteq Units, NEW start \in Int, NEW stop \in Int
  PROVE  /\ visit_overlapping(start, stop) \subseteq chunkRanges
         /\ \A u \in chunkRanges : start <= messageEndTime(u) /\ messageStartTime(u) <= stop =>
              u \in visit_overlapping(start, stop)
<1>1. PICK f : Nears(f, MaxDepth, start, stop) /\ Near(start, stop) = f[MaxDepth][chunkRanges]
  BY NearIs
<1>2. MaxDepth \in Nat /\ MaxDepth \in 1..MaxDepth
  BY DEF MaxDepth
<1>3. /\ Near(start, stop) \subseteq chunkRanges
      /\ \A v \in chunkRanges : start <= messageEndTime(v) /\ messageStartTime(v) <= stop => v \in Near(start, stop)
  BY <1>1, <1>2, NearFinds
<1>4. \A u \in chunkRanges : messageEndTime(u) \in Nat /\ messageStartTime(u) \in Nat
  BY ChunkTimes
<1> QED BY <1>3, <1>4 DEF visit_overlapping

-----------------------------------------------------------------------------
(***************************************************************************)
(* The queue.                                                              *)
(***************************************************************************)
IsChunkJob(j) ==
  \E u \in Chunks : j = [chunk |-> TRUE, time |-> ChunkTime(u, Forward(options)), at |-> <<u, 0>>, slot |-> 0]

\* The job of a message, whose slot holds the message's chunk.
IsMessageJob(j) ==
  \E a \in Addresses : \E n \in DOMAIN chunkSlots :
    /\ j = [chunk |-> FALSE, time |-> MessageAt(a).logTime, at |-> a, slot |-> n]
    /\ chunkSlots[n].unit = a[1]

QueueTyped == \A j \in queue : IsChunkJob(j) \/ IsMessageJob(j)

\* No two jobs for the same, and none for the messages of a chunk that is not open yet.
OnceQueued ==
  \A i, j \in queue : (i.at = j.at => i = j) /\ (i.chunk /\ i.at[1] = j.at[1] => i = j)

QueuedIn(n) == {j \in queue : ~j.chunk /\ j.slot = n}

\* A slot is free when nothing of it is queued.
SlotsCounted ==
  \A n \in DOMAIN chunkSlots :
    IsFiniteSet(QueuedIn(n)) /\ chunkSlots[n].unreadMessages = Cardinality(QueuedIn(n))

\* What was delivered is before what is queued.
Precedes(a, j) ==
  IF Forward(options)
  THEN MessageAt(a).logTime < j.time \/ (MessageAt(a).logTime = j.time /\ Before(a, j.at))
  ELSE \/ MessageAt(a).logTime > j.time
       \/ MessageAt(a).logTime = j.time /\ (Tangled(j.time) \/ Before(Position(j), a))

\* Nothing of a job was delivered yet.
Fresh(a, j) == a # j.at /\ (j.chunk => a[1] # j.at[1])

OutPrecedes == \A i \in DOMAIN out : \A j \in queue : Precedes(out[i], j) /\ Fresh(out[i], j)

\* DeliveredInOrder of two messages.
Ordered(a, b) ==
  CASE options.readOrder = "FileOrder" -> Before(a, b)
    [] options.readOrder = "LogTimeOrder" ->
         \/ MessageAt(a).logTime < MessageAt(b).logTime
         \/ MessageAt(a).logTime = MessageAt(b).logTime /\ Before(a, b)
    [] OTHER -> InReverse(a, b)

OutOrdered == \A i, j \in DOMAIN out : i < j => Ordered(out[i], out[j])

\* Where a reading in file order is: after what it delivered.
InFile ==
  /\ pos[1] >= 1 /\ (pos[2] > 0 => pos \in Addresses)
  /\ \A i \in DOMAIN out : Before(out[i], pos)

ReaderTyped ==
  /\ file \in Files
  /\ chunkIndexes \subseteq Chunks /\ chunkRanges \subseteq Chunks
  /\ pos \in Nat \X Nat
  /\ out \in Seq(Addresses)
  /\ chunkSlots \in Seq([unit : Nat, unreadMessages : Int])
  /\ status = "open" => queue = {} /\ out = <<>>
  /\ status = "file" => options.readOrder = "FileOrder" /\ queue = {} /\ InFile
  /\ status = "indexed" => options.readOrder \in {"LogTimeOrder", "ReverseLogTimeOrder"}

ReaderInv ==
  ReaderTyped /\ QueueTyped /\ OnceQueued /\ SlotsCounted /\ OutPrecedes /\ OutOrdered

LEMMA JobTyped ==
  ASSUME ReaderTyped, QueueTyped, NEW j \in queue
  PROVE  /\ j.time \in Nat /\ j.at \in Nat \X Nat /\ Position(j) \in Nat \X Nat /\ j.chunk \in BOOLEAN
         /\ j.chunk => /\ j.at[1] \in Chunks /\ j.at = <<j.at[1], 0>>
                       /\ j.time = ChunkTime(j.at[1], Forward(options))
         /\ ~j.chunk => /\ j.at \in Addresses /\ j.time = MessageAt(j.at).logTime /\ Position(j) = j.at
                        /\ j.slot \in DOMAIN chunkSlots /\ chunkSlots[j.slot].unit = j.at[1]
<1>1. file \in Files
  BY DEF ReaderTyped
<1>2. CASE IsChunkJob(j)
  <2>1. PICK u \in Chunks : j = [chunk |-> TRUE, time |-> ChunkTime(u, Forward(options)), at |-> <<u, 0>>, slot |-> 0]
    BY <1>2 DEF IsChunkJob
  <2>2. u \in Units /\ u \in Nat
    BY <1>1, UnitsAre DEF Chunks
  <2>3. ChunkTime(u, Forward(options)) \in Nat
    BY <1>1, <2>2, ChunkTimes DEF ChunkTime
  <2> QED BY <2>1, <2>2, <2>3 DEF Position
<1>3. CASE IsMessageJob(j)
  <2>1. PICK a \in Addresses : \E n \in DOMAIN chunkSlots :
          /\ j = [chunk |-> FALSE, time |-> MessageAt(a).logTime, at |-> a, slot |-> n]
          /\ chunkSlots[n].unit = a[1]
    BY <1>3 DEF IsMessageJob
  <2>2. a[1] \in Nat /\ a[2] \in Nat /\ a = <<a[1], a[2]>> /\ MessageAt(a).logTime \in Nat
    BY <1>1, AddressTyped
  <2>3. a \in Nat \X Nat
    BY <2>2
  <2>4. j.chunk = FALSE /\ j.time = MessageAt(a).logTime /\ j.at = a /\ j.slot \in DOMAIN chunkSlots
        /\ chunkSlots[j.slot].unit = a[1]
    BY <2>1
  <2> QED BY <2>2, <2>3, <2>4 DEF Position
<1> QED BY <1>2, <1>3 DEF QueueTyped

\* The job that is due comes before every other.
LEMMA DueIsNext ==
  ASSUME ReaderTyped, QueueTyped, OnceQueued, NEW d \in Due, ~d.chunk, NEW j \in queue, j # d
  PROVE  Precedes(d.at, j) /\ Fresh(d.at, j)
<1>1. d \in queue /\ ~Ahead(j, d)
  BY DEF Due
<1>2. /\ d.time \in Nat /\ d.at \in Addresses /\ d.time = MessageAt(d.at).logTime /\ Position(d) = d.at
      /\ d.at \in Int \X Int
  BY <1>1, JobTyped
<1>3. j.time \in Nat /\ j.at \in Nat \X Nat /\ Position(j) \in Nat \X Nat /\ j.chunk \in BOOLEAN
  BY JobTyped
<1>4. d.at # j.at /\ (j.chunk => d.at[1] # j.at[1])
  BY <1>1 DEF OnceQueued
<1>5. Position(j) # d.at
  <2>1. CASE j.chunk
    <3>1. d.at[2] > 0 /\ d.at[2] \in Nat
      BY <1>2, AddressTyped DEF ReaderTyped
    <3>2. j.at = <<j.at[1], 0>>
      BY <2>1, JobTyped
    <3>3. Position(j)[2] = 0
      BY <2>1, <3>2 DEF Position
    <3> QED BY <3>1, <3>3
  <2>2. CASE ~j.chunk
    BY <2>2, <1>4, JobTyped
  <2> QED BY <2>1, <2>2
<1>6. Before(Position(j), d.at) \/ Before(d.at, Position(j))
  BY <1>2, <1>3, <1>5, BeforeIsAnOrder
<1>7. CASE Forward(options)
  <2>1. Position(j) = j.at
    BY <1>7 DEF Position
  <2>2. ~(j.time < d.time) /\ ~(j.time = d.time /\ Before(j.at, d.at))
    BY <1>1, <1>2, <1>7, <2>1 DEF Ahead
  <2> QED BY <1>2, <1>3, <1>4, <1>6, <1>7, <2>1, <2>2 DEF Precedes, Fresh
<1>8. CASE ~Forward(options)
  <2>1. ~(j.time > d.time) /\ ~(j.time = d.time /\ ~Tangled(j.time) /\ Before(d.at, Position(j)))
    BY <1>1, <1>2, <1>8 DEF Ahead
  <2> QED BY <1>2, <1>3, <1>4, <1>6, <1>8, <2>1 DEF Precedes, Fresh
<1> QED BY <1>7, <1>8

\* What is before a chunk is before its messages.
LEMMA OpenedAreNext ==
  ASSUME ReaderTyped, QueueTyped, NEW d \in queue, d.chunk, NEW a \in Addresses, Precedes(a, d), Fresh(a, d),
         NEW j, j.at \in Addresses, j.at[1] = d.at[1], j.time = MessageAt(j.at).logTime, ~j.chunk
  PROVE  Precedes(a, j) /\ Fresh(a, j)
<1> DEFINE u == d.at[1]
           k == j.at[2]
           t == MessageAt(a).logTime
<1>1. file \in Files /\ u \in Units /\ u \in Nat /\ d.at = <<u, 0>> /\ d.time = ChunkTime(u, Forward(options))
  <2>1. file \in Files
    BY DEF ReaderTyped
  <2> QED BY <2>1, JobTyped, UnitsAre DEF Chunks
<1>2. k \in DOMAIN file.data[u].messages /\ j.at = <<u, k>> /\ k \in Nat /\ k > 0 /\ j.time \in Nat
  BY <1>1, AddressTyped
<1>3. t \in Nat /\ a[1] \in Nat /\ a[2] \in Nat /\ a = <<a[1], a[2]>>
  BY <1>1, AddressTyped
<1>4. j.time = file.data[u].messages[k].logTime
  BY <1>2 DEF MessageAt
<1>5. messageStartTime(u) \in Nat /\ messageEndTime(u) \in Nat /\ messageStartTime(u) <= j.time /\ j.time <= messageEndTime(u)
  BY <1>1, <1>2, <1>4, ChunkTimes
<1>6. Position(j) = j.at
  BY DEF Position
<1>7. a[1] # u
  BY DEF Fresh
<1> HIDE DEF u, k, t
<1>8. Fresh(a, j)
  BY <1>2, <1>3, <1>7 DEF Fresh
<1>9. CASE Forward(options)
  <2>1. d.time = messageStartTime(u)
    BY <1>1, <1>9 DEF ChunkTime
  <2>2. t < d.time \/ (t = d.time /\ Before(a, d.at))
    BY <1>9 DEF Precedes, t
  <2>3. Before(a, d.at) => Before(a, j.at)
    BY <1>1, <1>2, <1>3, <1>7 DEF Before
  <2>4. t < j.time \/ (t = j.time /\ Before(a, j.at))
    BY <1>2, <1>3, <1>5, <2>1, <2>2, <2>3
  <2> QED BY <1>8, <1>9, <2>4 DEF Precedes, t
<1>10. CASE ~Forward(options)
  <2>1. d.time = messageEndTime(u) /\ Position(d) = <<u + 1, 0>>
    BY <1>1, <1>10 DEF ChunkTime, Position, u
  <2>2. t > d.time \/ (t = d.time /\ (Tangled(d.time) \/ Before(Position(d), a)))
    BY <1>10 DEF Precedes, t
  <2>3. Before(Position(d), a) => Before(j.at, a)
    BY <1>1, <1>2, <1>3, <2>1 DEF Before
  <2>4. t > j.time \/ (t = j.time /\ (Tangled(j.time) \/ Before(j.at, a)))
    BY <1>2, <1>3, <1>5, <2>1, <2>2, <2>3
  <2> QED BY <1>6, <1>8, <1>10, <2>4 DEF Precedes, t
<1> QED BY <1>9, <1>10

LEMMA NextIsOrdered ==
  ASSUME NEW a, NEW j, ~j.chunk, j.time = MessageAt(j.at).logTime, Precedes(a, j), Fresh(a, j),
         options.readOrder \in {"LogTimeOrder", "ReverseLogTimeOrder"}
  PROVE  Ordered(a, j.at)
<1>1. CASE options.readOrder = "LogTimeOrder"
  BY <1>1 DEF Ordered, Precedes, Forward
<1>2. CASE options.readOrder = "ReverseLogTimeOrder"
  <2>1. ~Forward(options) /\ Position(j) = j.at /\ a # j.at
    BY <1>2 DEF Forward, Position, Fresh
  <2>2. InReverse(a, j.at)
    BY <2>1 DEF Precedes, InReverse
  <2> QED BY <1>2, <2>2 DEF Ordered
<1> QED BY <1>1, <1>2

-----------------------------------------------------------------------------
(***************************************************************************)
(* Every step keeps the invariant.                                         *)
(***************************************************************************)
LEMMA SummaryOfChunks ==
  ASSUME chunkIndexes \subseteq Chunks, NEW method
  PROVE  SummaryBy(method).chunkIndexes \subseteq Chunks
<1>1. readSummarySection.chunkIndexes \subseteq Chunks
  BY DEF readSummarySection
<1>2. readSummaryFromScan.chunkIndexes \subseteq Chunks
  BY DEF readSummaryFromScan
<1> QED BY <1>1, <1>2 DEF SummaryBy

LEMMA ReaderStarts == ReaderInit => ReaderInv
<1> SUFFICES ASSUME ReaderInit PROVE ReaderInv
  OBVIOUS
<1>1. queue = {} /\ out = <<>> /\ chunkSlots = <<>> /\ chunkIndexes = {} /\ chunkRanges = {}
      /\ status = "open" /\ pos = <<0, 0>> /\ file \in Files /\ DOMAIN out = {} /\ DOMAIN chunkSlots = {}
  BY DEF ReaderInit
<1>2. ReaderTyped
  BY <1>1 DEF ReaderTyped
<1> QED BY <1>1, <1>2 DEF ReaderInv, QueueTyped, OnceQueued, SlotsCounted, OutPrecedes, OutOrdered

LEMMA Delivered ==
  ASSUME out \in Seq(Addresses), OutOrdered, NEW a \in Addresses, NEW known, Deliver(a, known),
         \A i \in DOMAIN out : Ordered(out[i], a)
  PROVE  /\ out' \in Seq(Addresses)
         /\ \A i \in DOMAIN out' : (i \in DOMAIN out /\ out'[i] = out[i]) \/ out'[i] = a
         /\ \A i, j \in DOMAIN out' : i < j => Ordered(out'[i], out'[j])
<1>1. CASE out' = out
  BY <1>1 DEF OutOrdered
<1>2. CASE out' = Append(out, a)
  <2> DEFINE n == Len(out)
             T == Addresses
  <2>1. out \in Seq(T) /\ a \in T
    OBVIOUS
  <2> HIDE DEF T
  <2>2. n \in Nat /\ DOMAIN out = 1..n /\ out' \in Seq(T) /\ DOMAIN out' = 1..(n + 1)
        /\ out'[n + 1] = a /\ \A i \in 1..n : out'[i] = out[i]
    BY <1>2, <2>1
  <2>3. \A i \in 1..(n + 1) : i \in 1..n \/ i = n + 1
    BY <2>2
  <2> HIDE DEF n
  <2>4. \A i, j \in 1..(n + 1) : i < j => i \in 1..n
    BY <2>2
  <2>5. ASSUME NEW i \in 1..(n + 1), NEW j \in 1..(n + 1), i < j PROVE Ordered(out'[i], out'[j])
    <3>1. i \in 1..n /\ out'[i] = out[i]
      BY <2>2, <2>4, <2>5
    <3>2. CASE j = n + 1
      BY <2>2, <3>1, <3>2
    <3>3. CASE j \in 1..n
      BY <2>2, <2>5, <3>1, <3>3 DEF OutOrdered
    <3> QED BY <2>3, <3>2, <3>3
  <2> QED BY <2>2, <2>3, <2>5 DEF T
<1> QED BY <1>1, <1>2 DEF Deliver

LEMMA FileStays ==
  ASSUME file' = file
  PROVE  /\ \A a : MessageAt(a)' = MessageAt(a)
         /\ \A u, forward : ChunkTime(u, forward)' = ChunkTime(u, forward)
         /\ \A t : Tangled(t)' <=> Tangled(t)
         /\ Units' = Units /\ Chunks' = Chunks /\ Addresses' = Addresses
<1>1. \A u : messageEndTime(u)' = messageEndTime(u) /\ messageStartTime(u)' = messageStartTime(u)
             /\ LogTimes(u)' = LogTimes(u)
  BY DEF LogTimes, messageEndTime, messageStartTime
<1>2. \A t : Tangled(t)' <=> Tangled(t)
  BY <1>1 DEF Tangled, Units
<1>3. \A u, forward : ChunkTime(u, forward)' = ChunkTime(u, forward)
  BY <1>1 DEF ChunkTime
<1>4. \A a : MessageAt(a)' = MessageAt(a)
  BY DEF MessageAt
<1>5. Units' = Units /\ Chunks' = Chunks /\ Addresses' = Addresses
  BY DEF Units, Chunks, Addresses
<1> QED BY <1>2, <1>3, <1>4, <1>5

LEMMA OrderStays ==
  ASSUME file' = file, options' = options,
         \A i, j \in DOMAIN out' : i < j => Ordered(out'[i], out'[j])
  PROVE  OutOrdered'
<1>1. \A a, b : InReverse(a, b)' <=> InReverse(a, b)
  BY FileStays DEF InReverse
<1>2. \A a, b : Ordered(a, b)' <=> Ordered(a, b)
  BY <1>1, FileStays DEF Ordered
<1> QED BY <1>2 DEF OutOrdered

LEMMA readSummaryKeeps == ASSUME ReaderInv, NEW method, readSummary(method) PROVE ReaderInv'
<1>1. UNCHANGED <<file, status, options, pos, endUnit, queue, selectedChannels, chunkSlots, out>>
      /\ status = "open"
  BY DEF readSummary, readVars
<1>2. chunkIndexes' \subseteq Chunks /\ chunkRanges' \subseteq Chunks
  BY SummaryOfChunks DEF readSummary, KeepSummary, ReaderInv, ReaderTyped
<1>3. queue = {} /\ out = <<>> /\ DOMAIN out = {}
  BY <1>1 DEF ReaderInv, ReaderTyped
<1>4. ReaderTyped'
  BY <1>1, <1>2 DEF ReaderInv, ReaderTyped, Chunks, Units, Addresses
<1>5. OutOrdered'
  BY <1>1, <1>3 DEF OutOrdered
<1>6. SlotsCounted'
  BY <1>1 DEF ReaderInv, SlotsCounted, QueuedIn
<1> QED BY <1>1, <1>3, <1>4, <1>5, <1>6 DEF ReaderInv, QueueTyped, OnceQueued, OutPrecedes

LEMMA ChunkJobsTyped ==
  ASSUME file \in Files, NEW o, NEW indexes, indexes \subseteq Chunks, NEW selected, NEW j \in ChunkJobs(o, indexes, selected)
  PROVE  \E u \in Chunks : j = [chunk |-> TRUE, time |-> ChunkTime(u, Forward(o)), at |-> <<u, 0>>, slot |-> 0]
BY DEF ChunkJobs

LEMMA ByteRangeTyped ==
  ASSUME ReaderTyped, NEW o \in Options
  PROVE  byteRange(o)[1] \in Nat /\ byteRange(o)[1] >= 1 /\ byteRange(o)[2] \in Int
<1> DEFINE near == visit_overlapping(o.startTime, o.endTime)
<1>1. chunkRanges \subseteq Chunks /\ Chunks \subseteq Units /\ file \in Files
  BY DEF ReaderTyped, Chunks
<1>2. near \subseteq Units
  <2>1. o.startTime \in Int /\ o.endTime \in Int
    BY ReaderAssumption
  <2> QED BY <1>1, <2>1, Overlapping
<1>3. \A u \in Units : u \in Nat /\ u >= 1
  BY <1>1, UnitsAre
<1> HIDE DEF near
<1>4. near # {} => Min(near) \in near
  BY <1>2, <1>3, MinOfNaturals
<1>5. near # {} => Min(near) \in Nat /\ Min(near) >= 1
  BY <1>2, <1>3, <1>4
<1>6. near # {} => Max(near) \in Int
  <2>1. Units = 1..Len(file.data) /\ Len(file.data) \in Nat
    BY <1>1, UnitsAre
  <2>2. IsFiniteSet(near)
    <3>1. IsFiniteSet(Units)
      BY <2>1, FS_Interval
    <3> QED BY <1>2, <3>1, FS_Subset
  <2> QED BY <1>2, <1>3, <2>2, MaxOfFinite
<1>7. Len(file.data) \in Int
  BY <1>1, UnitsAre
<1> QED BY <1>5, <1>6, <1>7 DEF byteRange, near

LEMMA readMessagesKeeps == ASSUME ReaderInv, NEW o \in Options, readMessages(o) PROVE ReaderInv'
<1>1. file' = file /\ chunkSlots' = chunkSlots /\ out' = out /\ options' = o /\ status = "open"
  BY DEF readMessages
<1>2. queue = {} /\ out = <<>> /\ DOMAIN out = {} /\ ReaderTyped /\ file \in Files
  BY <1>1 DEF ReaderInv, ReaderTyped
<1>3. OutOrdered'
  BY <1>1, <1>2 DEF OutOrdered
<1>4. o.readOrder \in {"FileOrder", "LogTimeOrder", "ReverseLogTimeOrder"}
  BY ReaderAssumption
<1>5. CASE byteRange(o)[2] = 0
  <2>1. status' = "done" /\ UNCHANGED <<summaryVars, pos, endUnit, queue, selectedChannels>>
    BY <1>5 DEF readMessages
  <2>2. ReaderTyped'
    BY <1>1, <1>2, <2>1 DEF ReaderTyped, Chunks, Units, Addresses, summaryVars
  <2>3. SlotsCounted'
    BY <1>1, <2>1 DEF ReaderInv, SlotsCounted, QueuedIn
  <2> QED BY <1>1, <1>2, <1>3, <2>1, <2>2, <2>3 DEF ReaderInv, QueueTyped, OnceQueued, OutPrecedes
<1>6. CASE readInFileOrder(o)
  <2>1. status' = "file" /\ pos' = <<byteRange(o)[1], 0>> /\ UNCHANGED <<summaryVars, queue>>
        /\ o.readOrder = "FileOrder"
    BY <1>6 DEF readInFileOrder
  <2>2. pos' \in Nat \X Nat /\ pos'[1] >= 1 /\ pos'[2] = 0
    BY <1>2, <2>1, ByteRangeTyped
  <2>3. InFile'
    BY <1>1, <1>2, <2>2 DEF InFile
  <2>4. ReaderTyped'
    BY <1>1, <1>2, <2>1, <2>2, <2>3 DEF ReaderTyped, Chunks, Units, Addresses, summaryVars
  <2>5. SlotsCounted'
    BY <1>1, <2>1 DEF ReaderInv, SlotsCounted, QueuedIn
  <2> QED BY <1>1, <1>2, <1>3, <2>1, <2>4, <2>5 DEF ReaderInv, QueueTyped, OnceQueued, OutPrecedes
<1>7. CASE readInLogOrder(o)
  <2> DEFINE s == IF chunkIndexes = {} THEN SummaryBy("AllowFallbackScan")
                  ELSE [ok |-> TRUE, channels |-> channels, chunkIndexes |-> chunkIndexes,
                        messageIndexes |-> messageIndexes]
             selected == s.channels \cap o.topics
  <2>1. o.readOrder # "FileOrder" /\ pos' = pos
        /\ (IF chunkIndexes = {} THEN KeepSummary(s) ELSE UNCHANGED summaryVars)
        /\ (IF s.ok /\ s.chunkIndexes # {} /\ s.messageIndexes
            THEN /\ status' = "indexed" /\ selectedChannels' = selected
                 /\ queue' = ChunkJobs(o, s.chunkIndexes, selected)
            ELSE status' = "failed" /\ UNCHANGED <<selectedChannels, queue>>)
    BY <1>7 DEF readInLogOrder
  <2>2. s.chunkIndexes \subseteq Chunks
    BY <1>2, SummaryOfChunks DEF ReaderTyped
  <2>3. chunkIndexes' \subseteq Chunks /\ chunkRanges' \subseteq Chunks
    BY <1>2, <2>1, <2>2 DEF KeepSummary, summaryVars, ReaderTyped
  <2> HIDE DEF s
  <2>4. /\ status' \in {"indexed", "failed"}
        /\ \A j \in queue' : \E u \in Chunks :
             j = [chunk |-> TRUE, time |-> ChunkTime(u, Forward(o)), at |-> <<u, 0>>, slot |-> 0]
    BY <1>2, <2>1, <2>2, ChunkJobsTyped
  <2>5. ReaderTyped'
    BY <1>1, <1>2, <1>4, <2>1, <2>3, <2>4 DEF ReaderTyped, Chunks, Units, Addresses
  <2>6. QueueTyped'
    <3>1. \A j \in queue' : IsChunkJob(j)'
      BY <1>1, <2>4, FileStays DEF IsChunkJob, Forward
    <3> QED BY <3>1 DEF QueueTyped
  <2>7. OnceQueued'
    <3>1. ASSUME NEW i \in queue', NEW j \in queue', i.at[1] = j.at[1] PROVE i = j
      <4>1. PICK u \in Chunks : i = [chunk |-> TRUE, time |-> ChunkTime(u, Forward(o)), at |-> <<u, 0>>, slot |-> 0]
        BY <2>4
      <4>2. PICK v \in Chunks : j = [chunk |-> TRUE, time |-> ChunkTime(v, Forward(o)), at |-> <<v, 0>>, slot |-> 0]
        BY <2>4
      <4>3. u = v
        BY <3>1, <4>1, <4>2
      <4> QED BY <4>1, <4>2, <4>3
    <3> QED BY <3>1 DEF OnceQueued
  <2>8. SlotsCounted'
    <3>1. ASSUME NEW n \in DOMAIN chunkSlots PROVE {j \in queue' : ~j.chunk /\ j.slot = n} = QueuedIn(n)
      BY <1>2, <2>4 DEF QueuedIn
    <3> QED BY <1>1, <3>1 DEF ReaderInv, SlotsCounted, QueuedIn
  <2> QED BY <1>1, <1>2, <1>3, <2>5, <2>6, <2>7, <2>8 DEF ReaderInv, OutPrecedes
<1> QED BY <1>5, <1>6, <1>7 DEF readMessages

LEMMA NextInFileKeeps == ASSUME ReaderInv, NextInFile PROVE ReaderInv'
<1> DEFINE known == IF pos[2] > 0 /\ Declares(pos) THEN channels \cup {MessageAt(pos).channel} ELSE channels
<1>1. /\ file' = file /\ options' = options /\ chunkSlots' = chunkSlots /\ queue' = queue /\ status' = status
      /\ chunkIndexes' = chunkIndexes /\ chunkRanges' = chunkRanges /\ status = "file" /\ pos[1] <= Whole
      /\ pos' = Following(pos)
      /\ IF pos[2] > 0 /\ pos \notin file.bad THEN Deliver(pos, known) ELSE UNCHANGED out
  BY DEF NextInFile
<1> HIDE DEF known
<1>2. /\ file \in Files /\ pos \in Nat \X Nat /\ out \in Seq(Addresses) /\ OutOrdered /\ queue = {}
      /\ options.readOrder = "FileOrder" /\ pos[1] >= 1 /\ (pos[2] > 0 => pos \in Addresses)
      /\ \A i \in DOMAIN out : Before(out[i], pos)
  BY <1>1 DEF ReaderInv, ReaderTyped, InFile
<1>3. \A a, b : Ordered(a, b) <=> Before(a, b)
  BY <1>2 DEF Ordered
<1>4. /\ out' \in Seq(Addresses) /\ \A i, j \in DOMAIN out' : i < j => Ordered(out'[i], out'[j])
      /\ \A i \in DOMAIN out' : out'[i] \in Addresses /\ (Before(out'[i], pos) \/ out'[i] = pos)
  <2>1. CASE out' = out
    <3>1. \A i \in DOMAIN out : out[i] \in Addresses
      BY <1>2
    <3> QED BY <1>2, <2>1, <3>1 DEF OutOrdered
  <2>2. CASE pos[2] > 0 /\ Deliver(pos, known)
    <3>1. \A i \in DOMAIN out : Ordered(out[i], pos)
      BY <1>2, <1>3
    <3>2. /\ out' \in Seq(Addresses)
          /\ \A i \in DOMAIN out' : (i \in DOMAIN out /\ out'[i] = out[i]) \/ out'[i] = pos
          /\ \A i, j \in DOMAIN out' : i < j => Ordered(out'[i], out'[j])
      BY <1>2, <2>2, <3>1, Delivered
    <3>3. \A i \in DOMAIN out' : out'[i] \in Addresses
      BY <3>2
    <3> QED BY <1>2, <3>2, <3>3
  <2> QED BY <1>1, <2>1, <2>2
<1>5. pos = <<pos[1], pos[2]>> /\ pos[1] \in Nat /\ pos[2] \in Nat /\ pos[1] \in Units
      /\ Len(file.data[pos[1]].messages) \in Nat
      /\ DOMAIN file.data[pos[1]].messages = 1..Len(file.data[pos[1]].messages)
  <2>1. Len(file.data) \in Nat /\ Units = 1..Len(file.data) /\ \A u \in Units : Unit(file.data[u].messages)
    BY <1>2, UnitsAre
  <2>2. pos[1] <= Len(file.data) /\ pos = <<pos[1], pos[2]>> /\ pos[1] \in Nat /\ pos[2] \in Nat
    BY <1>1, <1>2, <2>1 DEF Whole
  <2>3. pos[1] \in Units
    BY <1>2, <2>1, <2>2
  <2> QED BY <2>1, <2>2, <2>3 DEF Unit
<1>6. pos' \in Nat \X Nat /\ Before(pos, pos') /\ pos'[1] >= 1
  BY <1>1, <1>2, <1>5 DEF Following, Before
<1>7. pos'[2] > 0 => pos' \in Addresses
  <2>1. CASE pos' = <<pos[1], pos[2] + 1>> /\ pos[2] < Len(file.data[pos[1]].messages)
    <3>1. pos[2] + 1 \in DOMAIN file.data[pos[1]].messages
      BY <1>5, <2>1
    <3> QED BY <1>2, <1>5, <2>1, <3>1, AddressIs
  <2>2. CASE pos' = <<pos[1] + 1, 0>>
    BY <2>2
  <2> QED BY <1>1, <2>1, <2>2 DEF Following
<1>8. \A i \in DOMAIN out' : Before(out'[i], pos')
  <2> SUFFICES ASSUME NEW i \in DOMAIN out' PROVE Before(out'[i], pos')
    OBVIOUS
  <2>1. out'[i] \in Addresses /\ (Before(out'[i], pos) \/ out'[i] = pos)
    BY <1>4
  <2>2. out'[i] \in Int \X Int /\ pos \in Int \X Int /\ pos' \in Int \X Int
    <3>1. out'[i] = <<out'[i][1], out'[i][2]>> /\ out'[i][1] \in Nat /\ out'[i][2] \in Nat
      BY <1>2, <2>1, AddressTyped
    <3>2. \A x, y \in Nat : <<x, y>> \in Int \X Int
      OBVIOUS
    <3>3. pos' = <<pos'[1], pos'[2]>> /\ pos'[1] \in Nat /\ pos'[2] \in Nat
      BY <1>6
    <3> QED BY <1>5, <3>1, <3>2, <3>3
  <2> QED BY <1>6, <2>1, <2>2, BeforeChains
<1>9. InFile'
  BY <1>1, <1>6, <1>7, <1>8 DEF InFile, Addresses, Units
<1>10. ReaderTyped'
  BY <1>1, <1>2, <1>4, <1>6, <1>9 DEF ReaderInv, ReaderTyped, Chunks, Units, Addresses
<1>11. OutOrdered'
  BY <1>1, <1>4, OrderStays
<1>12. SlotsCounted'
  BY <1>1 DEF ReaderInv, SlotsCounted, QueuedIn
<1> QED BY <1>1, <1>2, <1>10, <1>11, <1>12 DEF ReaderInv, QueueTyped, OnceQueued, OutPrecedes

\* The jobs of a chunk that is opened: one for each message that is wanted.
LEMMA MessageJobsAre ==
  ASSUME file \in Files, NEW u \in Units, NEW slot
  PROVE  /\ IsFiniteSet(MessageJobs(u, slot))
         /\ \A j \in MessageJobs(u, slot) :
              /\ j.at \in Addresses /\ j.at[1] = u /\ ~j.chunk /\ j.slot = slot
              /\ j = [chunk |-> FALSE, time |-> MessageAt(j.at).logTime, at |-> j.at, slot |-> slot]
         /\ \A i, j \in MessageJobs(u, slot) : i.at = j.at => i = j
<1> DEFINE J == MessageJobs(u, slot)
           K == {k \in DOMAIN file.data[u].messages :
                  /\ MessageAt(<<u, k>>).channel \in selectedChannels
                  /\ MessageAt(<<u, k>>).logTime >= options.startTime
                  /\ MessageAt(<<u, k>>).logTime < options.endTime}
           Job(k) == [chunk |-> FALSE, time |-> MessageAt(<<u, k>>).logTime, at |-> <<u, k>>, slot |-> slot]
           f == [k \in K |-> Job(k)]
<1>1. \A j : j \in J <=> \E k \in K : j = Job(k)
  BY DEF MessageJobs
<1>2. IsFiniteSet(K)
  <2>1. Unit(file.data[u].messages)
    BY UnitsAre
  <2>2. IsFiniteSet(DOMAIN file.data[u].messages)
    BY <2>1, FS_Interval DEF Unit
  <2> QED BY <2>2, FS_Subset
<1> HIDE DEF J
<1>3. f \in Surjection(K, J)
  BY <1>1 DEF Surjection
<1>4. IsFiniteSet(J)
  BY <1>2, <1>3, FS_Surjection
<1>5. ASSUME NEW j \in J
      PROVE  /\ j.at \in Addresses /\ j.at[1] = u /\ ~j.chunk /\ j.slot = slot
             /\ j = [chunk |-> FALSE, time |-> MessageAt(j.at).logTime, at |-> j.at, slot |-> slot]
  <2>1. PICK k \in K : j = Job(k)
    BY <1>1
  <2>2. <<u, k>> \in Addresses
    BY AddressIs
  <2> QED BY <2>1, <2>2
<1> QED BY <1>4, <1>5 DEF J

LEMMA FreeSlot ==
  ASSUME chunkSlots \in Seq([unit : Nat, unreadMessages : Int])
  PROVE  LET slot == findFreeChunkSlot(chunkSlots)
         IN  (slot \in DOMAIN chunkSlots /\ chunkSlots[slot].unreadMessages = 0) \/ slot = Len(chunkSlots) + 1
<1> DEFINE free == {n \in DOMAIN chunkSlots : chunkSlots[n].unreadMessages = 0}
<1>1. free \in SUBSET Nat
  OBVIOUS
<1>2. free # {} => Min(free) \in free
  BY <1>1, MinOfNaturals
<1> QED BY <1>2 DEF findFreeChunkSlot

\* The slot that a chunk is put into, and the others.
LEMMA SlotFilled ==
  ASSUME NEW T, NEW s \in Seq(T), NEW n, n \in DOMAIN s \/ n = Len(s) + 1, NEW x \in T,
         NEW r, r = IF n \in DOMAIN s THEN [s EXCEPT ![n] = x] ELSE Append(s, x)
  PROVE  /\ r \in Seq(T) /\ n \in DOMAIN r /\ r[n] = x
         /\ \A m \in DOMAIN r : m = n \/ (m \in DOMAIN s /\ r[m] = s[m])
         /\ \A m \in DOMAIN s : m # n => m \in DOMAIN r /\ r[m] = s[m]
<1>1. Len(s) \in Nat /\ DOMAIN s = 1..Len(s)
  OBVIOUS
<1>2. CASE n \in DOMAIN s
  <2>1. r = [s EXCEPT ![n] = x]
    BY <1>2
  <2> QED BY <1>1, <1>2, <2>1
<1>3. CASE n \notin DOMAIN s
  <2>1. r = Append(s, x) /\ n = Len(s) + 1
    BY <1>3
  <2>2. r \in Seq(T) /\ DOMAIN r = 1..(Len(s) + 1) /\ r[Len(s) + 1] = x /\ \A m \in 1..Len(s) : r[m] = s[m]
    <3>1. Append(s, x) \in Seq(T) /\ DOMAIN Append(s, x) = 1..(Len(s) + 1) /\ Append(s, x)[Len(s) + 1] = x
          /\ \A m \in 1..Len(s) : Append(s, x)[m] = s[m]
      OBVIOUS
    <3> QED BY <2>1, <3>1
  <2>3. \A m \in 1..(Len(s) + 1) : m \in 1..Len(s) \/ m = Len(s) + 1
    BY <1>1
  <2>4. Len(s) + 1 \in 1..(Len(s) + 1) /\ 1..Len(s) \subseteq 1..(Len(s) + 1)
    BY <1>1
  <2> QED BY <1>1, <2>1, <2>2, <2>3, <2>4
<1> QED BY <1>2, <1>3

LEMMA OpenChunkKeeps ==
  ASSUME ReaderInv, status = "indexed", NEW d \in Due, OpenChunk(d),
         UNCHANGED <<file, summaryVars, options, pos, endUnit, selectedChannels>>
  PROVE  ReaderInv'
<1> DEFINE u == d.at[1]
           slot == findFreeChunkSlot(chunkSlots)
           jobs == MessageJobs(u, slot)
           opened == [unit |-> u, unreadMessages |-> Cardinality(jobs)
                        + IF slot \in DOMAIN chunkSlots THEN chunkSlots[slot].unreadMessages ELSE 0]
<1>1. /\ file' = file /\ options' = options /\ chunkIndexes' = chunkIndexes /\ chunkRanges' = chunkRanges
      /\ pos' = pos /\ out' = out /\ d.chunk
      /\ IF <<u, 0>> \in file.bad
         THEN status' = "failed" /\ queue' = queue \ {d} /\ UNCHANGED chunkSlots
         ELSE /\ queue' = (queue \ {d}) \cup jobs
              /\ chunkSlots' = IF slot \in DOMAIN chunkSlots THEN [chunkSlots EXCEPT ![slot] = opened]
                               ELSE Append(chunkSlots, opened)
              /\ UNCHANGED status
  BY DEF OpenChunk, summaryVars
<1>2. d \in queue /\ ReaderTyped /\ QueueTyped /\ OnceQueued /\ SlotsCounted /\ OutPrecedes /\ OutOrdered
      /\ file \in Files /\ chunkSlots \in Seq([unit : Nat, unreadMessages : Int]) /\ out \in Seq(Addresses)
  BY DEF Due, ReaderInv, ReaderTyped
<1>3. u \in Chunks /\ u \in Units /\ u \in Nat /\ d.at = <<u, 0>>
  BY <1>1, <1>2, JobTyped, UnitsAre DEF Chunks
<1> HIDE DEF u, slot, jobs, opened
<1>4. /\ Units' = Units /\ Chunks' = Chunks /\ Addresses' = Addresses
      /\ \A a : MessageAt(a)' = MessageAt(a)
      /\ \A v, forward : ChunkTime(v, forward)' = ChunkTime(v, forward)
      /\ \A t : Tangled(t)' <=> Tangled(t)
  BY <1>1, FileStays
<1>5. OutOrdered'
  BY <1>1, <1>2, OrderStays DEF OutOrdered
<1>6. CASE <<u, 0>> \in file.bad
  <2>1. status' = "failed" /\ queue' = queue \ {d} /\ chunkSlots' = chunkSlots
    BY <1>1, <1>6
  <2>2. ReaderTyped'
    BY <1>1, <1>2, <1>4, <2>1 DEF ReaderTyped
  <2>3. QueueTyped'
    BY <1>1, <1>2, <1>4, <2>1 DEF QueueTyped, IsChunkJob, IsMessageJob, Forward
  <2>4. OnceQueued'
    BY <1>2, <2>1 DEF OnceQueued
  <2>5. SlotsCounted'
    <3>1. \A n : {j \in queue' : ~j.chunk /\ j.slot = n} = QueuedIn(n)
      BY <1>1, <2>1 DEF QueuedIn
    <3> QED BY <1>2, <2>1, <3>1 DEF SlotsCounted, QueuedIn
  <2>6. OutPrecedes'
    BY <1>1, <1>2, <1>4, <2>1 DEF OutPrecedes, Precedes, Fresh, Position, Forward
  <2> QED BY <1>5, <2>2, <2>3, <2>4, <2>5, <2>6 DEF ReaderInv
<1>7. CASE <<u, 0>> \notin file.bad
  <2>1. /\ queue' = (queue \ {d}) \cup jobs /\ status' = status
        /\ chunkSlots' = IF slot \in DOMAIN chunkSlots THEN [chunkSlots EXCEPT ![slot] = opened]
                         ELSE Append(chunkSlots, opened)
    BY <1>1, <1>7
  <2>2. /\ IsFiniteSet(jobs)
        /\ \A j \in jobs : /\ j.at \in Addresses /\ j.at[1] = u /\ ~j.chunk /\ j.slot = slot
                           /\ j = [chunk |-> FALSE, time |-> MessageAt(j.at).logTime, at |-> j.at, slot |-> slot]
        /\ \A i, j \in jobs : i.at = j.at => i = j
    BY <1>2, <1>3, MessageJobsAre DEF jobs
  <2>3. (slot \in DOMAIN chunkSlots /\ chunkSlots[slot].unreadMessages = 0) \/ slot = Len(chunkSlots) + 1
    BY <1>2, FreeSlot DEF slot
  <2>4. slot \notin DOMAIN chunkSlots \/ chunkSlots[slot].unreadMessages = 0
    BY <1>2, <2>3
  <2>5. opened = [unit |-> u, unreadMessages |-> Cardinality(jobs)] /\ Cardinality(jobs) \in Nat
    <3>1. Cardinality(jobs) \in Nat
      BY <2>2, FS_CardinalityType
    <3> QED BY <2>4, <3>1 DEF opened
  <2>6. /\ chunkSlots' \in Seq([unit : Nat, unreadMessages : Int])
        /\ slot \in DOMAIN chunkSlots' /\ chunkSlots'[slot] = opened
        /\ \A m \in DOMAIN chunkSlots' : m = slot \/ (m \in DOMAIN chunkSlots /\ chunkSlots'[m] = chunkSlots[m])
        /\ \A m \in DOMAIN chunkSlots : m # slot => m \in DOMAIN chunkSlots' /\ chunkSlots'[m] = chunkSlots[m]
    <3> DEFINE T == [unit : Nat, unreadMessages : Int]
    <3>1. opened \in T
      BY <1>3, <2>5
    <3> HIDE DEF T
    <3>2. chunkSlots \in Seq(T) /\ (slot \in DOMAIN chunkSlots \/ slot = Len(chunkSlots) + 1)
      BY <1>2, <2>3 DEF T
    <3>3. /\ chunkSlots' \in Seq(T) /\ slot \in DOMAIN chunkSlots' /\ chunkSlots'[slot] = opened
          /\ \A m \in DOMAIN chunkSlots' : m = slot \/ (m \in DOMAIN chunkSlots /\ chunkSlots'[m] = chunkSlots[m])
          /\ \A m \in DOMAIN chunkSlots : m # slot => m \in DOMAIN chunkSlots' /\ chunkSlots'[m] = chunkSlots[m]
      BY <2>1, <3>1, <3>2, SlotFilled
    <3> QED BY <3>3 DEF T
  <2>7. \A j \in queue : ~j.chunk => j.slot # slot /\ j.slot \in DOMAIN chunkSlots
    <3> SUFFICES ASSUME NEW j \in queue, ~j.chunk PROVE j.slot # slot /\ j.slot \in DOMAIN chunkSlots
      OBVIOUS
    <3>1. j.slot \in DOMAIN chunkSlots
      BY <1>2, JobTyped
    <3>2. ASSUME j.slot = slot PROVE FALSE
      <4>1. IsFiniteSet(QueuedIn(slot)) /\ Cardinality(QueuedIn(slot)) = 0
        BY <1>2, <2>4, <3>1, <3>2 DEF SlotsCounted
      <4>2. j \in QueuedIn(slot)
        BY <3>2 DEF QueuedIn
      <4> QED BY <4>1, <4>2, FS_EmptySet
    <3> QED BY <3>1, <3>2
  <2>8. \A j \in queue' : (j \in queue /\ j # d) \/ j \in jobs
    BY <2>1
  <2>9. \A i \in queue, j \in jobs : i # d => i.at # j.at /\ ~(i.chunk /\ i.at[1] = j.at[1])
    <3> SUFFICES ASSUME NEW i \in queue, NEW j \in jobs, i # d
                 PROVE  i.at # j.at /\ ~(i.chunk /\ i.at[1] = j.at[1])
      OBVIOUS
    <3>1. d.at[1] # i.at[1]
      BY <1>1, <1>2 DEF OnceQueued
    <3> QED BY <2>2, <3>1 DEF u
  <2>10. ReaderTyped'
    BY <1>1, <1>2, <1>4, <2>1, <2>6 DEF ReaderTyped
  <2>11. QueueTyped'
    <3>1. ASSUME NEW j \in queue, j # d PROVE IsChunkJob(j)' \/ IsMessageJob(j)'
      <4>1. CASE IsChunkJob(j)
        BY <1>1, <1>4, <4>1 DEF IsChunkJob, Forward
      <4>2. CASE IsMessageJob(j)
        <5>1. PICK a \in Addresses : \E n \in DOMAIN chunkSlots :
                /\ j = [chunk |-> FALSE, time |-> MessageAt(a).logTime, at |-> a, slot |-> n]
                /\ chunkSlots[n].unit = a[1]
          BY <4>2 DEF IsMessageJob
        <5>2. PICK n \in DOMAIN chunkSlots :
                /\ j = [chunk |-> FALSE, time |-> MessageAt(a).logTime, at |-> a, slot |-> n]
                /\ chunkSlots[n].unit = a[1]
          BY <5>1
        <5>3. n # slot
          BY <2>7, <5>2
        <5>4. n \in DOMAIN chunkSlots' /\ chunkSlots'[n] = chunkSlots[n]
          BY <2>6, <5>3
        <5> QED BY <1>4, <5>2, <5>4 DEF IsMessageJob
      <4> QED BY <1>2, <4>1, <4>2 DEF QueueTyped
    <3>2. ASSUME NEW j \in jobs PROVE IsMessageJob(j)'
      <4>1. j.at \in Addresses /\ j.at[1] = u
            /\ j = [chunk |-> FALSE, time |-> MessageAt(j.at).logTime, at |-> j.at, slot |-> slot]
        BY <2>2
      <4>2. slot \in DOMAIN chunkSlots' /\ chunkSlots'[slot].unit = u
        BY <2>5, <2>6
      <4> QED BY <1>4, <4>1, <4>2 DEF IsMessageJob
    <3> QED BY <2>8, <3>1, <3>2 DEF QueueTyped
  <2>12. OnceQueued'
    BY <1>2, <2>2, <2>8, <2>9 DEF OnceQueued
  <2>13. SlotsCounted'
    <3>1. {j \in queue' : ~j.chunk /\ j.slot = slot} = jobs
      BY <2>1, <2>2, <2>7
    <3>2. \A n : n # slot => {j \in queue' : ~j.chunk /\ j.slot = n} = QueuedIn(n)
      BY <1>1, <2>1, <2>2 DEF QueuedIn
    <3>3. ASSUME NEW n \in DOMAIN chunkSlots'
          PROVE  /\ IsFiniteSet({j \in queue' : ~j.chunk /\ j.slot = n})
                 /\ chunkSlots'[n].unreadMessages = Cardinality({j \in queue' : ~j.chunk /\ j.slot = n})
      <4>1. CASE n = slot
        <5>1. chunkSlots'[slot].unreadMessages = Cardinality(jobs)
          BY <2>5, <2>6
        <5> QED BY <2>2, <3>1, <4>1, <5>1
      <4>2. CASE n # slot
        BY <1>2, <2>6, <3>2, <4>2 DEF SlotsCounted
      <4> QED BY <4>1, <4>2
    <3> QED BY <3>3 DEF SlotsCounted, QueuedIn
  <2>14. OutPrecedes'
    <3>1. ASSUME NEW i \in DOMAIN out, NEW j \in queue' PROVE Precedes(out[i], j) /\ Fresh(out[i], j)
      <4>1. out[i] \in Addresses
        BY <1>2
      <4>2. CASE j \in queue
        BY <1>2, <4>2 DEF OutPrecedes
      <4>3. CASE j \in jobs
        <5>1. j.at \in Addresses /\ j.at[1] = d.at[1] /\ ~j.chunk /\ j.time = MessageAt(j.at).logTime
          BY <2>2, <4>3 DEF u
        <5>2. Precedes(out[i], d) /\ Fresh(out[i], d)
          BY <1>2 DEF OutPrecedes
        <5> QED BY <1>1, <1>2, <4>1, <5>1, <5>2, OpenedAreNext
      <4> QED BY <2>8, <4>2, <4>3
    <3> QED BY <1>1, <1>4, <3>1 DEF OutPrecedes, Precedes, Fresh, Position, Forward
  <2> QED BY <1>5, <2>10, <2>11, <2>12, <2>13, <2>14 DEF ReaderInv
<1> QED BY <1>6, <1>7

LEMMA ReadMessageKeeps ==
  ASSUME ReaderInv, status = "indexed", NEW d \in Due, ReadMessage(d),
         UNCHANGED <<file, summaryVars, options, pos, endUnit, selectedChannels>>
  PROVE  ReaderInv'
<1> DEFINE slot == chunkSlots[d.slot]
           a == <<slot.unit, d.at[2]>>
<1>1. /\ file' = file /\ options' = options /\ chunkIndexes' = chunkIndexes /\ chunkRanges' = chunkRanges
      /\ pos' = pos /\ ~d.chunk /\ queue' = queue \ {d}
      /\ chunkSlots' = [chunkSlots EXCEPT ![d.slot].unreadMessages = @ - 1]
      /\ IF a \notin Addresses \/ a \in file.bad THEN status' = "failed" /\ out' = out
         ELSE Deliver(a, channels) /\ status' = status
  BY DEF ReadMessage, summaryVars
<1>2. d \in queue /\ ReaderTyped /\ QueueTyped /\ OnceQueued /\ SlotsCounted /\ OutPrecedes /\ OutOrdered
      /\ file \in Files /\ chunkSlots \in Seq([unit : Nat, unreadMessages : Int]) /\ out \in Seq(Addresses)
      /\ options.readOrder \in {"LogTimeOrder", "ReverseLogTimeOrder"}
  BY DEF Due, ReaderInv, ReaderTyped
<1>3. d.at \in Addresses /\ d.time = MessageAt(d.at).logTime /\ d.slot \in DOMAIN chunkSlots
      /\ chunkSlots[d.slot].unit = d.at[1]
  BY <1>1, <1>2, JobTyped
<1>4. a = d.at
  <2>1. d.at = <<d.at[1], d.at[2]>>
    BY <1>2, <1>3, AddressTyped
  <2> QED BY <1>3, <2>1
<1> HIDE DEF a, slot
<1>5. /\ Units' = Units /\ Chunks' = Chunks /\ Addresses' = Addresses
      /\ \A b : MessageAt(b)' = MessageAt(b)
      /\ \A v, forward : ChunkTime(v, forward)' = ChunkTime(v, forward)
      /\ \A t : Tangled(t)' <=> Tangled(t)
  BY <1>1, FileStays
<1>6. /\ out' \in Seq(Addresses)
      /\ \A i \in DOMAIN out' : (i \in DOMAIN out /\ out'[i] = out[i]) \/ out'[i] = d.at
      /\ \A i, j \in DOMAIN out' : i < j => Ordered(out'[i], out'[j])
  <2>1. CASE out' = out
    BY <1>2, <2>1 DEF OutOrdered
  <2>2. CASE Deliver(a, channels)
    <3>1. \A i \in DOMAIN out : Ordered(out[i], a)
      BY <1>1, <1>2, <1>3, <1>4, NextIsOrdered DEF OutPrecedes
    <3> QED BY <1>2, <1>3, <1>4, <2>2, <3>1, Delivered
  <2> QED BY <1>1, <2>1, <2>2
<1>7. OutOrdered'
  BY <1>1, <1>6, OrderStays
<1>8. /\ chunkSlots' \in Seq([unit : Nat, unreadMessages : Int]) /\ DOMAIN chunkSlots' = DOMAIN chunkSlots
      /\ \A n \in DOMAIN chunkSlots : /\ chunkSlots'[n].unit = chunkSlots[n].unit
                                      /\ n # d.slot => chunkSlots'[n] = chunkSlots[n]
      /\ chunkSlots'[d.slot].unreadMessages = chunkSlots[d.slot].unreadMessages - 1
  <2> DEFINE x == [chunkSlots[d.slot] EXCEPT !.unreadMessages = @ - 1]
             T == [unit : Nat, unreadMessages : Int]
  <2>1. chunkSlots' = [chunkSlots EXCEPT ![d.slot] = x]
    BY <1>1
  <2>2. chunkSlots[d.slot] \in T
    <3> HIDE DEF T
    <3>1. chunkSlots \in Seq(T)
      BY <1>2 DEF T
    <3> QED BY <1>3, <3>1
  <2>3. x \in T /\ x.unit = chunkSlots[d.slot].unit /\ x.unreadMessages = chunkSlots[d.slot].unreadMessages - 1
    BY <2>2
  <2> HIDE DEF x, T
  <2>4. chunkSlots \in Seq(T)
    BY <1>2 DEF T
  <2>5. chunkSlots' \in Seq(T) /\ DOMAIN chunkSlots' = DOMAIN chunkSlots /\ chunkSlots'[d.slot] = x
        /\ \A n \in DOMAIN chunkSlots : n # d.slot => chunkSlots'[n] = chunkSlots[n]
    BY <1>3, <2>1, <2>3, <2>4
  <2> QED BY <2>3, <2>5 DEF T
<1>9. ReaderTyped'
  BY <1>1, <1>2, <1>5, <1>6, <1>8 DEF ReaderInv, ReaderTyped
<1>10. QueueTyped'
  <2>1. ASSUME NEW j \in queue PROVE IsChunkJob(j)' \/ IsMessageJob(j)'
    <3>1. CASE IsChunkJob(j)
      BY <1>1, <1>5, <3>1 DEF IsChunkJob, Forward
    <3>2. CASE IsMessageJob(j)
      BY <1>5, <1>8, <3>2 DEF IsMessageJob
    <3> QED BY <1>2, <3>1, <3>2 DEF QueueTyped
  <2> QED BY <1>1, <2>1 DEF QueueTyped
<1>11. OnceQueued'
  BY <1>1, <1>2 DEF OnceQueued
<1>12. SlotsCounted'
  <2>1. {j \in queue' : ~j.chunk /\ j.slot = d.slot} = QueuedIn(d.slot) \ {d} /\ d \in QueuedIn(d.slot)
    BY <1>1, <1>2 DEF QueuedIn
  <2>2. \A n : n # d.slot => {j \in queue' : ~j.chunk /\ j.slot = n} = QueuedIn(n)
    BY <1>1 DEF QueuedIn
  <2>3. ASSUME NEW n \in DOMAIN chunkSlots'
        PROVE  /\ IsFiniteSet({j \in queue' : ~j.chunk /\ j.slot = n})
               /\ chunkSlots'[n].unreadMessages = Cardinality({j \in queue' : ~j.chunk /\ j.slot = n})
    <3>1. CASE n = d.slot
      <4>1. IsFiniteSet(QueuedIn(n)) /\ chunkSlots[n].unreadMessages = Cardinality(QueuedIn(n))
        BY <1>2, <1>3, <3>1 DEF SlotsCounted
      <4>2. IsFiniteSet(QueuedIn(n) \ {d}) /\ Cardinality(QueuedIn(n) \ {d}) = Cardinality(QueuedIn(n)) - 1
        BY <2>1, <3>1, <4>1, FS_RemoveElement
      <4> QED BY <1>8, <2>1, <3>1, <4>1, <4>2
    <3>2. CASE n # d.slot
      BY <1>2, <1>8, <2>2, <3>2 DEF SlotsCounted
    <3> QED BY <3>1, <3>2
  <2> QED BY <2>3 DEF SlotsCounted, QueuedIn
<1>13. OutPrecedes'
  <2>1. ASSUME NEW i \in DOMAIN out', NEW j \in queue' PROVE Precedes(out'[i], j) /\ Fresh(out'[i], j)
    <3>1. j \in queue /\ j # d
      BY <1>1
    <3>2. CASE out'[i] = d.at
      BY <1>1, <1>2, <3>1, <3>2, DueIsNext
    <3>3. CASE i \in DOMAIN out /\ out'[i] = out[i]
      BY <1>2, <3>1, <3>3 DEF OutPrecedes
    <3> QED BY <1>6, <3>2, <3>3
  <2> QED BY <1>1, <1>5, <2>1 DEF OutPrecedes, Precedes, Fresh, Position, Forward
<1> QED BY <1>7, <1>9, <1>10, <1>11, <1>12, <1>13 DEF ReaderInv

LEMMA ReaderEnds ==
  ASSUME ReaderInv, status' \in {status, "done"}, UNCHANGED <<file, summaryVars, readVars>>
  PROVE  ReaderInv'
<1>1. /\ file' = file /\ options' = options /\ chunkIndexes' = chunkIndexes /\ chunkRanges' = chunkRanges
      /\ pos' = pos /\ out' = out /\ queue' = queue /\ chunkSlots' = chunkSlots
  BY DEF summaryVars, readVars
<1>2. /\ Units' = Units /\ Chunks' = Chunks /\ Addresses' = Addresses
      /\ \A b : MessageAt(b)' = MessageAt(b)
      /\ \A v, forward : ChunkTime(v, forward)' = ChunkTime(v, forward)
      /\ \A t : Tangled(t)' <=> Tangled(t)
  BY <1>1, FileStays
<1>3. ReaderTyped'
  BY <1>1, <1>2 DEF ReaderInv, ReaderTyped, InFile
<1>4. QueueTyped'
  BY <1>1, <1>2 DEF ReaderInv, QueueTyped, IsChunkJob, IsMessageJob, Forward
<1>5. SlotsCounted'
  BY <1>1 DEF ReaderInv, SlotsCounted, QueuedIn
<1>6. OutPrecedes'
  BY <1>1, <1>2 DEF ReaderInv, OutPrecedes, Precedes, Fresh, Position, Forward
<1>7. OutOrdered'
  BY <1>1, OrderStays DEF ReaderInv, OutOrdered
<1> QED BY <1>1, <1>3, <1>4, <1>5, <1>6, <1>7 DEF ReaderInv, OnceQueued

LEMMA ReaderInvHolds == ReaderSpec => []ReaderInv
<1>1. ReaderInv /\ [ReaderNext]_readerVars => ReaderInv'
  <2> SUFFICES ASSUME ReaderInv, [ReaderNext]_readerVars PROVE ReaderInv'
    OBVIOUS
  <2>1. ASSUME NEW m \in Methods, readSummary(m) PROVE ReaderInv'
    BY <2>1, readSummaryKeeps
  <2>2. ASSUME NEW o \in Options, readMessages(o) PROVE ReaderInv'
    BY <2>2, readMessagesKeeps
  <2>3. CASE NextInFile
    BY <2>3, NextInFileKeeps
  <2>4. CASE NextInIndex
    BY <2>4, OpenChunkKeeps, ReadMessageKeeps DEF NextInIndex
  <2>5. CASE EndOfFile \/ EndOfQueue
    BY <2>5, ReaderEnds DEF EndOfFile, EndOfQueue
  <2>6. CASE UNCHANGED readerVars
    BY <2>6, ReaderEnds DEF readerVars
  <2> QED BY <2>1, <2>2, <2>3, <2>4, <2>5, <2>6 DEF ReaderNext
<1> QED BY <1>1, ReaderStarts, PTL DEF ReaderSpec

\* Whatever the recording, its chunks and the period asked for: by time, or against it but
\* where the comparison of jobs is no order, and no message twice.
THEOREM ReadInOrder == ReaderSpec => []DeliveredInOrder
<1>1. ReaderInv => DeliveredInOrder
  BY DEF ReaderInv, OutOrdered, Ordered, DeliveredInOrder
<1> QED BY <1>1, ReaderInvHolds, PTL

-----------------------------------------------------------------------------
(***************************************************************************)
(* What the reader knows of the file.                                      *)
(***************************************************************************)
WithChannels == "channels" \in file.summary \/ file.cut \/ file.summary = {}

AllIn(known) == \A a \in Addresses : a[1] <= Whole => MessageAt(a).channel \in known

\* A summary knows every channel of the file, and all of its chunks or none.
Summarized ==
  status # "failed" /\ parsedSummary =>
    /\ WithChannels => AllIn(channels)
    /\ chunkRanges = {} \/ \A u \in Chunks : u <= Whole => u \in chunkRanges

\* Indexes of messages come with the summary section only.
SectionRead ==
  messageIndexes /\ chunkIndexes # {} =>
    /\ \A u \in Chunks : u \in chunkIndexes
    /\ WithChannels => AllIn(channels)

\* Every channel is declared in front of some message, its first one.
LEMMA FirstOfChannel ==
  ASSUME file \in Files, NEW a \in Addresses
  PROVE  \E b \in Addresses : /\ Declares(b) /\ MessageAt(b).channel = MessageAt(a).channel
                              /\ b = a \/ Before(b, a)
<1> DEFINE Of(u) == {k \in DOMAIN file.data[u].messages : MessageAt(<<u, k>>).channel = MessageAt(a).channel}
           U == {u \in Units : Of(u) # {}}
           u == Min(U)
           K == Of(u)
           b == <<u, Min(K)>>
<1>1. /\ a[1] \in Units /\ a[2] \in DOMAIN file.data[a[1]].messages /\ a = <<a[1], a[2]>>
      /\ a[1] \in Nat /\ a[2] \in Nat
  BY AddressTyped
<1>2. Units \subseteq Nat /\ \A v \in Units : DOMAIN file.data[v].messages \subseteq Nat
  <2>1. \A v \in Units : Len(file.data[v].messages) \in Nat
                         /\ DOMAIN file.data[v].messages = 1..Len(file.data[v].messages)
    BY UnitsAre DEF Unit
  <2>2. \A n \in Nat : 1..n \subseteq Nat
    OBVIOUS
  <2> QED BY <2>1, <2>2, UnitsAre
<1>3. a[2] \in Of(a[1])
  BY <1>1
<1>4. U \in SUBSET Nat /\ a[1] \in U
  BY <1>1, <1>2, <1>3
<1> HIDE DEF U
<1>5. u \in U /\ \A v \in U : u <= v
  BY <1>4, MinOfNaturals
<1> HIDE DEF u
<1>6. u \in Units /\ K # {} /\ u \in Nat
  BY <1>2, <1>5 DEF U
<1>7. K \in SUBSET Nat
  BY <1>2, <1>6
<1>8. Min(K) \in K /\ \A k \in K : Min(K) <= k
  BY <1>6, <1>7, MinOfNaturals
<1>9. b \in Addresses /\ MessageAt(b).channel = MessageAt(a).channel /\ b[1] = u /\ b[2] = Min(K) /\ Min(K) \in Nat
  BY <1>6, <1>7, <1>8, AddressIs
<1> HIDE DEF b
<1>10. ASSUME NEW c \in Addresses, MessageAt(c).channel = MessageAt(a).channel PROVE ~Before(c, b)
  <2>1. /\ c[1] \in Units /\ c[2] \in DOMAIN file.data[c[1]].messages /\ c = <<c[1], c[2]>>
        /\ c[1] \in Nat /\ c[2] \in Nat
    BY AddressTyped
  <2>2. c[2] \in Of(c[1])
    BY <1>10, <2>1
  <2>3. u <= c[1]
    BY <1>5, <2>1, <2>2 DEF U
  <2>4. c[1] = u => Min(K) <= c[2]
    BY <1>8, <2>2
  <2> QED BY <1>6, <1>9, <2>1, <2>3, <2>4 DEF Before
<1>11. Declares(b)
  BY <1>9, <1>10 DEF Declares
<1>12. b = a \/ Before(b, a)
  <2>1. a \in Int \X Int
    BY <1>1
  <2>2. b \in Int \X Int
    BY <1>6, <1>9 DEF b
  <2>3. ~Before(a, b)
    BY <1>10
  <2> QED BY <2>1, <2>2, <2>3, BeforeIsAnOrder
<1> QED BY <1>9, <1>11, <1>12

\* What a summary that succeeds is of.
LEMMA SummaryKnows ==
  ASSUME file \in Files, NEW method, SummaryBy(method).ok
  PROVE  LET s == SummaryBy(method)
         IN  /\ WithChannels => AllIn(s.channels)
             /\ s.chunkIndexes = {} \/ \A u \in Chunks : u <= Whole => u \in s.chunkIndexes
<1>1. CASE SummaryBy(method) = readSummarySection
  <2>1. ~file.cut /\ file.summary # {}
    <3>1. file.cut => ~readSummarySection.ok
      BY DEF readSummarySection
    <3>2. file.summary = {} => ~readSummarySection.ok
      BY DEF readSummarySection
    <3> QED BY <1>1, <3>1, <3>2
  <2>2. /\ SummaryBy(method).channels = channels \cup IF "channels" \in file.summary
                                                      THEN {MessageAt(a).channel : a \in Addresses} ELSE {}
        /\ SummaryBy(method).chunkIndexes = IF "chunks" \in file.summary THEN Chunks ELSE {}
    BY <1>1, <2>1 DEF readSummarySection
  <2>3. WithChannels => "channels" \in file.summary
    BY <2>1 DEF WithChannels
  <2> QED BY <2>2, <2>3 DEF AllIn
<1>2. CASE SummaryBy(method) = readSummaryFromScan
  <2> DEFINE broken == {b \in file.bad : b[1] <= Whole}
             Scanned(a) == a[1] <= Whole /\ \A b \in broken : Before(a, b) \/ a = b
  <2>1. /\ readSummaryFromScan.ok => broken = {}
        /\ readSummaryFromScan.channels = {MessageAt(a).channel : a \in {a \in Addresses : Scanned(a) /\ Declares(a)}}
        /\ readSummaryFromScan.chunkIndexes = {u \in Chunks : u <= Whole /\ \A b \in broken : Before(<<u, 0>>, b)}
    BY DEF readSummaryFromScan
  <2>2. broken = {}
    BY <1>2, <2>1
  <2> HIDE DEF broken
  <2>3. ASSUME NEW a \in Addresses, a[1] <= Whole PROVE MessageAt(a).channel \in readSummaryFromScan.channels
    <3>1. PICK b \in Addresses : /\ Declares(b) /\ MessageAt(b).channel = MessageAt(a).channel
                                 /\ b = a \/ Before(b, a)
      BY FirstOfChannel
    <3>2. a[1] \in Nat /\ b[1] \in Nat
      BY AddressTyped
    <3>3. Len(file.data) \in Nat
      BY UnitsAre
    <3>4. Whole \in Int
      BY <3>3 DEF Whole
    <3>5. b[1] <= Whole
      BY <2>3, <3>1, <3>2, <3>4 DEF Before
    <3> QED BY <2>1, <2>2, <3>1, <3>5
  <2> QED BY <1>2, <2>1, <2>2, <2>3 DEF AllIn
<1> QED BY <1>1, <1>2 DEF SummaryBy

\* And one that has indexes of messages.
LEMMA SummaryIndexes ==
  ASSUME NEW method, SectionRead
  PROVE  LET s == SummaryBy(method)
         IN  s.messageIndexes /\ s.chunkIndexes # {} =>
               /\ \A u \in Chunks : u \in s.chunkIndexes
               /\ WithChannels => AllIn(s.channels)
<1>1. CASE SummaryBy(method) = readSummarySection
  <2>1. CASE file.cut
    <3>1. SummaryBy(method).chunkIndexes = chunkIndexes /\ SummaryBy(method).channels = channels
          /\ SummaryBy(method).messageIndexes = messageIndexes
      BY <1>1, <2>1 DEF readSummarySection
    <3> QED BY <3>1 DEF SectionRead
  <2>2. CASE ~file.cut
    <3>1. /\ SummaryBy(method).channels = channels \cup IF "channels" \in file.summary
                                                        THEN {MessageAt(a).channel : a \in Addresses} ELSE {}
          /\ SummaryBy(method).chunkIndexes = IF "chunks" \in file.summary THEN Chunks ELSE {}
      BY <1>1, <2>2 DEF readSummarySection
    <3>2. SummaryBy(method).chunkIndexes # {} /\ WithChannels => "channels" \in file.summary
      BY <2>2, <3>1 DEF WithChannels
    <3> QED BY <3>1, <3>2 DEF AllIn
  <2> QED BY <2>1, <2>2
<1>2. CASE SummaryBy(method) = readSummaryFromScan
  BY <1>2 DEF readSummaryFromScan
<1> QED BY <1>1, <1>2 DEF SummaryBy

-----------------------------------------------------------------------------
(***************************************************************************)
(* What has been delivered of what was asked for.                          *)
(***************************************************************************)
Asked(a) ==
  /\ Readable(a)
  /\ Declared(a) \/ ("channels" \in file.summary /\ parsedSummary)
  /\ Passes(a, {MessageAt(a).channel})
  /\ file.data[a[1]].chunk \/ (options.readOrder = "FileOrder" /\ ~parsedSummary)

\* DeliversAll is about readings with a summary that has its channels.
Summable == parsedSummary \/ options.readOrder # "FileOrder" => WithChannels

\* In file order: up to the position, and none beyond the last unit.
FileRead ==
  status = "file" /\ Summable =>
    \A a \in Addresses : Asked(a) => endUnit \in Int /\ a[1] <= endUnit /\ (Before(a, pos) => a \in ToSet(out))

\* Without a summary the channels are known whose declaration was passed.
ChannelsPassed ==
  status = "file" /\ ~parsedSummary =>
    \A b \in Addresses :
      Declares(b) /\ b[1] <= Whole /\ <<b[1], 0>> \notin file.bad /\ Before(b, pos) => MessageAt(b).channel \in channels

Queued(a) == \E j \in queue : j.at = a \/ (j.chunk /\ j.at = <<a[1], 0>>)

\* By time: or else it is queued, itself or with its chunk.
IndexRead ==
  status = "indexed" /\ Summable =>
    \A a \in Addresses : Asked(a) => /\ MessageAt(a).channel \in channels /\ MessageAt(a).channel \in selectedChannels
                                     /\ a \in ToSet(out) \/ Queued(a)

CompleteInv == Summarized /\ SectionRead /\ FileRead /\ ChannelsPassed /\ IndexRead /\ DeliversAll

LEMMA CompleteStarts == ReaderInit => CompleteInv
BY DEF ReaderInit, CompleteInv, Summarized, SectionRead, FileRead, ChannelsPassed, IndexRead, DeliversAll

AllAskedOut == status = "done" /\ Summable => \A a \in Addresses : Asked(a) => a \in ToSet(out)

LEMMA DeliversAllIs == (DeliversAll <=> AllAskedOut) /\ (DeliversAll <=> AllAskedOut)'
<1>1. DeliversAll <=> AllAskedOut
  BY DEF DeliversAll, AllAskedOut, Summable, WithChannels, Asked
<1>2. (DeliversAll <=> AllAskedOut)'
  BY DEF DeliversAll, AllAskedOut, Summable, WithChannels, Asked
<1> QED BY <1>1, <1>2

LEMMA KnowledgeStays ==
  ASSUME file' = file
  PROVE  /\ \A a : /\ Declares(a)' <=> Declares(a)
                   /\ Readable(a)' <=> Readable(a)
                   /\ Declared(a)' <=> Declared(a)
                   /\ options' = options /\ parsedSummary' = parsedSummary => (Asked(a)' <=> Asked(a))
         /\ WithChannels' <=> WithChannels
         /\ Whole' = Whole
         /\ \A known : AllIn(known)' <=> AllIn(known)
         /\ options' = options /\ parsedSummary' = parsedSummary => (Summable' <=> Summable)
<1>1. \A a : Declares(a)' <=> Declares(a)
  BY FileStays DEF Declares
<1>2. Whole' = Whole /\ (WithChannels' <=> WithChannels)
  BY DEF Whole, WithChannels
<1>3. \A a : Readable(a)' <=> Readable(a)
  BY <1>2 DEF Readable
<1>4. \A a : Declared(a)' <=> Declared(a)
  BY <1>1, <1>2, FileStays DEF Declared
<1>5. \A known : AllIn(known)' <=> AllIn(known)
  BY <1>2, FileStays DEF AllIn
<1>6. ASSUME options' = options, parsedSummary' = parsedSummary, NEW a PROVE Asked(a)' <=> Asked(a)
  BY <1>3, <1>4, <1>6, FileStays DEF Asked, Passes
<1>7. ASSUME options' = options, parsedSummary' = parsedSummary PROVE Summable' <=> Summable
  BY <1>2, <1>7 DEF Summable
<1> QED BY <1>1, <1>2, <1>3, <1>4, <1>5, <1>6, <1>7

LEMMA readSummaryCompletes == ASSUME ReaderInv, CompleteInv, NEW method, readSummary(method) PROVE CompleteInv'
<1> DEFINE s == SummaryBy(method)
<1>1. /\ status = "open" /\ status' = status /\ file' = file /\ ~parsedSummary /\ KeepSummary(s)
      /\ file \in Files
  BY DEF readSummary, ReaderInv, ReaderTyped
<1>2. /\ channels' = s.channels /\ chunkIndexes' = s.chunkIndexes /\ messageIndexes' = s.messageIndexes
      /\ (parsedSummary' => s.ok) /\ (s.ok => chunkRanges' = s.chunkIndexes)
  BY <1>1 DEF KeepSummary
<1>3. s.ok => /\ WithChannels => AllIn(s.channels)
              /\ s.chunkIndexes = {} \/ \A u \in Chunks : u <= Whole => u \in s.chunkIndexes
  BY <1>1, SummaryKnows
<1>4. s.messageIndexes /\ s.chunkIndexes # {} =>
        /\ \A u \in Chunks : u \in s.chunkIndexes
        /\ WithChannels => AllIn(s.channels)
  BY SummaryIndexes DEF CompleteInv
<1> HIDE DEF s
<1>5. Summarized'
  BY <1>1, <1>2, <1>3, FileStays, KnowledgeStays DEF Summarized
<1>6. SectionRead'
  BY <1>1, <1>2, <1>4, FileStays, KnowledgeStays DEF SectionRead
<1>7. FileRead' /\ ChannelsPassed' /\ IndexRead' /\ DeliversAll'
  BY <1>1 DEF FileRead, ChannelsPassed, IndexRead, DeliversAll
<1> QED BY <1>5, <1>6, <1>7 DEF CompleteInv

\* The units that are read have everything that is asked for.
LEMMA RangeHasAsked ==
  ASSUME ReaderTyped, Summarized, status # "failed", NEW o \in Options, NEW a \in Addresses, Readable(a),
         MessageAt(a).logTime >= o.startTime, MessageAt(a).logTime < o.endTime,
         file.data[a[1]].chunk \/ ~parsedSummary
  PROVE  byteRange(o)[1] <= a[1] /\ a[1] <= byteRange(o)[2]
<1> DEFINE near == visit_overlapping(o.startTime, o.endTime)
<1>1. file \in Files /\ chunkRanges \subseteq Chunks /\ Chunks \subseteq Units /\ Units \subseteq Nat
      /\ Units = 1..Len(file.data) /\ Len(file.data) \in Nat
  <2>1. file \in Files /\ chunkRanges \subseteq Chunks /\ Chunks \subseteq Units
    BY DEF ReaderTyped, Chunks
  <2> QED BY <2>1, UnitsAre
<1>2. a[1] \in Units /\ a[1] \in Nat /\ a[2] \in DOMAIN file.data[a[1]].messages /\ a = <<a[1], a[2]>>
      /\ MessageAt(a).logTime \in Nat
  BY <1>1, AddressTyped
<1>3. o.startTime \in Int /\ o.endTime \in Int
  BY ReaderAssumption
<1>4. CASE ~parsedSummary \/ chunkRanges = {}
  <2>1. byteRange(o) = <<1, Len(file.data)>>
    BY <1>4 DEF byteRange
  <2> QED BY <1>1, <1>2, <2>1
<1>5. CASE parsedSummary /\ chunkRanges # {}
  <2>1. a[1] \in chunkRanges
    BY <1>2, <1>5 DEF Summarized, Chunks, Readable
  <2>2. MessageAt(a) = file.data[a[1]].messages[a[2]]
    BY DEF MessageAt
  <2>3. messageStartTime(a[1]) <= MessageAt(a).logTime /\ MessageAt(a).logTime <= messageEndTime(a[1])
        /\ messageStartTime(a[1]) \in Nat /\ messageEndTime(a[1]) \in Nat
    BY <1>1, <1>2, <2>2, ChunkTimes
  <2>4. near \subseteq chunkRanges
        /\ \A u \in chunkRanges : o.startTime <= messageEndTime(u) /\ messageStartTime(u) <= o.endTime => u \in near
    BY <1>1, <1>3, Overlapping
  <2>5. a[1] \in near
    BY <1>2, <1>3, <2>1, <2>3, <2>4
  <2> HIDE DEF near
  <2>6. near \subseteq Nat /\ near \subseteq Int /\ near # {} /\ IsFiniteSet(near)
    <3>1. IsFiniteSet(Units) /\ near \subseteq Units
      BY <1>1, <2>4, FS_Interval
    <3>2. IsFiniteSet(near)
      BY <3>1, FS_Subset
    <3> QED BY <1>1, <2>5, <3>1, <3>2
  <2>7. Min(near) <= a[1]
    BY <2>5, <2>6, MinOfNaturals
  <2>8. a[1] <= Max(near)
    BY <2>5, <2>6, MaxOfFinite
  <2>9. byteRange(o) = <<Min(near), Max(near)>>
    BY <1>5, <2>6 DEF byteRange, near
  <2> QED BY <2>7, <2>8, <2>9
<1> QED BY <1>4, <1>5

LEMMA readMessagesCompletes ==
  ASSUME ReaderInv, CompleteInv, NEW o \in Options, readMessages(o) PROVE CompleteInv'
<1>1. file' = file /\ chunkSlots' = chunkSlots /\ out' = out /\ options' = o /\ status = "open"
  BY DEF readMessages
<1>2. ReaderTyped /\ file \in Files
  BY DEF ReaderInv, ReaderTyped
<1>3. /\ \A a : MessageAt(a)' = MessageAt(a)
      /\ Units' = Units /\ Chunks' = Chunks /\ Addresses' = Addresses
      /\ \A a : /\ Declares(a)' <=> Declares(a)
                /\ Readable(a)' <=> Readable(a)
                /\ Declared(a)' <=> Declared(a)
      /\ WithChannels' <=> WithChannels
      /\ Whole' = Whole
      /\ \A known : AllIn(known)' <=> AllIn(known)
  BY <1>1, FileStays, KnowledgeStays
\* What is asked for now.
<1>4. ASSUME NEW a \in Addresses, Asked(a)'
      PROVE  /\ Readable(a) /\ MessageAt(a).logTime >= o.startTime /\ MessageAt(a).logTime < o.endTime
             /\ MessageAt(a).channel \in o.topics
             /\ Declared(a) \/ ("channels" \in file.summary /\ parsedSummary')
             /\ file.data[a[1]].chunk \/ (o.readOrder = "FileOrder" /\ ~parsedSummary')
  BY <1>1, <1>3, <1>4 DEF Asked, Passes
<1>5. ASSUME UNCHANGED summaryVars, NEW a \in Addresses, Asked(a)'
      PROVE  byteRange(o)[1] <= a[1] /\ a[1] <= byteRange(o)[2]
  <2>1. parsedSummary' = parsedSummary
    BY <1>5 DEF summaryVars
  <2> QED BY <1>1, <1>2, <1>4, <1>5, <2>1, RangeHasAsked DEF CompleteInv
<1>6. ASSUME UNCHANGED summaryVars PROVE Summarized' /\ SectionRead'
  <2>1. UNCHANGED <<channels, chunkIndexes, messageIndexes, parsedSummary, chunkRanges>>
    BY <1>6 DEF summaryVars
  <2>2. Summarized'
    BY <1>1, <1>3, <2>1 DEF CompleteInv, Summarized
  <2>3. SectionRead'
    BY <1>1, <1>3, <2>1 DEF CompleteInv, SectionRead
  <2> QED BY <2>2, <2>3
<1>7. CASE byteRange(o)[2] = 0
  <2>1. status' = "done" /\ UNCHANGED summaryVars
    BY <1>7 DEF readMessages
  <2>2. ASSUME NEW a \in Addresses, Asked(a)' PROVE FALSE
    <3>1. a[1] <= 0
      BY <1>5, <1>7, <2>1, <2>2
    <3>2. a[1] \in Units /\ Units = 1..Len(file.data) /\ Len(file.data) \in Nat
      BY <1>2, AddressTyped, UnitsAre
    <3> QED BY <3>1, <3>2
  <2>3. DeliversAll'
    BY <1>3, <2>2, DeliversAllIs DEF AllAskedOut
  <2>4. FileRead' /\ ChannelsPassed' /\ IndexRead'
    BY <2>1 DEF FileRead, ChannelsPassed, IndexRead
  <2> QED BY <1>6, <2>1, <2>3, <2>4 DEF CompleteInv
<1>8. CASE readInFileOrder(o)
  <2>1. status' = "file" /\ pos' = <<byteRange(o)[1], 0>> /\ endUnit' = byteRange(o)[2] /\ UNCHANGED summaryVars
    BY <1>8 DEF readInFileOrder
  <2>2. ASSUME NEW a \in Addresses PROVE a[1] \in Nat /\ a[2] \in Nat /\ a[2] > 0 /\ byteRange(o)[1] \in Nat
                                               /\ byteRange(o)[2] \in Int
    BY <1>2, AddressTyped, ByteRangeTyped
  <2>3. FileRead'
    <3>1. ASSUME NEW a \in Addresses, Asked(a)' PROVE endUnit' \in Int /\ a[1] <= endUnit' /\ ~Before(a, pos')
      <4>1. byteRange(o)[1] <= a[1] /\ a[1] <= byteRange(o)[2]
        BY <1>5, <2>1, <3>1
      <4>2. pos'[1] = byteRange(o)[1] /\ pos'[2] = 0
        BY <2>1
      <4> QED BY <2>1, <2>2, <4>1, <4>2 DEF Before
    <3>2. \A a : Before(a, pos)' <=> Before(a, pos')
      BY DEF Before
    <3> QED BY <1>3, <3>1, <3>2 DEF FileRead
  <2>4. ChannelsPassed'
    <3> SUFFICES ASSUME ~parsedSummary', NEW b \in Addresses, Before(b, pos') PROVE FALSE
      BY <1>3 DEF ChannelsPassed, Before
    <3>1. ~parsedSummary
      BY <2>1 DEF summaryVars
    <3>2. byteRange(o)[1] = 1
      BY <3>1 DEF byteRange
    <3>3. pos'[1] = 1 /\ pos'[2] = 0
      BY <2>1, <3>2
    <3>4. b[1] \in Units /\ Units = 1..Len(file.data) /\ Len(file.data) \in Nat
      BY <1>2, AddressTyped, UnitsAre
    <3> QED BY <2>2, <3>3, <3>4 DEF Before
  <2>5. IndexRead' /\ DeliversAll'
    BY <2>1 DEF IndexRead, DeliversAll
  <2> QED BY <1>6, <2>1, <2>3, <2>4, <2>5 DEF CompleteInv
<1>9. CASE readInLogOrder(o)
  <2> DEFINE s == IF chunkIndexes = {} THEN SummaryBy("AllowFallbackScan")
                  ELSE [ok |-> TRUE, channels |-> channels, chunkIndexes |-> chunkIndexes,
                        messageIndexes |-> messageIndexes]
             selected == s.channels \cap o.topics
  <2>1. o.readOrder # "FileOrder"
        /\ (IF chunkIndexes = {} THEN KeepSummary(s) ELSE UNCHANGED summaryVars)
        /\ (IF s.ok /\ s.chunkIndexes # {} /\ s.messageIndexes
            THEN /\ status' = "indexed" /\ selectedChannels' = selected
                 /\ queue' = ChunkJobs(o, s.chunkIndexes, selected)
            ELSE status' = "failed" /\ UNCHANGED <<selectedChannels, queue>>)
    BY <1>9 DEF readInLogOrder
  <2>2. status' \in {"indexed", "failed"} /\ (status' = "indexed" => s.ok /\ s.chunkIndexes # {} /\ s.messageIndexes)
    BY <2>1
  <2>3. s.messageIndexes /\ s.chunkIndexes # {} =>
          /\ \A u \in Chunks : u \in s.chunkIndexes
          /\ WithChannels => AllIn(s.channels)
    <3>1. CASE chunkIndexes = {}
      <4>1. s = SummaryBy("AllowFallbackScan")
        BY <3>1
      <4> QED BY <4>1, SummaryIndexes DEF CompleteInv
    <3>2. CASE chunkIndexes # {}
      BY <3>2 DEF CompleteInv, SectionRead
    <3> QED BY <3>1, <3>2
  <2>4. channels' = s.channels /\ chunkIndexes' = s.chunkIndexes /\ messageIndexes' = s.messageIndexes
    <3>1. CASE chunkIndexes = {}
      BY <2>1, <3>1 DEF KeepSummary
    <3>2. CASE chunkIndexes # {}
      BY <2>1, <3>2 DEF summaryVars
    <3> QED BY <3>1, <3>2
  <2>5. SectionRead'
    BY <1>1, <1>3, <2>3, <2>4 DEF SectionRead
  <2>6. Summarized'
    <3>1. CASE chunkIndexes # {}
      BY <1>6, <2>1, <3>1
    <3>2. CASE chunkIndexes = {} /\ status' = "indexed"
      <4>1. s = SummaryBy("AllowFallbackScan") /\ s.ok
        BY <2>2, <3>2
      <4>2. chunkRanges' = s.chunkIndexes
        BY <2>1, <3>2, <4>1 DEF KeepSummary
      <4>3. /\ WithChannels => AllIn(s.channels)
            /\ s.chunkIndexes = {} \/ \A u \in Chunks : u <= Whole => u \in s.chunkIndexes
        BY <1>2, <4>1, SummaryKnows
      <4> QED BY <1>1, <1>3, <2>4, <4>2, <4>3 DEF Summarized
    <3>3. CASE status' = "failed"
      BY <3>3 DEF Summarized
    <3> QED BY <2>2, <3>1, <3>2, <3>3
  <2> HIDE DEF s
  <2>7. IndexRead'
    <3> SUFFICES ASSUME status' = "indexed", Summable', NEW a \in Addresses, Asked(a)'
                 PROVE  /\ MessageAt(a).channel \in channels' /\ MessageAt(a).channel \in selectedChannels'
                        /\ \E j \in queue' : j.chunk /\ j.at = <<a[1], 0>>
      <4>1. ASSUME NEW a \in Addresses, \E j \in queue' : j.chunk /\ j.at = <<a[1], 0>> PROVE Queued(a)'
        BY <4>1 DEF Queued
      <4> QED BY <1>3, <4>1 DEF IndexRead
    <3>1. WithChannels
      BY <1>1, <1>3, <2>1 DEF Summable
    <3>2. /\ status' = "indexed" /\ selectedChannels' = selected /\ queue' = ChunkJobs(o, s.chunkIndexes, selected)
          /\ s.ok /\ s.chunkIndexes # {} /\ s.messageIndexes
      BY <2>1
    <3>3. AllIn(s.channels) /\ \A u \in Chunks : u \in s.chunkIndexes
      BY <2>3, <3>1, <3>2
    <3>4. /\ a[1] \in Units /\ a[2] \in DOMAIN file.data[a[1]].messages /\ a = <<a[1], a[2]>>
          /\ MessageAt(a).logTime \in Nat
      BY <1>2, AddressTyped
    <3>5. /\ Readable(a) /\ MessageAt(a).logTime >= o.startTime /\ MessageAt(a).logTime < o.endTime
          /\ MessageAt(a).channel \in o.topics /\ file.data[a[1]].chunk
      BY <1>4, <2>1
    <3>6. a[1] \in s.chunkIndexes /\ MessageAt(a).channel \in s.channels
      BY <3>3, <3>4, <3>5 DEF Chunks, AllIn, Readable
    <3>7. file.data[a[1]].messages[a[2]] = MessageAt(a)
      BY DEF MessageAt
    <3>8. messageStartTime(a[1]) < o.endTime /\ messageEndTime(a[1]) >= o.startTime
      <4>1. messageStartTime(a[1]) <= MessageAt(a).logTime /\ MessageAt(a).logTime <= messageEndTime(a[1])
            /\ messageStartTime(a[1]) \in Nat /\ messageEndTime(a[1]) \in Nat
        BY <1>2, <3>4, <3>7, ChunkTimes
      <4>2. o.startTime \in Nat /\ o.endTime \in Nat
        BY ReaderAssumption
      <4> QED BY <3>4, <3>5, <4>1, <4>2
    <3>9. MessageAt(a).channel \in selected
      BY <3>5, <3>6
    <3> DEFINE j == [chunk |-> TRUE, time |-> ChunkTime(a[1], Forward(o)), at |-> <<a[1], 0>>, slot |-> 0]
    <3>10. j \in ChunkJobs(o, s.chunkIndexes, selected)
      BY <3>4, <3>6, <3>7, <3>8, <3>9 DEF ChunkJobs
    <3> QED BY <2>4, <3>2, <3>6, <3>9, <3>10
  <2>8. FileRead' /\ ChannelsPassed' /\ DeliversAll'
    BY <2>2 DEF FileRead, ChannelsPassed, DeliversAll
  <2> QED BY <2>5, <2>6, <2>7, <2>8 DEF CompleteInv
<1> QED BY <1>7, <1>8, <1>9 DEF readMessages

LEMMA NextInFileCompletes == ASSUME ReaderInv, CompleteInv, NextInFile PROVE CompleteInv'
<1> DEFINE known == IF pos[2] > 0 /\ Declares(pos) THEN channels \cup {MessageAt(pos).channel} ELSE channels
<1>1. /\ file' = file /\ options' = options /\ status' = status /\ parsedSummary' = parsedSummary
      /\ chunkIndexes' = chunkIndexes /\ chunkRanges' = chunkRanges /\ messageIndexes' = messageIndexes
      /\ endUnit' = endUnit /\ status = "file" /\ pos[1] <= Whole
      /\ channels' = known /\ pos' = Following(pos)
      /\ IF pos[2] > 0 /\ pos \notin file.bad THEN Deliver(pos, known) ELSE UNCHANGED out
  BY DEF NextInFile
<1>2. channels \subseteq channels' /\ (pos[2] > 0 /\ Declares(pos) => MessageAt(pos).channel \in channels')
  BY <1>1
<1> HIDE DEF known
<1>3. /\ file \in Files /\ pos \in Nat \X Nat /\ out \in Seq(Addresses)
      /\ options.readOrder = "FileOrder" /\ pos[1] >= 1 /\ (pos[2] > 0 => pos \in Addresses)
  BY <1>1 DEF ReaderInv, ReaderTyped, InFile
<1>4. /\ \A a : MessageAt(a)' = MessageAt(a)
      /\ Units' = Units /\ Chunks' = Chunks /\ Addresses' = Addresses
      /\ \A a : /\ Declares(a)' <=> Declares(a)
                /\ Asked(a)' <=> Asked(a)
      /\ WithChannels' <=> WithChannels
      /\ Summable' <=> Summable
      /\ Whole' = Whole
      /\ \A k : AllIn(k)' <=> AllIn(k)
  BY <1>1, FileStays, KnowledgeStays
<1>5. Summarized' /\ SectionRead'
  <2>1. \A k : AllIn(channels) => AllIn(channels')
    BY <1>2 DEF AllIn
  <2>2. Summarized'
    BY <1>1, <1>4, <2>1 DEF CompleteInv, Summarized
  <2>3. SectionRead'
    BY <1>1, <1>4, <2>1 DEF CompleteInv, SectionRead
  <2> QED BY <2>2, <2>3
\* What is passed.
<1>6. ASSUME NEW a \in Addresses, Before(a, pos'), <<a[1], 0>> \notin file.bad
      PROVE  Before(a, pos) \/ (a = pos /\ pos[2] > 0)
  <2>1. /\ a[1] \in Units /\ a[2] \in DOMAIN file.data[a[1]].messages /\ a = <<a[1], a[2]>>
        /\ a[1] \in Nat /\ a[2] \in Nat /\ a[2] > 0
    BY <1>3, AddressTyped
  <2>2. a[2] <= Len(file.data[a[1]].messages)
    BY <1>3, <2>1, UnitsAre DEF Unit
  <2>3. Len(file.data[a[1]].messages) \in Nat
    BY <1>3, <2>1, UnitsAre DEF Unit
  <2>4. pos = <<pos[1], pos[2]>> /\ pos[1] \in Nat /\ pos[2] \in Nat
    BY <1>3
  <2>5. CASE pos' = <<pos[1], pos[2] + 1>>
    <3>1. a[1] < pos[1] \/ (a[1] = pos[1] /\ a[2] < pos[2] + 1)
      BY <1>6, <2>5 DEF Before
    <3> QED BY <2>1, <2>4, <3>1 DEF Before
  <2>6. CASE /\ ~(pos[2] < Len(file.data[pos[1]].messages) /\ <<pos[1], 0>> \notin file.bad)
             /\ pos' = <<pos[1] + 1, 0>>
    <3>1. a[1] < pos[1] + 1 \/ (a[1] = pos[1] + 1 /\ a[2] < 0)
      BY <1>6, <2>6 DEF Before
    <3>2. a[1] < pos[1] \/ a[1] = pos[1]
      BY <2>1, <2>4, <3>1
    <3>3. a[1] = pos[1] => a[2] <= pos[2]
      BY <1>6, <2>1, <2>2, <2>3, <2>4, <2>6
    <3>4. a[1] = pos[1] => a[2] < pos[2] \/ a[2] = pos[2]
      BY <2>1, <2>4, <3>3
    <3> QED BY <2>1, <2>4, <3>2, <3>4 DEF Before
  <2> QED BY <1>1, <2>5, <2>6 DEF Following
<1>7. ChannelsPassed'
  <2> SUFFICES ASSUME ~parsedSummary, NEW b \in Addresses, Declares(b), b[1] <= Whole, <<b[1], 0>> \notin file.bad,
                      Before(b, pos')
               PROVE  MessageAt(b).channel \in channels'
    BY <1>1, <1>4 DEF ChannelsPassed, Before
  <2>1. CASE Before(b, pos)
    BY <1>1, <1>2, <2>1 DEF CompleteInv, ChannelsPassed
  <2>2. CASE b = pos /\ pos[2] > 0
    BY <1>2, <2>2
  <2> QED BY <1>6, <2>1, <2>2
<1>8. FileRead'
  <2> SUFFICES ASSUME Summable, NEW a \in Addresses, Asked(a)
               PROVE  endUnit \in Int /\ a[1] <= endUnit /\ (Before(a, pos') => a \in ToSet(out'))
    <3>1. \A a : ToSet(out)' = ToSet(out') /\ (Before(a, pos)' <=> Before(a, pos'))
      BY DEF ToSet, Before
    <3> QED BY <1>1, <1>4, <3>1 DEF FileRead
  <2>1. endUnit \in Int /\ a[1] <= endUnit /\ (Before(a, pos) => a \in ToSet(out))
    BY <1>1 DEF CompleteInv, FileRead
  <2>2. \A x : x \in ToSet(out) => x \in ToSet(out')
    <3>1. CASE out' = out
      BY <3>1
    <3>2. CASE pos[2] > 0 /\ out' = Append(out, pos)
      <4> DEFINE T == Addresses
      <4>1. out \in Seq(T) /\ pos \in T
        BY <1>3, <3>2
      <4> HIDE DEF T
      <4>2. ToSet(Append(out, pos)) = ToSet(out) \cup {pos}
        BY <4>1, ToSetAppend
      <4> QED BY <3>2, <4>2
    <3> QED BY <1>1, <3>1, <3>2 DEF Deliver
  <2>3. ASSUME a = pos, pos[2] > 0 PROVE a \in ToSet(out')
    <3>1. Readable(pos) /\ Passes(pos, {MessageAt(pos).channel})
          /\ (Declared(pos) \/ ("channels" \in file.summary /\ parsedSummary))
      BY <2>3 DEF Asked
    <3>2. MessageAt(pos).channel \in channels'
      <4>1. CASE parsedSummary
        <5>1. AllIn(channels')
          BY <1>1, <1>4, <1>5, <4>1 DEF Summarized, Summable
        <5> QED BY <1>1, <1>3, <2>3, <5>1 DEF AllIn
      <4>2. CASE ~parsedSummary
        <5>1. Declared(pos)
          BY <3>1, <4>2
        <5>2. PICK b \in Addresses : /\ Declares(b) /\ MessageAt(b).channel = MessageAt(pos).channel
                                     /\ b = pos \/ Before(b, pos)
          BY <1>3, <2>3, FirstOfChannel
        <5>3. CASE b = pos
          BY <1>2, <2>3, <5>2, <5>3
        <5>4. CASE Before(b, pos)
          <6>1. b[1] <= Whole /\ <<b[1], 0>> \notin file.bad
            BY <5>1, <5>2 DEF Declared
          <6>2. MessageAt(b).channel \in channels
            BY <1>1, <4>2, <5>2, <5>4, <6>1 DEF CompleteInv, ChannelsPassed
          <6> QED BY <1>2, <5>2, <6>2
        <5> QED BY <5>2, <5>3, <5>4
      <4> QED BY <4>1, <4>2
    <3>3. Passes(pos, channels') /\ pos \notin file.bad
      BY <3>1, <3>2 DEF Passes, Readable
    <3>4. out' = Append(out, pos)
      BY <1>1, <2>3, <3>3 DEF Deliver
    <3> DEFINE T == Addresses
    <3>5. out \in Seq(T) /\ pos \in T
      BY <1>3, <2>3
    <3> HIDE DEF T
    <3>6. ToSet(Append(out, pos)) = ToSet(out) \cup {pos}
      BY <3>5, ToSetAppend
    <3> QED BY <2>3, <3>4, <3>6
  <2>4. <<a[1], 0>> \notin file.bad
    BY DEF Asked, Readable
  <2> QED BY <1>6, <2>1, <2>2, <2>3, <2>4
<1>9. IndexRead' /\ DeliversAll'
  BY <1>1 DEF IndexRead, DeliversAll
<1> QED BY <1>5, <1>7, <1>8, <1>9 DEF CompleteInv

LEMMA OpenChunkCompletes ==
  ASSUME ReaderInv, CompleteInv, status = "indexed", NEW d \in Due, OpenChunk(d),
         UNCHANGED <<file, summaryVars, options, pos, endUnit, selectedChannels>>
  PROVE  CompleteInv'
<1> DEFINE u == d.at[1]
           jobs == MessageJobs(u, findFreeChunkSlot(chunkSlots))
<1>1. /\ file' = file /\ options' = options /\ out' = out /\ d.chunk
      /\ UNCHANGED <<channels, chunkIndexes, messageIndexes, parsedSummary, chunkRanges, selectedChannels>>
      /\ IF <<u, 0>> \in file.bad THEN status' = "failed"
         ELSE queue' = (queue \ {d}) \cup jobs /\ status' = status
  BY DEF OpenChunk, summaryVars
<1>2. d \in queue /\ ReaderTyped /\ QueueTyped /\ file \in Files
  BY DEF Due, ReaderInv, ReaderTyped
<1>3. /\ \A a : MessageAt(a)' = MessageAt(a)
      /\ Units' = Units /\ Chunks' = Chunks /\ Addresses' = Addresses
      /\ \A a : Asked(a)' <=> Asked(a)
      /\ WithChannels' <=> WithChannels
      /\ Summable' <=> Summable
      /\ Whole' = Whole
      /\ \A k : AllIn(k)' <=> AllIn(k)
  BY <1>1, FileStays, KnowledgeStays
<1>4. d.at = <<u, 0>>
  BY <1>1, <1>2, JobTyped
<1> HIDE DEF u, jobs
<1>5. Summarized' /\ SectionRead'
  <2>1. Summarized'
    BY <1>1, <1>3 DEF CompleteInv, Summarized
  <2>2. SectionRead'
    BY <1>1, <1>3 DEF CompleteInv, SectionRead
  <2> QED BY <2>1, <2>2
<1>6. status' \in {"indexed", "failed"}
  BY <1>1
<1>7. IndexRead'
  <2> SUFFICES ASSUME status' = "indexed", Summable, NEW a \in Addresses, Asked(a), a \notin ToSet(out)
               PROVE  /\ MessageAt(a).channel \in channels /\ MessageAt(a).channel \in selectedChannels
                      /\ \E j \in queue' : j.at = a \/ (j.chunk /\ j.at = <<a[1], 0>>)
    <3>1. \A b \in Addresses : Summable /\ Asked(b) => /\ MessageAt(b).channel \in channels
                                                        /\ MessageAt(b).channel \in selectedChannels
      BY <1>1 DEF CompleteInv, IndexRead
    <3>2. ToSet(out)' = ToSet(out)
      BY <1>1 DEF ToSet
    <3> QED BY <1>1, <1>3, <3>1, <3>2 DEF IndexRead, Queued
  <2>1. queue' = (queue \ {d}) \cup jobs
    BY <1>1
  <2>2. /\ MessageAt(a).channel \in channels /\ MessageAt(a).channel \in selectedChannels
        /\ \E j \in queue : j.at = a \/ (j.chunk /\ j.at = <<a[1], 0>>)
    BY DEF CompleteInv, IndexRead, Queued
  <2>3. PICK j \in queue : j.at = a \/ (j.chunk /\ j.at = <<a[1], 0>>)
    BY <2>2
  <2>4. CASE j # d
    BY <2>1, <2>2, <2>3, <2>4
  <2>5. CASE j = d
    <3>1. /\ a[1] \in Units /\ a[2] \in DOMAIN file.data[a[1]].messages /\ a = <<a[1], a[2]>> /\ a[2] > 0
      BY <1>2, AddressTyped
    <3>2. a[1] = u
      BY <1>4, <2>3, <2>5, <3>1
    <3>3. /\ MessageAt(a).logTime >= options.startTime /\ MessageAt(a).logTime < options.endTime
      BY DEF Asked, Passes
    <3> DEFINE slot == findFreeChunkSlot(chunkSlots)
               i == [chunk |-> FALSE, time |-> MessageAt(<<u, a[2]>>).logTime, at |-> <<u, a[2]>>, slot |-> slot]
    <3>4. <<u, a[2]>> = a
      BY <3>1, <3>2
    <3>5. i \in MessageJobs(u, slot)
      BY <2>2, <3>1, <3>2, <3>3, <3>4 DEF MessageJobs
    <3>6. i \in queue' /\ i.at = a
      BY <2>1, <3>4, <3>5 DEF jobs
    <3> QED BY <2>2, <3>6
  <2> QED BY <2>4, <2>5
<1>8. FileRead' /\ ChannelsPassed' /\ DeliversAll'
  BY <1>6 DEF FileRead, ChannelsPassed, DeliversAll
<1> QED BY <1>5, <1>7, <1>8 DEF CompleteInv

LEMMA ReadMessageCompletes ==
  ASSUME ReaderInv, CompleteInv, status = "indexed", NEW d \in Due, ReadMessage(d),
         UNCHANGED <<file, summaryVars, options, pos, endUnit, selectedChannels>>
  PROVE  CompleteInv'
<1> DEFINE slot == chunkSlots[d.slot]
           b == <<slot.unit, d.at[2]>>
<1>1. /\ file' = file /\ options' = options /\ ~d.chunk /\ queue' = queue \ {d}
      /\ UNCHANGED <<channels, chunkIndexes, messageIndexes, parsedSummary, chunkRanges, selectedChannels>>
      /\ IF b \notin Addresses \/ b \in file.bad THEN status' = "failed" /\ out' = out
         ELSE Deliver(b, channels) /\ status' = status
  BY DEF ReadMessage, summaryVars
<1>2. d \in queue /\ ReaderTyped /\ QueueTyped /\ file \in Files /\ out \in Seq(Addresses)
  BY DEF Due, ReaderInv, ReaderTyped
<1>3. /\ \A a : MessageAt(a)' = MessageAt(a)
      /\ Units' = Units /\ Chunks' = Chunks /\ Addresses' = Addresses
      /\ \A a : Asked(a)' <=> Asked(a)
      /\ WithChannels' <=> WithChannels
      /\ Summable' <=> Summable
      /\ Whole' = Whole
      /\ \A k : AllIn(k)' <=> AllIn(k)
  BY <1>1, FileStays, KnowledgeStays
<1>4. b = d.at
  <2>1. d.at \in Addresses /\ chunkSlots[d.slot].unit = d.at[1]
    BY <1>1, <1>2, JobTyped
  <2>2. d.at = <<d.at[1], d.at[2]>>
    BY <1>2, <2>1, AddressTyped
  <2> QED BY <2>1, <2>2
<1> HIDE DEF b, slot
<1>5. Summarized' /\ SectionRead'
  <2>1. Summarized'
    BY <1>1, <1>3 DEF CompleteInv, Summarized
  <2>2. SectionRead'
    BY <1>1, <1>3 DEF CompleteInv, SectionRead
  <2> QED BY <2>1, <2>2
<1>6. status' \in {"indexed", "failed"}
  BY <1>1
<1>7. IndexRead'
  <2> SUFFICES ASSUME status' = "indexed", Summable, NEW a \in Addresses, Asked(a)
               PROVE  a \in ToSet(out') \/ \E j \in queue' : j.at = a \/ (j.chunk /\ j.at = <<a[1], 0>>)
    <3>1. \A a \in Addresses : Summable /\ Asked(a) => MessageAt(a).channel \in channels /\ MessageAt(a).channel \in selectedChannels
      BY DEF CompleteInv, IndexRead
    <3>2. ToSet(out)' = ToSet(out')
      BY DEF ToSet
    <3> QED BY <1>1, <1>3, <3>1, <3>2 DEF IndexRead, Queued
  <2>1. b \in Addresses /\ b \notin file.bad /\ Deliver(b, channels)
    BY <1>1
  <2>2. /\ MessageAt(a).channel \in channels
        /\ a \in ToSet(out) \/ \E j \in queue : j.at = a \/ (j.chunk /\ j.at = <<a[1], 0>>)
    BY DEF CompleteInv, IndexRead, Queued
  <2>3. ToSet(Append(out, b)) = ToSet(out) \cup {b}
    <3> DEFINE T == Addresses
    <3>1. out \in Seq(T) /\ b \in T
      BY <1>2, <2>1
    <3> HIDE DEF T
    <3> QED BY <3>1, ToSetAppend
  <2>4. CASE a \in ToSet(out)
    BY <2>1, <2>3, <2>4 DEF Deliver
  <2>5. CASE a = b
    <3>1. Passes(b, channels)
      BY <2>2, <2>5 DEF Asked, Passes
    <3> QED BY <2>1, <2>3, <2>5, <3>1 DEF Deliver
  <2>6. ASSUME NEW j \in queue, j.at = a \/ (j.chunk /\ j.at = <<a[1], 0>>), j # d
        PROVE  \E i \in queue' : i.at = a \/ (i.chunk /\ i.at = <<a[1], 0>>)
    BY <1>1, <2>6
  <2> QED BY <1>1, <1>4, <2>2, <2>4, <2>5, <2>6
<1>8. FileRead' /\ ChannelsPassed' /\ DeliversAll'
  BY <1>6 DEF FileRead, ChannelsPassed, DeliversAll
<1> QED BY <1>5, <1>7, <1>8 DEF CompleteInv

LEMMA EndsComplete ==
  ASSUME ReaderInv, CompleteInv, UNCHANGED <<file, summaryVars, readVars>>,
         \/ status' = status
         \/ status' = "done" /\ status = "file" /\ (pos[1] > endUnit \/ pos[1] > Whole)
         \/ status' = "done" /\ status = "indexed" /\ queue = {}
  PROVE  CompleteInv'
<1>1. /\ file' = file /\ options' = options /\ out' = out /\ queue' = queue /\ pos' = pos /\ endUnit' = endUnit
      /\ UNCHANGED <<channels, chunkIndexes, messageIndexes, parsedSummary, chunkRanges, selectedChannels>>
  BY DEF summaryVars, readVars
<1>2. file \in Files /\ pos \in Nat \X Nat
  BY DEF ReaderInv, ReaderTyped
<1>3. /\ \A a : MessageAt(a)' = MessageAt(a)
      /\ Units' = Units /\ Chunks' = Chunks /\ Addresses' = Addresses
      /\ \A a : Asked(a)' <=> Asked(a)
      /\ \A a : Declares(a)' <=> Declares(a)
      /\ WithChannels' <=> WithChannels
      /\ Summable' <=> Summable
      /\ Whole' = Whole
      /\ \A k : AllIn(k)' <=> AllIn(k)
  BY <1>1, FileStays, KnowledgeStays
<1>4. SectionRead'
  BY <1>1, <1>3 DEF CompleteInv, SectionRead
<1>5. Summarized'
  BY <1>1, <1>3 DEF CompleteInv, Summarized
<1>6. ToSet(out)' = ToSet(out) /\ \A a : Before(a, pos)' <=> Before(a, pos)
  BY <1>1 DEF ToSet, Before
<1>7. CASE status' = status
  <2>1. FileRead'
    BY <1>1, <1>3, <1>6, <1>7 DEF CompleteInv, FileRead
  <2>2. ChannelsPassed'
    BY <1>1, <1>3, <1>6, <1>7 DEF CompleteInv, ChannelsPassed
  <2>3. \A a : Queued(a)' <=> Queued(a)
    BY <1>1 DEF Queued
  <2>4. IndexRead'
    BY <1>1, <1>3, <1>6, <1>7, <2>3 DEF CompleteInv, IndexRead
  <2>5. DeliversAll'
    BY <1>1, <1>3, <1>6, <1>7, DeliversAllIs DEF CompleteInv, AllAskedOut
  <2> QED BY <1>4, <1>5, <2>1, <2>2, <2>4, <2>5 DEF CompleteInv
<1>8. CASE status' = "done" /\ status # "done"
  <2>1. ASSUME Summable, NEW a \in Addresses, Asked(a) PROVE a \in ToSet(out)
    <3>1. CASE status = "file" /\ (pos[1] > endUnit \/ pos[1] > Whole)
      <4>1. endUnit \in Int /\ a[1] <= endUnit /\ (Before(a, pos) => a \in ToSet(out)) /\ a[1] <= Whole
        BY <2>1, <3>1 DEF CompleteInv, FileRead, Asked, Readable
      <4>2. a[1] \in Nat /\ pos[1] \in Nat /\ Len(file.data) \in Nat
        BY <1>2, AddressTyped, UnitsAre
      <4>3. Whole \in Int
        BY <4>2 DEF Whole
      <4>4. CASE pos[1] > Whole
        BY <4>1, <4>2, <4>3, <4>4 DEF Before
      <4>5. CASE pos[1] > endUnit
        BY <4>1, <4>2, <4>5 DEF Before
      <4> QED BY <3>1, <4>4, <4>5
    <3>2. CASE status = "indexed" /\ queue = {}
      BY <2>1, <3>2 DEF CompleteInv, IndexRead, Queued
    <3> QED BY <1>8, <3>1, <3>2
  <2>2. DeliversAll'
    BY <1>1, <1>3, <1>6, <2>1, DeliversAllIs DEF AllAskedOut
  <2>3. FileRead' /\ ChannelsPassed' /\ IndexRead'
    BY <1>8 DEF FileRead, ChannelsPassed, IndexRead
  <2> QED BY <1>4, <1>5, <2>2, <2>3 DEF CompleteInv
<1> QED BY <1>7, <1>8

\* Whatever is broken in the file or cut off, whatever the summary has, and in any order.
THEOREM NothingAskedIsLeft == ReaderSpec => []DeliversAll
<1>1. ReaderInv /\ CompleteInv /\ [ReaderNext]_readerVars => CompleteInv'
  <2> SUFFICES ASSUME ReaderInv, CompleteInv, [ReaderNext]_readerVars PROVE CompleteInv'
    OBVIOUS
  <2>1. ASSUME NEW m \in Methods, readSummary(m) PROVE CompleteInv'
    BY <2>1, readSummaryCompletes
  <2>2. ASSUME NEW o \in Options, readMessages(o) PROVE CompleteInv'
    BY <2>2, readMessagesCompletes
  <2>3. CASE NextInFile
    BY <2>3, NextInFileCompletes
  <2>4. CASE NextInIndex
    BY <2>4, OpenChunkCompletes, ReadMessageCompletes DEF NextInIndex
  <2>5. CASE EndOfFile \/ EndOfQueue
    BY <2>5, EndsComplete DEF EndOfFile, EndOfQueue
  <2>6. CASE UNCHANGED readerVars
    BY <2>6, EndsComplete DEF readerVars
  <2> QED BY <2>1, <2>2, <2>3, <2>4, <2>5, <2>6 DEF ReaderNext
<1>2. CompleteInv => DeliversAll
  BY DEF CompleteInv
<1> QED BY <1>1, <1>2, CompleteStarts, ReaderInvHolds, PTL DEF ReaderSpec

-----------------------------------------------------------------------------
(***************************************************************************)
(* Simulator: where a spline has poses.                                    *)
(***************************************************************************)
\* Two control points at t or before, and two after it.
LEMMA PoseBetweenPoints ==
  ASSUME NEW points \in SUBSET Nat, IsFiniteSet(points), NEW t \in Int
  PROVE  HasPose(points, t) <=> /\ \E p, q \in points : p < q /\ q <= t
                                /\ \E p, q \in points : t < p /\ p < q
<1> DEFINE older == {p \in points : p <= t}
           newer == {p \in points : p > t}
<1>1. older \subseteq points /\ newer \subseteq points /\ points \subseteq Int /\ \A p \in points : p \in Int
  OBVIOUS
<1>2. IsFiniteSet(older) /\ IsFiniteSet(newer)
  BY <1>1, FS_Subset
<1>3. CASE older = {} \/ newer = {}
  <2>1. ~HasPose(points, t)
    BY <1>3 DEF HasPose, find_bounding_control_points, find_bounding_poses
  <2>2. ASSUME NEW p \in points, NEW q \in points, q <= t PROVE newer = {}
    <3>1. q \in older
      BY <2>2
    <3> QED BY <1>3, <3>1
  <2>3. ASSUME NEW p \in points, NEW q \in points, t < p, newer = {} PROVE FALSE
    <3>1. p \in newer
      BY <2>3
    <3> QED BY <2>3, <3>1
  <2> QED BY <2>1, <2>2, <2>3
<1>4. CASE older # {} /\ newer # {}
  <2> HIDE DEF older, newer
  <2>1. Max(older) \in older /\ \A y \in older : y <= Max(older)
    BY <1>1, <1>2, <1>4, MaxOfFinite
  <2>2. newer \in SUBSET Nat
    BY <1>1
  <2>3. Min(newer) \in newer /\ \A y \in newer : Min(newer) <= y
    BY <1>4, <2>2, MinOfNaturals
  <2>4. points # {}
    BY <1>1, <1>4
  <2>5. Min(points) \in points /\ \A y \in points : Min(points) <= y
    BY <2>4, MinOfNaturals
  <2>6. Max(points) \in points /\ \A y \in points : y <= Max(points)
    BY <1>1, <2>4, MaxOfFinite
  <2>7. /\ Max(older) \in Int /\ Min(points) \in Int /\ Min(newer) \in Int /\ Max(points) \in Int
        /\ Max(older) \in points /\ Min(newer) \in points
    BY <1>1, <2>1, <2>3, <2>5, <2>6
  <2>8. find_bounding_poses(t, points) = <<Max(older), Min(newer)>>
    BY <1>4 DEF find_bounding_poses, older, newer
  <2>9. HasPose(points, t) <=> ~(Max(older) = Min(points) \/ Min(newer) = Max(points))
    BY <2>8 DEF HasPose, find_bounding_control_points
  <2>10. Max(older) # Min(points) <=> \E p, q \in points : p < q /\ q <= t
    <3>1. ASSUME Max(older) # Min(points) PROVE \E p, q \in points : p < q /\ q <= t
      <4>1. Min(points) < Max(older) /\ Max(older) <= t
        BY <2>1, <2>5, <2>7, <3>1 DEF older
      <4> QED BY <2>5, <2>7, <4>1
    <3>2. ASSUME NEW p \in points, NEW q \in points, p < q, q <= t PROVE Max(older) # Min(points)
      <4>1. q \in older
        BY <3>2 DEF older
      <4>2. q <= Max(older) /\ Min(points) <= p
        BY <2>1, <2>5, <4>1
      <4> QED BY <1>1, <2>7, <3>2, <4>2
    <3> QED BY <3>1, <3>2
  <2>11. Min(newer) # Max(points) <=> \E p, q \in points : t < p /\ p < q
    <3>1. ASSUME Min(newer) # Max(points) PROVE \E p, q \in points : t < p /\ p < q
      <4>1. Min(newer) < Max(points) /\ t < Min(newer)
        BY <2>3, <2>6, <2>7, <3>1 DEF newer
      <4> QED BY <2>6, <2>7, <4>1
    <3>2. ASSUME NEW p \in points, NEW q \in points, t < p, p < q PROVE Min(newer) # Max(points)
      <4>1. p \in newer
        BY <3>2 DEF newer
      <4>2. Min(newer) <= p /\ q <= Max(points)
        BY <2>3, <2>6, <4>1
      <4> QED BY <1>1, <2>7, <3>2, <4>2
    <3> QED BY <3>1, <3>2
  <2> QED BY <2>9, <2>10, <2>11
<1> QED BY <1>3, <1>4

\* Once a spline has ended it has no further poses.
LEMMA PosesInOnePiece ==
  ASSUME NEW points \in SUBSET Nat, IsFiniteSet(points), NEW a \in Int, NEW b \in Int, NEW c \in Int,
         a <= b, b <= c, HasPose(points, a), HasPose(points, c)
  PROVE  HasPose(points, b)
<1>1. PICK p \in points : \E q \in points : p < q /\ q <= a
  BY PoseBetweenPoints
<1>2. PICK q \in points : p < q /\ q <= a
  BY <1>1
<1>3. PICK r \in points : \E s \in points : c < r /\ r < s
  BY PoseBetweenPoints
<1>4. PICK s \in points : c < r /\ r < s
  BY <1>3
<1>5. q <= b /\ b < r
  BY <1>2, <1>4
<1> QED BY <1>2, <1>4, <1>5, PoseBetweenPoints

LEMMA SplineIs ==
  ASSUME NEW traj \in Trajectories
  PROVE  SplineStart(traj) \in Nat /\ ControlPoints(traj) \in SUBSET Nat /\ IsFiniteSet(ControlPoints(traj))
<1> DEFINE dt == ControlDt(traj)
           steps == 0..((Max(traj) - Min(traj)) \div dt)
           grid == {Min(traj) + k * dt : k \in steps}
           point == [k \in steps |-> Min(traj) + k * dt]
<1>1. traj \subseteq Nat /\ IsFiniteSet(traj) /\ Cardinality(traj) > 1 /\ Cardinality(traj) \in Nat
  BY SimulationAssumption, FS_CardinalityType
<1>2. traj # {}
  BY <1>1, FS_EmptySet
<1>3. Min(traj) \in traj /\ Max(traj) \in traj /\ \A y \in traj : y <= Max(traj)
  BY <1>1, <1>2, MinOfNaturals, MaxOfFinite
<1>4. Min(traj) \in Nat /\ Max(traj) - Min(traj) \in Nat
  <2>1. Min(traj) \in Nat /\ Max(traj) \in Nat /\ Min(traj) <= Max(traj)
    BY <1>1, <1>3
  <2> QED BY <2>1
<1>5. dt \in Nat \ {0}
  <2> DEFINE x == (Max(traj) - Min(traj)) \div (Cardinality(traj) - 1)
  <2>1. x \in Nat /\ MinDt \in Nat \ {0}
    BY <1>1, <1>4, SimulationAssumption
  <2> HIDE DEF x
  <2>2. {MinDt, x} \in SUBSET Int /\ IsFiniteSet({MinDt, x}) /\ {MinDt, x} # {}
    <3>1. IsFiniteSet({MinDt}) /\ {MinDt, x} = {MinDt} \cup {x}
      BY FS_Singleton
    <3> QED BY <2>1, <3>1, FS_AddElement
  <2>3. Max({MinDt, x}) \in {MinDt, x} /\ MinDt <= Max({MinDt, x})
    BY <2>2, MaxOfFinite
  <2>4. Max({MinDt, x}) \in Nat \ {0}
    BY <2>1, <2>3
  <2> QED BY <2>4 DEF ControlDt, x
<1> HIDE DEF dt
<1>6. (Max(traj) - Min(traj)) \div dt \in Nat
  BY <1>4, <1>5
<1>7. IsFiniteSet(steps) /\ steps \subseteq Nat
  BY <1>6, FS_Interval
<1>8. \A k \in steps : Min(traj) + k * dt \in Nat
  BY <1>4, <1>5, <1>7
<1> HIDE DEF steps
<1>9. point \in Surjection(steps, grid)
  BY DEF Surjection
<1>10. IsFiniteSet(grid)
  BY <1>7, <1>9, FS_Surjection
<1>11. ControlPoints(traj) \subseteq grid
  BY DEF ControlPoints, dt, steps
<1>12. grid \in SUBSET Nat
  BY <1>8
<1> HIDE DEF grid
<1>13. ControlPoints(traj) \in SUBSET Nat /\ IsFiniteSet(ControlPoints(traj))
  BY <1>10, <1>11, <1>12, FS_Subset
<1>14. SplineStart(traj) \in Nat
  BY <1>4, <1>5 DEF SplineStart, dt
<1> QED BY <1>13, <1>14

-----------------------------------------------------------------------------
(***************************************************************************)
(* The clocks of the main loop.                                            *)
(***************************************************************************)
Configured ==
  /\ rate \in Rates /\ offset \in Nat /\ timestamp_start \in Nat
  /\ control_points \in SUBSET Nat /\ IsFiniteSet(control_points)

\* The instant the simulation has moved at, when the main loop starts.
StartsAt == hist_true_bias_time[1] + rate.imu

\* A reading without a pose is the last thing the loop asks for before an image.
Clocks ==
  /\ timestamp_last_imu \in Nat /\ timestamp_last_cam \in Nat
  /\ hist_true_bias_time \in Seq(Int) /\ Len(hist_true_bias_time) >= 2
  /\ StartsAt <= timestamp_last_cam /\ timestamp_last_cam <= timestamp_last_imu + rate.imu
  /\ is_running => timestamp_last_imu <= Last(hist_true_bias_time)
  /\ is_running /\ program = "run_simulation" /\ ~has_skipped_first_bias =>
       Last(hist_true_bias_time) = timestamp_last_imu + rate.imu
  /\ turn = "cam" => timestamp_last_cam <= timestamp_last_imu
  /\ turn = "cam" /\ ~is_running => /\ ~HasPose(control_points, timestamp_last_imu)
                                    /\ timestamp_last_imu <= timestamp_last_cam + rate.cam

ReadingsFed ==
  /\ readings \in Seq(Int)
  /\ readings = <<>> /\ is_running => timestamp_last_imu = StartsAt
  /\ readings # <<>> => /\ Head(readings) = StartsAt + rate.imu
                        /\ is_running => Last(readings) = timestamp_last_imu

Asking == turn = "cam" \/ is_running

\* The image held back is that of the last camera instant.
Held ==
  /\ buffer.timestamp \in Int /\ images \in Seq(Int)
  /\ buffer.timestamp # -1 /\ Asking =>
       /\ buffer.timestamp = timestamp_last_cam - calib_camimu_dt
       /\ HasPose(control_points, timestamp_last_cam) /\ StartsAt < timestamp_last_cam

StateBehind ==
  program = "run_simulation" /\ turn \in {"imu", "cam"} =>
    /\ state_time \in Int /\ StartsAt + rate.imu - calib_camimu_dt <= state_time
    /\ Asking => state_time <= timestamp_last_cam + rate.imu - calib_camimu_dt
    /\ Asking /\ buffer.timestamp # -1 => state_time <= timestamp_last_cam - calib_camimu_dt

BeforeTheLoop ==
  turn \in {"map", "init"} =>
    buffer = NoImage /\ is_running /\ timestamp_last_cam = StartsAt /\ (turn = "init" => program = "run_simulation")

PointsOfMap ==
  /\ featmap \in Nat
  /\ ~use_stereo => \A c \in Cameras : \A p \in buffer.feats[c] :
       p.of \in 0..(featmap - 1) /\ p.id = p.of + c * featmap

SimulationInv ==
  Configured /\ Clocks /\ ReadingsFed /\ Held /\ StateBehind /\ BeforeTheLoop /\ PointsOfMap

LEMMA ConstantsTyped ==
  ASSUME Configured
  PROVE  rate.imu \in Nat \ {0} /\ rate.cam \in Nat /\ rate.imu <= rate.cam /\ calib_camimu_dt \in Nat
BY SimulationAssumption DEF Configured

LEMMA SimulationStarts == SimulationInit => SimulationInv
<1> SUFFICES ASSUME SimulationInit PROVE SimulationInv
  OBVIOUS
<1>1. PICK traj \in Trajectories : timestamp_start = SplineStart(traj) /\ control_points = ControlPoints(traj)
  BY DEF SimulationInit
<1>2. offset \in Nat
  <2>1. offset \in Offsets
    BY DEF SimulationInit
  <2> QED BY <2>1, SimulationAssumption DEF Offsets
<1>3. Configured
  BY <1>1, <1>2, SplineIs DEF Configured, SimulationInit
<1>4. PICK start \in Starts : timestamp_last_imu = start /\ timestamp_last_cam = start
                              /\ hist_true_bias_time = SeedBiases(start)
  BY DEF SimulationInit
<1>5. rate.imu \in Nat \ {0} /\ rate.cam \in Nat /\ rate.imu <= rate.cam /\ calib_camimu_dt \in Nat
  BY <1>3, ConstantsTyped
<1>6. start \in Nat
  <2>1. PICK k \in 0..MaxStill : start = timestamp_start + k * rate.cam
    BY <1>4 DEF Starts
  <2>2. k \in Nat /\ timestamp_start \in Nat
    BY <1>3, SimulationAssumption DEF Configured
  <2> QED BY <1>5, <2>1, <2>2
<1>7. has_skipped_first_bias = FALSE /\ is_running = TRUE /\ turn = "map" /\ readings = <<>>
      /\ buffer = NoImage /\ images = <<>> /\ featmap = 0
  BY DEF SimulationInit
<1>8. /\ hist_true_bias_time \in Seq(Int) /\ Len(hist_true_bias_time) >= 2 /\ StartsAt = start
      /\ start <= Last(hist_true_bias_time)
      /\ program = "run_simulation" => Last(hist_true_bias_time) = start + rate.imu
  <2>1. CASE program = "run_simulation"
    <3>1. hist_true_bias_time = <<start - rate.imu, start, start + rate.imu>>
      BY <1>4, <2>1 DEF SeedBiases
    <3> QED BY <1>5, <1>6, <2>1, <3>1 DEF Last, StartsAt
  <2>2. CASE program # "run_simulation"
    <3>1. hist_true_bias_time = <<start - rate.imu, start>>
      BY <1>4, <2>2 DEF SeedBiases
    <3> QED BY <1>5, <1>6, <2>2, <3>1 DEF Last, StartsAt
  <2> QED BY <2>1, <2>2
<1>9. Clocks
  BY <1>4, <1>5, <1>6, <1>7, <1>8 DEF Clocks
<1>10. ReadingsFed
  BY <1>4, <1>7, <1>8 DEF ReadingsFed
<1>11. Held /\ StateBehind /\ BeforeTheLoop
  BY <1>4, <1>7, <1>8 DEF Held, StateBehind, BeforeTheLoop, NoImage
<1>12. PointsOfMap
  BY <1>7 DEF PointsOfMap, NoImage
<1> QED BY <1>3, <1>9, <1>10, <1>11, <1>12 DEF SimulationInv

LEMMA GenerateMapKeeps == ASSUME SimulationInv, GenerateMap PROVE SimulationInv'
<1>1. UNCHANGED <<config, clock, consumer>> /\ turn = "map"
  BY DEF GenerateMap
<1>2. /\ program' = program /\ use_stereo' = use_stereo /\ rate' = rate /\ offset' = offset
      /\ timestamp_start' = timestamp_start /\ control_points' = control_points
      /\ timestamp_last_imu' = timestamp_last_imu /\ timestamp_last_cam' = timestamp_last_cam
      /\ hist_true_bias_time' = hist_true_bias_time /\ has_skipped_first_bias' = has_skipped_first_bias
      /\ is_running' = is_running /\ state_time' = state_time /\ readings' = readings /\ buffer' = buffer
      /\ images' = images
  BY <1>1 DEF config, clock, consumer
<1>3. turn' \in {"map", "init", "imu"} /\ (turn' = "init" => program = "run_simulation")
      /\ (turn' = "imu" => program # "run_simulation")
  BY <1>1 DEF GenerateMap
<1>4. buffer = NoImage /\ is_running
  BY <1>1 DEF SimulationInv, BeforeTheLoop
<1>5. featmap' \in Nat
  <2>1. CASE featmap' = featmap
    BY <2>1 DEF SimulationInv, PointsOfMap
  <2>2. CASE \E uvs \in 0..Min({featmap, num_pts}) : featmap' = featmap + NewPoints(uvs)
    <3>1. PICK uvs \in 0..Min({featmap, num_pts}) : featmap' = featmap + NewPoints(uvs)
      BY <2>2
    <3>2. featmap \in Nat /\ num_pts \in Nat
      BY SimulationAssumption DEF SimulationInv, PointsOfMap
    <3>3. Min({featmap, num_pts}) \in {featmap, num_pts} /\ Min({featmap, num_pts}) <= num_pts
      BY <3>2, MinOfNaturals
    <3>4. uvs \in Nat /\ uvs <= num_pts
      BY <3>2, <3>3
    <3> QED BY <3>1, <3>2, <3>4 DEF NewPoints
  <2> QED BY <2>1, <2>2 DEF GenerateMap
<1>6. Configured'
  BY <1>2 DEF SimulationInv, Configured
<1>7. StartsAt' = StartsAt
  BY <1>2 DEF StartsAt
<1>8. Clocks'
  BY <1>2, <1>3, <1>4, <1>7 DEF SimulationInv, Clocks
<1>9. ReadingsFed'
  BY <1>2, <1>7 DEF SimulationInv, ReadingsFed
<1>10. Held' /\ StateBehind' /\ BeforeTheLoop'
  BY <1>1, <1>2, <1>3, <1>4, <1>7
     DEF SimulationInv, Held, StateBehind, BeforeTheLoop, NoImage, Asking, Cameras
<1>11. PointsOfMap'
  BY <1>2, <1>4, <1>5 DEF PointsOfMap, NoImage, Cameras
<1> QED BY <1>6, <1>8, <1>9, <1>10, <1>11 DEF SimulationInv

LEMMA InitializeWithGtKeeps == ASSUME SimulationInv, InitializeWithGt PROVE SimulationInv'
<1>1. UNCHANGED <<config, mapVars, clock, readings, buffer, images>> /\ turn = "init"
  BY DEF InitializeWithGt
<1>2. /\ program' = program /\ use_stereo' = use_stereo /\ rate' = rate /\ offset' = offset
      /\ timestamp_start' = timestamp_start /\ control_points' = control_points /\ featmap' = featmap
      /\ timestamp_last_imu' = timestamp_last_imu /\ timestamp_last_cam' = timestamp_last_cam
      /\ hist_true_bias_time' = hist_true_bias_time /\ has_skipped_first_bias' = has_skipped_first_bias
      /\ is_running' = is_running /\ readings' = readings /\ buffer' = buffer /\ images' = images
  BY <1>1 DEF config, mapVars, clock
<1>3. turn' = "exit" \/ (turn' = "imu" /\ state_time' = FirstInstant - calib_camimu_dt)
  BY Zenon DEF InitializeWithGt
<1>4. buffer = NoImage /\ is_running /\ timestamp_last_cam = StartsAt /\ Configured /\ timestamp_last_cam \in Nat
  BY <1>1 DEF SimulationInv, BeforeTheLoop, Clocks
<1>5. rate.imu \in Nat \ {0} /\ calib_camimu_dt \in Nat
  BY <1>4, ConstantsTyped
<1>6. Configured'
  BY <1>2 DEF SimulationInv, Configured
<1>7. StartsAt' = StartsAt
  BY <1>2 DEF StartsAt
<1>8. Clocks'
  BY <1>2, <1>3, <1>4, <1>7 DEF SimulationInv, Clocks
<1>9. ReadingsFed'
  BY <1>2, <1>7 DEF SimulationInv, ReadingsFed
<1>10. Held'
  BY <1>1, <1>2, <1>3, <1>4, <1>7 DEF SimulationInv, Held, Asking, NoImage
<1>11. StateBehind'
  <2>1. buffer.timestamp = -1
    BY <1>4 DEF NoImage
  <2> QED BY <1>2, <1>3, <1>4, <1>5, <1>7, <2>1 DEF StateBehind, Asking, FirstInstant
<1>12. BeforeTheLoop' /\ PointsOfMap'
  BY <1>2, <1>3 DEF SimulationInv, BeforeTheLoop, PointsOfMap, Cameras
<1> QED BY <1>6, <1>8, <1>9, <1>10, <1>11, <1>12 DEF SimulationInv

LEMMA AppendFacts ==
  ASSUME NEW s \in Seq(Int), NEW x \in Int
  PROVE  /\ Append(s, x) \in Seq(Int) /\ Len(Append(s, x)) = Len(s) + 1 /\ Last(Append(s, x)) = x
         /\ Len(s) \in Nat
         /\ s # <<>> => Head(Append(s, x)) = Head(s) /\ Append(s, x)[1] = s[1]
         /\ s = <<>> => Head(Append(s, x)) = x
BY DEF Last

LEMMA get_next_imuKeeps == ASSUME SimulationInv, get_next_imu PROVE SimulationInv'
<1>1. /\ UNCHANGED <<config, mapVars, state_time, buffer, images>> /\ turn = "imu" /\ is_running /\ turn' = "cam"
      /\ \/ /\ NextCamTime < NextImuTime
            /\ UNCHANGED <<clock, readings>>
         \/ /\ ~(NextCamTime < NextImuTime)
            /\ timestamp_last_imu' = NextImuTime
            /\ IF HasPose(control_points, NextImuTime)
               THEN /\ hist_true_bias_time' = WithBiasOfReading
                    /\ has_skipped_first_bias' = TRUE
                    /\ readings' = Append(readings, NextImuTime)
                    /\ UNCHANGED is_running
               ELSE /\ is_running' = FALSE
                    /\ UNCHANGED <<hist_true_bias_time, has_skipped_first_bias, readings>>
            /\ UNCHANGED timestamp_last_cam
  BY DEF get_next_imu, Earlier
<1>2. /\ program' = program /\ use_stereo' = use_stereo /\ rate' = rate /\ offset' = offset
      /\ timestamp_start' = timestamp_start /\ control_points' = control_points /\ featmap' = featmap
      /\ state_time' = state_time /\ buffer' = buffer /\ images' = images
  BY <1>1 DEF config, mapVars
<1>3. Configured /\ Clocks /\ ReadingsFed /\ Held /\ StateBehind /\ PointsOfMap
  BY DEF SimulationInv
<1>4. rate.imu \in Nat \ {0} /\ rate.cam \in Nat /\ rate.imu <= rate.cam /\ calib_camimu_dt \in Nat
  BY <1>3, ConstantsTyped
<1>5. Configured'
  BY <1>2, <1>3 DEF Configured
<1>6. BeforeTheLoop' /\ PointsOfMap'
  BY <1>1, <1>2, <1>3 DEF BeforeTheLoop, PointsOfMap, Cameras
<1>7. CASE NextCamTime < NextImuTime /\ UNCHANGED <<clock, readings>>
  <2>1. /\ timestamp_last_imu' = timestamp_last_imu /\ timestamp_last_cam' = timestamp_last_cam
        /\ hist_true_bias_time' = hist_true_bias_time /\ has_skipped_first_bias' = has_skipped_first_bias
        /\ is_running' = is_running /\ readings' = readings
    BY <1>7 DEF clock
  <2>2. StartsAt' = StartsAt
    BY <1>2, <2>1 DEF StartsAt
  <2>3. timestamp_last_cam <= timestamp_last_imu
    BY <1>3, <1>4, <1>7 DEF NextCamTime, NextImuTime, Clocks
  <2>4. Clocks'
    BY <1>1, <1>2, <1>3, <2>1, <2>2, <2>3 DEF Clocks
  <2>5. ReadingsFed' /\ Held' /\ StateBehind'
    BY <1>1, <1>2, <1>3, <2>1, <2>2 DEF ReadingsFed, Held, StateBehind, Asking
  <2> QED BY <1>5, <1>6, <2>4, <2>5 DEF SimulationInv
<1>8. CASE /\ ~(NextCamTime < NextImuTime) /\ timestamp_last_imu' = NextImuTime
           /\ ~HasPose(control_points, NextImuTime)
  <2>1. /\ timestamp_last_cam' = timestamp_last_cam
        /\ hist_true_bias_time' = hist_true_bias_time /\ has_skipped_first_bias' = has_skipped_first_bias
        /\ is_running' = FALSE /\ readings' = readings
    BY <1>1, <1>8
  <2>2. StartsAt' = StartsAt
    BY <1>2, <2>1 DEF StartsAt
  <2>3. timestamp_last_imu' \in Nat /\ timestamp_last_imu' = timestamp_last_imu + rate.imu
        /\ timestamp_last_imu' <= timestamp_last_cam + rate.cam
    BY <1>3, <1>4, <1>8 DEF NextCamTime, NextImuTime, Clocks
  <2>4. Clocks'
    BY <1>2, <1>3, <1>4, <1>8, <2>1, <2>2, <2>3 DEF Clocks
  <2>5. ReadingsFed' /\ Held' /\ StateBehind'
    BY <1>1, <1>2, <1>3, <2>1, <2>2 DEF ReadingsFed, Held, StateBehind, Asking
  <2> QED BY <1>5, <1>6, <2>4, <2>5 DEF SimulationInv
<1>9. CASE /\ ~(NextCamTime < NextImuTime) /\ timestamp_last_imu' = NextImuTime
           /\ HasPose(control_points, NextImuTime)
  <2>1. /\ timestamp_last_cam' = timestamp_last_cam /\ hist_true_bias_time' = WithBiasOfReading
        /\ has_skipped_first_bias' = TRUE /\ is_running' = is_running /\ readings' = Append(readings, NextImuTime)
    BY <1>1, <1>9
  <2>2. NextImuTime \in Nat /\ NextImuTime = timestamp_last_imu + rate.imu
    BY <1>3, <1>4 DEF NextImuTime, Clocks
  <2>3. /\ hist_true_bias_time' \in Seq(Int) /\ Len(hist_true_bias_time') >= 2
        /\ hist_true_bias_time'[1] = hist_true_bias_time[1] /\ Last(hist_true_bias_time') = NextImuTime
    <3>1. hist_true_bias_time \in Seq(Int) /\ Len(hist_true_bias_time) >= 2 /\ hist_true_bias_time # <<>>
      BY <1>3 DEF Clocks
    <3>2. CASE program = "run_simulation" /\ ~has_skipped_first_bias
      BY <1>1, <1>3, <2>1, <2>2, <3>1, <3>2 DEF WithBiasOfReading, Clocks
    <3>3. CASE ~(program = "run_simulation" /\ ~has_skipped_first_bias)
      <4>1. hist_true_bias_time' = Append(hist_true_bias_time, NextImuTime)
        BY <2>1, <3>3 DEF WithBiasOfReading
      <4>2. NextImuTime \in Int
        BY <2>2
      <4> HIDE DEF NextImuTime
      <4>3. /\ Append(hist_true_bias_time, NextImuTime) \in Seq(Int)
            /\ Len(Append(hist_true_bias_time, NextImuTime)) = Len(hist_true_bias_time) + 1
            /\ Last(Append(hist_true_bias_time, NextImuTime)) = NextImuTime /\ Len(hist_true_bias_time) \in Nat
            /\ Append(hist_true_bias_time, NextImuTime)[1] = hist_true_bias_time[1]
        BY <3>1, <4>2, AppendFacts
      <4> QED BY <3>1, <4>1, <4>3
    <3> QED BY <3>2, <3>3
  <2>4. StartsAt' = StartsAt
    BY <1>2, <2>3 DEF StartsAt
  <2>5. Clocks'
    <3>1. timestamp_last_cam <= timestamp_last_imu'
      BY <1>3, <1>9, <2>2 DEF Clocks
    <3> QED BY <1>1, <1>2, <1>3, <1>4, <1>9, <2>1, <2>2, <2>3, <2>4, <3>1 DEF Clocks
  <2>6. ReadingsFed'
    <3>1. readings \in Seq(Int) /\ NextImuTime \in Int
      BY <1>3, <2>2 DEF ReadingsFed
    <3>2. /\ Append(readings, NextImuTime) \in Seq(Int) /\ Append(readings, NextImuTime) # <<>>
          /\ Last(Append(readings, NextImuTime)) = NextImuTime
          /\ Head(Append(readings, NextImuTime)) = IF readings = <<>> THEN NextImuTime ELSE Head(readings)
      <4> HIDE DEF NextImuTime
      <4> QED BY <3>1, AppendFacts
    <3>3. readings = <<>> => NextImuTime = StartsAt + rate.imu
      BY <1>1, <1>3, <2>2 DEF ReadingsFed
    <3> QED BY <1>2, <1>3, <1>9, <2>1, <2>4, <3>2, <3>3 DEF ReadingsFed
  <2>7. Held' /\ StateBehind'
    BY <1>1, <1>2, <1>3, <2>1, <2>4 DEF Held, StateBehind, Asking
  <2> QED BY <1>5, <1>6, <2>5, <2>6, <2>7 DEF SimulationInv
<1> QED BY <1>1, <1>7, <1>8, <1>9

\* What the images of an instant hold: points of the map, numbered by camera.
LEMMA ImageHolds ==
  ASSUME featmap \in Nat, NEW t \in Int, NEW m \in Image(t)
  PROVE  /\ m.timestamp = t
         /\ ~use_stereo => \A c \in Cameras : \A p \in m.feats[c] :
              p.of \in 0..(featmap - 1) /\ p.id = p.of + c * featmap
<1>1. PICK seen \in [Cameras -> Seen] :
        m = [timestamp |-> t, feats |-> [c \in Cameras |-> {[of |-> f, id |-> FeatureId(c, f)] : f \in seen[c]}]]
  BY Zenon DEF Image
<1>2. \A S \in Seen : S \subseteq 0..(featmap - 1)
  <2> SUFFICES ASSUME NEW S \in Seen PROVE S \subseteq 0..(featmap - 1)
    OBVIOUS
  <2>1. PICK n \in 0..Min({num_pts, featmap}) : S \in kSubset(n, 0..(featmap - 1))
    BY Zenon DEF Seen
  <2> QED BY <2>1 DEF kSubset
<1>3. ASSUME ~use_stereo, NEW c \in Cameras, NEW p \in m.feats[c]
      PROVE  p.of \in 0..(featmap - 1) /\ p.id = p.of + c * featmap
  <2>1. m.feats[c] = {[of |-> f, id |-> FeatureId(c, f)] : f \in seen[c]}
    BY <1>1
  <2>2. PICK f \in seen[c] : p = [of |-> f, id |-> FeatureId(c, f)]
    BY <1>3, <2>1
  <2>3. f \in 0..(featmap - 1)
    BY <1>2, <2>2
  <2> QED BY <1>3, <2>2, <2>3 DEF FeatureId
<1> QED BY <1>1, <1>3

LEMMA get_next_camKeeps == ASSUME SimulationInv, get_next_cam PROVE SimulationInv'
<1>1. /\ turn = "cam" /\ turn' = "imu"
      /\ \/ /\ NextImuTime < NextCamTime
            /\ UNCHANGED <<timestamp_last_cam, is_running, buffer, images, state_time>>
         \/ /\ ~(NextImuTime < NextCamTime)
            /\ timestamp_last_cam' = NextCamTime
            /\ IF HasPose(control_points, NextCamTime)
               THEN /\ \E m \in Image(NextCamTime - calib_camimu_dt) : FeedBuffered(m)
                    /\ UNCHANGED is_running
               ELSE /\ is_running' = FALSE
                    /\ UNCHANGED <<buffer, images, state_time>>
  BY DEF get_next_cam, Earlier
<1>2. /\ program' = program /\ use_stereo' = use_stereo /\ rate' = rate /\ offset' = offset
      /\ timestamp_start' = timestamp_start /\ control_points' = control_points /\ featmap' = featmap
      /\ timestamp_last_imu' = timestamp_last_imu /\ hist_true_bias_time' = hist_true_bias_time
      /\ has_skipped_first_bias' = has_skipped_first_bias /\ readings' = readings
  BY DEF get_next_cam, config, mapVars
<1>3. Configured /\ Clocks /\ ReadingsFed /\ Held /\ StateBehind /\ PointsOfMap
  BY DEF SimulationInv
<1>4. rate.imu \in Nat \ {0} /\ rate.cam \in Nat /\ rate.imu <= rate.cam /\ calib_camimu_dt \in Nat
  BY <1>3, ConstantsTyped
<1>5. Configured' /\ BeforeTheLoop'
  BY <1>1, <1>2, <1>3 DEF Configured, BeforeTheLoop
<1>6. StartsAt' = StartsAt /\ StartsAt \in Int
  BY <1>2, <1>3, <1>4 DEF StartsAt, Clocks
<1>7. NextCamTime \in Nat /\ NextCamTime = timestamp_last_cam + rate.cam /\ timestamp_last_cam \in Nat
  BY <1>3, <1>4 DEF NextCamTime, Clocks
<1>8. CASE NextImuTime < NextCamTime /\ UNCHANGED <<timestamp_last_cam, is_running, buffer, images, state_time>>
  <2>1. Clocks' /\ ReadingsFed'
    BY <1>1, <1>2, <1>3, <1>6, <1>8 DEF Clocks, ReadingsFed
  <2>2. Held' /\ StateBehind'
    BY <1>1, <1>2, <1>3, <1>6, <1>8 DEF Held, StateBehind, Asking
  <2>3. PointsOfMap'
    BY <1>2, <1>3, <1>8 DEF PointsOfMap, Cameras
  <2> QED BY <1>5, <2>1, <2>2, <2>3 DEF SimulationInv
<1>9. CASE /\ ~(NextImuTime < NextCamTime) /\ timestamp_last_cam' = NextCamTime
           /\ is_running' = FALSE /\ UNCHANGED <<buffer, images, state_time>>
  <2>1. Clocks' /\ ReadingsFed'
    BY <1>1, <1>2, <1>3, <1>4, <1>6, <1>7, <1>9 DEF Clocks, ReadingsFed, NextImuTime
  <2>2. Held' /\ StateBehind'
    BY <1>1, <1>2, <1>3, <1>6, <1>9 DEF Held, StateBehind, Asking
  <2>3. PointsOfMap'
    BY <1>2, <1>3, <1>9 DEF PointsOfMap, Cameras
  <2> QED BY <1>5, <2>1, <2>2, <2>3 DEF SimulationInv
<1>10. ASSUME ~(NextImuTime < NextCamTime), timestamp_last_cam' = NextCamTime, is_running' = is_running,
              HasPose(control_points, NextCamTime),
              NEW m \in Image(NextCamTime - calib_camimu_dt), FeedBuffered(m)
       PROVE  SimulationInv'
  <2>1. featmap \in Nat /\ NextCamTime - calib_camimu_dt \in Int
    BY <1>3, <1>4, <1>7 DEF PointsOfMap
  <2>2. /\ m.timestamp = NextCamTime - calib_camimu_dt
        /\ ~use_stereo => \A c \in Cameras : \A p \in m.feats[c] :
             p.of \in 0..(featmap - 1) /\ p.id = p.of + c * featmap
    BY <1>10, <2>1, ImageHolds
  <2>3. /\ buffer' = m
        /\ IF buffer.timestamp # -1
           THEN images' = Append(images, buffer.timestamp) /\ state_time' = TimeAfter(buffer.timestamp)
           ELSE images' = images /\ state_time' = state_time
    BY <1>10 DEF FeedBuffered, FeedSimulation
  <2>4. Clocks' /\ ReadingsFed'
    <3>1. NextCamTime <= timestamp_last_imu + rate.imu
      BY <1>3, <1>4, <1>7, <1>10 DEF Clocks, NextImuTime
    <3>2. StartsAt <= NextCamTime
      BY <1>3, <1>4, <1>6, <1>7 DEF Clocks
    <3>3. Clocks'
      BY <1>1, <1>2, <1>3, <1>6, <1>7, <1>10, <3>1, <3>2 DEF Clocks
    <3>4. ReadingsFed'
      BY <1>2, <1>3, <1>6, <1>10 DEF ReadingsFed
    <3> QED BY <3>3, <3>4
  <2>5. buffer.timestamp \in Int /\ images \in Seq(Int)
        /\ (buffer.timestamp # -1 => buffer.timestamp = timestamp_last_cam - calib_camimu_dt)
    BY <1>1, <1>3 DEF Held, Asking
  <2>6. Held'
    <3>1. images' \in Seq(Int)
      BY <2>3, <2>5
    <3>2. StartsAt < NextCamTime
      BY <1>3, <1>4, <1>6, <1>7 DEF Clocks
    <3> QED BY <1>2, <1>6, <1>7, <1>10, <2>1, <2>2, <2>3, <3>1, <3>2 DEF Held
  <2>7. StateBehind'
    <3> SUFFICES ASSUME program = "run_simulation"
                 PROVE  /\ state_time' \in Int /\ StartsAt + rate.imu - calib_camimu_dt <= state_time'
                        /\ state_time' <= timestamp_last_cam' + rate.imu - calib_camimu_dt
                        /\ state_time' <= timestamp_last_cam' - calib_camimu_dt
      BY <1>2, <1>6 DEF StateBehind
    <3>1. /\ state_time \in Int /\ StartsAt + rate.imu - calib_camimu_dt <= state_time
          /\ state_time <= timestamp_last_cam + rate.imu - calib_camimu_dt
      BY <1>1, <1>3 DEF StateBehind, Asking
    <3>2. state_time' = state_time \/ (buffer.timestamp # -1 /\ state_time' = buffer.timestamp /\ state_time' > state_time)
      BY <2>3 DEF TimeAfter
    <3>3. state_time' \in Int /\ state_time <= state_time' /\ state_time' <= NextCamTime - calib_camimu_dt
      <4>1. CASE state_time' = state_time
        BY <1>4, <1>7, <3>1, <4>1
      <4>2. CASE buffer.timestamp # -1 /\ state_time' = buffer.timestamp /\ state_time' > state_time
        BY <1>4, <1>7, <2>5, <3>1, <4>2
      <4> QED BY <3>2, <4>1, <4>2
    <3> QED BY <1>4, <1>6, <1>7, <1>10, <3>1, <3>3
  <2>8. PointsOfMap'
    BY <1>2, <1>3, <2>2, <2>3 DEF PointsOfMap, Cameras
  <2> QED BY <1>5, <2>4, <2>6, <2>7, <2>8 DEF SimulationInv
<1> QED BY <1>1, <1>8, <1>9, <1>10

LEMMA SimulationInvHolds == SimulationSpec => []SimulationInv
<1>1. SimulationInv /\ [SimulationNext]_simulationVars => SimulationInv'
  <2> SUFFICES ASSUME SimulationInv, [SimulationNext]_simulationVars PROVE SimulationInv'
    OBVIOUS
  <2>1. CASE UNCHANGED simulationVars
    BY <2>1 DEF simulationVars, config, mapVars, clock, consumer, SimulationInv, Configured, Clocks, StartsAt,
                ReadingsFed, Held, Asking, StateBehind, BeforeTheLoop, PointsOfMap, NoImage, Cameras
  <2> QED BY <2>1, GenerateMapKeeps, InitializeWithGtKeeps, get_next_imuKeeps, get_next_camKeeps DEF SimulationNext
<1> QED BY <1>1, SimulationStarts, PTL DEF SimulationSpec

\* Biases that begin before t and reach to it have two beside it.
LEMMA BiasesAround ==
  ASSUME NEW s \in Seq(Int), Len(s) >= 2, NEW t \in Int, s[1] < t, t <= Last(s)
  PROVE  \E i \in 1..(Len(s) - 1) : s[i] < t /\ t <= s[i + 1]
<1> DEFINE S == {j \in 1..Len(s) : t <= s[j]}
<1>1. Len(s) \in Nat /\ \A j \in 1..Len(s) : s[j] \in Int
  OBVIOUS
<1>2. S \in SUBSET Nat /\ Len(s) \in S
  BY <1>1 DEF Last
<1>3. Min(S) \in S /\ \A y \in S : Min(S) <= y
  BY <1>2, MinOfNaturals
<1>4. PICK j \in 1..Len(s) : t <= s[j] /\ \A y \in S : j <= y
  BY <1>3
<1>5. j # 1
  BY <1>1, <1>4
<1>6. j - 1 \in 1..Len(s) /\ j - 1 \in 1..(Len(s) - 1) /\ (j - 1) + 1 = j
  BY <1>1, <1>4, <1>5
<1>7. j - 1 \notin S
  BY <1>4, <1>6
<1>8. s[j - 1] < t
  BY <1>1, <1>6, <1>7
<1> QED BY <1>4, <1>6, <1>8

\* Whatever the spline, the rates and the clock differences are.
THEOREM ImagesAreFedWithinReadings == SimulationSpec => ImagesWithinReadings
<1>1. ASSUME SimulationInv, SimulationNext, images' # images
      PROVE  LET t == Last(images')
                 error == offset - calib_camimu_dt
             IN  /\ HasState(t + calib_camimu_dt)
                 /\ error <= rate.cam - rate.imu => t + offset <= Last(readings)
                 /\ program = "run_simulation" =>
                      state_time <= t /\ (error >= 0 => Head(readings) <= state_time + offset)
  <2> DEFINE t == timestamp_last_cam - calib_camimu_dt
  <2>1. get_next_cam
    BY <1>1 DEF SimulationNext, GenerateMap, InitializeWithGt, get_next_imu, consumer
  <2>2. /\ turn = "cam" /\ ~(NextImuTime < NextCamTime) /\ HasPose(control_points, NextCamTime)
        /\ \E m \in Image(NextCamTime - calib_camimu_dt) : FeedBuffered(m)
    BY <1>1, <2>1 DEF get_next_cam, Earlier
  <2>3. buffer.timestamp # -1 /\ images' = Append(images, buffer.timestamp)
    BY <1>1, <2>2 DEF FeedBuffered, FeedSimulation
  <2>4. Configured /\ Clocks /\ ReadingsFed /\ Held /\ StateBehind
    BY <1>1 DEF SimulationInv
  <2>5. /\ rate.imu \in Nat \ {0} /\ rate.cam \in Nat /\ rate.imu <= rate.cam /\ calib_camimu_dt \in Nat
        /\ offset \in Nat
    BY <2>4, ConstantsTyped DEF Configured
  <2>6. /\ buffer.timestamp = t /\ HasPose(control_points, timestamp_last_cam) /\ StartsAt < timestamp_last_cam
        /\ buffer.timestamp \in Int /\ images \in Seq(Int)
    BY <2>2, <2>3, <2>4 DEF Held, Asking
  <2>7. Last(images') = t
    BY <2>3, <2>6, AppendFacts
  <2>8. /\ timestamp_last_cam \in Nat /\ timestamp_last_imu \in Nat /\ StartsAt \in Int
        /\ timestamp_last_cam <= timestamp_last_imu
        /\ timestamp_last_cam + rate.cam <= timestamp_last_imu + rate.imu
    BY <2>2, <2>4, <2>5 DEF Clocks, NextCamTime, NextImuTime, StartsAt
  <2>9. is_running
    <3> SUFFICES ASSUME ~is_running PROVE FALSE
      OBVIOUS
    <3>1. ~HasPose(control_points, timestamp_last_imu) /\ timestamp_last_imu <= NextCamTime
      BY <2>2, <2>4 DEF Clocks, NextCamTime
    <3>2. NextCamTime \in Int /\ control_points \in SUBSET Nat /\ IsFiniteSet(control_points)
      BY <2>4, <2>5, <2>8 DEF NextCamTime, Configured
    <3> QED BY <2>2, <2>6, <2>8, <3>1, <3>2, PosesInOnePiece
  <2>10. HasState(timestamp_last_cam)
    <3>1. /\ hist_true_bias_time \in Seq(Int) /\ Len(hist_true_bias_time) >= 2
          /\ hist_true_bias_time[1] \in Int /\ Last(hist_true_bias_time) \in Int
          /\ timestamp_last_imu <= Last(hist_true_bias_time)
      BY <2>4, <2>9 DEF Clocks, Last
    <3>2. hist_true_bias_time[1] < timestamp_last_cam /\ timestamp_last_cam <= Last(hist_true_bias_time)
      BY <2>5, <2>6, <2>8, <3>1 DEF StartsAt
    <3>3. timestamp_last_cam \in Int
      BY <2>8
    <3> QED BY <2>6, <3>1, <3>2, <3>3, BiasesAround DEF HasState
  <2>11. readings # <<>>
    BY <2>4, <2>5, <2>6, <2>8, <2>9 DEF ReadingsFed
  <2>12. Last(readings) = timestamp_last_imu /\ Head(readings) = StartsAt + rate.imu
    BY <2>4, <2>9, <2>11 DEF ReadingsFed
  <2>13. offset - calib_camimu_dt <= rate.cam - rate.imu => t + offset <= Last(readings)
    BY <2>5, <2>8, <2>12
  <2>14. ASSUME program = "run_simulation"
         PROVE  state_time <= t /\ (offset - calib_camimu_dt >= 0 => Head(readings) <= state_time + offset)
    <3>1. state_time \in Int /\ StartsAt + rate.imu - calib_camimu_dt <= state_time /\ state_time <= t
      BY <2>2, <2>3, <2>4, <2>14 DEF StateBehind, Asking
    <3> QED BY <2>5, <2>8, <2>12, <3>1
  <2>15. t + calib_camimu_dt = timestamp_last_cam
    BY <2>5, <2>8
  <2> HIDE DEF t
  <2> QED BY <2>7, <2>10, <2>13, <2>14, <2>15
<1>2. SimulationInv /\ [SimulationNext]_simulationVars =>
        [images' # images =>
           LET t == Last(images')
               error == offset - calib_camimu_dt
           IN  /\ HasState(t + calib_camimu_dt)
               /\ error <= rate.cam - rate.imu => t + offset <= Last(readings)
               /\ program = "run_simulation" =>
                    state_time <= t /\ (error >= 0 => Head(readings) <= state_time + offset)]_simulationVars
  BY <1>1
<1> QED BY <1>2, SimulationInvHolds, PTL DEF SimulationSpec, ImagesWithinReadings

LEMMA SameBeforeAdding == ASSUME NEW f \in Int, NEW g \in Int, NEW x \in Int, f + x = g + x PROVE f = g
OBVIOUS

\* Whatever the number of cameras and the size of the map.
THEOREM IdsAreOfOneCamera == SimulationSpec => []IdsOfOneCamera
<1>1. ASSUME SimulationInv, ~use_stereo, NEW c \in Cameras, NEW d \in Cameras,
             NEW p \in buffer.feats[c], NEW q \in buffer.feats[d], p.id = q.id
      PROVE  c = d /\ p.of = q.of
  <2>1. /\ featmap \in Nat /\ p.of \in 0..(featmap - 1) /\ q.of \in 0..(featmap - 1)
        /\ p.id = p.of + c * featmap /\ q.id = q.of + d * featmap
    BY <1>1 DEF SimulationInv, PointsOfMap
  <2>2. c \in Nat /\ d \in Nat
    BY SimulationAssumption DEF Cameras
  <2>3. ASSUME NEW F \in Nat, NEW a \in Nat, NEW b \in Nat, NEW f \in 0..(F - 1), NEW g \in 0..(F - 1),
               f + a * F = g + b * F
        PROVE  ~(a < b)
    <3> SUFFICES ASSUME a < b PROVE FALSE
      OBVIOUS
    <3>1. PICK k \in Nat : b = a + 1 + k
      <4>1. b - a - 1 \in Nat /\ b = a + 1 + (b - a - 1)
        OBVIOUS
      <4> QED BY <4>1
    <3>2. b * F = a * F + F + k * F /\ k * F \in Nat /\ a * F \in Nat
      BY <3>1
    <3> DEFINE aF == a * F
               bF == b * F
               kF == k * F
    <3>3. bF = aF + F + kF /\ kF \in Nat /\ aF \in Nat /\ f + aF = g + bF
      BY <2>3, <3>2
    <3> HIDE DEF aF, bF, kF
    <3> QED BY <3>3
  <2>4. ~(c < d) /\ ~(d < c)
    BY <1>1, <2>1, <2>2, <2>3
  <2>5. c = d
    BY <2>2, <2>4
  <2>6. p.of \in Int /\ q.of \in Int /\ c * featmap \in Int /\ p.of + c * featmap = q.of + c * featmap
    <3>1. p.of \in Int /\ q.of \in Int
      BY <2>1
    <3>2. c * featmap \in Int
      BY <2>1, <2>2
    <3>3. p.of + c * featmap = q.of + d * featmap
      BY <1>1, <2>1, Zenon
    <3>4. p.of + c * featmap = q.of + c * featmap
      BY <2>5, <3>3, Zenon
    <3> QED BY <3>1, <3>2, <3>4
  <2>7. p.of = q.of
    BY <2>6, SameBeforeAdding, Zenon
  <2> QED BY <2>5, <2>7
<1>2. SimulationInv => IdsOfOneCamera
  BY <1>1 DEF IdsOfOneCamera
<1> QED BY <1>2, SimulationInvHolds, PTL
=============================================================================
