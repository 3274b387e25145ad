------------------------ MODULE FastPropagationProofs ------------------------
(***************************************************************************)
(* Proofs about FastPropagation, for any readings, updates and estimates   *)
(* of the clocks' difference.                                              *)
(***************************************************************************)
EXTENDS FastPropagation, DataFacts, FiniteSetTheorems

-----------------------------------------------------------------------------
(***************************************************************************)
(* On one thread the cached copy is never older than the state.            *)
(***************************************************************************)
\* A pose is not asked for in the middle of an image, and the other way round.
TakeTurns ==
  /\ filter \in {"idle", "update", "invalidate", "delayed"}
  /\ asker \in {"idle", "copy time", "copy estimate", "validate", "integrate"}
  /\ filter = "idle" \/ asker = "idle"

\* An update leaves a valid copy behind only until it is invalidated; delayed_init, which
\* does not invalidate, always finds it invalid.
CopyIsCurrent ==
  /\ cache_imu_valid /\ filter \in {"idle", "update"} => cache_est.updates = updates
  /\ filter = "delayed" => ~cache_imu_valid
  /\ asker = "validate" => cache_est.updates = updates
  /\ asker = "integrate" => cache_imu_valid

CacheInv ==
  /\ cache_imu_valid \in BOOLEAN
  /\ cache_est = [updates |-> cache_est.updates, at |-> cache_est.at, given |-> cache_est.given]
  /\ TakeTurns /\ CopyIsCurrent

LEMMA CacheInit == Init => CacheInv
  BY DEF Init, CacheInv, TakeTurns, CopyIsCurrent

LEMMA StepKeepsCache == ASSUME ~Threads, CacheInv, [Next]_vars PROVE CacheInv'
<1> USE DEF CacheInv, TakeTurns, CopyIsCurrent, imuState, cache
<1>1. CASE FeedImu
  BY <1>1 DEF FeedImu
<1>2. ASSUME NEW t \in 0..Horizon, NewImage(t) PROVE CacheInv'
  BY <1>2 DEF NewImage
<1>3. ASSUME NEW t \in 0..Horizon, Ask(t) PROVE CacheInv'
  BY <1>3 DEF Ask
<1>4. CASE Update
  BY <1>4 DEF Update
<1>5. CASE invalidate_cache
  BY <1>5 DEF invalidate_cache
<1>6. CASE DelayedInit
  BY <1>6 DEF DelayedInit
<1>7. CASE CopyTime
  BY <1>7 DEF CopyTime
<1>8. CASE CopyEstimate
  BY <1>8 DEF CopyEstimate
<1>9. CASE Validate
  BY <1>9 DEF Validate
<1>10. CASE Integrate
  <2>1. /\ cache_est' = cache_est \/ \E x : cache_est' = [cache_est EXCEPT !.at = x, !.given = TRUE]
        /\ cache_imu_valid' = cache_imu_valid
    BY <1>10 DEF Integrate
  <2>2. cache_est' = [updates |-> cache_est.updates, at |-> cache_est'.at, given |-> cache_est'.given]
    BY <2>1
  <2> QED BY <1>10, <2>1, <2>2 DEF Integrate
<1>11. CASE UNCHANGED vars
  BY <1>11 DEF vars
<1> QED BY <1>1, <1>2, <1>3, <1>4, <1>5, <1>6, <1>7, <1>8, <1>9, <1>10, <1>11 DEF Next

\* Where poses are asked for between images only, a pose is integrated from the state as
\* the last update left it: no path of an image's updates leaves the cached copy valid,
\* though the last of them (delayed_init) does not invalidate it.
THEOREM FreshOnOneThread == ASSUME ~Threads PROVE Spec => []FreshAfterUpdate
<1>1. CacheInv => FreshAfterUpdate
  BY DEF CacheInv, CopyIsCurrent, FreshAfterUpdate
<1>2. CacheInv /\ [Next]_vars => CacheInv'
  BY StepKeepsCache
<1> QED BY <1>1, <1>2, CacheInit, PTL DEF Spec

-----------------------------------------------------------------------------
(***************************************************************************)
(* Which instant each pose is for.                                         *)
(***************************************************************************)
\* The clocks' difference is in the copy until a pose is given from it.
OffsetUntilGiven ==
  (cache_imu_valid /\ filter \in {"idle", "update"}) \/ asker = "validate" =>
    cache_t_off = IF cache_est.given THEN 0 ELSE t_off

\* The cached copy is of one instant, and of none that the next pose comes before: asking
\* advances by more than any offset that went into its time.
CopyInOrder ==
  /\ cache_imu_valid \/ asker \in {"validate", "integrate"} =>
       /\ cache_est.at = cache_state_time + cache_t_off
       /\ cache_state_time <= asked + Max(Offsets)
  /\ asker \in {"copy time", "copy estimate"} => ~cache_imu_valid
  /\ asker # "idle" => timestamp < asked
  /\ asker = "copy estimate" => cache_state_time = timestamp
  /\ asker \in {"validate", "integrate"} => cache_state_time <= asked

PoseInv ==
  /\ CacheInv
  /\ newest \in Nat /\ timestamp \in Nat /\ t_off \in Offsets /\ asked \in Nat
  /\ cache_state_time \in Nat /\ cache_t_off \in Offsets \cup {0} /\ cache_est.at \in Int
  /\ cache_est.given \in BOOLEAN
  /\ CopyInOrder /\ OffsetUntilGiven
  /\ FirstPoseOnCameraClock

LEMMA LargestOffset == Max(Offsets) \in Nat /\ \A o \in Offsets : o \in Nat /\ o <= Max(Offsets)
<1>0. PICK n \in Nat : ExistsSurjection(1..n, Offsets)
  BY FastAssumption, FS_NatSurjection
<1>1. PICK f : f \in Surjection(1..n, Offsets)
  BY <1>0 DEF ExistsSurjection
<1>2. f \in [1..n -> Offsets] /\ Offsets \subseteq Nat /\ \A o \in Offsets : \E i \in 1..n : f[i] = o
  BY <1>1, FastAssumption DEF Surjection
<1>3. PICK b \in Nat : \A i \in 1..n : f[i] <= b
  <2> DEFINE S == {m \in Nat : m <= n => \E b \in Nat : \A i \in 1..m : f[i] <= b}
  <2>1. 0 \in S
    OBVIOUS
  <2>2. ASSUME NEW m \in Nat, m \in S PROVE m + 1 \in S
    <3> SUFFICES ASSUME m + 1 <= n PROVE \E b \in Nat : \A i \in 1..(m + 1) : f[i] <= b
      OBVIOUS
    <3>1. PICK b \in Nat : \A i \in 1..m : f[i] <= b
      BY <2>2
    <3>2. f[m + 1] \in Nat /\ \A i \in 1..m : f[i] \in Nat
      <4>1. m + 1 \in 1..n /\ \A i \in 1..m : i \in 1..n
        BY <1>0
      <4>2. \A i \in 1..n : f[i] \in Nat
        BY <1>2
      <4> QED BY <4>1, <4>2
    <3>3. b + f[m + 1] \in Nat
      BY <3>2
    <3>4. \A i \in 1..(m + 1) : f[i] <= b + f[m + 1]
      <4> SUFFICES ASSUME NEW i \in 1..(m + 1) PROVE f[i] <= b + f[m + 1]
        OBVIOUS
      <4>1. CASE i = m + 1
        BY <3>2, <4>1
      <4>2. CASE i # m + 1
        <5>1. i \in 1..m
          BY <4>2
        <5> QED BY <3>1, <3>2, <5>1
      <4> QED BY <4>1, <4>2
    <3> QED BY <3>3, <3>4
  <2> HIDE DEF S
  <2>3. n \in S
    BY <2>1, <2>2, Inductive
  <2> QED BY <2>3 DEF S
<1>4. Offsets \in SUBSET (0..b) /\ Offsets # {}
  BY <1>2, <1>3, FastAssumption
<1> QED BY <1>2, <1>4, MaxOfBounded

LEMMA BufferIs == ASSUME newest \in Nat PROVE Ascending(imu_data) /\ 0 \in ToSet(imu_data)
<1> DEFINE n == (newest \div 2) + 1
<1>1. n \in Nat /\ 1 \in 1..n
  OBVIOUS
<1>2. imu_data = [i \in 1..n |-> 2 * (i - 1)]
  BY DEF imu_data
<1> HIDE DEF n
<1>3. \A i \in 1..n : i \in Nat /\ 2 * (i - 1) \in Nat
  BY <1>1
<1>4. imu_data \in Seq(Nat) /\ Len(imu_data) = n /\ DOMAIN imu_data = 1..n
  BY <1>1, <1>2, <1>3
<1>5. ASSUME NEW i \in 1..n, NEW j \in 1..n, i < j PROVE <<imu_data[i], imu_data[j]>> \in Later
  BY <1>1, <1>2, <1>3, <1>5 DEF Later
<1>6. imu_data[1] = 0
  BY <1>1, <1>2
<1> QED BY <1>1, <1>4, <1>5, <1>6 DEF Ascending, Chained, ToSet

LEMMA PoseInit == Init => PoseInv
<1> SUFFICES ASSUME Init PROVE PoseInv
  OBVIOUS
<1>1. CacheInv
  BY CacheInit
<1> QED BY <1>1, FastAssumption DEF Init, PoseInv, CopyInOrder, OffsetUntilGiven, FirstPoseOnCameraClock

LEMMA IntegrateKeepsPose ==
  ASSUME PoseInv, Integrate, CacheInv' PROVE PoseInv'
<1> DEFINE time0 == cache_state_time + cache_t_off
           time1 == asked + cache_t_off
           data  == select_imu_readings(imu_data, time0, time1)
<1>1. /\ newest' = newest /\ timestamp' = timestamp /\ t_off' = t_off /\ asked' = asked
      /\ asker = "integrate" /\ asker' = "idle" /\ cache_imu_valid' = cache_imu_valid
  BY DEF Integrate, imuState, cache
<1>2. /\ cache_est.at = time0 /\ cache_state_time <= asked /\ cache_state_time \in Nat
      /\ asked \in Nat /\ cache_t_off \in Nat /\ cache_t_off <= Max(Offsets) /\ Max(Offsets) \in Nat
      /\ cache_t_off \in Offsets \cup {0}
  BY <1>1, LargestOffset, FastAssumption DEF PoseInv, CopyInOrder
<1>0. /\ cache_t_off = (IF cache_est.given THEN 0 ELSE t_off) /\ cache_est.given \in BOOLEAN
      /\ filter = "idle" /\ filter' = "idle" /\ cache_imu_valid
  <2>1. filter' = filter
    BY DEF Integrate
  <2> QED BY <1>1, <2>1 DEF PoseInv, CacheInv, TakeTurns, CopyIsCurrent, OffsetUntilGiven
<1>3. CASE Len(data) < 2
  <2>1. UNCHANGED <<cache, answer>>
    BY <1>3 DEF Integrate
  <2> QED BY <1>0, <1>1, <2>1 DEF PoseInv, CopyInOrder, OffsetUntilGiven, FirstPoseOnCameraClock, cache
<1>4. CASE ~(Len(data) < 2)
  <2>1. /\ cache_est' = [cache_est EXCEPT !.at = @ + TimeCovered(data), !.given = TRUE]
        /\ cache_state_time' = time1 /\ cache_t_off' = 0
        /\ answer' = [for |-> asked, at |-> cache_est'.at, first |-> ~cache_est.given, t_off |-> t_off]
    BY <1>4 DEF Integrate, OffsetAfter
  <2>2. time0 \in Int /\ time1 \in Int /\ 0 <= time0 /\ time0 <= time1 /\ time1 \in Nat
    BY <1>2
  <2>3. Ascending(imu_data) /\ 0 \in ToSet(imu_data) /\ ToSet(imu_data) \subseteq Nat
    BY BufferIs DEF PoseInv, Ascending, ToSet
  <2> HIDE DEF time0, time1
  <2>4. TimeCovered(data) = time1 - time0
    <3>1. CASE time0 = time1
      <4>1. TimeCovered(select_imu_readings(imu_data, time0, time0)) = 0
        BY <2>2, <2>3, AtOneInstant
      <4>2. time1 - time0 = 0
        BY <2>2, <3>1
      <4> QED BY <3>1, <4>1, <4>2
    <3>2. CASE time0 # time1 /\ \E r \in ToSet(imu_data) : time0 < r
      <4>1. time0 < time1
        BY <2>2, <3>2
      <4> QED BY <2>2, <2>3, <3>2, <4>1, Covers
    <3>3. CASE time0 # time1 /\ ~\E r \in ToSet(imu_data) : time0 < r
      <4>1. time0 < time1 /\ \A r \in ToSet(imu_data) : r <= time0
        BY <2>2, <2>3, <3>3
      <4>2. data = <<>>
        BY <2>2, <2>3, <4>1, NothingAfterBuffer
      <4> QED BY <1>4, <4>2
    <3> QED BY <3>1, <3>2, <3>3
  <2> HIDE DEF data
  <2>5. cache_est'.at = time1 /\ cache_est'.given
    <3>1. cache_est'.at = cache_est.at + TimeCovered(data) /\ cache_est'.given
      <4>1. cache_est = [updates |-> cache_est.updates, at |-> cache_est.at, given |-> cache_est.given]
        BY DEF PoseInv, CacheInv
      <4> QED BY <2>1, <4>1
    <3> QED BY <1>2, <2>2, <2>4, <3>1
  <2>6. time1 <= asked + Max(Offsets)
    BY <1>2 DEF time1
  <2>7. FirstPoseOnCameraClock' /\ OffsetUntilGiven'
    <3>1. /\ answer'.for = asked /\ answer'.at = time1 /\ answer'.first = ~cache_est.given
          /\ answer'.t_off = t_off
      BY <2>1, <2>5
    <3>2. time1 = asked + (IF ~cache_est.given THEN t_off ELSE 0)
      BY <1>0 DEF time1
    <3>3. FirstPoseOnCameraClock'
      BY <3>1, <3>2 DEF FirstPoseOnCameraClock
    <3>4. OffsetUntilGiven'
      BY <2>1, <2>5 DEF OffsetUntilGiven
    <3> QED BY <3>3, <3>4
  <2>8. CopyInOrder'
    BY <1>1, <2>1, <2>2, <2>5, <2>6 DEF CopyInOrder
  <2> QED BY <1>1, <1>2, <2>1, <2>2, <2>5, <2>7, <2>8 DEF PoseInv
<1> QED BY <1>3, <1>4

LEMMA StepKeepsPose == ASSUME ~Threads, Forward, PoseInv, [Next]_vars PROVE PoseInv'
<1>0. CacheInv' /\ CacheInv
  BY StepKeepsCache DEF PoseInv
<1> USE DEF PoseInv, CopyInOrder, OffsetUntilGiven, FirstPoseOnCameraClock, imuState, cache
<1>1. CASE FeedImu
  <2>0. newest \in Nat
    OBVIOUS
  <2>1. newest' \in Nat
    <3> HIDE DEF PoseInv, CopyInOrder
    <3> QED BY <1>1, <2>0 DEF FeedImu
  <2>2. UNCHANGED <<imuState, filter, cache, asker, asked, answer>>
    BY <1>1 DEF FeedImu
  <2> QED BY <1>0, <2>1, <2>2
<1>2. ASSUME NEW t \in 0..Horizon, NewImage(t) PROVE PoseInv'
  BY <1>0, <1>2 DEF NewImage
<1>3. ASSUME NEW t \in 0..Horizon, Ask(t) PROVE PoseInv'
  <2> DEFINE m == Max(Offsets)
  <2>1. t \in Nat /\ t > asked + m /\ asked' = t /\ timestamp < t /\ asker = "idle" /\ m \in Nat
    <3>1. asked \in Nat /\ timestamp \in Nat /\ newest \in Nat
      OBVIOUS
    <3> HIDE DEF PoseInv, CopyInOrder
    <3>2. t \in Nat
      BY FastAssumption
    <3>3. t > asked + m /\ asked' = t /\ timestamp < t /\ asker = "idle"
      BY <1>3 DEF Ask
    <3> QED BY <3>2, <3>3, LargestOffset
  <2>2. /\ UNCHANGED <<newest, imuState, cache, answer>>
        /\ asker' = IF cache_imu_valid THEN "integrate" ELSE "copy time"
    BY <1>3 DEF Ask
  <2>3. cache_imu_valid => cache_state_time <= asked + m
    OBVIOUS
  <2> HIDE DEF m
  <2>4. cache_imu_valid => cache_state_time <= t /\ cache_state_time <= t + m
    <3>1. cache_state_time \in Nat /\ asked \in Nat
      OBVIOUS
    <3> HIDE DEF PoseInv, CopyInOrder
    <3> QED BY <2>1, <2>3, <3>1
  <2>5. CopyInOrder'
    <3>1. UNCHANGED <<timestamp, cache_imu_valid, cache_est, cache_state_time, cache_t_off>>
      BY <2>2
    <3>2. asker' = IF cache_imu_valid THEN "integrate" ELSE "copy time"
      BY <2>2
    <3> QED BY <2>1, <2>4, <3>1, <3>2 DEF m
  <2>6. OffsetUntilGiven'
    <3>1. /\ UNCHANGED <<t_off, filter, cache_imu_valid, cache_est, cache_t_off>>
          /\ asker' # "validate"
      BY <1>3, <2>2 DEF Ask
    <3>2. OffsetUntilGiven
      OBVIOUS
    <3> HIDE DEF PoseInv, CopyInOrder
    <3> QED BY <3>1, <3>2
  <2>7. asked' \in Nat
    BY <2>1
  <2>8. UNCHANGED <<newest, timestamp, t_off, cache_imu_valid, cache_state_time, cache_t_off, cache_est, answer>>
    BY <2>2
  <2> QED BY <1>0, <2>5, <2>6, <2>7, <2>8
<1>4. CASE Update
  <2>1. filter' = "invalidate" /\ t_off' \in Offsets
        /\ UNCHANGED <<newest, timestamp, asker, asked, answer>> /\ UNCHANGED cache
    BY <1>4 DEF Update
  <2>2. asker = "idle"
    BY <1>4 DEF Update, CacheInv, TakeTurns
  <2> QED BY <1>0, <2>1, <2>2
<1>5. CASE invalidate_cache
  BY <1>0, <1>5 DEF invalidate_cache, TakeTurns, CacheInv
<1>6. CASE DelayedInit
  <2>1. filter = "delayed" /\ t_off' \in Offsets
        /\ UNCHANGED <<newest, timestamp, asker, asked, answer>> /\ UNCHANGED cache
    BY <1>6 DEF DelayedInit
  <2>2. asker = "idle" /\ ~cache_imu_valid
    BY <2>1 DEF CacheInv, TakeTurns, CopyIsCurrent
  <2> QED BY <1>0, <2>1, <2>2
<1>7. CASE CopyTime
  BY <1>0, <1>7 DEF CopyTime
<1>8. CASE CopyEstimate
  <2>1. Max(Offsets) \in Nat /\ t_off \in Nat
    BY LargestOffset
  <2> DEFINE m == Max(Offsets)
  <2>2. cache_state_time = timestamp /\ timestamp < asked /\ ~cache_imu_valid
    BY <1>8 DEF CopyEstimate
  <2>3. cache_state_time <= asked + m /\ cache_state_time <= asked
    <3>1. m \in Nat /\ timestamp \in Nat /\ asked \in Nat
      BY <2>1
    <3> HIDE DEF m, PoseInv, CopyInOrder
    <3> QED BY <2>2, <3>1
  <2>4. cache_est'.at = timestamp + t_off /\ cache_t_off' = t_off
    BY <1>8 DEF CopyEstimate
  <2>5. CopyInOrder'
    BY <1>8, <2>2, <2>3, <2>4 DEF CopyEstimate
  <2>6. cache_est'.at \in Int
    <3>1. timestamp \in Nat
      OBVIOUS
    <3> HIDE DEF PoseInv, CopyInOrder
    <3> QED BY <2>1, <2>4, <3>1
  <2> QED BY <1>0, <1>8, <2>1, <2>4, <2>5, <2>6 DEF CopyEstimate
<1>9. CASE Validate
  BY <1>0, <1>9 DEF Validate
<1>10. CASE Integrate
  BY <1>0, <1>10, IntegrateKeepsPose
<1>11. CASE UNCHANGED vars
  BY <1>0, <1>11 DEF vars
<1> QED BY <1>1, <1>2, <1>3, <1>4, <1>5, <1>6, <1>7, <1>8, <1>9, <1>10, <1>11 DEF Next

\* Where poses are asked for between images, each for an instant past the one before by more
\* than the clocks differ, the first from a copy is of the time asked for in the camera's
\* clock and all later ones in the IMU's: the readings from the copy to it are integrated
\* once and up to its end, also after a pose beyond the last reading.
THEOREM PosesOfTheirClocks == ASSUME ~Threads, Forward PROVE Spec => []FirstPoseOnCameraClock
<1>1. PoseInv => FirstPoseOnCameraClock
  BY DEF PoseInv
<1>2. PoseInv /\ [Next]_vars => PoseInv'
  BY StepKeepsPose
<1> QED BY <1>1, <1>2, PoseInit, PTL DEF Spec

\* Every pose is that of the instant asked for if the clocks agree; it is then no matter on
\* which of them a call reads its time.
THEOREM PosesOfTheirInstants ==
  ASSUME ~Threads, Forward, Offsets = {0} PROVE Spec => []PoseOfItsInstant
<1> DEFINE Inv == PoseInv /\ answer.t_off = 0 /\ answer.for \in Int
<1>1. Init => Inv
  BY PoseInit DEF Init
<1>2. Inv /\ [Next]_vars => Inv'
  <2> SUFFICES ASSUME Inv, [Next]_vars PROVE Inv'
    OBVIOUS
  <2>1. PoseInv'
    BY StepKeepsPose
  <2>2. CASE answer' = answer
    BY <2>1, <2>2
  <2>3. CASE answer' # answer
    <3>1. Integrate
      BY <2>3 DEF Next, vars, FeedImu, NewImage, Update, invalidate_cache, DelayedInit, Ask,
                  CopyTime, CopyEstimate, Validate
    <3>2. answer'.t_off = t_off /\ answer'.for = asked
      BY <2>3, <3>1 DEF Integrate
    <3> QED BY <2>1, <3>2 DEF PoseInv
  <2> QED BY <2>2, <2>3
<1>3. Inv => PoseOfItsInstant
  BY DEF PoseInv, FirstPoseOnCameraClock, PoseOfItsInstant
<1> QED BY <1>1, <1>2, <1>3, PTL DEF Spec
=============================================================================
