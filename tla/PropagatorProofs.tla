-------------------------- MODULE PropagatorProofs --------------------------
(***************************************************************************)
(* Proofs about Propagator, for any readings, stamps and estimates of the  *)
(* clocks' difference.                                                     *)
(***************************************************************************)
EXTENDS Propagator, DataFacts

-----------------------------------------------------------------------------
(***************************************************************************)
(* Without zero velocity updates the periods join.                         *)
(***************************************************************************)
OffsetsTyped ==
  /\ t_off \in Int \ {Unset} /\ t_off \in Offsets
  /\ prop_offset \in Offsets \cup {Unset}
  /\ timestamp \in Int

\* Where the next period starts in the IMU's clock is where the readings that went into
\* the state end: at the initialization t_off gives it and does not change before the
\* first propagation, after that last_prop_time_offset does.
PeriodsJoin ==
  ~try_zupt =>
    /\ gap = 0
    /\ ~is_initialized_vio => prop_offset = Unset
    /\ is_initialized_vio => integrated = timestamp + PropOffset

JoinInv == OffsetsTyped /\ PeriodsJoin

LEMMA JoinInit == Init => JoinInv
  BY PropagatorAssumption DEF Init, JoinInv, OffsetsTyped, PeriodsJoin

LEMMA StepKeepsJoin == JoinInv /\ [Next]_vars => JoinInv'
<1> SUFFICES ASSUME JoinInv, [Next]_vars PROVE JoinInv'
  OBVIOUS
<1> USE PropagatorAssumption DEF JoinInv, OffsetsTyped, PeriodsJoin, PropOffset
<1>1. ASSUME NEW t \in 0..Horizon, FeedImu(t) PROVE JoinInv'
  BY <1>1 DEF FeedImu, offsets
<1>2. ASSUME NEW t \in 0..Horizon, Initialize(t) PROVE JoinInv'
  BY <1>2 DEF Initialize, offsets
<1>3. ASSUME NEW t \in 0..Horizon, ZeroVelocityUpdate(t) PROVE JoinInv'
  BY <1>3 DEF ZeroVelocityUpdate, Drift
<1>4. ASSUME NEW t \in 0..Horizon, Propagate(t) PROVE JoinInv'
  BY <1>4 DEF Propagate, Drift, ImageReady
<1>5. CASE UNCHANGED vars
  BY <1>5 DEF vars, offsets
<1> QED BY <1>1, <1>2, <1>3, <1>4, <1>5 DEF Next

\* Without zero velocity updates no reading is left out between two images and none is
\* integrated twice, whatever the updates do to the estimate of the clocks' difference.
THEOREM PeriodsJoinWithoutZupt == Spec => []NoGapWithoutZupt
<1>1. JoinInv => NoGapWithoutZupt
  BY DEF JoinInv, PeriodsJoin, NoGapWithoutZupt
<1> QED BY <1>1, JoinInit, StepKeepsJoin, PTL DEF Spec

-----------------------------------------------------------------------------
(***************************************************************************)
(* The readings of a period are not deleted before it is integrated.       *)
(***************************************************************************)
\* The reserve is worth a gap between two readings, on top of how far the camera's clock is
\* ahead and of how much its estimate varies, which is at most the time between two images.
ReserveSuffices ==
  \A o, p \in Offsets :
    /\ p - o <= 1
    /\ MaxGap <= Slack + 1 + o
    /\ MaxGap + (p - o) <= Slack + 1

\* The buffer has no gap but at its end, which is the last reading.
Contiguous(imu, last) ==
  /\ Ascending(imu)
  /\ \A r \in ToSet(imu) : r <= last
  /\ \A r \in ToSet(imu) : r # last => \E q \in ToSet(imu) : r < q /\ q <= r + MaxGap
  /\ imu # <<>> => last \in ToSet(imu)

\* It reaches back to the start of the next period, and the state is not far ahead of it.
ReachesBack ==
  is_initialized_vio =>
    /\ imu_data # <<>> /\ timestamp <= newest + Slack
    /\ \E r \in ToSet(imu_data) : r <= timestamp + PropOffset

BufferInv ==
  /\ OffsetsTyped /\ newest \in Int /\ newest >= -1
  /\ is_initialized_vio \in BOOLEAN /\ clones \in SUBSET Nat
  /\ ~is_initialized_vio => prop_offset = Unset
  /\ Contiguous(imu_data, newest) /\ ReachesBack
  /\ ~crashed

LEMMA StoredIs ==
  ASSUME NEW imu, Ascending(imu), NEW t \in Nat, \A r \in ToSet(imu) : r < t
  PROVE  Ascending(Stored(imu, t)) /\ ToSet(Stored(imu, t)) = ToSet(imu) \cup {t}
<1> DEFINE n == Len(imu)
           s == Append(imu, t)
<1>1. /\ n \in Nat /\ DOMAIN imu = 1..n /\ \A i \in 1..n : imu[i] \in Nat
      /\ \A i, j \in 1..n : i < j => imu[i] < imu[j]
  BY AscendingIs
<1>2. imu \in Seq(Nat)
  BY DEF Ascending
<1>3. /\ s \in Seq(Nat) /\ Len(s) = n + 1 /\ DOMAIN s = 1..(n + 1)
      /\ \A i \in 1..n : s[i] = imu[i]
      /\ s[n + 1] = t
  BY <1>2
<1>4. \A i \in 1..n : imu[i] < t
  BY <1>1 DEF ToSet
<1> HIDE DEF n, s
<1>5. ASSUME NEW i \in 1..(n + 1), NEW j \in 1..(n + 1), i < j PROVE <<s[i], s[j]>> \in Later
  <2>1. i \in 1..n /\ s[i] = imu[i] /\ imu[i] \in Nat
    BY <1>1, <1>3, <1>5
  <2>2. CASE j = n + 1
    BY <1>3, <1>4, <2>1, <2>2 DEF Later
  <2>3. CASE j # n + 1
    <3>1. j \in 1..n /\ s[j] = imu[j] /\ imu[j] \in Nat
      BY <1>1, <1>3, <2>3
    <3> QED BY <1>1, <1>5, <2>1, <3>1 DEF Later
  <2> QED BY <2>2, <2>3
<1>6. Ascending(s)
  BY <1>3, <1>5 DEF Ascending, Chained
<1>7. ToSet(s) = ToSet(imu) \cup {t}
  BY <1>1, <1>3 DEF ToSet
<1> QED BY <1>6, <1>7 DEF Stored, s

LEMMA CleanedIs ==
  ASSUME NEW imu, Ascending(imu), NEW k \in Int
  PROVE  Ascending(Cleaned(imu, k)) /\ ToSet(Cleaned(imu, k)) = {r \in ToSet(imu) : r >= k}
<1> DEFINE S == Nat \ 0..(k - 1)
<1>1. imu \in Seq(Nat) /\ Chained(imu, Later) /\ ToSet(imu) \subseteq Nat
  BY DEF Ascending, ToSet
<1>2. CASE k < 0
  BY <1>1, <1>2 DEF Cleaned
<1>3. CASE ~(k < 0)
  <2>1. \A r \in Nat : r \in S <=> r >= k
    BY <1>3
  <2> HIDE DEF S
  <2>2. Kept(imu, S) \in Seq(Nat) /\ \A x : x \in ToSet(Kept(imu, S)) <=> x \in ToSet(imu) /\ x \in S
    BY <1>1, KeptIs
  <2>3. Chained(Kept(imu, S), Later)
    BY <1>1, KeptChained
  <2>4. Cleaned(imu, k) = Kept(imu, S)
    BY <1>3 DEF Cleaned, S
  <2>5. ToSet(Kept(imu, S)) = {r \in ToSet(imu) : r >= k}
    BY <1>1, <2>1, <2>2
  <2> QED BY <2>2, <2>3, <2>4, <2>5 DEF Ascending
<1> QED BY <1>2, <1>3

\* Cutting the buffer at its start leaves no gap.
LEMMA CleanedContiguous ==
  ASSUME NEW imu, NEW last \in Int, Contiguous(imu, last), NEW k \in Int
  PROVE  /\ Contiguous(Cleaned(imu, k), last)
         /\ last \in ToSet(imu) /\ k <= last => last \in ToSet(Cleaned(imu, k))
<1> DEFINE c == Cleaned(imu, k)
<1>1. Ascending(c) /\ ToSet(c) = {r \in ToSet(imu) : r >= k} /\ ToSet(imu) \subseteq Nat
  <2>1. Ascending(imu)
    BY DEF Contiguous
  <2>2. ToSet(imu) \subseteq Nat
    BY <2>1 DEF Ascending, ToSet
  <2> QED BY <2>1, <2>2, CleanedIs
<1> HIDE DEF c
<1>2. ASSUME NEW r \in ToSet(c), r # last PROVE \E q \in ToSet(c) : r < q /\ q <= r + MaxGap
  <2>1. PICK q \in ToSet(imu) : r < q /\ q <= r + MaxGap
    BY <1>1, <1>2 DEF Contiguous
  <2>2. q >= k
    BY <1>1, <2>1
  <2> QED BY <1>1, <2>1, <2>2
<1>3. \A r \in ToSet(c) : r <= last
  BY <1>1 DEF Contiguous
<1>4. ASSUME c # <<>> PROVE last \in ToSet(c)
  <2>1. PICK r : r \in ToSet(c)
    <3>1. c \in Seq(Nat)
      BY <1>1 DEF Ascending
    <3>2. c[1] \in ToSet(c)
      BY <1>4, <3>1 DEF ToSet
    <3> QED BY <3>2
  <2>2. imu # <<>>
    <3>1. ToSet(<<>>) = {}
      BY DEF ToSet
    <3> QED BY <1>1, <2>1, <3>1
  <2>3. last \in ToSet(imu) /\ r <= last /\ r >= k /\ r \in Nat
    BY <1>1, <2>1, <2>2 DEF Contiguous
  <2> QED BY <1>1, <2>3
<1>5. last \in ToSet(imu) /\ k <= last => last \in ToSet(c)
  BY <1>1
<1> QED BY <1>1, <1>2, <1>3, <1>4, <1>5 DEF Contiguous, c

\* What is cut at k reaches back to less than a gap after it.
LEMMA StillReaches ==
  ASSUME NEW imu, NEW last \in Int, Contiguous(imu, last), last \in ToSet(imu),
         NEW k \in Int, k <= last,
         NEW b \in Int, \E r \in ToSet(imu) : r <= b, MaxGap + k - 1 <= b
  PROVE  \E r \in ToSet(Cleaned(imu, k)) : r <= b
<1>1. Ascending(imu) /\ ToSet(imu) \subseteq Nat /\ MaxGap \in Nat
  BY PropagatorAssumption DEF Contiguous, Ascending, ToSet
<1>2. ToSet(Cleaned(imu, k)) = {r \in ToSet(imu) : r >= k}
  BY <1>1, CleanedIs
<1>3. PICK r \in ToSet(imu) : r <= b
  OBVIOUS
<1>4. CASE r >= k
  BY <1>2, <1>3, <1>4
<1>5. CASE r < k
  <2> DEFINE S == {x \in ToSet(imu) : x < k}
  <2>1. S \in SUBSET (0..last) /\ S # {} /\ last \in Nat
    BY <1>1, <1>3, <1>5 DEF Contiguous
  <2>2. PICK z : z \in S /\ \A y \in S : y <= z
    <3> HIDE DEF S
    <3> QED BY <2>1, MaxOfBounded
  <2>3. z \in ToSet(imu) /\ z < k /\ z # last /\ z \in Nat
    BY <1>1, <2>2
  <2>4. PICK q \in ToSet(imu) : z < q /\ q <= z + MaxGap
    BY <2>3 DEF Contiguous
  <2>5. q >= k
    <3>1. q \notin S
      <4> HIDE DEF S
      <4> QED BY <1>1, <2>2, <2>3, <2>4
    <3> QED BY <1>1, <2>4, <3>1
  <2>6. q <= b
    BY <1>1, <2>3, <2>4
  <2> QED BY <1>2, <2>4, <2>5, <2>6
<1> QED BY <1>1, <1>3, <1>4, <1>5

-----------------------------------------------------------------------------
\* While the reserve suffices, the period of the next image lies within the buffer, or is
\* one instant of it.
LEMMA PeriodCovered ==
  ASSUME BufferInv, ReserveSuffices, Buffered, NEW t \in 0..Horizon, ImageReady(t)
  PROVE  LET time0 == timestamp + PropOffset
             time1 == t + t_off
         IN  TimeCovered(select_imu_readings(imu_data, time0, time1)) = time1 - time0
<1> DEFINE time0 == timestamp + PropOffset
           time1 == t + t_off
<1>1. /\ is_initialized_vio /\ timestamp < t /\ timestamp \in Int /\ t \in Int
      /\ newest \in Int /\ t_off \in Offsets /\ Offsets \subseteq Int
      /\ PropOffset \in Offsets
  BY PropagatorAssumption DEF BufferInv, OffsetsTyped, ImageReady, PropOffset
<1>2. PICK o \in Offsets : t < newest - o
  BY DEF ImageReady
<1>3. PropOffset - t_off <= 1 /\ PropOffset - o <= 1
  BY <1>1 DEF ReserveSuffices
<1> DEFINE p == PropOffset
<1>4. p \in Int /\ o \in Int /\ t_off \in Int
  BY <1>1
<1>5. /\ Ascending(imu_data) /\ newest \in ToSet(imu_data)
      /\ \E r \in ToSet(imu_data) : r <= time0
  BY <1>1 DEF BufferInv, Contiguous, ReachesBack
<1>6. time0 \in Int /\ time1 \in Int /\ time0 <= time1 /\ time0 < newest
  <2>1. p - t_off <= 1 /\ p - o <= 1
    BY <1>3
  <2> HIDE DEF p
  <2>2. timestamp + p \in Int /\ timestamp + p <= t + t_off /\ timestamp + p < newest
    BY <1>1, <1>2, <1>4, <2>1
  <2> QED BY <1>1, <1>4, <2>2 DEF p
<1> HIDE DEF time0, time1, p
<1>7. TimeCovered(select_imu_readings(imu_data, time0, time1)) = time1 - time0
  <2>1. CASE time0 = time1
    <3>1. time1 - time0 = 0
      BY <1>6, <2>1
    <3>2. TimeCovered(select_imu_readings(imu_data, time0, time0)) = 0
      BY <1>5, <1>6, AtOneInstant
    <3> QED BY <2>1, <3>1, <3>2
  <2>2. CASE time0 # time1
    <3>1. time0 < time1
      BY <1>6, <2>2
    <3>2. \E r \in ToSet(imu_data) : time0 < r
      BY <1>5, <1>6
    <3> QED BY <1>5, <1>6, <3>1, <3>2, Covers
  <2> QED BY <2>1, <2>2
<1> QED BY <1>7 DEF time0, time1

LEMMA BufferInit == Init => BufferInv
<1> SUFFICES ASSUME Init PROVE BufferInv
  OBVIOUS
<1>1. Contiguous(<<>>, -1)
  <2>1. ToSet(<<>>) = {}
    BY DEF ToSet
  <2>2. Ascending(<<>>)
    BY DEF Ascending, Chained
  <2> QED BY <2>1, <2>2 DEF Contiguous
<1>2. OffsetsTyped
  BY PropagatorAssumption DEF Init, OffsetsTyped
<1>3. Contiguous(imu_data, newest)
  BY <1>1 DEF Init
<1>4. ReachesBack /\ newest \in Int /\ newest >= -1
  BY DEF Init, ReachesBack
<1> QED BY <1>2, <1>3, <1>4 DEF Init, BufferInv

\* A reading cuts the buffer before the oldest clone at most.
LEMMA FeedKeepsBuffer ==
  ASSUME BufferInv, ReserveSuffices, NEW t \in 0..Horizon, FeedImu(t)
  PROVE  BufferInv'
<1> DEFINE s == Stored(imu_data, t)
           k == OldestTime(t) - Slack
<1>1. /\ t \in Nat /\ newest \in Int /\ newest < t /\ newest' = t /\ imu_data' = Cleaned(s, k)
      /\ newest # -1 => t <= newest + MaxGap
      /\ Ascending(imu_data) /\ \A r \in ToSet(imu_data) : r <= newest
      /\ ToSet(imu_data) \subseteq Nat
      /\ MaxGap \in Nat /\ Slack \in Nat /\ InitWindow \in Nat
  BY PropagatorAssumption DEF FeedImu, BufferInv, Contiguous, Ascending, ToSet
<1>2. /\ OffsetsTyped' /\ is_initialized_vio' = is_initialized_vio /\ clones' = clones
      /\ timestamp' = timestamp /\ PropOffset' = PropOffset /\ ~crashed'
      /\ prop_offset' = prop_offset
  BY DEF FeedImu, BufferInv, OffsetsTyped, PropOffset, offsets
<1>3. Ascending(s) /\ ToSet(s) = ToSet(imu_data) \cup {t}
  <2>1. \A r \in ToSet(imu_data) : r < t
    BY <1>1
  <2> QED BY <1>1, <2>1, StoredIs
<1> HIDE DEF s
<1>4. Contiguous(s, t)
  <2>1. ASSUME NEW r \in ToSet(s), r # t PROVE \E q \in ToSet(s) : r < q /\ q <= r + MaxGap
    <3>1. r \in ToSet(imu_data) /\ r \in Nat /\ r <= newest
      BY <1>1, <1>3, <2>1
    <3>2. CASE r = newest
      <4>1. t \in ToSet(s) /\ r < t /\ t <= r + MaxGap
        BY <1>1, <1>3, <3>1, <3>2
      <4> QED BY <4>1
    <3>3. CASE r # newest
      <4>1. \E q \in ToSet(imu_data) : r < q /\ q <= r + MaxGap
        BY <3>1, <3>3 DEF BufferInv, Contiguous
      <4> QED BY <1>3, <4>1
    <3> QED BY <3>2, <3>3
  <2>2. \A r \in ToSet(s) : r <= t
    BY <1>1, <1>3
  <2> QED BY <1>3, <2>1, <2>2 DEF Contiguous
<1>5. k \in Int /\ (is_initialized_vio => k < 0 \/ k <= timestamp - Slack)
  <2> DEFINE m == Min(clones)
  <2>1. clones # {} => m \in Nat
    BY MinOfNaturals DEF BufferInv
  <2>2. timestamp \in Int /\ t_off \in Int
    BY DEF BufferInv, OffsetsTyped
  <2> HIDE DEF m
  <2>3. OldestTime(t) = IF ~is_initialized_vio THEN t - InitWindow + t_off - Slack
                        ELSE IF clones = {} \/ m > timestamp THEN -1 ELSE m
    BY DEF OldestTime, m
  <2> QED BY <1>1, <2>1, <2>2, <2>3
<1> HIDE DEF k
<1>6. Contiguous(imu_data', newest')
  BY <1>1, <1>4, <1>5, CleanedContiguous
<1>7. ReachesBack'
  <2> SUFFICES ASSUME is_initialized_vio
               PROVE  /\ imu_data' # <<>> /\ timestamp <= newest' + Slack
                      /\ \E r \in ToSet(imu_data') : r <= timestamp + PropOffset
    BY <1>2 DEF ReachesBack
  <2>1. /\ timestamp <= newest + Slack /\ imu_data # <<>> /\ timestamp \in Int
        /\ \E r \in ToSet(imu_data) : r <= timestamp + PropOffset
        /\ PropOffset \in Offsets /\ PropOffset \in Int
    BY PropagatorAssumption DEF BufferInv, ReachesBack, OffsetsTyped, PropOffset
  <2>2. timestamp <= newest' + Slack
    BY <1>1, <2>1
  <2> DEFINE b == timestamp + PropOffset
  <2>3. b \in Int /\ \E r \in ToSet(s) : r <= b
    BY <1>3, <2>1
  <2>4. t \in ToSet(s)
    BY <1>3
  <2>5. \E r \in ToSet(Cleaned(s, k)) : r <= b
    <3>1. CASE k < 0
      BY <2>3, <3>1 DEF Cleaned
    <3>2. CASE k <= timestamp - Slack
      <4>1. k <= t
        BY <1>1, <1>5, <2>1, <3>2
      <4>2. MaxGap <= Slack + 1 + PropOffset
        BY <2>1 DEF ReserveSuffices
      <4> DEFINE p == PropOffset
      <4>3. MaxGap + k - 1 <= timestamp + p
        <5>1. p \in Int /\ MaxGap <= Slack + 1 + p
          BY <2>1, <4>2
        <5> HIDE DEF p
        <5> QED BY <1>1, <1>5, <2>1, <3>2, <5>1
      <4> HIDE DEF b
      <4>4. MaxGap + k - 1 <= b
        BY <4>3 DEF b
      <4> QED BY <1>1, <1>4, <1>5, <2>3, <2>4, <4>1, <4>4, StillReaches
    <3> QED BY <1>5, <3>1, <3>2
  <2>6. imu_data' # <<>>
    <3>1. ToSet(<<>>) = {}
      BY DEF ToSet
    <3> QED BY <1>1, <2>5, <3>1
  <2> QED BY <1>1, <2>2, <2>5, <2>6
<1> QED BY <1>1, <1>2, <1>6, <1>7 DEF BufferInv

\* The filter starts at a reading that the buffer reaches back to.
LEMMA InitializeKeepsBuffer ==
  ASSUME BufferInv, ReserveSuffices, NEW s \in 0..Horizon, Initialize(s)
  PROVE  BufferInv'
<1>1. /\ newest' = newest /\ imu_data' = imu_data /\ t_off' = t_off /\ prop_offset' = prop_offset
      /\ is_initialized_vio' = TRUE /\ timestamp' = s /\ clones' = clones /\ ~crashed'
  BY DEF Initialize, BufferInv, offsets
<1>2. prop_offset = Unset /\ PropOffset' = t_off /\ t_off \in Int /\ t_off \in Offsets
  BY <1>1 DEF Initialize, BufferInv, PropOffset, OffsetsTyped
<1>3. imu_data # <<>> /\ Head(imu_data) <= s + t_off /\ s + t_off <= newest
  <2>1. imu_data # <<>> /\ s + t_off \in Head(imu_data)..newest
    BY DEF Initialize
  <2>2. imu_data \in Seq(Nat)
    BY DEF BufferInv, Contiguous, Ascending
  <2>3. Head(imu_data) \in Nat /\ newest \in Int
    BY <2>1, <2>2 DEF BufferInv
  <2> QED BY <2>1, <2>3
<1>4. Head(imu_data) \in ToSet(imu_data)
  <2>1. imu_data \in Seq(Nat)
    BY DEF BufferInv, Contiguous, Ascending
  <2> QED BY <1>3, <2>1 DEF ToSet
<1>5. s <= newest + Slack
  <2>1. MaxGap <= Slack + 1 + t_off /\ MaxGap \in Nat /\ MaxGap >= 1 /\ Slack \in Nat
    BY <1>2, PropagatorAssumption DEF ReserveSuffices
  <2> QED BY <1>2, <1>3, <2>1 DEF BufferInv
<1>6. OffsetsTyped'
  BY <1>1 DEF OffsetsTyped, BufferInv
<1>7. ReachesBack'
  BY <1>1, <1>2, <1>3, <1>4, <1>5 DEF ReachesBack
<1> QED BY <1>1, <1>6, <1>7 DEF BufferInv

\* A still image cuts the buffer before its own time.
LEMMA StillKeepsBuffer ==
  ASSUME BufferInv, ReserveSuffices, Buffered, NEW t \in 0..Horizon, ZeroVelocityUpdate(t)
  PROVE  BufferInv'
<1> DEFINE k == t + t_off' - Slack
           p == PropOffset'
           b == t + p
<1>1. /\ newest' = newest /\ imu_data' = Cleaned(imu_data, k) /\ prop_offset' = prop_offset
      /\ is_initialized_vio' = is_initialized_vio /\ timestamp' = t /\ clones' = clones /\ ~crashed'
      /\ t_off' \in Offsets /\ is_initialized_vio /\ timestamp < t
  BY DEF ZeroVelocityUpdate, BufferInv, Drift, ImageReady
<1>2. OffsetsTyped'
  BY <1>1, PropagatorAssumption DEF OffsetsTyped, BufferInv
<1>3. /\ Offsets \subseteq Int /\ t_off \in Offsets /\ t_off' \in Int /\ PropOffset \in Offsets
      /\ p \in Offsets /\ newest \in Int /\ t \in Int /\ timestamp \in Int
      /\ p = PropOffset \/ PropOffset = t_off
      /\ MaxGap \in Nat /\ MaxGap >= 1 /\ Slack \in Nat
  BY <1>1, <1>2, PropagatorAssumption DEF PropOffset, OffsetsTyped, BufferInv
<1>4. PICK o \in Offsets : t < newest - o
  BY DEF ZeroVelocityUpdate, ImageReady
<1>5. /\ t_off' - o <= 1 /\ MaxGap <= Slack + 1 + o /\ MaxGap + (t_off' - p) <= Slack + 1
      /\ PropOffset - p <= 1 /\ o \in Int /\ p \in Int /\ PropOffset \in Int
  <2>1. /\ t_off' - o <= 1 /\ MaxGap <= Slack + 1 + o
    BY <1>1, <1>4 DEF ReserveSuffices
  <2> HIDE DEF p
  <2>2. MaxGap + (t_off' - p) <= Slack + 1 /\ PropOffset - p <= 1
    BY <1>1, <1>3 DEF ReserveSuffices
  <2> QED BY <1>3, <1>4, <2>1, <2>2
<1>6. /\ Contiguous(imu_data, newest) /\ newest \in ToSet(imu_data)
      /\ \E r \in ToSet(imu_data) : r <= timestamp + PropOffset
      /\ ToSet(imu_data) \subseteq Nat
  BY <1>1 DEF BufferInv, ReachesBack, Contiguous, Ascending, ToSet
<1> DEFINE q == PropOffset
<1>7. timestamp + q <= t + p /\ b \in Int
  <2>1. q - p <= 1 /\ q \in Int /\ p \in Int
    BY <1>5
  <2> HIDE DEF p, q
  <2> QED BY <1>1, <1>3, <2>1
<1>8. \E r \in ToSet(imu_data) : r <= b
  <2>1. PICK r \in ToSet(imu_data) : r <= timestamp + q
    BY <1>6
  <2>2. r \in Int /\ q \in Int /\ p \in Int
    BY <1>5, <1>6
  <2> HIDE DEF p, q
  <2>3. r <= t + p
    BY <1>3, <1>7, <2>1, <2>2
  <2> QED BY <2>3
<1>9. k \in Int /\ k <= newest /\ MaxGap + k - 1 <= b /\ t <= newest + Slack
  <2>1. /\ p \in Int /\ MaxGap + (t_off' - p) <= Slack + 1
    BY <1>5
  <2>2. /\ t \in Int /\ newest \in Int /\ o \in Int /\ t_off' \in Int /\ Slack \in Nat /\ MaxGap \in Nat
        /\ MaxGap >= 1 /\ t < newest - o /\ t_off' - o <= 1 /\ MaxGap <= Slack + 1 + o
    BY <1>3, <1>4, <1>5
  <2> DEFINE d == t_off'
  <2>3. d \in Int /\ d - o <= 1 /\ MaxGap + (d - p) <= Slack + 1
    BY <2>1, <2>2
  <2> HIDE DEF p, d
  <2>4. t + d - Slack \in Int /\ t + d - Slack <= newest
    BY <2>2, <2>3
  <2>5. MaxGap + (t + d - Slack) - 1 <= t + p
    BY <2>1, <2>2, <2>3
  <2>6. t <= newest + Slack
    BY <2>2
  <2> QED BY <2>4, <2>5, <2>6 DEF d
<1> HIDE DEF k, b, p, q
<1>10. \E r \in ToSet(imu_data') : r <= b
  BY <1>1, <1>3, <1>6, <1>7, <1>8, <1>9, StillReaches
<1>11. Contiguous(imu_data', newest')
  BY <1>1, <1>3, <1>6, <1>9, CleanedContiguous
<1>12. imu_data' # <<>>
  <2>1. ToSet(<<>>) = {}
    BY DEF ToSet
  <2> QED BY <1>10, <2>1
<1>13. ReachesBack'
  BY <1>1, <1>9, <1>10, <1>12 DEF ReachesBack, b, p
<1> QED BY <1>1, <1>2, <1>3, <1>11, <1>13 DEF BufferInv

\* Propagating leaves the buffer alone.
LEMMA PropagateKeepsBuffer ==
  ASSUME BufferInv, ReserveSuffices, Buffered, NEW t \in 0..Horizon, Propagate(t)
  PROVE  BufferInv'
<1>1. /\ newest' = newest /\ imu_data' = imu_data /\ prop_offset' = t_off
      /\ is_initialized_vio' = is_initialized_vio /\ timestamp' = t
      /\ t_off' \in Offsets /\ is_initialized_vio /\ timestamp < t /\ ImageReady(t)
  BY DEF Propagate, Drift, ImageReady
<1>2. ~crashed'
  BY <1>1, PeriodCovered DEF Propagate
<1>3. OffsetsTyped'
  BY <1>1, PropagatorAssumption DEF OffsetsTyped, BufferInv
<1>4. /\ t_off \in Int /\ t_off \in Offsets /\ Offsets \subseteq Int /\ PropOffset \in Offsets
      /\ PropOffset' = t_off /\ newest \in Int /\ t \in Int /\ timestamp \in Int
      /\ MaxGap \in Nat /\ MaxGap >= 1 /\ Slack \in Nat
  BY <1>1, PropagatorAssumption DEF PropOffset, OffsetsTyped, BufferInv
<1>5. clones' \in SUBSET Nat
  <2>1. clones' \subseteq clones \cup {t}
    BY DEF Propagate
  <2> QED BY <2>1 DEF BufferInv
<1>6. t <= newest + Slack
  <2>1. PICK o \in Offsets : t < newest - o
    BY <1>1 DEF ImageReady
  <2>2. MaxGap <= Slack + 1 + o /\ o \in Int
    BY <1>4, <2>1 DEF ReserveSuffices
  <2> QED BY <1>4, <2>1, <2>2
<1>7. \E r \in ToSet(imu_data) : r <= t + t_off
  <2> DEFINE q == PropOffset
  <2>1. PICK r \in ToSet(imu_data) : r <= timestamp + q
    BY <1>1 DEF BufferInv, ReachesBack
  <2>2. r \in Int /\ q \in Int /\ q - t_off <= 1
    <3>1. ToSet(imu_data) \subseteq Nat
      BY DEF BufferInv, Contiguous, Ascending, ToSet
    <3>2. PropOffset - t_off <= 1
      BY <1>4 DEF ReserveSuffices
    <3> QED BY <1>4, <3>1, <3>2
  <2> HIDE DEF q
  <2>3. r <= t + t_off
    BY <1>1, <1>4, <2>1, <2>2
  <2> QED BY <2>3
<1>8. ReachesBack'
  BY <1>1, <1>4, <1>6, <1>7 DEF ReachesBack, BufferInv
<1> QED BY <1>1, <1>2, <1>3, <1>5, <1>8 DEF BufferInv

\* While readings come often enough for the reserve and images wait for theirs, the readings
\* of a whole period are there when it is integrated: the assertion in propagate_and_clone
\* on the integrated time never fails, though the buffer is cut with stamps of both clocks
\* and the estimate of their difference varies.
THEOREM WholePeriods == ReserveSuffices /\ Buffered => (Spec => []IntegratesWholePeriod)
<1> SUFFICES ASSUME ReserveSuffices, Buffered PROVE Spec => []IntegratesWholePeriod
  OBVIOUS
<1>1. BufferInv /\ [Next]_vars => BufferInv'
  <2> SUFFICES ASSUME BufferInv, [Next]_vars PROVE BufferInv'
    OBVIOUS
  <2>1. CASE UNCHANGED vars
    BY <2>1 DEF vars, offsets, BufferInv, OffsetsTyped, ReachesBack, PropOffset
  <2>2. ASSUME NEW t \in 0..Horizon, FeedImu(t) PROVE BufferInv'
    BY <2>2, FeedKeepsBuffer
  <2>3. ASSUME NEW t \in 0..Horizon, Initialize(t) PROVE BufferInv'
    BY <2>3, InitializeKeepsBuffer
  <2>4. ASSUME NEW t \in 0..Horizon, ZeroVelocityUpdate(t) PROVE BufferInv'
    BY <2>4, StillKeepsBuffer
  <2>5. ASSUME NEW t \in 0..Horizon, Propagate(t) PROVE BufferInv'
    BY <2>5, PropagateKeepsBuffer
  <2> QED BY <2>1, <2>2, <2>3, <2>4, <2>5 DEF Next
<1>2. BufferInv => IntegratesWholePeriod
  BY DEF BufferInv, IntegratesWholePeriod
<1> QED BY <1>1, <1>2, BufferInit, PTL DEF Spec

-----------------------------------------------------------------------------
(***************************************************************************)
(* What is integrated is the signal through the readings.                  *)
(***************************************************************************)
LEMMA SignalIs ==
  ASSUME NEW imu, Ascending(imu), NEW t \in Int, NEW j \in 1..(Len(imu) - 1),
         imu[j] <= t, t <= imu[j + 1]
  PROVE  Signal(imu, t) = interpolate_data(imu[j], imu[j + 1], t)
<1> DEFINE n == Len(imu)
<1>1. /\ n \in Nat /\ DOMAIN imu = 1..n /\ j \in 1..n /\ j + 1 \in 1..n
      /\ \A i \in 1..n : imu[i] \in Nat
      /\ \A i, k \in 1..n : i < k => imu[i] < imu[k]
  <2>1. n \in Nat
    BY AscendingIs
  <2> QED BY <2>1, AscendingIs
<1>2. imu[j] \in Nat /\ imu[j + 1] \in Nat /\ imu[j] < imu[j + 1] /\ imu[j] # imu[j + 1]
  BY <1>1
<1>3. ToSet(imu) = {imu[i] : i \in 1..n}
  BY <1>1 DEF ToSet
<1> HIDE DEF n
<1>4. \A r \in ToSet(imu) : r \in Nat /\ (r <= imu[j] \/ imu[j + 1] <= r)
  <2> SUFFICES ASSUME NEW i \in 1..n PROVE imu[i] \in Nat /\ (imu[i] <= imu[j] \/ imu[j + 1] <= imu[i])
    BY <1>3
  <2>1. CASE i < j
    BY <1>1, <1>2, <2>1
  <2>2. CASE i = j \/ i = j + 1
    BY <1>1, <1>2, <2>2
  <2>3. CASE j + 1 < i
    BY <1>1, <1>2, <2>3
  <2> QED BY <1>1, <2>1, <2>2, <2>3
<1>5. imu[j] \in ToSet(imu) /\ imu[j + 1] \in ToSet(imu)
  BY <1>1, <1>3
<1>6. CASE t \in ToSet(imu)
  <2>1. t \in {imu[j], imu[j + 1]}
    BY <1>2, <1>4, <1>6
  <2> QED BY <1>2, <1>6, <2>1 DEF Signal, interpolate_data, Raw
<1>7. CASE t \notin ToSet(imu)
  <2>1. imu[j] < t /\ t < imu[j + 1] /\ t \notin {imu[j], imu[j + 1]}
    BY <1>2, <1>5, <1>7
  <2> DEFINE below == {r \in ToSet(imu) : r < t}
             above == {r \in ToSet(imu) : r > t}
  <2>2. below \in SUBSET (0..imu[j]) /\ imu[j] \in below
    BY <1>2, <1>4, <1>5, <2>1
  <2>3. above \in SUBSET Nat /\ imu[j + 1] \in above /\ \A r \in above : imu[j + 1] <= r
    BY <1>2, <1>4, <1>5, <2>1
  <2> HIDE DEF below, above
  <2>4. Max(below) = imu[j]
    <3> DEFINE m == Max(below)
    <3>1. m \in below /\ imu[j] <= m
      BY <1>2, <2>2, MaxOfBounded
    <3>2. m \in 0..imu[j]
      BY <2>2, <3>1
    <3> HIDE DEF m
    <3>3. m = imu[j]
      BY <1>2, <3>1, <3>2
    <3> QED BY <3>3 DEF m
  <2>5. Min(above) = imu[j + 1]
    <3> DEFINE m == Min(above)
    <3>1. m \in above /\ m <= imu[j + 1]
      BY <1>2, <2>3, MinOfNaturals
    <3>2. m \in Nat /\ imu[j + 1] <= m
      BY <2>3, <3>1
    <3> HIDE DEF m
    <3>3. m = imu[j + 1]
      BY <1>2, <3>1, <3>2
    <3> QED BY <3>3 DEF m
  <2> QED BY <1>2, <1>7, <2>1, <2>4, <2>5 DEF Signal, interpolate_data, below, above
<1> QED BY <1>6, <1>7

\* Where the buffer reaches around the period, the selection is the signal at either end
\* and every reading between.
LEMMA SelectionIs ==
  ASSUME NEW imu, Ascending(imu), NEW time0 \in Int, NEW time1 \in Int, time0 < time1,
         NEW lo, NEW hi, Brackets(imu, lo, hi, time0, time1), time1 <= Last(imu)
  PROVE  Picked(imu, lo, hi, time0, time1) = Selection(imu, time0, time1)
<1> DEFINE n == Len(imu)
           S == (time0 + 1)..(time1 - 1)
           W == hi - lo
           b == [k \in 1..W |-> Raw(imu[lo + k])]
           x == interpolate_data(imu[lo], imu[lo + 1], time0)
           z == interpolate_data(imu[hi], imu[hi + 1], time1)
<1>1. /\ n \in Nat /\ DOMAIN imu = 1..n /\ imu \in Seq(Nat)
      /\ \A i \in 1..n : imu[i] \in Nat
      /\ \A i, k \in 1..n : i < k => imu[i] < imu[k]
  <2>1. n \in Nat /\ imu \in Seq(Nat)
    BY AscendingIs DEF Ascending
  <2> QED BY <2>1, AscendingIs
<1>2. /\ lo \in 1..(n - 1) /\ hi \in 1..(n - 1) /\ lo \in 1..n /\ lo + 1 \in 1..n /\ hi \in 1..n
      /\ hi + 1 \in 1..n /\ lo \in Nat /\ hi \in Nat /\ lo <= hi /\ hi <= n
  <2>1. lo \in 1..(n - 1) /\ hi \in 1..(n - 1) /\ lo <= hi
    BY PickedTyped DEF Brackets
  <2> QED BY <1>1, <2>1
<1>3. /\ imu[lo] <= time0 /\ time0 < imu[lo + 1] /\ imu[hi] < time1 /\ time1 <= imu[hi + 1]
  <2>1. hi = n - 1 => hi + 1 = n
    BY <1>1
  <2> QED BY <2>1 DEF Brackets, Last
<1>4. Signal(imu, time0) = x /\ Signal(imu, time1) = z
  <2>1. imu[lo] \in Nat /\ imu[lo + 1] \in Nat /\ imu[hi] \in Nat /\ imu[hi + 1] \in Nat
    BY <1>1, <1>2
  <2>2. time0 <= imu[lo + 1] /\ imu[hi] <= time1
    BY <1>3, <2>1
  <2> QED BY <1>2, <1>3, <2>2, SignalIs
<1>5. Kept(imu, S) = Stretch(imu, lo, hi)
  <2>1. ASSUME NEW i \in 1..n PROVE imu[i] \in S <=> lo < i /\ i <= hi
    <3>1. imu[i] \in Nat /\ imu[lo + 1] \in Nat /\ imu[hi + 1] \in Nat /\ imu[lo] \in Nat /\ imu[hi] \in Nat
      BY <1>1, <1>2
    <3>2. CASE i <= lo
      <4>1. imu[i] <= imu[lo]
        BY <1>1, <1>2, <3>1, <3>2
      <4> QED BY <1>2, <1>3, <3>1, <3>2, <4>1
    <3>3. CASE hi < i
      <4>1. imu[hi + 1] <= imu[i]
        <5>1. i = hi + 1 \/ hi + 1 < i
          BY <1>2, <3>3
        <5> QED BY <1>1, <1>2, <3>1, <5>1
      <4> QED BY <1>2, <1>3, <3>1, <3>3, <4>1
    <3>4. CASE lo < i /\ i <= hi
      <4>1. imu[lo + 1] <= imu[i] /\ imu[i] <= imu[hi]
        <5>1. i = lo + 1 \/ lo + 1 < i
          BY <1>2, <3>4
        <5>2. i = hi \/ i < hi
          BY <1>2, <3>4
        <5> QED BY <1>1, <1>2, <3>1, <5>1, <5>2
      <4>2. time0 < imu[i] /\ imu[i] < time1
        BY <1>3, <3>1, <4>1
      <4> QED BY <3>1, <3>4, <4>2
    <3> QED BY <1>2, <3>2, <3>3, <3>4
  <2> HIDE DEF S
  <2> QED BY <1>1, <1>2, <2>1, KeptStretch
<1>6. W \in Nat
  BY <1>2
<1>7. x \in Reading /\ z \in Reading /\ b \in [1..W -> Reading]
  <2>1. \A k \in 1..W : lo + k \in 1..n
    BY <1>2
  <2> QED BY <1>1, <1>2, <2>1 DEF Raw, interpolate_data, Reading
<1>8. Selection(imu, time0, time1) = (<<x>> \o b) \o <<z>>
  <2> DEFINE c == Stretch(imu, lo, hi)
  <2>1. c = [k \in 1..W |-> imu[lo + k]]
    BY DEF Stretch
  <2>2. [i \in DOMAIN c |-> Raw(c[i])] = b
    BY <2>1
  <2> HIDE DEF c, b, x, z
  <2> QED BY <1>4, <1>5, <2>2 DEF Selection, c
<1>9. Picked(imu, lo, hi, time0, time1) = Enclosing(x, b, z, W)
  <2>1. ASSUME NEW k \in 1..(W + 2), k # 1, k # W + 2 PROVE b[k - 1] = Raw(imu[lo + k - 1])
    <3>1. k - 1 \in 1..W /\ lo + (k - 1) = lo + k - 1
      BY <1>2, <1>6, <2>1
    <3> QED BY <3>1
  <2>2. W + 2 = hi - lo + 2
    OBVIOUS
  <2> HIDE DEF b, x, z
  <2> QED BY <2>1, <2>2 DEF Picked, Enclosing, x, z
<1> HIDE DEF b, x, z, W
<1>10. (<<x>> \o b) \o <<z>> = Enclosing(x, b, z, W)
  BY <1>6, <1>7, Enclosed
<1> QED BY <1>8, <1>9, <1>10

LEMMA OldestTyped ==
  ASSUME OffsetsTyped, clones \in SUBSET Nat, NEW t \in Nat PROVE OldestTime(t) - Slack \in Int
<1> DEFINE m == Min(clones)
<1>1. clones # {} => m \in Nat
  BY MinOfNaturals
<1>2. timestamp \in Int /\ t_off \in Int /\ Slack \in Nat /\ InitWindow \in Nat
  BY PropagatorAssumption DEF OffsetsTyped
<1> HIDE DEF m
<1>3. OldestTime(t) = IF ~is_initialized_vio THEN t - InitWindow + t_off - Slack
                      ELSE IF clones = {} \/ m > timestamp THEN -1 ELSE m
  BY DEF OldestTime, m
<1> QED BY <1>1, <1>2, <1>3

\* Readings are stored in the order of their stamps.
Rising == Ascending(imu_data) /\ newest \in Int /\ \A r \in ToSet(imu_data) : r <= newest

LEMMA RisingInit == Init => Rising
<1> SUFFICES ASSUME Init PROVE Rising
  OBVIOUS
<1>1. Ascending(<<>>) /\ ToSet(<<>>) = {}
  BY DEF Ascending, Chained, ToSet
<1> QED BY <1>1 DEF Init, Rising

SelectInv == JoinInv /\ clones \in SUBSET Nat /\ Rising

LEMMA StepKeepsRising == SelectInv /\ [Next]_vars /\ OffsetsTyped' => Rising'
<1> SUFFICES ASSUME JoinInv, clones \in SUBSET Nat, Rising, [Next]_vars, OffsetsTyped' PROVE Rising'
  BY DEF SelectInv
<1>0. OffsetsTyped
  BY DEF JoinInv
<1>1. ASSUME NEW imu, Ascending(imu), NEW k \in Int, \A r \in ToSet(imu) : r <= newest'
      PROVE  Ascending(Cleaned(imu, k)) /\ \A r \in ToSet(Cleaned(imu, k)) : r <= newest'
  BY <1>1, CleanedIs
<1>2. ASSUME NEW t \in 0..Horizon, FeedImu(t) PROVE Rising'
  <2> DEFINE s == Stored(imu_data, t)
             k == OldestTime(t) - Slack
  <2>1. t \in Nat /\ newest < t /\ newest' = t /\ imu_data' = Cleaned(s, k) /\ Slack \in Nat
    BY <1>2, PropagatorAssumption DEF FeedImu
  <2>2. ToSet(imu_data) \subseteq Nat /\ \A r \in ToSet(imu_data) : r < t
    <3>1. ToSet(imu_data) \subseteq Nat
      BY DEF Rising, Ascending, ToSet
    <3> QED BY <2>1, <3>1 DEF Rising
  <2>3. Ascending(s) /\ \A r \in ToSet(s) : r <= t
    <3>1. Ascending(s) /\ ToSet(s) = ToSet(imu_data) \cup {t}
      BY <2>1, <2>2, StoredIs DEF Rising
    <3> HIDE DEF s
    <3> QED BY <2>1, <2>2, <3>1
  <2>4. k \in Int
    BY <1>0, <2>1, OldestTyped
  <2> HIDE DEF s, k
  <2> QED BY <1>1, <2>1, <2>3, <2>4 DEF Rising
<1>3. ASSUME NEW t \in 0..Horizon, Initialize(t) PROVE Rising'
  BY <1>3 DEF Initialize, Rising
<1>4. ASSUME NEW t \in 0..Horizon, ZeroVelocityUpdate(t) PROVE Rising'
  <2> DEFINE k == t + t_off' - Slack
  <2>1. newest' = newest /\ imu_data' = Cleaned(imu_data, k) /\ k \in Int
    BY <1>4, PropagatorAssumption DEF ZeroVelocityUpdate, OffsetsTyped
  <2> HIDE DEF k
  <2> QED BY <1>1, <2>1 DEF Rising
<1>5. ASSUME NEW t \in 0..Horizon, Propagate(t) PROVE Rising'
  BY <1>5 DEF Propagate, Rising
<1>6. CASE UNCHANGED vars
  BY <1>6 DEF vars, Rising
<1> QED BY <1>2, <1>3, <1>4, <1>5, <1>6 DEF Next

LEMMA StepKeepsSelect == SelectInv /\ [Next]_vars => SelectInv'
<1> SUFFICES ASSUME SelectInv, [Next]_vars PROVE SelectInv'
  OBVIOUS
<1>1. JoinInv' /\ OffsetsTyped'
  BY StepKeepsJoin DEF SelectInv, JoinInv
<1>2. clones' \in SUBSET Nat
  <2>1. ASSUME NEW t \in 0..Horizon, Propagate(t) PROVE clones' \in SUBSET Nat
    <3>1. clones' \subseteq clones \cup {t}
      BY <2>1 DEF Propagate
    <3> QED BY <3>1 DEF SelectInv
  <2>2. CASE clones' = clones
    BY <2>2 DEF SelectInv
  <2> QED BY <2>1, <2>2 DEF Next, FeedImu, Initialize, ZeroVelocityUpdate, vars
<1> QED BY <1>1, <1>2, StepKeepsRising DEF SelectInv

\* Whatever is in the buffer, and for any period: where the buffer reaches around the period
\* the selection is the readings in it, once each, between the signal at its two ends; where
\* it does not, what is selected goes forward to the end of the period with no step of zero
\* length and without a value 0/0, also where the last readings are stretched.
THEOREM SelectionsAreTheSignal == Spec => []SelectsTheSignal
<1>1. Init => SelectInv
  <2>1. Init => clones \in SUBSET Nat
    BY DEF Init
  <2> QED BY <2>1, JoinInit, RisingInit DEF SelectInv
<1>2. SelectInv => SelectsTheSignal
  <2> SUFFICES ASSUME SelectInv, imu_data # <<>>,
                      NEW time0 \in 0..Horizon, NEW time1 \in (time0 + 1)..Horizon
               PROVE  LET data == select_imu_readings(imu_data, time0, time1)
                      IN  IF Head(imu_data) <= time0 /\ time1 <= Last(imu_data)
                          THEN data = Selection(imu_data, time0, time1)
                          ELSE GoesForward(data, time0, time1)
    BY DEF SelectsTheSignal, GoesForward
  <2>1. time0 \in Int /\ time1 \in Int /\ time0 < time1
    BY PropagatorAssumption
  <2>2. Ascending(imu_data)
    BY DEF SelectInv, Rising
  <2>3. CASE Head(imu_data) <= time0 /\ time1 <= Last(imu_data)
    <3>1. /\ Head(imu_data) \in ToSet(imu_data) /\ Last(imu_data) \in ToSet(imu_data)
          /\ Last(imu_data) \in Nat
      <4>1. imu_data \in Seq(Nat)
        BY <2>2 DEF Ascending
      <4>2. /\ 1 \in DOMAIN imu_data /\ Len(imu_data) \in DOMAIN imu_data
            /\ Head(imu_data) = imu_data[1] /\ imu_data[Len(imu_data)] \in Nat
        BY <4>1
      <4> QED BY <4>2 DEF Last, ToSet
    <3>2. time0 < Last(imu_data)
      BY <2>1, <2>3, <3>1
    <3>3. PICK lo, hi : Brackets(imu_data, lo, hi, time0, time1)
      BY <2>1, <2>2, <2>3, <3>1, <3>2, BracketsExist
    <3>4. select_imu_readings(imu_data, time0, time1) = Picked(imu_data, lo, hi, time0, time1)
      BY <2>1, <2>2, <3>3, SelectIs
    <3>5. Picked(imu_data, lo, hi, time0, time1) = Selection(imu_data, time0, time1)
      BY <2>1, <2>2, <2>3, <3>3, SelectionIs
    <3> QED BY <2>3, <3>4, <3>5
  <2>4. CASE ~(Head(imu_data) <= time0 /\ time1 <= Last(imu_data))
    BY <2>1, <2>2, <2>4, SelectGoesForward
  <2> QED BY <2>3, <2>4
<1> QED BY <1>1, <1>2, StepKeepsSelect, PTL DEF Spec
=============================================================================
