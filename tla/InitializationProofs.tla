-------------------------- MODULE InitializationProofs --------------------------
(***************************************************************************)
(* Proofs about the way to an initial state.                               *)
(*                                                                         *)
(* VioInit: whatever the window, the bounds on readings and images and the *)
(* threading mode, the two flags give the state one owner; if the readings *)
(* kept last, catching up with the images missed is safe.                  *)
(*                                                                         *)
(* Initializer: whatever the tracks and the orders of the hash maps, the   *)
(* dynamic initializer's linear system is the one it was sized for; and    *)
(* the rules that prune the readings leave what the initializers need.     *)
(***************************************************************************)
EXTENDS VioInit, Initializer, DataFacts, FiniteSetTheorems

-----------------------------------------------------------------------------
(***************************************************************************)
(* VioInit: the flags.                                                     *)
(***************************************************************************)
FlagsTyped ==
  /\ use_multi_threading_subs \in BOOLEAN /\ is_initialized_vio \in BOOLEAN
  /\ thread_init_running \in BOOLEAN /\ thread_init_success \in BOOLEAN

\* There is a thread exactly while the flag says so.
FlagTellsThread == thread_init_running <=> init # "none"

\* Success is reported by a thread that has caught up, and never withdrawn: a later
\* attempt, which could fail, is not started.
SuccessIsFinal == thread_init_success => init \in {"stop", "none"}

\* Between its look at thread_init_running and what it does next, no thread comes up:
\* only the caller starts one.
CallerSawNone == caller \in {"success?", "update"} => init = "none"

\* The caller goes past try_to_initialize for good.
InitializedIsFinal ==
  /\ is_initialized_vio => thread_init_success /\ init = "none"
  /\ is_initialized_vio => caller \in {"idle", "update"}

IInv == FlagsTyped /\ FlagTellsThread /\ SuccessIsFinal /\ CallerSawNone /\ InitializedIsFinal

LEMMA StartsAlone == Init => IInv
  BY DEF Init, IInv, FlagsTyped, FlagTellsThread, SuccessIsFinal, CallerSawNone, InitializedIsFinal


LEMMA CallerKeeps ==
  ASSUME IInv, \/ FeedImu \/ (\E t \in 0..Horizon : FeedImage(t))
               \/ CheckRunning \/ QueueImage \/ CheckSuccess \/ Join \/ Update
  PROVE  IInv'
<1> USE DEF IInv, FlagsTyped, FlagTellsThread, SuccessIsFinal, CallerSawNone, InitializedIsFinal,
            flags, thread
<1>1. CASE FeedImu
  BY <1>1 DEF FeedImu
<1>2. ASSUME NEW t \in 0..Horizon, FeedImage(t) PROVE IInv'
  BY <1>2 DEF FeedImage
<1>3. CASE CheckRunning
  BY <1>3 DEF CheckRunning
<1>4. CASE QueueImage
  BY <1>4 DEF QueueImage
<1>5. CASE CheckSuccess
  <2>1. CASE thread_init_success
    BY <1>5, <2>1 DEF CheckSuccess
  <2>2. CASE ~thread_init_success
    BY <1>5, <2>2 DEF CheckSuccess
  <2> QED BY <2>1, <2>2
<1>6. CASE Join
  BY <1>6 DEF Join
<1>7. CASE Update
  BY <1>7 DEF Update
<1> QED BY <1>1, <1>2, <1>3, <1>4, <1>5, <1>6, <1>7

LEMMA ThreadKeeps == ASSUME IInv, ThreadStep PROVE IInv'
<1> USE DEF IInv, FlagsTyped, FlagTellsThread, SuccessIsFinal, CallerSawNone, InitializedIsFinal,
            flags, thread
<1>1. CASE ReadMeasurements
  BY <1>1 DEF ReadMeasurements
<1>2. CASE Fail
  BY <1>2 DEF Fail
<1>3. CASE FailClear
  BY <1>3 DEF FailClear
<1>4. CASE SetState
  BY <1>4 DEF SetState
<1>5. CASE LockQueue
  BY <1>5 DEF LockQueue
<1>6. CASE CatchUp
  BY <1>6 DEF CatchUp
<1>7. CASE CatchUpDone
  BY <1>7 DEF CatchUpDone
<1>8. CASE Stop
  BY <1>8 DEF Stop
<1> QED BY <1>1, <1>2, <1>3, <1>4, <1>5, <1>6, <1>7, <1>8 DEF ThreadStep

LEMMA StepKeepsInvariant == IInv /\ [Next]_vars => IInv'
<1> SUFFICES ASSUME IInv, [Next]_vars PROVE IInv'
  OBVIOUS
<1>1. CASE UNCHANGED vars
  BY <1>1 DEF vars, flags, thread, IInv, FlagsTyped, FlagTellsThread, SuccessIsFinal,
              CallerSawNone, InitializedIsFinal
<1>2. CASE ThreadStep
  BY <1>2, ThreadKeeps
<1>3. CASE ~ThreadStep /\ Next
  BY <1>3, CallerKeeps DEF Next, CallerStep
<1> QED BY <1>1, <1>2, <1>3

LEMMA AlwaysIInv == Spec => []IInv
<1> QED BY StartsAlone, StepKeepsInvariant, PTL DEF Spec

-----------------------------------------------------------------------------
\* The state has no lock that covers initialization and update, and needs none: the
\* caller updates it only when no thread is left, and never starts a second thread
\* beside one, though it looks at the flags one after the other.
THEOREM StateAlwaysHasOneOwner == Spec => []StateHasOneOwner
<1>1. IInv => StateHasOneOwner
  BY DEF IInv, FlagTellsThread, CallerSawNone, StateHasOneOwner
<1> QED BY <1>1, AlwaysIInv, PTL

-----------------------------------------------------------------------------
\* The readings kept suffice: those that come while the thread runs and before the next
\* image, counted from the earliest instant an initializer may return.
ReadingsLast ==
  /\ MaxInit + MaxLag + MaxLag <= InitWindow + 2 * Slack + 1
  /\ MaxInit + MaxLag + InitWindow \div 2 <= InitWindow + 2 * Slack + 1

Increasing(s) == Chained(s, {p \in Nat \X Nat : p[1] < p[2]})

\* What an initializer returns lies no further back than the last image or half a window.
NotOld(t) ==
  t \in Nat /\ (started - MaxLag <= t \/ started - InitWindow \div 2 <= t)

CatchTyped ==
  /\ newest \in 0..Horizon /\ first \in Nat /\ newest_cam \in -1..Horizon /\ started \in Nat
  /\ image \in Int /\ timestamp \in Int /\ found \in Int
  /\ clones \in SUBSET Nat /\ IsFiniteSet(clones)
  /\ camera_queue_init \in Seq(Nat) /\ todo \in Seq(Nat)

\* An image is fed after a newer reading, and is the newest one while it is in progress.
ImagesFollow ==
  /\ newest_cam < newest /\ (newest_cam # -1 => newest - newest_cam <= MaxLag)
  /\ caller \in {"running?", "queue", "success?", "update"} => image = newest_cam /\ image # -1

\* Images are queued only beside a detached thread, in their order.
QueueInOrder ==
  /\ Increasing(camera_queue_init)
  /\ \A i \in 1..Len(camera_queue_init) : camera_queue_init[i] <= newest_cam
  /\ caller \in {"running?", "queue"} =>
       \A i \in 1..Len(camera_queue_init) : camera_queue_init[i] < newest_cam
  /\ caller = "queue" => use_multi_threading_subs
  /\ ~use_multi_threading_subs => /\ camera_queue_init = <<>>
                                  /\ init # "none" => caller = "join"
  /\ use_multi_threading_subs => caller # "join"

\* The readings kept before and after the filter runs.
ReadingsKept ==
  /\ ~is_initialized_vio => first = 0 \/ first <= newest - InitWindow - 2 * Slack
  /\ is_initialized_vio => first <= timestamp

\* How many readings can have come since the thread was started.
ReadingsSince ==
  /\ init # "none" \/ thread_init_success => newest_cam # -1
  /\ init # "none" => started <= newest /\ newest <= started + MaxInit
  /\ thread_init_success /\ ~is_initialized_vio =>
       /\ newest < started + MaxInit + MaxLag
       /\ caller \in {"idle", "queue", "join"} => newest_cam < started + MaxInit

StateRecent ==
  /\ init = "solve" /\ found # NotFound => NotOld(found)
  /\ init \in {"set", "catch up"} \/ (thread_init_success /\ ~is_initialized_vio) => NotOld(timestamp)
  /\ is_initialized_vio => timestamp >= 0
  /\ caller = "update" => is_initialized_vio

CatchingUp ==
  /\ \A c \in clones : c <= timestamp
  /\ ~thread_init_success /\ init # "catch up" => clones = {}
  /\ init = "catch up" =>
       /\ Increasing(todo) /\ \A i \in 1..Len(todo) : todo[i] > timestamp
       /\ Cardinality(clones) + Len(todo) <= max_clone_size

CatchInv ==
  /\ CatchTyped /\ ImagesFollow /\ QueueInOrder /\ ReadingsKept /\ ReadingsSince /\ StateRecent
  /\ CatchingUp /\ ~halted

-----------------------------------------------------------------------------
(***************************************************************************)
(* The images to catch up with.                                            *)
(***************************************************************************)

LEMMA RateSuffices ==
  ASSUME NEW n \in Nat, NEW m \in Nat \ {0}
  PROVE  LET rate == (n \div m) + 1
             k == (n + rate - 1) \div rate
         IN  /\ rate \in Nat /\ rate >= 1 /\ k \in Nat /\ k <= m
             /\ \A i \in 1..k : (i - 1) * rate + 1 \in 1..n
<1> DEFINE q == n \div m
           r == q + 1
           k == (n + q) \div r
<1>1. q \in Nat /\ n < m * (q + 1)
  BY Z3
<1>2. r \in Nat /\ r >= 1 /\ r = q + 1 /\ n < m * r
  BY <1>1
<1>3. k \in Nat /\ r * k <= n + q /\ n + q < r * (k + 1)
  <2> HIDE DEF q, r
  <2>1. \A a \in Nat, b \in Nat \ {0} : a \div b \in Nat /\ b * (a \div b) <= a /\ a < b * ((a \div b) + 1)
    BY Z3
  <2> QED BY <1>1, <1>2, <2>1
<1> HIDE DEF q, r, k
<1>4. k <= m
  <2>1. SUFFICES ASSUME k > m PROVE FALSE
    BY <1>3
  <2>2. k >= m + 1 
    BY <2>1, <1>3
  <2>3. r * k >= r * (m + 1)
    <3>1. \A a, b, c \in Nat : b <= c => a * b <= a * c
      BY Z3
    <3> QED BY <3>1, <2>2, <1>2, <1>3
  <2>4. r * (m + 1) = m * r + r
    BY <1>2, Z3
  <2>5. m * r \in Nat /\ r * k \in Nat /\ r * (m + 1) \in Nat
    BY <1>2, <1>3
  <2> QED BY <1>1, <1>2, <1>3, <2>3, <2>4, <2>5
<1>5. ASSUME NEW i \in 1..k PROVE (i - 1) * r + 1 \in 1..n
  <2>1. (i - 1) \in Nat /\ (i - 1) * r \in Nat /\ i * r = (i - 1) * r + r /\ i * r \in Nat
    BY <1>2, <1>3, Z3
  <2>2. i * r <= r * k
    <3>1. \A a, b, c \in Nat : b <= c => b * a <= a * c
      BY Z3
    <3> QED BY <3>1, <1>2, <1>3
  <2>3. r * k \in Nat
    BY <1>2, <1>3
  <2> QED BY <1>1, <1>2, <1>3, <2>1, <2>2, <2>3
<1>6. n + r - 1 = n + q
  BY <1>1, <1>2
<1> QED BY <1>2, <1>3, <1>4, <1>5, <1>6 DEF k, r, q

LEMMA IncreasingIs ==
  ASSUME NEW s \in Seq(Nat)
  PROVE  Increasing(s) <=> \A i, j \in 1..Len(s) : i < j => s[i] < s[j]
<1> DEFINE R == {p \in Nat \X Nat : p[1] < p[2]}
<1>1. \A a, b \in Nat : <<a, b>> \in R <=> a < b
  OBVIOUS
<1>2. \A i \in 1..Len(s) : s[i] \in Nat
  OBVIOUS
<1> HIDE DEF R
<1>3. Chained(s, R) <=> \A i, j \in 1..Len(s) : i < j => s[i] < s[j]
  BY <1>1, <1>2 DEF Chained
<1> QED BY <1>3 DEF Increasing, R

\* Every n-th of images in order: no more than the window holds, in order.
LEMMA EveryNthIs ==
  ASSUME NEW s \in Seq(Nat), Increasing(s), NEW b \in Int, \A i \in 1..Len(s) : s[i] > b
  PROVE  LET e == EveryNth(s, clone_rate(s))
         IN  /\ e \in Seq(Nat) /\ Len(e) <= max_clone_size /\ Increasing(e)
             /\ \A i \in 1..Len(e) : e[i] > b
<1> DEFINE n == Len(s)
           rate == (n \div max_clone_size) + 1
           k == (n + rate - 1) \div rate
           e == [i \in 1..k |-> s[(i - 1) * rate + 1]]
<1>1. n \in Nat /\ max_clone_size \in Nat \ {0} /\ \A i \in 1..n : s[i] \in Nat
  BY InitAssumption
<1>2. /\ rate \in Nat /\ rate >= 1 /\ k \in Nat /\ k <= max_clone_size
      /\ \A i \in 1..k : (i - 1) * rate + 1 \in 1..n
  BY <1>1, RateSuffices
<1>3. EveryNth(s, clone_rate(s)) = e
  BY DEF EveryNth, clone_rate
<1>4. \A i, j \in 1..n : i < j => s[i] < s[j]
  BY IncreasingIs
<1> HIDE DEF n, rate, k
<1>5. \A i \in 1..k : e[i] \in Nat /\ e[i] > b
  BY <1>1, <1>2 DEF n
<1>6. e \in Seq(Nat) /\ Len(e) = k
  <2>1. e \in [1..k -> Nat]
    BY <1>5
  <2>2. \A f \in [1..k -> Nat] : f \in Seq(Nat) /\ Len(f) = k
    BY <1>2
  <2> QED BY <2>1, <2>2
<1>7. ASSUME NEW i \in 1..k, NEW j \in 1..k, i < j PROVE e[i] < e[j]
  <2>1. (i - 1) * rate + 1 < (j - 1) * rate + 1
    <3>1. \A a, c \in Nat, d \in Nat \ {0} : a < c => a * d < c * d
      BY Z3
    <3>2. (i - 1) \in Nat /\ (j - 1) \in Nat /\ i - 1 < j - 1 /\ rate \in Nat \ {0}
      BY <1>2, <1>7
    <3>3. (i - 1) * rate \in Nat /\ (j - 1) * rate \in Nat
      BY <3>2
    <3> QED BY <3>1, <3>2, <3>3
  <2> QED BY <1>2, <1>4, <2>1
<1> HIDE DEF e
<1>8. Increasing(e)
  BY <1>6, <1>7, IncreasingIs
<1> QED BY <1>2, <1>3, <1>5, <1>6, <1>8

LEMMA MissedIs ==
  ASSUME camera_queue_init \in Seq(Nat), Increasing(camera_queue_init), timestamp \in Int
  PROVE  /\ Missed \in Seq(Nat) /\ Increasing(Missed)
         /\ \A i \in 1..Len(Missed) : Missed[i] > timestamp
<1> DEFINE q == camera_queue_init
           m == Kept(q, (timestamp + 1)..Horizon)
<1>1. \A S : Kept(q, S) \in Seq(Nat) /\ \A x : x \in ToSet(Kept(q, S)) <=> x \in ToSet(q) /\ x \in S
  BY KeptIs
<1>2. \A S, R : Chained(q, R) => Chained(Kept(q, S), R)
  BY KeptChained
<1>3. m \in Seq(Nat) /\ Increasing(m)
  BY <1>1, <1>2 DEF Increasing
<1>4. \A x \in ToSet(m) : x \in (timestamp + 1)..Horizon
  BY <1>1
<1> HIDE DEF m
<1>5. ASSUME NEW i \in 1..Len(m) PROVE m[i] > timestamp
  <2>1. m[i] \in ToSet(m)
    BY <1>3 DEF ToSet
  <2> QED BY <1>4, <2>1, InitAssumption
<1> QED BY <1>3, <1>5 DEF m, Missed

LEMMA NoneIsIncreasing == <<>> \in Seq(Nat) /\ Len(<<>>) = 0 /\ Increasing(<<>>)
<1>1. <<>> \in Seq(Nat) /\ Len(<<>>) = 0
  OBVIOUS
<1>2. \A s \in Seq(Nat) : Len(s) = 0 => Increasing(s)
  <2>1. ASSUME NEW s \in Seq(Nat), Len(s) = 0 PROVE \A i, j \in 1..Len(s) : i < j => s[i] < s[j]
    BY <2>1
  <2> QED BY <2>1, IncreasingIs
<1> QED BY <1>1, <1>2

LEMMA AppendIncreasing ==
  ASSUME NEW s \in Seq(Nat), Increasing(s), NEW x \in Nat, \A i \in 1..Len(s) : s[i] < x
  PROVE  /\ Append(s, x) \in Seq(Nat) /\ Increasing(Append(s, x))
         /\ \A i \in 1..Len(Append(s, x)) : Append(s, x)[i] <= x
<1> DEFINE a == Append(s, x)
           n == Len(s)
<1>1. n \in Nat /\ \A i, j \in 1..n : i < j => s[i] < s[j]
  BY IncreasingIs
<1>a. \A i \in 1..n : s[i] < x
  OBVIOUS
<1>2. a \in Seq(Nat) /\ Len(a) = n + 1 /\ a[n + 1] = x /\ \A i \in 1..n : a[i] = s[i] /\ s[i] \in Nat
  OBVIOUS
<1> HIDE DEF a, n
<1>3. ASSUME NEW i \in 1..Len(a), NEW j \in 1..Len(a), i < j PROVE a[i] < a[j]
  <2>1. i \in 1..n /\ (j \in 1..n \/ j = n + 1)
    BY <1>1, <1>2, <1>3
  <2> QED BY <1>1, <1>a, <1>2, <1>3, <2>1
<1>4. ASSUME NEW i \in 1..Len(a) PROVE a[i] <= x
  <2>1. i \in 1..n \/ i = n + 1
    BY <1>1, <1>2
  <2> QED BY <1>a, <1>2, <2>1
<1> QED BY <1>2, <1>3, <1>4, IncreasingIs DEF a

LEMMA TailIncreasing ==
  ASSUME NEW s \in Seq(Nat), Increasing(s), s # <<>>
  PROVE  /\ Head(s) \in Nat /\ Tail(s) \in Seq(Nat) /\ Len(Tail(s)) = Len(s) - 1
         /\ Increasing(Tail(s)) /\ Head(s) = s[1] /\ 1 \in 1..Len(s)
         /\ \A i \in 1..Len(Tail(s)) : Tail(s)[i] > Head(s)
<1> DEFINE a == Tail(s)
           n == Len(s)
<1>1. n \in Nat /\ n >= 1 /\ \A i, j \in 1..n : i < j => s[i] < s[j]
  <2>1. n \in Nat /\ n >= 1
    OBVIOUS
  <2> QED BY <2>1, IncreasingIs
<1>a. \A i \in 1..n : s[i] \in Nat
  OBVIOUS
<1>2. a \in Seq(Nat) /\ Len(a) = n - 1 /\ \A i \in 1..(n - 1) : a[i] = s[i + 1]
  OBVIOUS
<1>3. Head(s) = s[1]
  OBVIOUS
<1> HIDE DEF a, n
<1>4. ASSUME NEW i \in 1..Len(a), NEW j \in 1..Len(a), i < j PROVE a[i] < a[j]
  <2>1. i + 1 \in 1..n /\ j + 1 \in 1..n /\ i + 1 < j + 1 /\ i \in 1..(n - 1) /\ j \in 1..(n - 1)
    BY <1>1, <1>2, <1>4
  <2> QED BY <1>1, <1>2, <2>1
<1>5. ASSUME NEW i \in 1..Len(a) PROVE a[i] > s[1]
  <2>1. i + 1 \in 1..n /\ 1 \in 1..n /\ 1 < i + 1 /\ i \in 1..(n - 1)
    BY <1>1, <1>2
  <2> QED BY <1>1, <1>a, <1>2, <2>1
<1>6. Increasing(a)
  BY <1>2, <1>4, IncreasingIs
<1>7. n = Len(s) /\ 1 \in 1..n /\ s[1] \in Nat
  BY <1>1, <1>a DEF n
<1> QED BY <1>2, <1>3, <1>5, <1>6, <1>7 DEF a

\* What FeedImu's Max returns.
LEMMA LaterOf == ASSUME NEW a \in Int, NEW b \in Int
                 PROVE  Max({a, b}) \in {a, b} /\ Max({a, b}) >= a /\ Max({a, b}) >= b
<1>1. \E x \in {a, b} : \A y \in {a, b} : x >= y
  <2>1. CASE a >= b
    BY <2>1
  <2>2. CASE b >= a
    BY <2>2
  <2> QED BY <2>1, <2>2
<1> QED BY <1>1 DEF Max

-----------------------------------------------------------------------------
(***************************************************************************)
(* Each step keeps CatchInv.                                               *)
(***************************************************************************)

\* What propagate_and_clone and marginalize_old_clone leave.
LEMMA PropagateIs ==
  ASSUME NEW t \in Nat, Propagate(t), timestamp \in Nat, first \in Nat,
         t > timestamp, first <= timestamp,
         clones \in SUBSET Nat, IsFiniteSet(clones), \A c \in clones : c <= timestamp
  PROVE  /\ timestamp' = t /\ ~halted'
         /\ clones' \in SUBSET Nat /\ IsFiniteSet(clones') /\ \A c \in clones' : c <= timestamp'
         /\ Cardinality(clones) < max_clone_size => Cardinality(clones') = Cardinality(clones) + 1
<1> DEFINE window == clones \cup {t}
<1>1. /\ window \in SUBSET Nat /\ IsFiniteSet(window) /\ \A c \in window : c <= t
      /\ Cardinality(window) = Cardinality(clones) + 1 /\ Cardinality(clones) \in Nat
  <2>1. t \notin clones
    OBVIOUS
  <2>2. /\ IsFiniteSet(window) /\ Cardinality(clones) \in Nat
        /\ Cardinality(window) = Cardinality(clones) + 1
    BY <2>1, FS_AddElement, FS_CardinalityType
  <2>3. window \in SUBSET Nat /\ \A c \in window : c <= t
    OBVIOUS
  <2> QED BY <2>2, <2>3
<1>2. IsFiniteSet(window \ {Min(window)})
  BY <1>1, FS_RemoveElement
<1>3. /\ timestamp' = t
      /\ clones' = IF Cardinality(window) > max_clone_size THEN window \ {Min(window)} ELSE window
  BY DEF Propagate
<1>4. halted' = FALSE
  <2>1. (t <= timestamp \/ first > timestamp) = FALSE
    OBVIOUS
  <2> QED BY <2>1 DEF Propagate
<1> HIDE DEF window
<1>5. clones' \in {window, window \ {Min(window)}}
  BY <1>3
<1>6. clones' \in SUBSET Nat /\ IsFiniteSet(clones') /\ \A c \in clones' : c <= timestamp'
  BY <1>1, <1>2, <1>3, <1>5
<1>7. ASSUME Cardinality(clones) < max_clone_size
      PROVE  Cardinality(clones') = Cardinality(clones) + 1
  <2>1. ~(Cardinality(window) > max_clone_size)
    BY <1>1, <1>7, InitAssumption
  <2> QED BY <1>1, <1>3, <2>1
<1> QED BY <1>3, <1>4, <1>6, <1>7

LEMMA FeedImuCatches == ASSUME IInv, CatchInv, FeedImu PROVE CatchInv'
<1> USE InitAssumption DEF flags, thread, state
<1>a. /\ KeptFrom(newest + 1) \in Int
      /\ ~is_initialized_vio => KeptFrom(newest + 1) = newest + 1 - InitWindow - 2 * Slack
      /\ is_initialized_vio => KeptFrom(newest + 1) <= timestamp
  <2>1. CASE ~is_initialized_vio
    BY <2>1 DEF KeptFrom, CatchInv, CatchTyped
  <2>2. CASE is_initialized_vio /\ (clones = {} \/ Min(clones) > timestamp)
    <3>1. KeptFrom(newest + 1) = 0
      BY <2>2 DEF KeptFrom
    <3>2. is_initialized_vio /\ timestamp >= 0
      BY <2>2 DEF CatchInv, StateRecent
    <3> QED BY <3>1, <3>2
  <2>3. CASE is_initialized_vio /\ clones # {} /\ ~(Min(clones) > timestamp)
    <3>1. Min(clones) \in Nat
      BY <2>3, MinOfNaturals DEF CatchInv, CatchTyped
    <3> QED BY <2>3, <3>1 DEF KeptFrom, CatchInv, CatchTyped
  <2> QED BY <2>1, <2>2, <2>3
<1>b. first \in Nat /\ timestamp \in Int /\ newest \in 0..Horizon /\ newest < Horizon /\ newest' = newest + 1
  BY DEF FeedImu, CatchInv, CatchTyped
<1>c. first' \in {first, KeptFrom(newest + 1)} /\ first' >= first
  <2>1. \A a, b \in Int : Max({a, b}) \in {a, b} /\ Max({a, b}) >= a
    BY LaterOf
  <2>2. first' = Max({first, KeptFrom(newest + 1)}) /\ first \in Int
    BY <1>b DEF FeedImu
  <2> QED BY <1>a, <2>1, <2>2
<1>1. CatchTyped'
  BY <1>b, <1>c DEF FeedImu, CatchInv, CatchTyped
<1>2. ImagesFollow'
  BY DEF FeedImu, CatchInv, ImagesFollow, CatchTyped
<1>3. QueueInOrder'
  BY DEF FeedImu, CatchInv, QueueInOrder
<1>4. ReadingsKept'
  BY <1>a, <1>b, <1>c DEF FeedImu, CatchInv, ReadingsKept
<1>5. ReadingsSince'
  <2>1. init # "none" => newest - started < MaxInit
    BY DEF FeedImu
  <2>2. thread_init_success /\ ~is_initialized_vio => newest - newest_cam < MaxLag /\ newest_cam < started + MaxInit
    BY DEF FeedImu, CatchInv, ReadingsSince
  <2>3. newest_cam \in Int /\ started \in Nat
    BY DEF CatchInv, CatchTyped
  <2> QED BY <1>b, <2>1, <2>2, <2>3 DEF FeedImu, CatchInv, ReadingsSince
<1>6. StateRecent'
  BY DEF FeedImu, CatchInv, StateRecent, NotOld
<1>7. CatchingUp'
  BY DEF FeedImu, CatchInv, CatchingUp
<1>8. ~halted'
  BY DEF FeedImu, CatchInv
<1> QED BY <1>1, <1>2, <1>3, <1>4, <1>5, <1>6, <1>7, <1>8 DEF CatchInv

LEMMA FeedImageCatches == ASSUME NEW t \in 0..Horizon, ~SharedStamps, IInv, CatchInv, FeedImage(t) PROVE CatchInv'
<1> USE InitAssumption DEF flags, thread, state
<1>1. CatchTyped'
  BY DEF FeedImage, CatchInv, CatchTyped
<1>2. ImagesFollow'
  BY DEF FeedImage, CatchInv, ImagesFollow
<1>3. QueueInOrder'
  BY DEF FeedImage, CatchInv, QueueInOrder, CatchTyped
<1>4. ReadingsKept'
  BY DEF FeedImage, CatchInv, ReadingsKept
<1>5. ReadingsSince'
  BY DEF FeedImage, CatchInv, ReadingsSince
<1>6. StateRecent'
  BY DEF FeedImage, CatchInv, StateRecent, NotOld
<1>7. CatchingUp'
  BY DEF FeedImage, CatchInv, CatchingUp
<1>8. ~halted'
  BY DEF FeedImage, CatchInv
<1> QED BY <1>1, <1>2, <1>3, <1>4, <1>5, <1>6, <1>7, <1>8 DEF CatchInv

LEMMA CheckRunningCatches == ASSUME IInv, CatchInv, CheckRunning PROVE CatchInv'
<1> USE InitAssumption DEF flags, thread, state
<1>1. CatchTyped'
  BY DEF CheckRunning, CatchInv, CatchTyped
<1>2. ImagesFollow'
  BY DEF CheckRunning, CatchInv, ImagesFollow
<1>3. QueueInOrder'
  BY DEF CheckRunning, CatchInv, QueueInOrder, IInv, FlagTellsThread, InitializedIsFinal
<1>4. ReadingsKept'
  BY DEF CheckRunning, CatchInv, ReadingsKept
<1>5. ReadingsSince'
  BY DEF CheckRunning, CatchInv, ReadingsSince, CatchTyped, ImagesFollow, NotOld, IInv,
         FlagTellsThread, CallerSawNone, InitializedIsFinal
<1>6. StateRecent'
  BY DEF CheckRunning, CatchInv, StateRecent, NotOld
<1>7. CatchingUp'
  BY DEF CheckRunning, CatchInv, CatchingUp
<1>8. ~halted'
  BY DEF CheckRunning, CatchInv
<1> QED BY <1>1, <1>2, <1>3, <1>4, <1>5, <1>6, <1>7, <1>8 DEF CatchInv

LEMMA QueueImageCatches == ASSUME IInv, CatchInv, QueueImage PROVE CatchInv'
<1> USE InitAssumption DEF flags, thread, state
<1>a. /\ camera_queue_init \in Seq(Nat) /\ Increasing(camera_queue_init)
      /\ image \in Nat /\ image = newest_cam
      /\ \A i \in 1..Len(camera_queue_init) : camera_queue_init[i] < image
  <2>1. caller = "queue" /\ image = newest_cam /\ newest_cam # -1 /\ newest_cam \in -1..Horizon
    BY DEF QueueImage, CatchInv, CatchTyped, ImagesFollow
  <2>2. /\ camera_queue_init \in Seq(Nat) /\ Increasing(camera_queue_init)
        /\ \A i \in 1..Len(camera_queue_init) : camera_queue_init[i] < newest_cam
    BY <2>1 DEF CatchInv, CatchTyped, QueueInOrder
  <2> QED BY <2>1, <2>2
<1>b. /\ camera_queue_init' \in Seq(Nat) /\ Increasing(camera_queue_init')
      /\ \A i \in 1..Len(camera_queue_init') : camera_queue_init'[i] <= image
  BY <1>a, AppendIncreasing DEF QueueImage
<1>1. CatchTyped'
  BY <1>b DEF QueueImage, CatchInv, CatchTyped
<1>2. ImagesFollow'
  BY DEF QueueImage, CatchInv, ImagesFollow
<1>3. QueueInOrder'
  <2>1. Increasing(camera_queue_init)'
    BY <1>b DEF Increasing, Chained
  <2> QED BY <1>a, <1>b, <2>1 DEF QueueImage, CatchInv, QueueInOrder
<1>4. ReadingsKept'
  BY DEF QueueImage, CatchInv, ReadingsKept
<1>5. ReadingsSince'
  BY DEF QueueImage, CatchInv, ReadingsSince
<1>6. StateRecent'
  BY DEF QueueImage, CatchInv, StateRecent, NotOld
<1>7. CatchingUp'
  BY DEF QueueImage, CatchInv, CatchingUp
<1>8. ~halted'
  BY DEF QueueImage, CatchInv
<1> QED BY <1>1, <1>2, <1>3, <1>4, <1>5, <1>6, <1>7, <1>8 DEF CatchInv

LEMMA CheckSuccessCatches == ASSUME ReadingsLast, IInv, CatchInv, CheckSuccess PROVE CatchInv'
<1> USE InitAssumption DEF flags, thread, state
<1>1. CatchTyped'
  BY DEF CheckSuccess, CatchInv, CatchTyped
<1>2. ImagesFollow'
  BY DEF CheckSuccess, CatchInv, ImagesFollow
<1>3. QueueInOrder'
  BY DEF CheckSuccess, CatchInv, QueueInOrder
<1>4. ReadingsKept'
  <2>1. CASE ~thread_init_success
    BY <2>1 DEF CheckSuccess, CatchInv, ReadingsKept
  <2>2. CASE thread_init_success /\ is_initialized_vio
    BY <2>2 DEF CheckSuccess, CatchInv, ReadingsKept
  <2>3. CASE thread_init_success /\ ~is_initialized_vio
    <3>1. /\ first \in Nat /\ newest \in Int /\ started \in Nat /\ newest < started + MaxInit + MaxLag
          /\ first = 0 \/ first <= newest - InitWindow - 2 * Slack
      BY <2>3 DEF CatchInv, CatchTyped, ReadingsSince, ReadingsKept
    <3>2. /\ timestamp \in Nat
          /\ started - MaxLag <= timestamp \/ started - InitWindow \div 2 <= timestamp
      BY <2>3 DEF CatchInv, StateRecent, NotOld
    <3>3. first <= timestamp
      <4>1. InitWindow \div 2 \in Int
        OBVIOUS
      <4> HIDE DEF flags, thread, state
      <4> DEFINE half == InitWindow \div 2
      <4>2. MaxInit + MaxLag + half <= InitWindow + 2 * Slack + 1 /\ half \in Int
        BY <4>1 DEF ReadingsLast
      <4>3. started - MaxLag <= timestamp \/ started - half <= timestamp
        BY <3>2
      <4> HIDE DEF half
      <4> QED BY <3>1, <3>2, <4>2, <4>3 DEF ReadingsLast
    <3> QED BY <2>3, <3>3 DEF CheckSuccess, CatchInv, ReadingsKept
  <2> QED BY <2>1, <2>2, <2>3
<1>5. ReadingsSince'
  BY DEF CheckSuccess, CatchInv, ReadingsSince, CatchTyped, ImagesFollow
<1>6. StateRecent'
  <2>1. CASE ~thread_init_success
    BY <2>1 DEF CheckSuccess, CatchInv, StateRecent, IInv, InitializedIsFinal
  <2>2. CASE thread_init_success
    <3>1. timestamp >= 0
      <4>1. CASE is_initialized_vio
        BY <4>1 DEF CatchInv, StateRecent
      <4>2. CASE ~is_initialized_vio
        <5>1. timestamp \in Nat
          BY <2>2, <4>2 DEF CatchInv, StateRecent, NotOld
        <5> QED BY <5>1
      <4> QED BY <4>1, <4>2
    <3> QED BY <2>2, <3>1 DEF CheckSuccess, CatchInv, StateRecent, IInv, CallerSawNone
  <2> QED BY <2>1, <2>2
<1>7. CatchingUp'
  BY DEF CheckSuccess, CatchInv, CatchingUp, IInv, FlagTellsThread, SuccessIsFinal, CallerSawNone,
         InitializedIsFinal
<1>8. ~halted'
  BY DEF CheckSuccess, CatchInv
<1> QED BY <1>1, <1>2, <1>3, <1>4, <1>5, <1>6, <1>7, <1>8 DEF CatchInv

LEMMA JoinCatches == ASSUME IInv, CatchInv, Join PROVE CatchInv'
<1> USE InitAssumption DEF flags, thread, state
<1>1. CatchTyped'
  BY DEF Join, CatchInv, CatchTyped
<1>2. ImagesFollow'
  BY DEF Join, CatchInv, ImagesFollow
<1>3. QueueInOrder'
  BY DEF Join, CatchInv, QueueInOrder
<1>4. ReadingsKept'
  BY DEF Join, CatchInv, ReadingsKept
<1>5. ReadingsSince'
  BY DEF Join, CatchInv, ReadingsSince
<1>6. StateRecent'
  BY DEF Join, CatchInv, StateRecent, NotOld
<1>7. CatchingUp'
  BY DEF Join, CatchInv, CatchingUp
<1>8. ~halted'
  BY DEF Join, CatchInv
<1> QED BY <1>1, <1>2, <1>3, <1>4, <1>5, <1>6, <1>7, <1>8 DEF CatchInv

LEMMA UpdateCatches == ASSUME IInv, CatchInv, Update PROVE CatchInv'
<1> USE InitAssumption DEF flags, thread, state
<1>a. /\ caller = "update" /\ is_initialized_vio /\ thread_init_success /\ init = "none"
      /\ first \in Nat /\ first <= timestamp /\ timestamp \in Nat
      /\ image \in Nat /\ image = newest_cam
      /\ clones \in SUBSET Nat /\ IsFiniteSet(clones) /\ \A c \in clones : c <= timestamp
  BY DEF Update, CatchInv, CatchTyped, ReadingsKept, StateRecent, CatchingUp, ImagesFollow, IInv, InitializedIsFinal
<1>b. /\ timestamp' \in Nat /\ timestamp <= timestamp' /\ ~halted'
      /\ clones' \in SUBSET Nat /\ IsFiniteSet(clones') /\ \A c \in clones' : c <= timestamp'
  <2>1. CASE image > timestamp
    <3>1. Propagate(image)
      BY <2>1 DEF Update
    <3>2. \A t \in Nat : Propagate(t) /\ t > timestamp =>
            /\ timestamp' = t /\ ~halted'
            /\ clones' \in SUBSET Nat /\ IsFiniteSet(clones') /\ \A c \in clones' : c <= timestamp'
      BY <1>a, PropagateIs
    <3> QED BY <1>a, <2>1, <3>1, <3>2
  <2>2. CASE ~(image > timestamp)
    <3>1. timestamp' = timestamp /\ clones' = clones /\ halted' = halted
      BY <2>2 DEF Update
    <3>2. ~halted
      BY DEF CatchInv
    <3> QED BY <1>a, <3>1, <3>2
  <2> QED BY <2>1, <2>2
<1>1. CatchTyped'
  BY <1>a, <1>b DEF Update, CatchInv, CatchTyped
<1>2. ImagesFollow'
  BY DEF Update, CatchInv, ImagesFollow
<1>3. QueueInOrder'
  BY DEF Update, CatchInv, QueueInOrder
<1>4. ReadingsKept'
  BY <1>a, <1>b DEF Update, CatchInv, ReadingsKept
<1>5. ReadingsSince'
  BY <1>a DEF Update, CatchInv, ReadingsSince
<1>6. StateRecent'
  BY <1>a, <1>b DEF Update, CatchInv, StateRecent
<1>7. CatchingUp'
  BY <1>a, <1>b DEF Update, CatchInv, CatchingUp
<1>8. ~halted'
  BY <1>b
<1> QED BY <1>1, <1>2, <1>3, <1>4, <1>5, <1>6, <1>7, <1>8 DEF CatchInv

LEMMA ReadMeasurementsCatches == ASSUME IInv, CatchInv, ReadMeasurements PROVE CatchInv'
<1> USE InitAssumption DEF flags, thread, state
<1>a. /\ newest \in Nat /\ newest_cam \in Int /\ started \in Nat /\ started <= newest
      /\ newest_cam < newest /\ newest - newest_cam <= MaxLag
  BY DEF ReadMeasurements, CatchInv, CatchTyped, ImagesFollow, ReadingsSince
<1>b. InitWindow \div 2 \in Nat /\ InitWindow \div 2 <= InitWindow
  OBVIOUS
<1>c. found' \in Int /\ (found' # NotFound => NotOld(found'))
  <2>1. CASE found' = NotFound
    BY <2>1 DEF NotFound
  <2>2. CASE newest_cam - InitWindow - Slack >= 0 /\ found' = newest_cam
    BY <1>a, <2>2 DEF NotOld
  <2>3. CASE newest_cam - InitWindow - Slack >= 0 /\ found' = newest - InitWindow \div 2
    <3> DEFINE half == InitWindow \div 2
    <3>1. half \in Nat /\ half <= InitWindow /\ found' = newest - half
      BY <1>b, <2>3
    <3>2. NotOld(found') <=> /\ found' \in Nat
                             /\ started - MaxLag <= found' \/ started - half <= found'
      BY DEF NotOld
    <3> HIDE DEF half
    <3> QED BY <1>a, <2>3, <3>1, <3>2
  <2> QED BY <1>a, <2>1, <2>2, <2>3 DEF ReadMeasurements
<1>1. CatchTyped'
  BY <1>c DEF ReadMeasurements, CatchInv, CatchTyped
<1>2. ImagesFollow'
  BY DEF ReadMeasurements, CatchInv, ImagesFollow
<1>3. QueueInOrder'
  BY DEF ReadMeasurements, CatchInv, QueueInOrder
<1>4. ReadingsKept'
  BY DEF ReadMeasurements, CatchInv, ReadingsKept
<1>5. ReadingsSince'
  BY DEF ReadMeasurements, CatchInv, ReadingsSince
<1>6. StateRecent'
  <2>1. /\ init' = "solve" /\ started' = started /\ timestamp' = timestamp
        /\ UNCHANGED <<caller, thread_init_success, is_initialized_vio>>
    BY DEF ReadMeasurements
  <2>2. NotOld(found)' <=> NotOld(found')
    BY <2>1 DEF NotOld
  <2>3. NotOld(timestamp)' <=> NotOld(timestamp)
    BY <2>1 DEF NotOld
  <2> HIDE DEF NotOld
  <2> QED BY <1>c, <2>1, <2>2, <2>3 DEF CatchInv, StateRecent
<1>7. CatchingUp'
  BY DEF ReadMeasurements, CatchInv, CatchingUp
<1>8. ~halted'
  BY DEF ReadMeasurements, CatchInv
<1> QED BY <1>1, <1>2, <1>3, <1>4, <1>5, <1>6, <1>7, <1>8 DEF CatchInv

LEMMA FailCatches == ASSUME IInv, CatchInv, Fail PROVE CatchInv'
<1> USE InitAssumption DEF flags, thread, state
<1>1. CatchTyped'
  BY DEF Fail, CatchInv, CatchTyped
<1>2. ImagesFollow'
  BY DEF Fail, CatchInv, ImagesFollow
<1>3. QueueInOrder'
  BY DEF Fail, CatchInv, QueueInOrder
<1>4. ReadingsKept'
  BY DEF Fail, CatchInv, ReadingsKept
<1>5. ReadingsSince'
  BY DEF Fail, CatchInv, ReadingsSince
<1>6. StateRecent'
  BY DEF Fail, CatchInv, StateRecent
<1>7. CatchingUp'
  BY DEF Fail, CatchInv, CatchingUp, IInv, FlagTellsThread, SuccessIsFinal, CallerSawNone,
         InitializedIsFinal
<1>8. ~halted'
  BY DEF Fail, CatchInv
<1> QED BY <1>1, <1>2, <1>3, <1>4, <1>5, <1>6, <1>7, <1>8 DEF CatchInv

LEMMA FailClearCatches == ASSUME IInv, CatchInv, FailClear PROVE CatchInv'
<1> USE InitAssumption DEF flags, thread, state
<1>1. CatchTyped'
  BY DEF FailClear, CatchInv, CatchTyped
<1>2. ImagesFollow'
  BY DEF FailClear, CatchInv, ImagesFollow
<1>3. QueueInOrder'
  <2>1. camera_queue_init' = <<>> /\ Len(<<>>) = 0
    BY NoneIsIncreasing DEF FailClear
  <2>2. Increasing(camera_queue_init)'
    BY <2>1, NoneIsIncreasing DEF Increasing, Chained
  <2> QED BY <2>1, <2>2 DEF FailClear, CatchInv, QueueInOrder
<1>4. ReadingsKept'
  BY DEF FailClear, CatchInv, ReadingsKept
<1>5. ReadingsSince'
  BY DEF FailClear, CatchInv, ReadingsSince
<1>6. StateRecent'
  BY DEF FailClear, CatchInv, StateRecent, NotOld
<1>7. CatchingUp'
  BY DEF FailClear, CatchInv, CatchingUp
<1>8. ~halted'
  BY DEF FailClear, CatchInv
<1> QED BY <1>1, <1>2, <1>3, <1>4, <1>5, <1>6, <1>7, <1>8 DEF CatchInv

LEMMA SetStateCatches == ASSUME IInv, CatchInv, SetState PROVE CatchInv'
<1> USE InitAssumption DEF flags, thread, state
<1>1. CatchTyped'
  BY DEF SetState, CatchInv, CatchTyped
<1>2. ImagesFollow'
  BY DEF SetState, CatchInv, ImagesFollow
<1>3. QueueInOrder'
  BY DEF SetState, CatchInv, QueueInOrder
<1>4. ReadingsKept'
  BY DEF SetState, CatchInv, ReadingsKept, IInv, FlagTellsThread, InitializedIsFinal
<1>5. ReadingsSince'
  BY DEF SetState, CatchInv, ReadingsSince
<1>6. StateRecent'
  BY DEF SetState, CatchInv, StateRecent, NotOld
<1>7. CatchingUp'
  BY DEF SetState, CatchInv, CatchingUp, IInv, FlagTellsThread, SuccessIsFinal, CallerSawNone,
         InitializedIsFinal
<1>8. ~halted'
  BY DEF SetState, CatchInv
<1> QED BY <1>1, <1>2, <1>3, <1>4, <1>5, <1>6, <1>7, <1>8 DEF CatchInv

LEMMA LockQueueCatches == ASSUME IInv, CatchInv, LockQueue PROVE CatchInv'
<1> USE InitAssumption DEF flags, thread, state
<1>a. /\ camera_queue_init \in Seq(Nat) /\ Increasing(camera_queue_init) /\ timestamp \in Int
      /\ clones = {} /\ init' = "catch up"
  BY DEF LockQueue, CatchInv, CatchTyped, QueueInOrder, CatchingUp, IInv, SuccessIsFinal
<1>b. /\ todo' \in Seq(Nat) /\ Len(todo') <= max_clone_size /\ Increasing(todo')
      /\ \A i \in 1..Len(todo') : todo'[i] > timestamp
  BY <1>a, MissedIs, EveryNthIs DEF LockQueue
<1>1. CatchTyped'
  BY <1>b DEF LockQueue, CatchInv, CatchTyped
<1>2. ImagesFollow'
  BY DEF LockQueue, CatchInv, ImagesFollow
<1>3. QueueInOrder'
  BY DEF LockQueue, CatchInv, QueueInOrder
<1>4. ReadingsKept'
  BY DEF LockQueue, CatchInv, ReadingsKept
<1>5. ReadingsSince'
  BY DEF LockQueue, CatchInv, ReadingsSince
<1>6. StateRecent'
  BY DEF LockQueue, CatchInv, StateRecent, NotOld
<1>7. CatchingUp'
  <2>1. Increasing(todo)' /\ Cardinality({}) = 0 /\ Len(todo') \in Nat
    BY <1>b, FS_EmptySet DEF Increasing, Chained
  <2>2. Cardinality(clones') + Len(todo') <= max_clone_size
    <3>1. Cardinality(clones') = 0
      BY <1>a, <2>1 DEF LockQueue
    <3> QED BY <1>b, <2>1, <3>1
  <2>3. timestamp' = timestamp /\ clones' = {}
    BY <1>a DEF LockQueue
  <2> QED BY <1>a, <1>b, <2>1, <2>2, <2>3 DEF CatchingUp
<1>8. ~halted'
  BY DEF LockQueue, CatchInv
<1> QED BY <1>1, <1>2, <1>3, <1>4, <1>5, <1>6, <1>7, <1>8 DEF CatchInv

LEMMA CatchUpCatches == ASSUME ReadingsLast, IInv, CatchInv, CatchUp PROVE CatchInv'
<1> USE InitAssumption DEF flags, thread, state
<1>a. /\ init = "catch up" /\ ~is_initialized_vio /\ todo \in Seq(Nat) /\ todo # <<>> /\ Increasing(todo)
      /\ \A i \in 1..Len(todo) : todo[i] > timestamp
      /\ first \in Nat /\ timestamp \in Nat
      /\ clones \in SUBSET Nat /\ IsFiniteSet(clones) /\ \A c \in clones : c <= timestamp
      /\ Cardinality(clones) + Len(todo) <= max_clone_size
      /\ newest \in Nat /\ started \in Nat /\ newest <= started + MaxInit
  <2>1. init = "catch up" /\ todo # <<>>
    BY DEF CatchUp
  <2>2. ~is_initialized_vio
    BY <2>1 DEF IInv, InitializedIsFinal
  <2>3. timestamp \in Nat
    BY <2>1 DEF CatchInv, StateRecent, NotOld
  <2>4. /\ Increasing(todo) /\ \A i \in 1..Len(todo) : todo[i] > timestamp
        /\ \A c \in clones : c <= timestamp
        /\ Cardinality(clones) + Len(todo) <= max_clone_size
    BY <2>1 DEF CatchInv, CatchingUp
  <2>5. newest <= started + MaxInit
    BY <2>1 DEF CatchInv, ReadingsSince
  <2>6. /\ todo \in Seq(Nat) /\ first \in Nat /\ clones \in SUBSET Nat /\ IsFiniteSet(clones)
        /\ newest \in Nat /\ started \in Nat
    BY DEF CatchInv, CatchTyped
  <2> QED BY <2>1, <2>2, <2>3, <2>4, <2>5, <2>6
<1>b. /\ Head(todo) \in Nat /\ todo' \in Seq(Nat) /\ Len(todo') = Len(todo) - 1
      /\ Increasing(todo') /\ Head(todo) > timestamp /\ Len(todo) \in Nat
      /\ \A i \in 1..Len(todo') : todo'[i] > Head(todo)
  <2>1. /\ Head(todo) \in Nat /\ Tail(todo) \in Seq(Nat) /\ Len(Tail(todo)) = Len(todo) - 1
        /\ Increasing(Tail(todo)) /\ Head(todo) = todo[1] /\ 1 \in 1..Len(todo) /\ Len(todo) \in Nat
        /\ \A i \in 1..Len(Tail(todo)) : Tail(todo)[i] > Head(todo)
    <3>1. \A s \in Seq(Nat) : Increasing(s) /\ s # <<>> =>
            /\ Head(s) \in Nat /\ Tail(s) \in Seq(Nat) /\ Len(Tail(s)) = Len(s) - 1
            /\ Increasing(Tail(s)) /\ Head(s) = s[1] /\ 1 \in 1..Len(s)
            /\ \A i \in 1..Len(Tail(s)) : Tail(s)[i] > Head(s)
      BY TailIncreasing
    <3>2. \A s \in Seq(Nat) : Len(s) \in Nat
      OBVIOUS
    <3> QED BY <1>a, <3>1, <3>2
  <2>2. todo' = Tail(todo)
    BY DEF CatchUp
  <2> QED BY <1>a, <2>1, <2>2
<1>c. first <= timestamp
  <2> DEFINE half == InitWindow \div 2
  <2>1. half \in Int /\ MaxInit + MaxLag + half <= InitWindow + 2 * Slack + 1
    BY DEF ReadingsLast
  <2>2. started - MaxLag <= timestamp \/ started - half <= timestamp
    BY <1>a DEF CatchInv, StateRecent, NotOld
  <2>3. first = 0 \/ first <= newest - InitWindow - 2 * Slack
    BY <1>a DEF CatchInv, ReadingsKept
  <2>4. MaxInit + MaxLag + MaxLag <= InitWindow + 2 * Slack + 1
    BY DEF ReadingsLast
  <2>5. first \in Nat /\ timestamp \in Nat /\ newest \in Nat /\ started \in Nat /\ newest <= started + MaxInit
    BY <1>a
  <2> HIDE DEF half, NotOld
  <2> QED BY <2>1, <2>2, <2>3, <2>4, <2>5
<1>d. Propagate(Head(todo))
  BY DEF CatchUp
<1>e. /\ timestamp' = Head(todo) /\ ~halted'
      /\ clones' \in SUBSET Nat /\ IsFiniteSet(clones') /\ \A c \in clones' : c <= timestamp'
      /\ Cardinality(clones) < max_clone_size => Cardinality(clones') = Cardinality(clones) + 1
  BY <1>a, <1>b, <1>c, <1>d, PropagateIs
<1>1. CatchTyped'
  <2>1. /\ todo' \in Seq(Nat) /\ clones' \in SUBSET Nat /\ IsFiniteSet(clones') /\ timestamp' \in Int
    BY <1>b, <1>e
  <2>2. UNCHANGED <<newest, first, newest_cam, started, image, found, camera_queue_init>>
    BY DEF CatchUp
  <2> QED BY <2>1, <2>2 DEF CatchInv, CatchTyped
<1>2. ImagesFollow'
  BY DEF CatchUp, Propagate, CatchInv, ImagesFollow
<1>3. QueueInOrder'
  BY DEF CatchUp, Propagate, CatchInv, QueueInOrder
<1>4. ReadingsKept'
  BY DEF CatchUp, Propagate, CatchInv, ReadingsKept, IInv, FlagTellsThread, InitializedIsFinal
<1>5. ReadingsSince'
  BY DEF CatchUp, Propagate, CatchInv, ReadingsSince
<1>6. StateRecent'
  <2>1. NotOld(timestamp)'
    <3> DEFINE half == InitWindow \div 2
    <3>1. started - MaxLag <= timestamp \/ started - half <= timestamp
      BY <1>a DEF CatchInv, StateRecent, NotOld
    <3>2. NotOld(timestamp)' <=> /\ timestamp' \in Nat
                                 /\ started - MaxLag <= timestamp' \/ started - half <= timestamp'
      BY DEF NotOld, CatchUp
    <3>3. half \in Int
      OBVIOUS
    <3>4. timestamp \in Nat /\ timestamp' \in Nat /\ timestamp < timestamp' /\ started \in Nat
      BY <1>a, <1>b, <1>e
    <3> HIDE DEF half
    <3> QED BY <3>1, <3>2, <3>3, <3>4
  <2> QED BY <1>a, <2>1 DEF CatchUp, CatchInv, StateRecent, IInv, FlagTellsThread, InitializedIsFinal
<1>7. CatchingUp'
  <2>1. Increasing(todo)'
    BY <1>b DEF Increasing, Chained
  <2>2. Cardinality(clones) \in Nat
    BY <1>a, FS_CardinalityType
  <2>3. Cardinality(clones') + Len(todo') <= max_clone_size
    <3>1. Cardinality(clones) < max_clone_size
      <4>1. Len(todo) >= 1 /\ Len(todo) \in Nat /\ Cardinality(clones) + Len(todo) <= max_clone_size
        <5>1. \A s \in Seq(Nat) : s # <<>> => Len(s) >= 1
          OBVIOUS
        <5> QED BY <1>a, <1>b, <5>1
      <4> QED BY <2>2, <4>1
    <3>2. /\ Cardinality(clones') = Cardinality(clones) + 1 /\ Len(todo') = Len(todo) - 1
          /\ Cardinality(clones) + Len(todo) <= max_clone_size /\ Len(todo) \in Nat
      BY <1>a, <1>b, <1>e, <3>1
    <3> QED BY <2>2, <3>2
  <2> QED BY <1>a, <1>b, <1>e, <2>1, <2>3 DEF CatchUp, CatchInv, CatchingUp
<1>8. ~halted'
  BY <1>e
<1> QED BY <1>1, <1>2, <1>3, <1>4, <1>5, <1>6, <1>7, <1>8 DEF CatchInv

LEMMA CatchUpDoneCatches == ASSUME IInv, CatchInv, CatchUpDone PROVE CatchInv'
<1> USE InitAssumption DEF flags, thread, state
<1>1. CatchTyped'
  BY DEF CatchUpDone, CatchInv, CatchTyped
<1>2. ImagesFollow'
  BY DEF CatchUpDone, CatchInv, ImagesFollow
<1>3. QueueInOrder'
  <2>1. camera_queue_init' = <<>> /\ Len(<<>>) = 0
    BY NoneIsIncreasing DEF CatchUpDone
  <2>2. Increasing(camera_queue_init)'
    BY <2>1, NoneIsIncreasing DEF Increasing, Chained
  <2>3. 1..Len(camera_queue_init') = {}
    BY <2>1
  <2>4. UNCHANGED <<caller, use_multi_threading_subs>> /\ init = "catch up"
    BY DEF CatchUpDone
  <2> QED BY <2>1, <2>2, <2>3, <2>4 DEF CatchInv, QueueInOrder
<1>4. ReadingsKept'
  BY DEF CatchUpDone, CatchInv, ReadingsKept
<1>5. ReadingsSince'
  <2>1. /\ newest \in Int /\ newest_cam \in Int /\ started \in Nat
        /\ newest_cam < newest /\ newest_cam # -1 /\ started <= newest /\ newest <= started + MaxInit
    <3>1. init # "none"
      BY DEF CatchUpDone
    <3> QED BY <3>1 DEF CatchInv, CatchTyped, ImagesFollow, ReadingsSince
  <2>2. newest < started + MaxInit + MaxLag /\ newest_cam < started + MaxInit
    BY <2>1
  <2> QED BY <2>1, <2>2 DEF CatchUpDone, ReadingsSince
<1>6. StateRecent'
  BY DEF CatchUpDone, CatchInv, StateRecent, NotOld
<1>7. CatchingUp'
  BY DEF CatchUpDone, CatchInv, CatchingUp
<1>8. ~halted'
  BY DEF CatchUpDone, CatchInv
<1> QED BY <1>1, <1>2, <1>3, <1>4, <1>5, <1>6, <1>7, <1>8 DEF CatchInv

LEMMA StopCatches == ASSUME IInv, CatchInv, Stop PROVE CatchInv'
<1> USE InitAssumption DEF flags, thread, state
<1>1. CatchTyped'
  BY DEF Stop, CatchInv, CatchTyped
<1>2. ImagesFollow'
  BY DEF Stop, CatchInv, ImagesFollow
<1>3. QueueInOrder'
  BY DEF Stop, CatchInv, QueueInOrder
<1>4. ReadingsKept'
  BY DEF Stop, CatchInv, ReadingsKept
<1>5. ReadingsSince'
  BY DEF Stop, CatchInv, ReadingsSince
<1>6. StateRecent'
  BY DEF Stop, CatchInv, StateRecent, NotOld
<1>7. CatchingUp'
  BY DEF Stop, CatchInv, CatchingUp
<1>8. ~halted'
  BY DEF Stop, CatchInv
<1> QED BY <1>1, <1>2, <1>3, <1>4, <1>5, <1>6, <1>7, <1>8 DEF CatchInv

LEMMA StartsCaughtUp == Init => CatchInv
<1> SUFFICES ASSUME Init PROVE CatchInv
  OBVIOUS
<1> DEFINE s0 == Start - InitWindow - 2 * Slack
<1>1. s0 \in Int
  BY InitAssumption
<1>2. first \in {0, s0} /\ first >= 0
  <2>1. \A b \in Int : Max({0, b}) \in {0, b} /\ Max({0, b}) >= 0
    BY LaterOf
  <2> QED BY <1>1, <2>1 DEF Init
<1>3. CatchTyped
  BY <1>1, <1>2, InitAssumption, FS_EmptySet, NoneIsIncreasing DEF Init, CatchTyped, NotFound
<1>4. ImagesFollow
  BY InitAssumption DEF Init, ImagesFollow
<1>5. QueueInOrder
  BY NoneIsIncreasing DEF Init, QueueInOrder
<1>6. ReadingsKept
  BY <1>2 DEF Init, ReadingsKept
<1>7. ReadingsSince /\ StateRecent /\ CatchingUp /\ ~halted
  BY DEF Init, ReadingsSince, StateRecent, CatchingUp, NotFound
<1> QED BY <1>3, <1>4, <1>5, <1>6, <1>7 DEF CatchInv

LEMMA StepKeepsCatchInv ==
  ASSUME ~SharedStamps, ReadingsLast, IInv, CatchInv, [Next]_vars PROVE CatchInv'
<1>1. CASE FeedImu
  BY <1>1, FeedImuCatches
<1>2. ASSUME NEW t \in 0..Horizon, FeedImage(t) PROVE CatchInv'
  BY <1>2, FeedImageCatches
<1>3. CASE CheckRunning \/ QueueImage
  BY <1>3, CheckRunningCatches, QueueImageCatches
<1>4. CASE CheckSuccess \/ Join \/ Update
  BY <1>4, CheckSuccessCatches, JoinCatches, UpdateCatches
<1>5. CASE ReadMeasurements \/ Fail \/ FailClear
  BY <1>5, ReadMeasurementsCatches, FailCatches, FailClearCatches
<1>6. CASE SetState \/ LockQueue \/ CatchUp
  BY <1>6, SetStateCatches, LockQueueCatches, CatchUpCatches
<1>7. CASE CatchUpDone \/ Stop
  BY <1>7, CatchUpDoneCatches, StopCatches
<1>8. CASE UNCHANGED vars
  <2>1. CatchTyped' /\ ~halted'
    BY <1>8 DEF vars, flags, thread, state, CatchInv, CatchTyped
  <2>2. ImagesFollow' /\ ReadingsKept' /\ ReadingsSince'
    BY <1>8 DEF vars, flags, thread, state, CatchInv, ImagesFollow, ReadingsKept, ReadingsSince
  <2>3. QueueInOrder'
    BY <1>8 DEF vars, flags, thread, state, CatchInv, QueueInOrder, Increasing, Chained
  <2>4. StateRecent'
    BY <1>8 DEF vars, flags, thread, state, CatchInv, StateRecent, NotOld
  <2>5. CatchingUp'
    BY <1>8 DEF vars, flags, thread, state, CatchInv, CatchingUp, Increasing, Chained
  <2> QED BY <2>1, <2>2, <2>3, <2>4, <2>5 DEF CatchInv
<1> QED BY <1>1, <1>2, <1>3, <1>4, <1>5, <1>6, <1>7, <1>8 DEF Next, CallerStep, ThreadStep

\* Catching up with the images that were missed meets no instant twice, never goes back,
\* finds every reading it needs and makes no clone in vain, and no update after it halts:
\* for any window, any number of queued images and either threading mode, if the readings
\* kept last and two cameras' images of one stamp are not queued.
THEOREM CatchingUpIsSafe ==
  ASSUME ~SharedStamps, ReadingsLast PROVE Spec => []CatchUpNeverHalts
<1>1. IInv /\ CatchInv /\ [Next]_vars => CatchInv'
  BY StepKeepsCatchInv
<1>2. CatchInv => CatchUpNeverHalts
  BY DEF CatchInv, CatchingUp, CatchUpNeverHalts
<1> QED BY <1>1, <1>2, AlwaysIInv, StartsCaughtUp, PTL DEF Spec

-----------------------------------------------------------------------------
(***************************************************************************)
(* Which observations of a feature get poses.                              *)
(***************************************************************************)
LEMMA AbsIs ==
  ASSUME NEW t \in Nat, NEW u \in Nat
  PROVE  Abs(t - u) \in Nat /\ Abs(t - u) = Abs(u - t) /\ (Abs(t - u) = 0 <=> t = u)
BY DEF Abs

LEMMA ApartEitherWay ==
  ASSUME NEW t \in Nat, NEW u \in Nat PROVE IsApart(t, u) <=> IsApart(u, t)
BY AbsIs DEF IsApart

\* Poses at the desired frequency.
Apart(P) == \A t, u \in P : t # u => IsApart(t, u)

LEMMA TimesAppend ==
  ASSUME NEW O, NEW s \in Seq(O), NEW o \in O
  PROVE  /\ Append(s, o) \in Seq(O)
         /\ Times(Append(s, o)) = Times(s) \cup {o.time}
         /\ Cameras(Append(s, o)) = Cameras(s) \cup {o.cam}
<1>1. /\ DOMAIN s = 1..Len(s) /\ Len(s) \in Nat /\ Append(s, o) \in Seq(O)
      /\ DOMAIN Append(s, o) = 1..(Len(s) + 1) /\ Append(s, o)[Len(s) + 1] = o
      /\ \A i \in 1..Len(s) : Append(s, o)[i] = s[i]
  OBVIOUS
<1>2. \A i : i \in 1..(Len(s) + 1) <=> i \in 1..Len(s) \/ i = Len(s) + 1
  BY <1>1
<1> DEFINE q == Append(s, o)
<1> HIDE DEF q
<1>3. Times(q) = Times(s) \cup {o.time} /\ Cameras(q) = Cameras(s) \cup {o.cam}
  BY <1>1, <1>2 DEF Times, Cameras, q
<1> QED BY <1>1, <1>3 DEF q

LEMMA TimesTyped ==
  ASSUME NEW C, NEW s \in Seq([cam : C, time : Nat])
  PROVE  Times(s) \in SUBSET Nat /\ Cameras(s) \subseteq C
<1>1. \A i \in DOMAIN s : s[i] \in [cam : C, time : Nat]
  <2> DEFINE O == [cam : C, time : Nat]
  <2> HIDE DEF O
  <2>1. s \in Seq(O) => \A i \in DOMAIN s : s[i] \in O
    OBVIOUS
  <2> QED BY <2>1 DEF O
<1>2. \A i \in DOMAIN s : s[i].time \in Nat /\ s[i].cam \in C
  BY <1>1
<1> QED BY <1>2 DEF Times, Cameras

\* An observation that is used keeps the poses apart.
LEMMA UseKeepsApart ==
  ASSUME NEW C, NEW used \in Seq([cam : C, time : Nat]), NEW o \in [cam : C, time : Nat],
         NEW known \in SUBSET Nat, Apart(known \cup Times(used))
  PROVE  LET s == Use(used, o, known)
         IN  /\ s \in Seq([cam : C, time : Nat]) /\ Apart(known \cup Times(s))
             /\ Times(used) \subseteq Times(s)
<1> DEFINE s == Use(used, o, known)
           P == known \cup Times(used)
<1>1. CASE ~IsUsable(o.time, known, Times(used))
  BY <1>1 DEF Use
<1>2. CASE IsUsable(o.time, known, Times(used))
  <2>1. s = Append(used, o)
    BY <1>2 DEF Use
  <2>2. s \in Seq([cam : C, time : Nat]) /\ Times(s) = Times(used) \cup {o.time}
    <3> DEFINE O == [cam : C, time : Nat]
    <3>1. used \in Seq(O) /\ o \in O
      OBVIOUS
    <3> HIDE DEF O
    <3>2. s \in Seq(O) /\ Times(s) = Times(used) \cup {o.time}
      BY <2>1, <3>1, TimesAppend
    <3> QED BY <3>2 DEF O
  <2>3. P \subseteq Nat /\ o.time \in Nat
    BY TimesTyped
  <2>4. o.time \in P \/ \A u \in P : IsApart(o.time, u)
    BY <1>2 DEF IsUsable
  <2>5. known \cup Times(s) = P \cup {o.time}
    BY <2>2
  <2> HIDE DEF P
  <2>6. Apart(P \cup {o.time})
    BY <2>3, <2>4, ApartEitherWay DEF Apart, P
  <2> QED BY <2>2, <2>5, <2>6
<1> QED BY <1>1, <1>2

\* The function that Used computes, on the first n observations.
Uses(f, obs, known, n) ==
  f = [j \in 0..n |-> IF j = 0 THEN <<>> ELSE Use(f[j - 1], obs[j], known)]

LEMMA UsesExists == \A n \in Nat : \A obs, known : \E f : Uses(f, obs, known, n)
<1> DEFINE S == {n \in Nat : \A obs, known : \E f : Uses(f, obs, known, n)}
<1>1. 0 \in S
  <2> SUFFICES ASSUME NEW obs, NEW known PROVE \E f : Uses(f, obs, known, 0)
    OBVIOUS
  <2> DEFINE g == [j \in 0..0 |-> <<>>]
             h == [j \in 0..0 |-> IF j = 0 THEN <<>> ELSE Use(g[j - 1], obs[j], known)]
  <2>1. g = h
    OBVIOUS
  <2>2. Uses(g, obs, known, 0)
    BY <2>1 DEF Uses
  <2> QED BY <2>2
<1>2. ASSUME NEW n \in Nat, n \in S PROVE n + 1 \in S
  <2> SUFFICES ASSUME NEW obs, NEW known PROVE \E f : Uses(f, obs, known, n + 1)
    OBVIOUS
  <2>1. PICK f : Uses(f, obs, known, n)
    BY <1>2
  <2> DEFINE g == [j \in 0..(n + 1) |-> IF j = n + 1 THEN Use(f[j - 1], obs[j], known) ELSE f[j]]
  <2>2. \A j \in 0..n : f[j] = IF j = 0 THEN <<>> ELSE Use(f[j - 1], obs[j], known)
    BY <2>1 DEF Uses
  <2>3. \A j \in 0..n : g[j] = f[j]
    OBVIOUS
  <2>4. ASSUME NEW j \in 0..(n + 1)
        PROVE  g[j] = IF j = 0 THEN <<>> ELSE Use(g[j - 1], obs[j], known)
    <3>1. j # 0 => j - 1 \in 0..n
      OBVIOUS
    <3>2. CASE j = n + 1
      <4>1. g[j] = Use(f[j - 1], obs[j], known) /\ j # 0
        BY <3>2
      <4> QED BY <4>1, <3>1, <2>3
    <3>3. CASE j # n + 1
      <4>1. j \in 0..n
        BY <3>3
      <4> QED BY <4>1, <3>1, <2>2, <2>3
    <3> QED BY <3>2, <3>3
  <2> DEFINE h == [j \in 0..(n + 1) |-> IF j = 0 THEN <<>> ELSE Use(g[j - 1], obs[j], known)]
  <2>5. \A j \in 0..(n + 1) : g[j] = h[j]
    BY <2>4
  <2>6. g = h
    <3>1. DOMAIN g = 0..(n + 1) /\ DOMAIN h = 0..(n + 1) /\ g = [j \in 0..(n + 1) |-> g[j]]
          /\ h = [j \in 0..(n + 1) |-> h[j]]
      OBVIOUS
    <3> HIDE DEF g, h
    <3> QED BY <2>5, <3>1
  <2>7. Uses(g, obs, known, n + 1)
    BY <2>6 DEF Uses
  <2> QED BY <2>7
<1> HIDE DEF S
<1>3. Nat \subseteq S
  BY <1>1, <1>2, Inductive
<1> QED BY <1>3 DEF S

\* What is used of the first observations, one after another.
LEMMA UsedStepwise ==
  ASSUME NEW O, NEW obs \in Seq(O), NEW known
  PROVE  \E f : /\ f[0] = <<>> /\ Used(obs, known) = f[Len(obs)]
                /\ \A j \in Nat : j < Len(obs) => f[j + 1] = Use(f[j], obs[j + 1], known)
<1> DEFINE f == CHOOSE f : Uses(f, obs, known, Len(obs))
<1>1. Len(obs) \in Nat
  OBVIOUS
<1>2. Uses(f, obs, known, Len(obs))
  BY <1>1, UsesExists
<1>3. Used(obs, known) = f[Len(obs)]
  BY DEF Used, Uses
<1> HIDE DEF f
<1>4. f[0] = <<>>
  BY <1>1, <1>2 DEF Uses
<1>5. ASSUME NEW j \in Nat, j < Len(obs) PROVE f[j + 1] = Use(f[j], obs[j + 1], known)
  <2>1. j + 1 \in 0..Len(obs) /\ j + 1 # 0 /\ (j + 1) - 1 = j
    BY <1>1, <1>5
  <2>2. f[j + 1] = Use(f[(j + 1) - 1], obs[j + 1], known)
    BY <1>2, <2>1 DEF Uses
  <2> QED BY <2>1, <2>2
<1> QED BY <1>3, <1>4, <1>5
LEMMA FirstOfAll ==
  ASSUME NEW T, NEW s \in Seq(T)
  PROVE  /\ First(s, 0) = <<>> /\ First(s, Len(s)) = s
         /\ \A j \in Nat : j < Len(s) =>
              /\ First(s, j) \in Seq(T) /\ s[j + 1] \in T
              /\ First(s, j + 1) = Append(First(s, j), s[j + 1])
<1>1. Len(s) \in Nat /\ s \in [1..Len(s) -> T] /\ s = [k \in 1..Len(s) |-> s[k]]
  OBVIOUS
<1>2. First(s, 0) = <<>> /\ First(s, Len(s)) = s
  BY <1>1 DEF First
<1>3. ASSUME NEW j \in Nat, j < Len(s)
      PROVE  First(s, j) \in Seq(T) /\ s[j + 1] \in T /\ First(s, j + 1) = Append(First(s, j), s[j + 1])
  <2>1. First(s, j) \in Seq(T) /\ First(s, j) \o <<s[j + 1]>> = First(s, j + 1)
    BY <1>1, <1>3, FirstNext
  <2>2. s[j + 1] \in T
    BY <1>1, <1>3
  <2> QED BY <2>1, <2>2, AppendIsConcat
<1> QED BY <1>2, <1>3

\* The observations with one of the poses, which are those used when the poses were chosen:
\* none gets a pose later, for it would be too close to one that is there.
LEMMA UsedAreWithPose ==
  ASSUME NEW C, NEW obs \in Seq([cam : C, time : Nat]), NEW known \in SUBSET Nat, Apart(known)
  PROVE  LET used == Used(obs, known)
         IN  /\ used \in Seq([cam : C, time : Nat]) /\ Apart(known \cup Times(used))
             /\ \A P \in SUBSET Nat : Apart(P) /\ known \cup Times(used) \subseteq P =>
                  Kept(obs, [cam : C, time : P]) = used
<1> DEFINE O == [cam : C, time : Nat]
           n == Len(obs)
<1>0. obs \in Seq(O) /\ n \in Nat
  OBVIOUS
<1>1. PICK f : /\ f[0] = <<>> /\ Used(obs, known) = f[n]
               /\ \A j \in Nat : j < n => f[j + 1] = Use(f[j], obs[j + 1], known)
  BY UsedStepwise
<1>00. \A used \in Seq(O), o \in O : Apart(known \cup Times(used)) =>
         /\ Use(used, o, known) \in Seq(O) /\ Apart(known \cup Times(Use(used, o, known)))
         /\ Times(used) \subseteq Times(Use(used, o, known))
  BY UseKeepsApart
<1> HIDE DEF O, n
<1>2. /\ First(obs, 0) = <<>> /\ First(obs, n) = obs
      /\ \A j \in Nat : j < n => /\ First(obs, j) \in Seq(O) /\ obs[j + 1] \in O
                                /\ First(obs, j + 1) = Append(First(obs, j), obs[j + 1])
  BY <1>0, FirstOfAll DEF n
<1>3. \A j \in Nat : j <= n => f[j] \in Seq(O) /\ Apart(known \cup Times(f[j]))
  <2> DEFINE S == {j \in Nat : j <= n => f[j] \in Seq(O) /\ Apart(known \cup Times(f[j]))}
  <2>1. 0 \in S
    <3>1. f[0] \in Seq(O) /\ Times(f[0]) = {}
      BY <1>1 DEF Times
    <3> QED BY <3>1
  <2>2. ASSUME NEW j \in Nat, j \in S PROVE j + 1 \in S
    <3> SUFFICES ASSUME j + 1 <= n PROVE f[j + 1] \in Seq(O) /\ Apart(known \cup Times(f[j + 1]))
      OBVIOUS
    <3>1. j < n /\ f[j] \in Seq(O) /\ Apart(known \cup Times(f[j])) /\ obs[j + 1] \in O
      BY <1>0, <1>2, <2>2
    <3>2. f[j + 1] = Use(f[j], obs[j + 1], known)
      BY <1>1, <3>1
    <3> HIDE DEF S
    <3> QED BY <1>00, <3>1, <3>2
  <2> HIDE DEF S
  <2>3. Nat \subseteq S
    BY <2>1, <2>2, Inductive
  <2> QED BY <2>3 DEF S
<1>4. ASSUME NEW j \in Nat, j < n
      PROVE  /\ Times(f[j]) \subseteq Times(f[j + 1])
             /\ f[j + 1] = Use(f[j], obs[j + 1], known) /\ obs[j + 1] \in O
  <2>1. j <= n
    BY <1>0, <1>4
  <2>2. f[j + 1] = Use(f[j], obs[j + 1], known)
    BY <1>1, <1>4
  <2>3. obs[j + 1] \in O
    BY <1>2, <1>4
  <2>4. f[j] \in Seq(O) /\ Apart(known \cup Times(f[j]))
    BY <1>3, <2>1
  <2> QED BY <1>00, <2>2, <2>3, <2>4
<1>5. \A j \in Nat : j <= n => Times(f[j]) \subseteq Times(f[n])
  <2> DEFINE S == {k \in Nat : k <= n => Times(f[n - k]) \subseteq Times(f[n])}
  <2>1. 0 \in S
    BY <1>0
  <2>2. ASSUME NEW k \in Nat, k \in S PROVE k + 1 \in S
    <3> SUFFICES ASSUME k + 1 <= n PROVE Times(f[n - (k + 1)]) \subseteq Times(f[n])
      OBVIOUS
    <3>1. k <= n /\ n - (k + 1) \in Nat /\ n - (k + 1) < n /\ (n - (k + 1)) + 1 = n - k
      BY <1>0
    <3>2. Times(f[n - (k + 1)]) \subseteq Times(f[(n - (k + 1)) + 1])
      BY <1>4, <3>1
    <3> QED BY <2>2, <3>1, <3>2
  <2> HIDE DEF S
  <2>3. Nat \subseteq S
    BY <2>1, <2>2, Inductive
  <2>4. ASSUME NEW j \in Nat, j <= n PROVE Times(f[j]) \subseteq Times(f[n])
    <3>1. n - j \in Nat /\ n - j <= n /\ n - (n - j) = j
      BY <1>0, <2>4
    <3>2. Times(f[n - (n - j)]) \subseteq Times(f[n])
      BY <2>3, <3>1 DEF S
    <3> QED BY <3>1, <3>2
  <2> QED BY <2>4
<1>6. ASSUME NEW P \in SUBSET Nat, Apart(P), known \cup Times(f[n]) \subseteq P
      PROVE  Kept(obs, [cam : C, time : P]) = f[n]
  <2> DEFINE Q == [cam : C, time : P]
             S == {j \in Nat : j <= n => Kept(First(obs, j), Q) = f[j]}
  <2>0. ASSUME NEW o \in O PROVE o \in Q <=> o.time \in P
    BY DEF O
  <2> HIDE DEF Q
  <2>1. 0 \in S
    <3>1. Kept(<<>>, Q) = <<>>
      <4>1. <<>> \in Seq(O) /\ ToSet(<<>>) = {}
        BY DEF ToSet
      <4>2. Kept(<<>>, Q) \in Seq(O) /\ \A x : x \in ToSet(Kept(<<>>, Q)) => x \in ToSet(<<>>)
        BY <4>1, KeptIs
      <4> DEFINE z == Kept(<<>>, Q)
      <4>3. z \in Seq(O) /\ ToSet(z) = {}
        BY <4>1, <4>2
      <4> HIDE DEF z
      <4>4. z = <<>>
        <5>1. DOMAIN z = {}
          BY <4>3 DEF ToSet
        <5>2. Len(z) = 0
          <6>1. Len(z) \in Nat /\ DOMAIN z = 1..Len(z)
            BY <4>3
          <6>2. Len(z) # 0 => 1 \in 1..Len(z)
            BY <6>1
          <6> QED BY <5>1, <6>1, <6>2
        <5> QED BY <4>3, <5>2
      <4> QED BY <4>4 DEF z
    <3> QED BY <1>1, <1>2, <3>1
  <2>2. ASSUME NEW j \in Nat, j \in S PROVE j + 1 \in S
    <3> SUFFICES ASSUME j + 1 <= n PROVE Kept(First(obs, j + 1), Q) = f[j + 1]
      OBVIOUS
    <3> DEFINE o == obs[j + 1]
    <3>1. j < n /\ j <= n /\ Kept(First(obs, j), Q) = f[j]
      BY <1>0, <2>2
    <3>2. First(obs, j) \in Seq(O) /\ o \in O /\ First(obs, j + 1) = Append(First(obs, j), o)
      BY <1>2, <3>1
    <3>3. f[j + 1] = Use(f[j], o, known) /\ f[j] \in Seq(O)
      BY <1>3, <1>4, <3>1
    <3> HIDE DEF o, S
    <3>4. Kept(Append(First(obs, j), o), Q) = IF o \in Q THEN Append(f[j], o) ELSE f[j]
      BY <3>1, <3>2, KeptAppend
    <3>5. Times(f[j]) \subseteq P /\ Times(f[j + 1]) \subseteq P /\ known \subseteq P
      <4>1. j + 1 \in Nat /\ j + 1 <= n
        OBVIOUS
      <4> QED BY <1>5, <1>6, <3>1, <4>1
    <3>6. o.time \in P <=> IsUsable(o.time, known, Times(f[j]))
      <4>1. ASSUME o.time \in P PROVE IsUsable(o.time, known, Times(f[j]))
        BY <1>6, <3>5, <4>1 DEF IsUsable, Apart
      <4>2. ASSUME IsUsable(o.time, known, Times(f[j])) PROVE o.time \in P
        <5>1. f[j + 1] = Append(f[j], o)
          BY <3>3, <4>2 DEF Use
        <5>2. o.time \in Times(f[j + 1])
          BY <3>2, <3>3, <5>1, TimesAppend
        <5> QED BY <3>5, <5>2
      <4> QED BY <4>1, <4>2
    <3>7. o \in Q <=> o.time \in P
      BY <2>0, <3>2
    <3> QED BY <3>2, <3>3, <3>4, <3>6, <3>7 DEF Use
  <2> HIDE DEF S
  <2>3. Nat \subseteq S
    BY <2>1, <2>2, Inductive
  <2>4. Kept(First(obs, n), Q) = f[n]
    BY <1>0, <2>3 DEF S
  <2> QED BY <1>2, <2>4 DEF Q
<1>7. f[n] \in Seq(O) /\ Apart(known \cup Times(f[n]))
  BY <1>0, <1>3
<1> QED BY <1>1, <1>6, <1>7 DEF O

-----------------------------------------------------------------------------
(***************************************************************************)
(* The poses of all features.                                              *)
(***************************************************************************)
\* A database of these stamps.
Tracks(d, S) == \A f \in DOMAIN d : \A c \in DOMAIN d[f] : d[f][c] \in Seq(S)

LEMMA ObservationsTyped ==
  ASSUME NEW S, NEW e, \A c \in DOMAIN e : e[c] \in Seq(S), NEW C, NEW cams \in Seq(C)
  PROVE  Observations(e, cams) \in Seq([cam : DOMAIN e, time : S])
<1> DEFINE O == [cam : DOMAIN e, time : S]
           One(c) == IF c \in DOMAIN e THEN [j \in DOMAIN e[c] |-> [cam |-> c, time |-> e[c][j]]] ELSE <<>>
           all == [i \in DOMAIN cams |-> One(cams[i])]
<1>1. ASSUME NEW c PROVE One(c) \in Seq(O)
  <2>1. CASE c \in DOMAIN e
    <3>1. DOMAIN e[c] = 1..Len(e[c]) /\ Len(e[c]) \in Nat /\ \A j \in 1..Len(e[c]) : e[c][j] \in S
      BY <2>1
    <3>2. \A j \in 1..Len(e[c]) : [cam |-> c, time |-> e[c][j]] \in O
      BY <2>1, <3>1
    <3> HIDE DEF O
    <3>3. [j \in 1..Len(e[c]) |-> [cam |-> c, time |-> e[c][j]]] \in Seq(O)
      BY <3>1, <3>2
    <3> QED BY <2>1, <3>1, <3>3
  <2>2. CASE c \notin DOMAIN e
    <3> HIDE DEF O
    <3> QED BY <2>2
  <2> QED BY <2>1, <2>2
<1> HIDE DEF O, One
<1>2. all \in Seq(Seq(O))
  <2> DEFINE U == Seq(O)
  <2>1. \A c : One(c) \in U
    BY <1>1
  <2> HIDE DEF U
  <2>2. DOMAIN cams = 1..Len(cams) /\ Len(cams) \in Nat
    OBVIOUS
  <2>3. all \in Seq(U)
    BY <2>1, <2>2
  <2> QED BY <2>3 DEF U
<1>3. Observations(e, cams) = FlattenSeq(all)
  BY DEF Observations, One
<1> HIDE DEF all
<1>4. FlattenSeq(all) \in Seq(O)
  BY <1>2, FlattenType
<1> QED BY <1>3, <1>4 DEF O

\* The observations of feature f with one of these poses.
Posed(d, P, cams, f) == Kept(Observations(d[f], cams[f]), [cam : DOMAIN d[f], time : P])

LEMMA WithPoseIs ==
  ASSUME NEW d, NEW s, NEW cams, NEW f
  PROVE  WithPose(d, s, cams, f) = Posed(d, s.poses, cams, f)
BY DEF WithPose, Posed

\* What selecting the poses keeps.
Selection(d, S) ==
  [poses : SUBSET S, oldest : S, valid : SUBSET DOMAIN d, num_measurements : Nat,
   cams : SUBSET UNION {DOMAIN d[f] : f \in DOMAIN d}]

\* The poses of a selection are apart, are those that the valid features are observed at,
\* and no more observations of those features are at any poses added later.
SelectionOf(s, d, S, new, cams) ==
  /\ s \in Selection(d, S)
  /\ new \in s.poses /\ Apart(s.poses)
  /\ s.oldest \in s.poses /\ \A p \in s.poses : s.oldest <= p
  /\ \A f \in s.valid : \A P \in SUBSET Nat :
       Apart(P) /\ s.poses \subseteq P => Posed(d, P, cams, f) = Posed(d, s.poses, cams, f)
  /\ \A p \in s.poses : p = new \/ \E f \in s.valid : p \in Times(Posed(d, s.poses, cams, f))
  /\ \A f \in s.valid : Cameras(Posed(d, s.poses, cams, f)) \subseteq s.cams

LEMMA OldestOfMore ==
  ASSUME NEW P \in SUBSET Nat, NEW a \in P, \A p \in P : a <= p, NEW Q \in SUBSET Nat
  PROVE  Min({a} \cup Q) \in P \cup Q /\ \A p \in P \cup Q : Min({a} \cup Q) <= p
<1> DEFINE R == {a} \cup Q
<1>1. R \in SUBSET Nat /\ R # {} /\ a \in R
  OBVIOUS
<1> HIDE DEF R
<1>2. Min(R) \in R /\ \A y \in R : Min(R) <= y
  BY <1>1, MinOfNaturals
<1>3. \A p \in P \cup Q : Min(R) <= p
  <2>1. Min(R) \in Nat /\ Min(R) <= a
    BY <1>1, <1>2
  <2>2. \A p \in P : Min(R) <= p
    BY <2>1
  <2>3. \A p \in Q : p \in R
    BY DEF R
  <2> QED BY <1>2, <2>2, <2>3
<1> QED BY <1>2, <1>3 DEF R

LEMMA VisitIs ==
  ASSUME NEW d, NEW S \in SUBSET Nat, NEW new \in S, NEW cams, NEW s, SelectionOf(s, d, S, new, cams),
         NEW f \in DOMAIN d, f \notin s.valid,
         Observations(d[f], cams[f]) \in Seq([cam : DOMAIN d[f], time : S])
  PROVE  LET t == Visit(s, f, Observations(d[f], cams[f]))
         IN  /\ SelectionOf(t, d, S, new, cams)
             /\ s.poses \subseteq t.poses /\ s.valid \subseteq t.valid /\ t.valid \subseteq s.valid \cup {f}
             /\ t.num_measurements = IF f \in t.valid
                                     THEN s.num_measurements + 2 * Len(Posed(d, t.poses, cams, f))
                                     ELSE s.num_measurements
<1> DEFINE obs == Observations(d[f], cams[f])
           t == Visit(s, f, obs)
           used == Used(obs, s.poses)
           C == DOMAIN d[f]
<1>1. /\ s \in Selection(d, S) /\ s.poses \in SUBSET S /\ s.poses \in SUBSET Nat /\ Apart(s.poses)
      /\ s.oldest \in s.poses /\ \A p \in s.poses : s.oldest <= p
  BY DEF SelectionOf, Selection
<1>2. obs \in Seq([cam : C, time : S]) /\ obs \in Seq([cam : C, time : Nat])
  <2> DEFINE O == [cam : C, time : S]
             N == [cam : C, time : Nat]
  <2>1. O \subseteq N
    OBVIOUS
  <2> HIDE DEF O, N
  <2>2. obs \in Seq(O)
    BY DEF O
  <2> HIDE DEF obs
  <2>3. obs \in Seq(N)
    BY <2>1, <2>2
  <2> QED BY <2>2, <2>3 DEF O, N
<1> HIDE DEF obs
<1>3. /\ used \in Seq([cam : C, time : Nat]) /\ Apart(s.poses \cup Times(used))
      /\ \A P \in SUBSET Nat : Apart(P) /\ s.poses \cup Times(used) \subseteq P =>
           Kept(obs, [cam : C, time : P]) = used
  BY <1>1, <1>2, UsedAreWithPose
<1> DEFINE P2 == s.poses \cup Times(used)
<1>4. Times(used) \in SUBSET S /\ Cameras(used) \in SUBSET C /\ Len(used) \in Nat
  <2>1. P2 \in SUBSET Nat
    BY <1>1, <1>3, TimesTyped
  <2> DEFINE O == [cam : C, time : S]
             K == [cam : C, time : P2]
  <2>2. Kept(obs, K) = used
    BY <1>3, <2>1
  <2>3. obs \in Seq(O)
    BY <1>2
  <2> HIDE DEF O, K
  <2>4. used \in Seq(O)
    BY <2>2, <2>3, KeptIs
  <2>5. Len(used) \in Nat /\ \A i \in DOMAIN used : used[i] \in O
    BY <2>4
  <2> QED BY <2>5 DEF O, Times, Cameras
<1> HIDE DEF used
<1>5. CASE Len(used) < min_num_meas
  <2>1. t = s
    BY <1>5 DEF Visit, used
  <2>2. s.poses \subseteq t.poses /\ s.valid \subseteq t.valid /\ t.valid \subseteq s.valid \cup {f}
        /\ f \notin t.valid /\ t.num_measurements = s.num_measurements
    BY <2>1
  <2> QED BY <2>1, <2>2 DEF obs
<1>6. CASE ~(Len(used) < min_num_meas)
  <2>1. t = [s EXCEPT !.poses = @ \cup Times(used),
                      !.oldest = Min({@} \cup Times(used)),
                      !.valid = @ \cup {f},
                      !.num_measurements = @ + 2 * Len(used),
                      !.cams = @ \cup Cameras(used)]
    BY <1>6 DEF Visit, used
  <2>2. /\ t.poses = P2 /\ t.oldest = Min({s.oldest} \cup Times(used)) /\ t.valid = s.valid \cup {f}
        /\ t.num_measurements = s.num_measurements + 2 * Len(used) /\ t.cams = s.cams \cup Cameras(used)
    BY <1>1, <2>1 DEF Selection
  <2>3. /\ Min({s.oldest} \cup Times(used)) \in P2 /\ \A p \in P2 : Min({s.oldest} \cup Times(used)) <= p
        /\ P2 \in SUBSET S /\ P2 \in SUBSET Nat
    <3>1. Times(used) \in SUBSET Nat
      BY <1>4
    <3> QED BY <1>1, <1>4, <3>1, OldestOfMore
  <2>4. t \in Selection(d, S)
    <3>1. t = [poses |-> t.poses, oldest |-> t.oldest, valid |-> t.valid,
               num_measurements |-> t.num_measurements, cams |-> t.cams]
      BY <1>1, <2>1 DEF Selection
    <3>2. s.valid \subseteq DOMAIN d /\ s.num_measurements \in Nat
          /\ s.cams \subseteq UNION {DOMAIN d[g] : g \in DOMAIN d}
      BY <1>1 DEF Selection
    <3>3. t.num_measurements \in Nat
      BY <1>4, <2>2, <3>2
    <3>4. Cameras(used) \subseteq UNION {DOMAIN d[g] : g \in DOMAIN d}
      BY <1>4
    <3> HIDE DEF t
    <3>5. t.poses \in SUBSET S /\ t.oldest \in S /\ t.valid \in SUBSET DOMAIN d
          /\ t.cams \in SUBSET UNION {DOMAIN d[g] : g \in DOMAIN d}
      BY <2>2, <2>3, <3>2, <3>4
    <3> QED BY <3>1, <3>3, <3>5 DEF Selection
  <2>5. Apart(t.poses)
    BY <1>3, <2>2
  <2>6. \A P \in SUBSET Nat : Apart(P) /\ P2 \subseteq P => Posed(d, P, cams, f) = used
    BY <1>3 DEF Posed, obs
  <2>7. Posed(d, t.poses, cams, f) = used
    BY <2>2, <2>3, <2>5, <2>6
  <2> HIDE DEF P2, t
  <2>8. s.poses \subseteq P2 /\ Times(used) \subseteq P2 /\ \A p \in P2 : p \in s.poses \/ p \in Times(used)
    BY DEF P2
  <2>9. \A g \in s.valid : Posed(d, t.poses, cams, g) = Posed(d, s.poses, cams, g)
    BY <2>2, <2>3, <2>5, <2>8 DEF SelectionOf
  <2>10. \A g \in t.valid : \A P \in SUBSET Nat :
           Apart(P) /\ t.poses \subseteq P => Posed(d, P, cams, g) = Posed(d, t.poses, cams, g)
    <3> SUFFICES ASSUME NEW g \in t.valid, NEW P \in SUBSET Nat, Apart(P), t.poses \subseteq P
                 PROVE  Posed(d, P, cams, g) = Posed(d, t.poses, cams, g)
      OBVIOUS
    <3>1. CASE g = f
      BY <2>2, <2>6, <2>7, <3>1
    <3>2. CASE g \in s.valid
      <4>1. s.poses \subseteq P
        BY <2>2, <2>8
      <4>2. Posed(d, P, cams, g) = Posed(d, s.poses, cams, g)
        BY <3>2, <4>1 DEF SelectionOf
      <4> QED BY <2>9, <3>2, <4>2
    <3> QED BY <2>2, <3>1, <3>2
  <2>11. \A p \in t.poses : p = new \/ \E g \in t.valid : p \in Times(Posed(d, t.poses, cams, g))
    <3> SUFFICES ASSUME NEW p \in t.poses, p # new
                 PROVE  \E g \in t.valid : p \in Times(Posed(d, t.poses, cams, g))
      OBVIOUS
    <3>1. CASE p \in Times(used)
      BY <2>2, <2>7, <3>1
    <3>2. CASE p \in s.poses
      <4>1. PICK g \in s.valid : p \in Times(Posed(d, s.poses, cams, g))
        BY <3>2 DEF SelectionOf
      <4>2. g \in t.valid /\ p \in Times(Posed(d, t.poses, cams, g))
        BY <2>2, <2>9, <4>1
      <4> QED BY <4>2
    <3> QED BY <2>2, <2>8, <3>1, <3>2
  <2>12. \A g \in t.valid : Cameras(Posed(d, t.poses, cams, g)) \subseteq t.cams
    <3> SUFFICES ASSUME NEW g \in t.valid PROVE Cameras(Posed(d, t.poses, cams, g)) \subseteq t.cams
      OBVIOUS
    <3>1. CASE g = f
      BY <2>2, <2>7, <3>1
    <3>2. CASE g \in s.valid
      <4>1. Cameras(Posed(d, s.poses, cams, g)) \subseteq s.cams
        BY <3>2 DEF SelectionOf
      <4> QED BY <2>2, <2>9, <3>2, <4>1
    <3> QED BY <2>2, <3>1, <3>2
  <2>13. new \in t.poses /\ t.oldest \in t.poses /\ \A p \in t.poses : t.oldest <= p
    BY <2>2, <2>3, <2>8 DEF SelectionOf
  <2>14. SelectionOf(t, d, S, new, cams)
    BY <2>4, <2>5, <2>10, <2>11, <2>12, <2>13 DEF SelectionOf
  <2>15. /\ s.poses \subseteq t.poses /\ s.valid \subseteq t.valid /\ t.valid \subseteq s.valid \cup {f}
         /\ f \in t.valid /\ t.num_measurements = s.num_measurements + 2 * Len(Posed(d, t.poses, cams, f))
    BY <2>2, <2>7, <2>8
  <2> QED BY <2>14, <2>15 DEF t, obs
<1> QED BY <1>5, <1>6

\* Before any feature is visited.
NoneSelected(new) ==
  [poses |-> {new}, oldest |-> new, valid |-> {}, num_measurements |-> 0, cams |-> {}]

\* What visiting one more feature makes of a selection, and of the rows.
VisitOne(s, d, f, cams) == Visit(s, f, Observations(d[f], cams[f]))
RowsOfOne(n, d, s, f, cams) == IF f \in s.valid THEN n + 2 * Len(WithPose(d, s, cams, f)) ELSE n

\* The function that SelectPoses computes, on the first n features.
Selects(g, d, new, feats, cams, n) ==
  g = [i \in 0..n |-> IF i = 0 THEN NoneSelected(new) ELSE VisitOne(g[i - 1], d, feats[i], cams)]

LEMMA SelectsExists == \A n \in Nat : \A d, new, feats, cams : \E g : Selects(g, d, new, feats, cams, n)
<1> DEFINE S == {n \in Nat : \A d, new, feats, cams : \E g : Selects(g, d, new, feats, cams, n)}
<1>1. 0 \in S
  <2> SUFFICES ASSUME NEW d, NEW new, NEW feats, NEW cams PROVE \E g : Selects(g, d, new, feats, cams, 0)
    OBVIOUS
  <2> DEFINE g == [i \in 0..0 |-> NoneSelected(new)]
             h == [i \in 0..0 |-> IF i = 0 THEN NoneSelected(new) ELSE VisitOne(g[i - 1], d, feats[i], cams)]
  <2>1. g = h
    OBVIOUS
  <2>2. Selects(g, d, new, feats, cams, 0)
    BY <2>1 DEF Selects
  <2> QED BY <2>2
<1>2. ASSUME NEW n \in Nat, n \in S PROVE n + 1 \in S
  <2> SUFFICES ASSUME NEW d, NEW new, NEW feats, NEW cams PROVE \E g : Selects(g, d, new, feats, cams, n + 1)
    OBVIOUS
  <2>1. PICK f : Selects(f, d, new, feats, cams, n)
    BY <1>2
  <2> DEFINE g == [i \in 0..(n + 1) |-> IF i = n + 1 THEN VisitOne(f[i - 1], d, feats[i], cams) ELSE f[i]]
  <2>2. \A i \in 0..n : f[i] = IF i = 0 THEN NoneSelected(new) ELSE VisitOne(f[i - 1], d, feats[i], cams)
    BY <2>1 DEF Selects
  <2>3. \A i \in 0..n : g[i] = f[i]
    OBVIOUS
  <2>4. ASSUME NEW i \in 0..(n + 1)
        PROVE  g[i] = IF i = 0 THEN NoneSelected(new) ELSE VisitOne(g[i - 1], d, feats[i], cams)
    <3>1. i # 0 => i - 1 \in 0..n
      OBVIOUS
    <3>2. CASE i = n + 1
      <4>1. g[i] = VisitOne(f[i - 1], d, feats[i], cams) /\ i # 0
        BY <3>2
      <4> QED BY <4>1, <3>1, <2>3
    <3>3. CASE i # n + 1
      <4>1. i \in 0..n
        BY <3>3
      <4> QED BY <4>1, <3>1, <2>2, <2>3
    <3> QED BY <3>2, <3>3
  <2> DEFINE h == [i \in 0..(n + 1) |-> IF i = 0 THEN NoneSelected(new) ELSE VisitOne(g[i - 1], d, feats[i], cams)]
  <2>5. \A i \in 0..(n + 1) : g[i] = h[i]
    BY <2>4
  <2>6. g = h
    <3>1. DOMAIN g = 0..(n + 1) /\ DOMAIN h = 0..(n + 1) /\ g = [i \in 0..(n + 1) |-> g[i]]
          /\ h = [i \in 0..(n + 1) |-> h[i]]
      OBVIOUS
    <3> HIDE DEF g, h
    <3> QED BY <2>5, <3>1
  <2>7. Selects(g, d, new, feats, cams, n + 1)
    BY <2>6 DEF Selects
  <2> QED BY <2>7
<1> HIDE DEF S
<1>3. Nat \subseteq S
  BY <1>1, <1>2, Inductive
<1> QED BY <1>3 DEF S

\* The function that RowsAppended computes, on the first n features.
CountsRows(g, d, s, feats, cams, n) ==
  g = [i \in 0..n |-> IF i = 0 THEN 0 ELSE RowsOfOne(g[i - 1], d, s, feats[i], cams)]

LEMMA CountsRowsExists == \A n \in Nat : \A d, s, feats, cams : \E g : CountsRows(g, d, s, feats, cams, n)
<1> DEFINE S == {n \in Nat : \A d, s, feats, cams : \E g : CountsRows(g, d, s, feats, cams, n)}
<1>1. 0 \in S
  <2> SUFFICES ASSUME NEW d, NEW s, NEW feats, NEW cams PROVE \E g : CountsRows(g, d, s, feats, cams, 0)
    OBVIOUS
  <2> DEFINE g == [i \in 0..0 |-> 0]
             h == [i \in 0..0 |-> IF i = 0 THEN 0 ELSE RowsOfOne(g[i - 1], d, s, feats[i], cams)]
  <2>1. g = h
    OBVIOUS
  <2>2. CountsRows(g, d, s, feats, cams, 0)
    BY <2>1 DEF CountsRows
  <2> QED BY <2>2
<1>2. ASSUME NEW n \in Nat, n \in S PROVE n + 1 \in S
  <2> SUFFICES ASSUME NEW d, NEW s, NEW feats, NEW cams PROVE \E g : CountsRows(g, d, s, feats, cams, n + 1)
    OBVIOUS
  <2>1. PICK f : CountsRows(f, d, s, feats, cams, n)
    BY <1>2
  <2> DEFINE g == [i \in 0..(n + 1) |-> IF i = n + 1 THEN RowsOfOne(f[i - 1], d, s, feats[i], cams) ELSE f[i]]
  <2>2. \A i \in 0..n : f[i] = IF i = 0 THEN 0 ELSE RowsOfOne(f[i - 1], d, s, feats[i], cams)
    BY <2>1 DEF CountsRows
  <2>3. \A i \in 0..n : g[i] = f[i]
    OBVIOUS
  <2>4. ASSUME NEW i \in 0..(n + 1)
        PROVE  g[i] = IF i = 0 THEN 0 ELSE RowsOfOne(g[i - 1], d, s, feats[i], cams)
    <3>1. i # 0 => i - 1 \in 0..n
      OBVIOUS
    <3>2. CASE i = n + 1
      <4>1. g[i] = RowsOfOne(f[i - 1], d, s, feats[i], cams) /\ i # 0
        BY <3>2
      <4> QED BY <4>1, <3>1, <2>3
    <3>3. CASE i # n + 1
      <4>1. i \in 0..n
        BY <3>3
      <4> QED BY <4>1, <3>1, <2>2, <2>3
    <3> QED BY <3>2, <3>3
  <2> DEFINE h == [i \in 0..(n + 1) |-> IF i = 0 THEN 0 ELSE RowsOfOne(g[i - 1], d, s, feats[i], cams)]
  <2>5. \A i \in 0..(n + 1) : g[i] = h[i]
    BY <2>4
  <2>6. g = h
    <3>1. DOMAIN g = 0..(n + 1) /\ DOMAIN h = 0..(n + 1) /\ g = [i \in 0..(n + 1) |-> g[i]]
          /\ h = [i \in 0..(n + 1) |-> h[i]]
      OBVIOUS
    <3> HIDE DEF g, h
    <3> QED BY <2>5, <3>1
  <2>7. CountsRows(g, d, s, feats, cams, n + 1)
    BY <2>6 DEF CountsRows
  <2> QED BY <2>7
<1> HIDE DEF S
<1>3. Nat \subseteq S
  BY <1>1, <1>2, Inductive
<1> QED BY <1>3 DEF S

LEMMA SelectedStepwise ==
  ASSUME NEW T, NEW feats \in Seq(T), NEW d, NEW new, NEW cams
  PROVE  \E g : /\ g[0] = NoneSelected(new) /\ SelectPoses(d, new, feats, cams) = g[Len(feats)]
                /\ \A i \in Nat : i < Len(feats) => g[i + 1] = VisitOne(g[i], d, feats[i + 1], cams)
<1> DEFINE g == CHOOSE g : Selects(g, d, new, feats, cams, Len(feats))
<1>1. Len(feats) \in Nat
  OBVIOUS
<1>2. Selects(g, d, new, feats, cams, Len(feats))
  BY <1>1, SelectsExists
<1>3. SelectPoses(d, new, feats, cams) = g[Len(feats)]
  BY DEF SelectPoses, Selects, NoneSelected, VisitOne
<1> HIDE DEF g
<1>4. g[0] = NoneSelected(new)
  BY <1>1, <1>2 DEF Selects
<1>5. ASSUME NEW i \in Nat, i < Len(feats) PROVE g[i + 1] = VisitOne(g[i], d, feats[i + 1], cams)
  <2>1. i + 1 \in 0..Len(feats) /\ i + 1 # 0 /\ (i + 1) - 1 = i
    BY <1>1, <1>5
  <2>2. g[i + 1] = VisitOne(g[(i + 1) - 1], d, feats[i + 1], cams)
    BY <1>2, <2>1 DEF Selects
  <2> QED BY <2>1, <2>2
<1> QED BY <1>3, <1>4, <1>5

LEMMA RowsStepwise ==
  ASSUME NEW T, NEW feats \in Seq(T), NEW d, NEW s, NEW cams
  PROVE  \E g : /\ g[0] = 0 /\ RowsAppended(d, s, feats, cams) = g[Len(feats)]
                /\ \A i \in Nat : i < Len(feats) => g[i + 1] = RowsOfOne(g[i], d, s, feats[i + 1], cams)
<1> DEFINE g == CHOOSE g : CountsRows(g, d, s, feats, cams, Len(feats))
<1>1. Len(feats) \in Nat
  OBVIOUS
<1>2. CountsRows(g, d, s, feats, cams, Len(feats))
  BY <1>1, CountsRowsExists
<1>3. RowsAppended(d, s, feats, cams) = g[Len(feats)]
  BY DEF RowsAppended, CountsRows, RowsOfOne
<1> HIDE DEF g
<1>4. g[0] = 0
  BY <1>1, <1>2 DEF CountsRows
<1>5. ASSUME NEW i \in Nat, i < Len(feats) PROVE g[i + 1] = RowsOfOne(g[i], d, s, feats[i + 1], cams)
  <2>1. i + 1 \in 0..Len(feats) /\ i + 1 # 0 /\ (i + 1) - 1 = i
    BY <1>1, <1>5
  <2>2. g[i + 1] = RowsOfOne(g[(i + 1) - 1], d, s, feats[i + 1], cams)
    BY <1>2, <2>1 DEF CountsRows
  <2> QED BY <2>1, <2>2
<1> QED BY <1>3, <1>4, <1>5

\* Every feature once.
Once(feats) == \A j, k \in 1..Len(feats) : j # k => feats[j] # feats[k]

\* Every feature's observations.
Observes(d, S, cams) ==
  \A f \in DOMAIN d : Observations(d[f], cams[f]) \in Seq([cam : DOMAIN d[f], time : S])

LEMMA SelectPosesIs ==
  ASSUME NEW d, NEW S \in SUBSET Nat, NEW new \in S, NEW cams, Observes(d, S, cams),
         NEW feats \in Seq(DOMAIN d), Once(feats)
  PROVE  LET s == SelectPoses(d, new, feats, cams)
         IN  /\ SelectionOf(s, d, S, new, cams)
             /\ RowsAppended(d, s, feats, cams) = s.num_measurements
<1> DEFINE n == Len(feats)
           s == SelectPoses(d, new, feats, cams)
<1>0. n \in Nat /\ \A i \in 1..n : feats[i] \in DOMAIN d
  OBVIOUS
<1>1. PICK g : /\ g[0] = NoneSelected(new) /\ s = g[n]
               /\ \A i \in Nat : i < n => g[i + 1] = VisitOne(g[i], d, feats[i + 1], cams)
  <2> DEFINE T == DOMAIN d
  <2>1. feats \in Seq(T)
    OBVIOUS
  <2> HIDE DEF T, n, s
  <2>2. \E g : /\ g[0] = NoneSelected(new) /\ SelectPoses(d, new, feats, cams) = g[Len(feats)]
              /\ \A i \in Nat : i < Len(feats) => g[i + 1] = VisitOne(g[i], d, feats[i + 1], cams)
    BY <2>1, SelectedStepwise
  <2> QED BY <2>2 DEF n, s
<1> HIDE DEF n, s
<1>2. SelectionOf(NoneSelected(new), d, S, new, cams)
  <2>1. NoneSelected(new) \in Selection(d, S)
    BY DEF NoneSelected, Selection
  <2>2. new \in Nat /\ new <= new
    OBVIOUS
  <2>3. Apart({new})
    BY DEF Apart
  <2> QED BY <2>1, <2>2, <2>3 DEF SelectionOf, NoneSelected
\* Up to every feature.
<1> DEFINE Good(i) == /\ SelectionOf(g[i], d, S, new, cams)
                      /\ \A f \in g[i].valid : \E k \in 1..i : f = feats[k]
           Step(i) == /\ g[i].poses \subseteq g[i + 1].poses
                      /\ g[i].valid \subseteq g[i + 1].valid
                      /\ g[i + 1].valid \subseteq g[i].valid \cup {feats[i + 1]}
                      /\ g[i + 1].num_measurements =
                           IF feats[i + 1] \in g[i + 1].valid
                           THEN g[i].num_measurements + 2 * Len(Posed(d, g[i + 1].poses, cams, feats[i + 1]))
                           ELSE g[i].num_measurements
<1>3. ASSUME NEW i \in Nat, i < n, Good(i) PROVE Good(i + 1) /\ Step(i)
  <2> DEFINE f == feats[i + 1]
  <2>1. f \in DOMAIN d /\ i + 1 \in 1..n
    BY <1>0, <1>3
  <2>2. f \notin g[i].valid
    <3> SUFFICES ASSUME f \in g[i].valid PROVE FALSE
      OBVIOUS
    <3>1. PICK k \in 1..i : f = feats[k]
      BY <1>3
    <3>2. k \in 1..n /\ k # i + 1
      BY <1>0, <1>3
    <3> QED BY <2>1, <3>1, <3>2 DEF Once, n
  <2>3. Observations(d[f], cams[f]) \in Seq([cam : DOMAIN d[f], time : S])
    BY <2>1 DEF Observes
  <2>4. g[i + 1] = Visit(g[i], f, Observations(d[f], cams[f]))
    BY <1>1, <1>3 DEF VisitOne
  <2>5. SelectionOf(g[i], d, S, new, cams)
    BY <1>3
  <2> DEFINE u == g[i]
             t == Visit(u, f, Observations(d[f], cams[f]))
  <2> HIDE DEF f, u
  <2>6. /\ SelectionOf(t, d, S, new, cams)
        /\ u.poses \subseteq t.poses /\ u.valid \subseteq t.valid /\ t.valid \subseteq u.valid \cup {f}
        /\ t.num_measurements = IF f \in t.valid
                                THEN u.num_measurements + 2 * Len(Posed(d, t.poses, cams, f))
                                ELSE u.num_measurements
    <3>1. SelectionOf(u, d, S, new, cams) /\ f \notin u.valid
      BY <2>2, <2>5 DEF u
    <3> QED BY <2>1, <2>3, <3>1, VisitIs
  <2>7. g[i + 1] = t
    BY <2>4 DEF u
  <2> HIDE DEF t
  <2>8. Step(i)
    BY <2>6, <2>7 DEF u, f
  <2>9. ASSUME NEW h \in g[i + 1].valid PROVE \E k \in 1..(i + 1) : h = feats[k]
    <3>1. CASE h \in u.valid
      <4>1. PICK k \in 1..i : h = feats[k]
        BY <1>3, <3>1 DEF u
      <4>2. k \in 1..(i + 1)
        OBVIOUS
      <4> QED BY <4>1, <4>2
    <3>2. CASE h = f
      <4>1. i + 1 \in 1..(i + 1)
        OBVIOUS
      <4> QED BY <3>2, <4>1 DEF f
    <3> QED BY <2>6, <2>7, <2>9, <3>1, <3>2
  <2> QED BY <2>6, <2>7, <2>8, <2>9
<1>4. \A i \in Nat : i <= n => Good(i)
  <2> DEFINE R == {i \in Nat : i <= n => Good(i)}
  <2>1. 0 \in R
    <3>1. \A f \in g[0].valid : FALSE
      BY <1>1 DEF NoneSelected
    <3> QED BY <1>1, <1>2, <3>1
  <2>2. ASSUME NEW i \in Nat, i \in R PROVE i + 1 \in R
    <3> HIDE DEF Good, Step
    <3>1. ASSUME i + 1 <= n PROVE Good(i + 1)
      <4>1. i < n /\ i <= n
        BY <1>0, <3>1
      <4> QED BY <1>3, <2>2, <4>1
    <3> QED BY <3>1
  <2> HIDE DEF R
  <2>3. Nat \subseteq R
    BY <2>1, <2>2, Inductive
  <2> QED BY <2>3 DEF R
<1> HIDE DEF Good
<1>5. \A i \in Nat : i < n => Step(i)
  <2> SUFFICES ASSUME NEW i \in Nat, i < n PROVE Step(i)
    OBVIOUS
  <2>1. i <= n
    BY <1>0
  <2> QED BY <1>3, <1>4, <2>1
\* What was selected stays, and no feature becomes valid later.
<1> DEFINE Stays(i) == /\ g[i].poses \subseteq s.poses /\ g[i].valid \subseteq s.valid
                       /\ \A f \in s.valid : f \in g[i].valid \/ \E k \in (i + 1)..n : f = feats[k]
<1>6. \A i \in Nat : i <= n => Stays(i)
  <2> DEFINE R == {k \in Nat : k <= n => Stays(n - k)}
  <2>1. 0 \in R
    BY <1>0, <1>1
  <2>2. ASSUME NEW k \in Nat, k \in R PROVE k + 1 \in R
    <3> SUFFICES ASSUME k + 1 <= n PROVE Stays(n - (k + 1))
      OBVIOUS
    <3> DEFINE i == n - (k + 1)
    <3>1. i \in Nat /\ i < n /\ i + 1 = n - k /\ k <= n
      BY <1>0
    <3>2. Stays(i + 1)
      BY <2>2, <3>1
    <3> HIDE DEF R, i
    <3>3. Step(i)
      BY <1>5, <3>1
    <3>4. g[i].poses \subseteq s.poses /\ g[i].valid \subseteq s.valid
      BY <3>2, <3>3
    <3>5. ASSUME NEW f \in s.valid PROVE f \in g[i].valid \/ \E j \in (i + 1)..n : f = feats[j]
      <4>1. CASE f \in g[i + 1].valid
        <5>1. f \in g[i].valid \/ f = feats[i + 1]
          BY <3>3, <4>1
        <5>2. i + 1 \in (i + 1)..n
          BY <1>0, <3>1
        <5> QED BY <5>1, <5>2
      <4>2. CASE \E j \in (i + 1 + 1)..n : f = feats[j]
        <5>1. PICK j \in (i + 1 + 1)..n : f = feats[j]
          BY <4>2
        <5>2. j \in (i + 1)..n
          BY <1>0, <3>1
        <5> QED BY <5>1, <5>2
      <4> QED BY <3>2, <4>1, <4>2
    <3> QED BY <3>4, <3>5 DEF i
  <2> HIDE DEF R
  <2>3. Nat \subseteq R
    BY <2>1, <2>2, Inductive
  <2>4. ASSUME NEW i \in Nat, i <= n PROVE Stays(i)
    <3>1. n - i \in Nat /\ n - i <= n /\ n - (n - i) = i
      BY <1>0, <2>4
    <3>2. Stays(n - (n - i))
      BY <2>3, <3>1 DEF R
    <3> QED BY <3>1, <3>2
  <2> QED BY <2>4
<1>7. SelectionOf(s, d, S, new, cams)
  BY <1>0, <1>1, <1>4 DEF Good
<1>8. PICK r : /\ r[0] = 0 /\ RowsAppended(d, s, feats, cams) = r[n]
               /\ \A i \in Nat : i < n => r[i + 1] = RowsOfOne(r[i], d, s, feats[i + 1], cams)
  <2> DEFINE T == DOMAIN d
  <2>1. feats \in Seq(T)
    OBVIOUS
  <2> HIDE DEF T
  <2> QED BY <2>1, RowsStepwise DEF n
<1>9. ASSUME NEW i \in Nat, i < n, r[i] = g[i].num_measurements
      PROVE  r[i + 1] = g[i + 1].num_measurements
  <2> DEFINE f == feats[i + 1]
  <2>1. Step(i) /\ Stays(i + 1) /\ Good(i + 1) /\ i + 1 <= n
    BY <1>0, <1>4, <1>5, <1>6, <1>9
  <2>2. f \in s.valid <=> f \in g[i + 1].valid
    <3>1. ASSUME f \in s.valid, f \notin g[i + 1].valid PROVE FALSE
      <4>1. PICK k \in (i + 1 + 1)..n : f = feats[k]
        BY <2>1, <3>1
      <4>2. k \in 1..n /\ i + 1 \in 1..n /\ k # i + 1
        BY <1>0, <1>9
      <4> QED BY <4>1, <4>2 DEF Once, n
    <3> QED BY <2>1, <3>1
  <2>3. f \in s.valid => Posed(d, g[i + 1].poses, cams, f) = WithPose(d, s, cams, f)
    <3> SUFFICES ASSUME f \in s.valid
                 PROVE  Posed(d, g[i + 1].poses, cams, f) = WithPose(d, s, cams, f)
      OBVIOUS
    <3>1. f \in g[i + 1].valid /\ g[i + 1].poses \subseteq s.poses
      BY <2>1, <2>2
    <3>2. SelectionOf(g[i + 1], d, S, new, cams)
      BY <2>1 DEF Good
    <3>3. s.poses \in SUBSET Nat /\ Apart(s.poses)
      BY <1>7 DEF SelectionOf, Selection
    <3> HIDE DEF f
    <3>4. Posed(d, s.poses, cams, f) = Posed(d, g[i + 1].poses, cams, f)
      BY <3>1, <3>2, <3>3 DEF SelectionOf
    <3> QED BY <3>4, WithPoseIs
  <2>4. r[i + 1] = RowsOfOne(r[i], d, s, f, cams)
    BY <1>8, <1>9
  <2>5. g[i + 1].num_measurements = IF f \in g[i + 1].valid
                                    THEN g[i].num_measurements + 2 * Len(Posed(d, g[i + 1].poses, cams, f))
                                    ELSE g[i].num_measurements
    BY <2>1
  <2> HIDE DEF f
  <2> QED BY <1>9, <2>2, <2>3, <2>4, <2>5 DEF RowsOfOne
<1>10. \A i \in Nat : i <= n => r[i] = g[i].num_measurements
  <2> DEFINE R == {i \in Nat : i <= n => r[i] = g[i].num_measurements}
  <2>1. 0 \in R
    BY <1>1, <1>8 DEF NoneSelected
  <2>2. ASSUME NEW i \in Nat, i \in R PROVE i + 1 \in R
    <3>1. ASSUME i + 1 <= n PROVE r[i + 1] = g[i + 1].num_measurements
      <4>1. i < n /\ i <= n
        BY <1>0, <3>1
      <4>2. r[i] = g[i].num_measurements
        BY <2>2, <4>1
      <4> QED BY <1>9, <4>1, <4>2
    <3> QED BY <3>1
  <2> HIDE DEF R
  <2>3. Nat \subseteq R
    BY <2>1, <2>2, Inductive
  <2> QED BY <2>3 DEF R
<1>11. RowsAppended(d, s, feats, cams) = s.num_measurements
  BY <1>0, <1>1, <1>8, <1>10
<1> QED BY <1>7, <1>11 DEF s

-----------------------------------------------------------------------------
(***************************************************************************)
(* What the dynamic initializer comes to.                                  *)
(***************************************************************************)

\* SystemComplete, of an attempt.
CompleteOf(a) ==
  /\ a.rows = a.counted
  /\ a.poses \subseteq a.seen \cup {a.newest}
  /\ a.factors \subseteq a.cams
  /\ \A t, u \in a.poses : t # u => Abs(t - u) * (init_dyn_num_pose + 1) >= init_window_time

LEMMA OrdersOf ==
  ASSUME NEW S, IsFiniteSet(S), NEW q \in SetToSeqs(S)
  PROVE  q \in Seq(S) /\ Once(q)
<1>1. Cardinality(S) \in Nat
  BY FS_CardinalityType
<1> DEFINE n == Cardinality(S)
<1>2. q \in [1..n -> S] /\ \A i, j \in 1..n : i # j => q[i] # q[j]
  BY DEF SetToSeqs
<1> HIDE DEF n
<1>3. n \in Nat
  BY <1>1 DEF n
<1>4. q \in Seq(S) /\ Len(q) = n
  BY <1>2, <1>3
<1> QED BY <1>2, <1>4 DEF Once

LEMMA DynamicIs ==
  ASSUME NEW d, IsFiniteSet(DOMAIN d), IsFiniteSet(Cams), NEW S \in SUBSET Nat, Tracks(d, S),
         NEW new \in S, NEW imu, NEW a \in Dynamic(d, imu, new)
  PROVE  \E s, cams :
           LET kept == Recent(imu, new - init_window_time)
           IN  /\ SelectionOf(s, d, S, new, cams)
               /\ a.outcome \in Ends(Progress(d, new, kept, kept # imu, s))
               /\ a.method = "dynamic" /\ a.newest = new /\ a.fresh = (NewestCamTime(db) < new)
               /\ CompleteOf(a)
<1> DEFINE kept == Recent(imu, new - init_window_time)
<1>0. PICK feats \in SetToSeqs(DOMAIN d), cams \in [DOMAIN d -> SetToSeqs(Cams)] :
        a \in Outcomes(d, new, kept, kept # imu, feats, cams)
  BY DEF Dynamic
<1> DEFINE s == SelectPoses(d, new, feats, cams)
<1>1. PICK end \in Ends(Progress(d, new, kept, kept # imu, s)) : a = WithPoses(d, new, s, feats, cams, end)
  BY <1>0 DEF Outcomes
<1>2. feats \in Seq(DOMAIN d) /\ Once(feats)
  BY OrdersOf
<1>3. Observes(d, S, cams)
  <2> SUFFICES ASSUME NEW f \in DOMAIN d
               PROVE  Observations(d[f], cams[f]) \in Seq([cam : DOMAIN d[f], time : S])
    BY DEF Observes
  <2>1. cams[f] \in Seq(Cams)
    BY OrdersOf
  <2>2. \A c \in DOMAIN d[f] : d[f][c] \in Seq(S)
    BY DEF Tracks
  <2> QED BY <2>1, <2>2, ObservationsTyped
<1>4. SelectionOf(s, d, S, new, cams) /\ RowsAppended(d, s, feats, cams) = s.num_measurements
  BY <1>2, <1>3, SelectPosesIs
<1>5. /\ a.outcome = end /\ a.method = "dynamic" /\ a.newest = new /\ a.fresh = (NewestCamTime(db) < new)
      /\ a.poses = s.poses /\ a.counted = s.num_measurements /\ a.cams = s.cams
      /\ a.rows = RowsAppended(d, s, feats, cams)
      /\ a.seen = UNION {Times(WithPose(d, s, cams, f)) : f \in s.valid}
      /\ a.factors = FactorCameras(d, s, cams, s.valid)
  BY <1>1 DEF WithPoses, Tried
<1> HIDE DEF s
<1>6. CompleteOf(a)
  <2>1. a.rows = a.counted
    BY <1>4, <1>5
  <2>2. a.poses \subseteq a.seen \cup {a.newest}
    <3> SUFFICES ASSUME NEW p \in s.poses, p # new PROVE p \in a.seen
      BY <1>5
    <3>1. PICK f \in s.valid : p \in Times(Posed(d, s.poses, cams, f))
      BY <1>4 DEF SelectionOf
    <3> QED BY <1>5, <3>1, WithPoseIs
  <2>3. a.factors \subseteq a.cams
    <3> SUFFICES ASSUME NEW f \in s.valid PROVE Cameras(WithPose(d, s, cams, f)) \subseteq s.cams
      BY <1>5 DEF FactorCameras
    <3> QED BY <1>4, WithPoseIs DEF SelectionOf
  <2>4. \A t, u \in a.poses : t # u => Abs(t - u) * (init_dyn_num_pose + 1) >= init_window_time
    BY <1>4, <1>5 DEF SelectionOf, Apart, IsApart
  <2> QED BY <2>1, <2>2, <2>3, <2>4 DEF CompleteOf
<1>7. a.outcome \in Ends(Progress(d, new, kept, kept # imu, s))
  BY <1>1, <1>5 DEF s
<1> HIDE DEF kept
<1>8. \E u, v : /\ SelectionOf(u, d, S, new, v)
                /\ a.outcome \in Ends(Progress(d, new, kept, kept # imu, u))
                /\ a.method = "dynamic" /\ a.newest = new /\ a.fresh = (NewestCamTime(db) < new)
                /\ CompleteOf(a)
  BY <1>4, <1>5, <1>6, <1>7
<1> QED BY <1>8 DEF kept

-----------------------------------------------------------------------------
(***************************************************************************)
(* The stamps in the database.                                             *)
(***************************************************************************)
LEMMA StampsTyped == ASSUME NEW d, NEW S, Tracks(d, S) PROVE Stamps(d) \subseteq S /\ Tracks(d, Stamps(d))
<1>1. ASSUME NEW f \in DOMAIN d, NEW c \in DOMAIN d[f]
      PROVE  /\ d[f][c] \in Seq(S) /\ ToSet(d[f][c]) \subseteq S /\ ToSet(d[f][c]) \subseteq Stamps(d)
             /\ d[f][c] \in Seq(Stamps(d))
  <2>1. d[f][c] \in Seq(S)
    BY DEF Tracks
  <2>2. ToSet(d[f][c]) \subseteq Stamps(d)
    BY DEF Stamps
  <2> DEFINE e == d[f][c]
             T == Stamps(d)
  <2> HIDE DEF e, T
  <2>3. DOMAIN e = 1..Len(e) /\ Len(e) \in Nat /\ \A i \in 1..Len(e) : e[i] \in S
    BY <2>1 DEF e
  <2>4. \A i \in 1..Len(e) : e[i] \in T
    BY <2>2, <2>3 DEF ToSet, e, T
  <2>5. e = [i \in 1..Len(e) |-> e[i]]
    BY <2>1 DEF e
  <2>6. e \in Seq(T)
    BY <2>3, <2>4, <2>5
  <2>7. ToSet(e) \subseteq S
    BY <2>3 DEF ToSet
  <2> QED BY <2>1, <2>2, <2>6, <2>7 DEF e, T
<1>2. Stamps(d) \subseteq S
  <2> SUFFICES ASSUME NEW t \in Stamps(d) PROVE t \in S
    OBVIOUS
  <2>1. PICK f \in DOMAIN d : t \in UNION {ToSet(d[f][c]) : c \in DOMAIN d[f]}
    BY DEF Stamps
  <2> QED BY <1>1, <2>1
<1>3. Tracks(d, Stamps(d))
  <2> DEFINE T == Stamps(d)
  <2> HIDE DEF T
  <2>1. Tracks(d, T)
    BY <1>1 DEF Tracks, T
  <2> QED BY <2>1 DEF T
<1> QED BY <1>2, <1>3

LEMMA TracksOfMore == ASSUME NEW d, NEW S, NEW T, Tracks(d, S), S \subseteq T PROVE Tracks(d, T)
<1> SUFFICES ASSUME NEW f \in DOMAIN d, NEW c \in DOMAIN d[f] PROVE d[f][c] \in Seq(T)
  BY DEF Tracks
<1>1. d[f][c] \in Seq(S)
  BY DEF Tracks
<1> DEFINE e == d[f][c]
<1> HIDE DEF e
<1>2. Len(e) \in Nat /\ \A i \in 1..Len(e) : e[i] \in T /\ e = [j \in 1..Len(e) |-> e[j]]
  BY <1>1 DEF e
<1>3. e = [j \in 1..Len(e) |-> e[j]] /\ \A i \in 1..Len(e) : e[i] \in T
  BY <1>1, <1>2 DEF e
<1>4. e \in Seq(T)
  BY <1>2, <1>3
<1> QED BY <1>4 DEF e

\* A feature with a measurement counts as one.
LEMMA CountedIs ==
  ASSUME NEW e, IsFiniteSet(DOMAIN e), NEW S, \A c \in DOMAIN e : e[c] \in Seq(S),
         NEW c \in DOMAIN e, e[c] # <<>>
  PROVE  NumMeasurements(e) >= 1
<1> DEFINE P == {{k} \X DOMAIN e[k] : k \in DOMAIN e}
<1>1. IsFiniteSet(P)
  <2> DEFINE h == [k \in DOMAIN e |-> {k} \X DOMAIN e[k]]
  <2>1. h \in [DOMAIN e -> P] /\ \A y \in P : \E k \in DOMAIN e : h[k] = y
    OBVIOUS
  <2> HIDE DEF h, P
  <2>2. h \in Surjection(DOMAIN e, P)
    BY <2>1 DEF Surjection
  <2> QED BY <2>2, FS_Surjection
<1>2. ASSUME NEW k \in DOMAIN e PROVE IsFiniteSet({k} \X DOMAIN e[k])
  <2> DEFINE n == Len(e[k])
  <2>1. DOMAIN e[k] = 1..n /\ n \in Nat
    OBVIOUS
  <2> HIDE DEF n
  <2>2. n \in Int /\ 1 \in Int
    BY <2>1
  <2>3. IsFiniteSet(1..n) /\ IsFiniteSet({k})
    BY <2>2, FS_Interval, FS_Singleton
  <2> QED BY <2>1, <2>3, FS_Product
<1>3. IsFiniteSet(UNION P)
  <2>1. \A x \in P : IsFiniteSet(x)
    BY <1>2
  <2> QED BY <1>1, <2>1, FS_UNION
<1>4. <<c, 1>> \in UNION P
  <2>1. 1 \in DOMAIN e[c]
    <3>1. e[c] \in Seq(S) /\ e[c] # <<>>
      OBVIOUS
    <3> DEFINE q == e[c]
    <3> HIDE DEF q
    <3>2. 1 \in DOMAIN q
      BY <3>1 DEF q
    <3> QED BY <3>2 DEF q
  <2> QED BY <2>1
<1>5. NumMeasurements(e) = Cardinality(UNION P)
  BY DEF NumMeasurements
<1> HIDE DEF P
<1>6. Cardinality(UNION P) \in Nat /\ Cardinality(UNION P) # 0
  BY <1>3, <1>4, FS_CardinalityType, FS_EmptySet
<1> QED BY <1>5, <1>6

\* Cleaning up removes the stamps up to that one.
LEMMA CleanupIs ==
  ASSUME NEW d, NEW S \in SUBSET Nat, Tracks(d, S), \A f \in DOMAIN d : IsFiniteSet(DOMAIN d[f]),
         NEW stamp \in Int
  PROVE  LET e == CleanupMeasurements(d, stamp)
         IN  /\ DOMAIN e \subseteq DOMAIN d /\ \A f \in DOMAIN e : DOMAIN e[f] = DOMAIN d[f]
             /\ Tracks(e, S) /\ Stamps(e) = Stamps(d) \ 0..stamp
<1> DEFINE K == Nat \ 0..stamp
           thin == [f \in DOMAIN d |-> Keeping(d[f], K)]
           D == {f \in DOMAIN d : NumMeasurements(thin[f]) >= 1}
           e == CleanupMeasurements(d, stamp)
<1>1. e = [f \in D |-> thin[f]]
  BY DEF CleanupMeasurements, NonEmpty, RestrictValues, Restrict
<1>2. ASSUME NEW f \in DOMAIN d
      PROVE  DOMAIN thin[f] = DOMAIN d[f] /\ \A c \in DOMAIN d[f] : thin[f][c] = Kept(d[f][c], K)
  BY DEF Keeping
<1> HIDE DEF thin, K, e
<1>3. ASSUME NEW f \in DOMAIN d, NEW c \in DOMAIN d[f]
      PROVE  /\ thin[f][c] \in Seq(S)
             /\ \A t : t \in ToSet(thin[f][c]) <=> t \in ToSet(d[f][c]) /\ t \in K
  <2>1. d[f][c] \in Seq(S)
    BY DEF Tracks
  <2> QED BY <1>2, <2>1, KeptIs
<1>4. D \subseteq DOMAIN d /\ DOMAIN e = D /\ \A f \in D : e[f] = thin[f]
  BY <1>1
<1>5. ASSUME NEW f \in DOMAIN d, NEW c \in DOMAIN d[f], thin[f][c] # <<>> PROVE f \in D
  <2> DEFINE x == thin[f]
  <2>1. DOMAIN x = DOMAIN d[f] /\ \A k \in DOMAIN x : x[k] \in Seq(S)
    BY <1>2, <1>3
  <2>2. c \in DOMAIN x /\ x[c] # <<>> /\ IsFiniteSet(DOMAIN x)
    BY <1>5, <2>1
  <2> HIDE DEF x
  <2>3. NumMeasurements(x) >= 1
    BY <2>1, <2>2, CountedIs
  <2> QED BY <2>3 DEF x
<1>6. Stamps(e) = Stamps(d) \ 0..stamp
  <2>1. ASSUME NEW t \in Stamps(e) PROVE t \in Stamps(d) /\ t \in K
    <3>1. PICK f \in DOMAIN e : t \in UNION {ToSet(e[f][c]) : c \in DOMAIN e[f]}
      BY DEF Stamps
    <3>2. PICK c \in DOMAIN e[f] : t \in ToSet(e[f][c])
      BY <3>1
    <3>3. f \in DOMAIN d /\ c \in DOMAIN d[f] /\ t \in ToSet(thin[f][c])
      BY <1>2, <1>4, <3>2
    <3>4. t \in ToSet(d[f][c]) /\ t \in K
      BY <1>3, <3>3
    <3> QED BY <3>3, <3>4 DEF Stamps
  <2>2. ASSUME NEW t \in Stamps(d), t \in K PROVE t \in Stamps(e)
    <3>1. PICK f \in DOMAIN d : t \in UNION {ToSet(d[f][c]) : c \in DOMAIN d[f]}
      BY DEF Stamps
    <3>2. PICK c \in DOMAIN d[f] : t \in ToSet(d[f][c])
      BY <3>1
    <3>3. t \in ToSet(thin[f][c])
      BY <1>3, <2>2, <3>2
    <3>4. thin[f][c] # <<>>
      BY <3>3 DEF ToSet
    <3>5. f \in DOMAIN e /\ e[f] = thin[f] /\ c \in DOMAIN e[f]
      BY <1>2, <1>4, <1>5, <3>4
    <3> QED BY <3>3, <3>5 DEF Stamps
  <2>3. Stamps(d) \subseteq Nat
    BY StampsTyped
  <2> QED BY <2>1, <2>2, <2>3 DEF K
<1>7. Tracks(e, S) /\ \A f \in DOMAIN e : DOMAIN e[f] = DOMAIN d[f]
  BY <1>2, <1>3, <1>4 DEF Tracks
<1> QED BY <1>4, <1>6, <1>7 DEF e

\* What the image's tracks add.
LEMMA ObservedIs ==
  ASSUME NEW d, NEW S, Tracks(d, S), NEW C, NEW F, NEW seen \in [C -> SUBSET F], NEW t
  PROVE  LET e == Observed(d, seen, t)
         IN  /\ DOMAIN e \subseteq DOMAIN d \cup F
             /\ \A f \in DOMAIN e : DOMAIN e[f] \subseteq C \/ (f \in DOMAIN d /\ DOMAIN e[f] \subseteq C \cup DOMAIN d[f])
             /\ Tracks(e, S \cup {t}) /\ Stamps(d) \subseteq Stamps(e)
<1> DEFINE Seers(f) == {c \in DOMAIN seen : f \in seen[c]}
           Known(f) == IF f \in DOMAIN d THEN DOMAIN d[f] ELSE {}
           Old(f, c) == IF c \in Known(f) THEN d[f][c] ELSE <<>>
           e == Observed(d, seen, t)
<1>1. /\ DOMAIN e = DOMAIN d \cup UNION Range(seen)
      /\ \A f \in DOMAIN e : e[f] = [c \in Known(f) \cup Seers(f) |->
                                      IF c \in Seers(f) THEN Append(Old(f, c), t) ELSE Old(f, c)]
  BY DEF Observed
<1>2. UNION Range(seen) \subseteq F
  BY DEF Range
<1>3. ASSUME NEW f, NEW c
      PROVE  /\ Old(f, c) \in Seq(S \cup {t}) /\ Append(Old(f, c), t) \in Seq(S \cup {t})
             /\ ToSet(Old(f, c)) \subseteq ToSet(Append(Old(f, c), t))
  <2>1. Tracks(d, S \cup {t})
    BY TracksOfMore
  <2>2. Old(f, c) \in Seq(S \cup {t})
    BY <2>1 DEF Tracks
  <2> DEFINE q == Old(f, c)
             T == S \cup {t}
  <2>3. q \in Seq(T) /\ t \in T
    BY <2>2
  <2> HIDE DEF q, T
  <2>4. /\ Append(q, t) \in Seq(T) /\ DOMAIN q = 1..Len(q) /\ Len(q) \in Nat
        /\ DOMAIN Append(q, t) = 1..(Len(q) + 1) /\ \A i \in 1..Len(q) : Append(q, t)[i] = q[i]
    BY <2>3
  <2>5. ToSet(q) \subseteq ToSet(Append(q, t))
    <3>1. \A i \in 1..Len(q) : i \in 1..(Len(q) + 1)
      BY <2>4
    <3> QED BY <2>4, <3>1 DEF ToSet
  <2> QED BY <2>3, <2>4, <2>5 DEF q, T
<1>4. \A f \in DOMAIN e : Known(f) \subseteq DOMAIN e[f]
        /\ \A c \in DOMAIN e[f] : e[f][c] \in Seq(S \cup {t}) /\ ToSet(Old(f, c)) \subseteq ToSet(e[f][c])
  <2> SUFFICES ASSUME NEW f \in DOMAIN e
               PROVE  /\ Known(f) \subseteq DOMAIN e[f]
                      /\ \A c \in DOMAIN e[f] : /\ e[f][c] \in Seq(S \cup {t})
                                               /\ ToSet(Old(f, c)) \subseteq ToSet(e[f][c])
    OBVIOUS
  <2> DEFINE g == e[f]
             T == Seq(S \cup {t})
  <2>1. g = [c \in Known(f) \cup Seers(f) |-> IF c \in Seers(f) THEN Append(Old(f, c), t) ELSE Old(f, c)]
    BY <1>1
  <2>2. \A c : Old(f, c) \in T /\ Append(Old(f, c), t) \in T
                /\ ToSet(Old(f, c)) \subseteq ToSet(Append(Old(f, c), t))
    BY <1>3
  <2> HIDE DEF Known, Seers, Old, g, T
  <2>3. Known(f) \subseteq DOMAIN g
        /\ \A c \in DOMAIN g : g[c] \in T /\ ToSet(Old(f, c)) \subseteq ToSet(g[c])
    BY <2>1, <2>2
  <2> QED BY <2>3 DEF g, T
<1>5. Tracks(e, S \cup {t})
  <2> HIDE DEF e
  <2> QED BY <1>4 DEF Tracks
<1>6. Stamps(d) \subseteq Stamps(e)
  <2> SUFFICES ASSUME NEW u \in Stamps(d) PROVE u \in Stamps(e)
    OBVIOUS
  <2>1. PICK f \in DOMAIN d : u \in UNION {ToSet(d[f][c]) : c \in DOMAIN d[f]}
    BY DEF Stamps
  <2>2. PICK c \in DOMAIN d[f] : u \in ToSet(d[f][c])
    BY <2>1
  <2>3. f \in DOMAIN e /\ c \in Known(f) /\ Old(f, c) = d[f][c]
    BY <1>1
  <2> HIDE DEF e, Known, Old
  <2>4. c \in DOMAIN e[f] /\ u \in ToSet(e[f][c])
    BY <1>4, <2>2, <2>3
  <2> QED BY <2>3, <2>4 DEF Stamps
<1>7. \A f \in DOMAIN e : Seers(f) \subseteq C /\ DOMAIN e[f] = Known(f) \cup Seers(f)
  <2> HIDE DEF e
  <2> QED BY <1>1
<1>8. \A f \in DOMAIN e : DOMAIN e[f] \subseteq C \/ (f \in DOMAIN d /\ DOMAIN e[f] \subseteq C \cup DOMAIN d[f])
  <2> HIDE DEF e, Seers
  <2> QED BY <1>7
<1>9. DOMAIN e \subseteq DOMAIN d \cup F
  BY <1>1, <1>2
<1> QED BY <1>5, <1>6, <1>8, <1>9

\* The newest of them.
LEMMA NewestIs ==
  ASSUME NEW d, NEW b \in Nat, Tracks(d, 0..b)
  PROVE  /\ NewestCamTime(d) \in {-1} \cup Stamps(d) /\ NewestCamTime(d) \in Int
         /\ \A m \in Stamps(d) : m <= NewestCamTime(d) /\ m \in Nat
<1> DEFINE T == Stamps(d)
           all == {-1} \cup T
<1>1. T \in SUBSET (0..b)
  BY StampsTyped
<1> HIDE DEF T
<1>2. \E m \in all : m \in Int /\ \A y \in all : m >= y
  <2>1. CASE T = {}
    BY <2>1
  <2>2. CASE T # {}
    <3>1. Max(T) \in T /\ \A y \in T : y <= Max(T)
      BY <1>1, <2>2, MaxOfBounded
    <3> DEFINE m == Max(T)
    <3> HIDE DEF m
    <3>2. m \in T /\ \A y \in T : y <= m
      BY <3>1 DEF m
    <3>3. \A y \in T : y \in Nat
      BY <1>1
    <3>4. m \in T /\ m \in Int /\ m >= 0 /\ \A y \in T : m >= y /\ y \in Int
      BY <3>2, <3>3
    <3>5. \A y \in all : m >= y
      BY <3>4
    <3> QED BY <3>4, <3>5
  <2> QED BY <2>1, <2>2
<1>3. Max(all) \in all /\ \A y \in all : Max(all) >= y
  BY <1>2 DEF Max
<1>4. \A y \in all : y \in Int
  BY <1>1
<1>5. NewestCamTime(d) = Max(all)
  BY DEF NewestCamTime, T
<1> DEFINE n == NewestCamTime(d)
<1>6. \A m \in T : m \in Nat /\ m \in all
  BY <1>1
<1> HIDE DEF all, n
<1>7. n \in all /\ n \in Int /\ \A m \in T : n >= m /\ m \in Nat
  BY <1>3, <1>4, <1>5, <1>6 DEF n
<1>8. \A m \in T : m <= n /\ m \in Nat
  BY <1>7
<1> QED BY <1>7, <1>8 DEF T, n, all

-----------------------------------------------------------------------------
(***************************************************************************)
(* Readings without a gap.                                                 *)
(***************************************************************************)
Gapless(imu, a, b) == a \in Nat /\ b \in Nat /\ a <= b /\ imu = [i \in 1..(b - a + 1) |-> a + i - 1]

LEMMA GaplessIs ==
  ASSUME NEW imu, NEW a, NEW b, Gapless(imu, a, b)
  PROVE  /\ imu \in Seq(Nat) /\ Len(imu) = b - a + 1 /\ imu # <<>>
         /\ \A i \in 1..(b - a + 1) : imu[i] = a + i - 1
         /\ Head(imu) = a /\ Last(imu) = b /\ ToSet(imu) = a..b /\ Ascending(imu)
<1> DEFINE n == b - a + 1
<1>1. /\ n \in Nat /\ 1 <= n /\ a \in Nat /\ b \in Nat /\ imu = [i \in 1..n |-> a + i - 1]
      /\ \A i \in 1..n : a + i - 1 \in Nat /\ a + n - 1 = b
  BY DEF Gapless
<1> HIDE DEF n
<1>2. imu \in Seq(Nat) /\ Len(imu) = n /\ DOMAIN imu = 1..n /\ \A i \in 1..n : imu[i] = a + i - 1
  BY <1>1
<1>3. Head(imu) = a /\ Last(imu) = b /\ imu # <<>>
  BY <1>1, <1>2 DEF Last
<1>4. ToSet(imu) = a..b
  <2>1. ASSUME NEW t \in a..b PROVE t \in ToSet(imu)
    <3>1. t - a + 1 \in 1..n /\ a + (t - a + 1) - 1 = t
      BY <1>1 DEF n
    <3> QED BY <1>2, <3>1 DEF ToSet
  <2>2. ASSUME NEW i \in 1..n PROVE imu[i] \in a..b
    BY <1>1, <1>2 DEF n
  <2> QED BY <1>2, <2>1, <2>2 DEF ToSet
<1>5. Ascending(imu)
  <2>1. \A i, j \in 1..Len(imu) : i < j => <<imu[i], imu[j]>> \in Later
    BY <1>1, <1>2 DEF Later
  <2> QED BY <1>2, <2>1 DEF Ascending, Chained
<1> QED BY <1>2, <1>3, <1>4, <1>5 DEF n

LEMMA GaplessAppend ==
  ASSUME NEW imu, NEW a, NEW b, Gapless(imu, a, b) PROVE Gapless(Append(imu, b + 1), a, b + 1)
<1> DEFINE q == Append(imu, b + 1)
           r == [i \in 1..((b + 1) - a + 1) |-> a + i - 1]
<1>1. /\ imu \in Seq(Nat) /\ Len(imu) = b - a + 1 /\ \A i \in 1..(b - a + 1) : imu[i] = a + i - 1
      /\ a \in Nat /\ b \in Nat /\ a <= b
  BY GaplessIs DEF Gapless
<1>2. Len(q) = b - a + 2 /\ q \in Seq(Nat) /\ q[b - a + 2] = b + 1
      /\ \A i \in 1..(b - a + 1) : q[i] = imu[i]
  BY <1>1
<1> HIDE DEF q
<1>3. q = [i \in 1..(b - a + 2) |-> q[i]]
  BY <1>2
<1>4. \A i \in 1..(b - a + 2) : q[i] = a + i - 1
  <2> SUFFICES ASSUME NEW i \in 1..(b - a + 2) PROVE q[i] = a + i - 1
    OBVIOUS
  <2>1. CASE i = b - a + 2
    <3>1. q[i] = b + 1 /\ a + i - 1 = b + 1
      BY <1>1, <1>2, <2>1
    <3> QED BY <3>1
  <2>2. CASE i # b - a + 2
    <3>1. i \in 1..(b - a + 1)
      BY <1>1, <2>2
    <3> QED BY <1>1, <1>2, <3>1
  <2> QED BY <2>1, <2>2
<1>5. (b + 1) - a + 1 = b - a + 2
  BY <1>1
<1>6. q = r
  BY <1>3, <1>4, <1>5
<1> QED BY <1>1, <1>6 DEF Gapless, q

LEMMA GaplessKept ==
  ASSUME NEW imu, NEW a, NEW b, Gapless(imu, a, b), NEW S, NEW x \in Int, x <= b,
         \A t \in Nat : t \in S <=> t >= x
  PROVE  Gapless(Kept(imu, S), IF x <= a THEN a ELSE x, b)
<1> DEFINE h == IF x <= a THEN a ELSE x
           lo == h - a
           hi == b - a + 1
<1>1. /\ imu \in Seq(Nat) /\ Len(imu) = hi /\ \A i \in 1..hi : imu[i] = a + i - 1
      /\ a \in Nat /\ b \in Nat /\ a <= b
  BY GaplessIs DEF Gapless
<1>2. lo \in Nat /\ hi \in Nat /\ lo <= hi /\ h \in Nat /\ h <= b /\ hi - lo = b - h + 1
  BY <1>1
<1>3. \A i \in 1..hi : imu[i] \in S <=> lo < i /\ i <= hi
  <2> SUFFICES ASSUME NEW i \in 1..hi PROVE imu[i] \in S <=> lo < i
    BY <1>2
  <2>1. imu[i] = a + i - 1 /\ imu[i] \in Nat
    BY <1>1
  <2>2. imu[i] \in S <=> a + i - 1 >= x
    BY <2>1
  <2> QED BY <1>1, <2>2
<1>4. Kept(imu, S) = Stretch(imu, lo, hi)
  <2> HIDE DEF lo, hi
  <2> QED BY <1>1, <1>2, <1>3, KeptStretch
<1>5. \A k \in 1..(hi - lo) : imu[lo + k] = h + k - 1
  <2> SUFFICES ASSUME NEW k \in 1..(hi - lo) PROVE imu[lo + k] = h + k - 1
    OBVIOUS
  <2>1. lo + k \in 1..hi
    BY <1>2
  <2>2. imu[lo + k] = a + (lo + k) - 1
    BY <1>1, <2>1
  <2> QED BY <1>1, <1>2, <2>2
<1> HIDE DEF lo, hi
<1>6. Stretch(imu, lo, hi) = [k \in 1..(b - h + 1) |-> h + k - 1]
  BY <1>2, <1>5 DEF Stretch
<1>7. Gapless(Kept(imu, S), h, b)
  BY <1>1, <1>2, <1>4, <1>6 DEF Gapless
<1> QED BY <1>7

\* A period inside: all its readings are selected.
LEMMA GaplessReadings ==
  ASSUME NEW imu, NEW a, NEW b, Gapless(imu, a, b), NEW t0 \in Int, NEW t1 \in Int,
         a <= t0, t0 < t1, t1 < b
  PROVE  LET data == select_within(imu, t0, t1)
         IN  Len(data) = t1 - t0 + 1 /\ TimeCovered(data) = t1 - t0
<1> DEFINE lo == t0 - a + 1
           hi == t1 - a
           d == Picked(imu, lo, hi, t0, t1)
           W == t1 - t0 + 1
<1>1. /\ Ascending(imu) /\ Len(imu) = b - a + 1 /\ a \in Nat /\ b \in Nat
      /\ \A i \in 1..(b - a + 1) : imu[i] = a + i - 1
  BY GaplessIs DEF Gapless
<1>2. Brackets(imu, lo, hi, t0, t1) /\ hi # Len(imu) - 1
  <2>1. /\ lo \in 1..(b - a) /\ hi \in 1..(b - a) /\ hi # b - a /\ lo \in 1..(b - a + 1)
        /\ hi \in 1..(b - a + 1) /\ lo + 1 \in 1..(b - a + 1) /\ hi + 1 \in 1..(b - a + 1)
        /\ (b - a + 1) - 1 = b - a
    BY <1>1
  <2>2. imu[lo] = t0 /\ imu[lo + 1] = t0 + 1 /\ imu[hi] = t1 - 1 /\ imu[hi + 1] = t1
    <3>1. imu[lo] = a + lo - 1 /\ imu[lo + 1] = a + (lo + 1) - 1 /\ imu[hi] = a + hi - 1
          /\ imu[hi + 1] = a + (hi + 1) - 1
      BY <1>1, <2>1
    <3> QED BY <1>1, <3>1
  <2> HIDE DEF lo, hi
  <2> QED BY <1>1, <2>1, <2>2 DEF Brackets
<1>3. hi - lo + 2 = W /\ hi - lo + 1 = W - 1 /\ W \in Nat /\ 2 <= W
  BY <1>1
<1> HIDE DEF lo, hi
<1>4. select_within(imu, t0, t1) = d /\ d \in [1..W -> Reading]
      /\ d[1].timestamp = t0 /\ d[W].timestamp = t1
  <2>1. d \in [1..(hi - lo + 2) -> Reading] /\ d[1].timestamp = t0 /\ d[hi - lo + 2].timestamp = t1
    BY <1>1, <1>2, PickedTyped, PickedAscends
  <2>2. select_within(imu, t0, t1) = d
    BY <1>1, <1>2, SelectWithinIs
  <2> HIDE DEF d
  <2> QED BY <1>3, <2>1, <2>2
<1> HIDE DEF d
<1>5. Len(d) = W /\ ~(Len(d) < 2) /\ Head(d) = d[1] /\ Last(d) = d[W]
  BY <1>3, <1>4 DEF Last
<1>6. TimeCovered(d) = t1 - t0
  BY <1>4, <1>5 DEF TimeCovered
<1> QED BY <1>4, <1>5, <1>6

LEMMA TwoOf == ASSUME NEW T, NEW s \in Seq(T), NEW x \in ToSet(s), NEW y \in ToSet(s), x # y PROVE Len(s) >= 2
<1>1. PICK i \in DOMAIN s : x = s[i]
  BY DEF ToSet
<1>2. PICK j \in DOMAIN s : y = s[j]
  BY DEF ToSet
<1>3. Len(s) \in Nat /\ i \in 1..Len(s) /\ j \in 1..Len(s) /\ i # j
  BY <1>1, <1>2
<1> QED BY <1>3

\* Both halves of a window of 4 have two.
LEMMA GaplessWindow ==
  ASSUME NEW imu, NEW a, NEW b, Gapless(imu, a, b), NEW window \in Nat, 4 <= window, window <= b - a
  PROVE  HasWindow(imu, window)
<1>1. /\ imu \in Seq(Nat) /\ Len(imu) = b - a + 1 /\ Head(imu) = a /\ Last(imu) = b
      /\ ToSet(imu) = a..b /\ a \in Nat /\ b \in Nat
  BY GaplessIs DEF Gapless
<1>2. ASSUME NEW halves \in {0, 1}, NEW k \in Nat, halves * window <= 2 * k,
             2 * (k + 1) < (halves + 1) * window
      PROVE  Len(Half(imu, window, halves)) >= 2
  <2> DEFINE S == {t \in Nat : LET age == 2 * (Last(imu) - t)
                               IN  halves * window <= age /\ age < (halves + 1) * window}
             z == Kept(imu, S)
  <2>1. k + 1 < window
    BY <1>2
  <2>2. b - k \in a..b /\ b - (k + 1) \in a..b /\ b - k # b - (k + 1)
        /\ b - k \in Nat /\ b - (k + 1) \in Nat
    BY <1>1, <2>1
  <2>3. b - k \in S /\ b - (k + 1) \in S
    BY <1>1, <1>2, <2>2
  <2>4. z \in Seq(Nat) /\ \A t : t \in ToSet(z) <=> t \in ToSet(imu) /\ t \in S
    <3> HIDE DEF S
    <3> QED BY <1>1, KeptIs
  <2>5. Half(imu, window, halves) = z
    BY DEF Half
  <2> HIDE DEF z, S
  <2> QED BY <1>1, <2>2, <2>3, <2>4, <2>5, TwoOf
<1>3. Len(window_1to0(imu, window)) >= 2
  <2>1. Len(Half(imu, window, 0)) >= 2
    BY <1>2
  <2> QED BY <2>1 DEF window_1to0
<1>4. Len(window_2to1(imu, window)) >= 2
  <2>1. PICK k \in Nat : window <= 2 * k /\ 2 * k <= window + 1
    <3>1. PICK k \in Nat : window = 2 * k \/ window + 1 = 2 * k
      <4>1. (window + 1) \div 2 \in Nat
            /\ (window = 2 * ((window + 1) \div 2) \/ window + 1 = 2 * ((window + 1) \div 2))
        OBVIOUS
      <4> QED BY <4>1
    <3> QED BY <3>1
  <2>2. Len(Half(imu, window, 1)) >= 2
    BY <1>2, <2>1
  <2> QED BY <2>2 DEF window_2to1
<1>5. Len(imu) >= 2 /\ Last(imu) - Head(imu) >= window
  BY <1>1
<1> QED BY <1>3, <1>4, <1>5 DEF HasWindow

-----------------------------------------------------------------------------
(***************************************************************************)
(* The readings between the poses.                                         *)
(***************************************************************************)
LEMMA ParametersTyped ==
  /\ init_window_time \in Nat /\ init_dyn_num_pose \in Nat /\ calib_camimu_dt \in Int
  /\ MaxUncovered \in Nat /\ Reserve \in Nat /\ MaxDelay \in Nat /\ FirstReading \in Nat
  /\ calib_camimu_dt <= FirstReading /\ calib_camimu_dt <= init_window_time
BY DynamicAssumption, InitializerAssumption

\* Readings are dense in the window: either half of it has two, and so has the period that
\* keeps poses apart; a pose beside the newest is wanted.
WindowOfReadings ==
  4 <= init_window_time /\ init_dyn_num_pose + 1 < init_window_time /\ 2 <= init_dyn_num_pose

\* The stamps of a window that ends with this image.
InWindow(new) == {t \in Nat : t = new \/ (t < new /\ new - init_window_time < t)}

LEMMA PeriodIs ==
  ASSUME NEW imu, NEW b, NEW new \in Nat,
         Gapless(imu, new - init_window_time + calib_camimu_dt, b), new + calib_camimu_dt < b,
         NEW t0 \in InWindow(new), NEW t1 \in InWindow(new), t0 < t1
  PROVE  Len(Readings(imu, t0, t1)) = t1 - t0 + 1 /\ Preintegrable(imu, t0, t1)
<1> DEFINE a == new - init_window_time + calib_camimu_dt
           r == Readings(imu, t0, t1)
<1>1. t0 \in Nat /\ t1 \in Nat /\ new - init_window_time < t0 /\ t1 <= new /\ b \in Nat
      /\ calib_camimu_dt \in Int /\ MaxUncovered \in Nat
  BY ParametersTyped DEF InWindow, Gapless
<1> DEFINE u0 == t0 + calib_camimu_dt
           u1 == t1 + calib_camimu_dt
<1>2. /\ u0 \in Int /\ u1 \in Int /\ a <= u0 /\ u0 < u1 /\ u1 < b /\ u1 - u0 = t1 - t0
  BY <1>1, ParametersTyped
<1>3. Gapless(imu, a, b) /\ r = select_within(imu, u0, u1)
  BY DEF Readings
<1> HIDE DEF a, r, u0, u1
<1>4. Len(r) = t1 - t0 + 1 /\ TimeCovered(r) = t1 - t0
  BY <1>2, <1>3, GaplessReadings
<1>5. Len(r) >= 2 /\ Abs(TimeCovered(r) - (t1 - t0)) <= MaxUncovered
  BY <1>1, <1>4 DEF Abs
<1> QED BY <1>4, <1>5 DEF Preintegrable, r

\* With older readings cut off at the window, what the assertions ask for is there.
LEMMA AssertionsHold ==
  ASSUME WindowOfReadings, NEW imu, NEW b, NEW new \in Nat,
         Gapless(imu, new - init_window_time + calib_camimu_dt, b), new + calib_camimu_dt < b,
         NEW d, NEW cams, NEW s, SelectionOf(s, d, InWindow(new), new, cams)
  PROVE  Progress(d, new, imu, TRUE, s) \notin {"no readings", "assertion", "not preintegrated"}
<1>1. /\ s.poses \subseteq InWindow(new) /\ new \in s.poses /\ Apart(s.poses)
      /\ s.oldest \in s.poses /\ \A p \in s.poses : s.oldest <= p
  BY DEF SelectionOf, Selection
<1>2. \A p \in InWindow(new) : p \in Nat /\ p <= new
  BY DEF InWindow
<1>3. Len(imu) >= 2
  <2>1. Len(imu) = b - (new - init_window_time + calib_camimu_dt) + 1
    BY GaplessIs
  <2> QED BY <2>1, ParametersTyped DEF WindowOfReadings, Gapless
<1>4. ASSUME ~(Cardinality(s.poses) < init_dyn_num_pose)
      PROVE  ~(Len(Readings(imu, s.oldest, new)) <= 2) /\ ~(s.oldest >= new) /\ AllPreintegrable(imu, s)
  <2>1. s.oldest \in Nat /\ s.oldest <= new
    BY <1>1, <1>2
  <2>2. s.oldest # new
    <3> SUFFICES ASSUME s.oldest = new PROVE FALSE
      OBVIOUS
    <3>1. \A p \in s.poses : p = new
      BY <1>1, <1>2
    <3>2. s.poses = {new}
      BY <1>1, <3>1
    <3>3. Cardinality(s.poses) = 1
      BY <3>2, FS_Singleton
    <3> QED BY <1>4, <3>3, ParametersTyped DEF WindowOfReadings
  <2>3. IsApart(s.oldest, new)
    BY <1>1, <2>2 DEF Apart
  <2>4. new - s.oldest >= 2
    <3> DEFINE o == s.oldest
               n == init_dyn_num_pose + 1
    <3>1. o \in Nat /\ o < new /\ Abs(o - new) * n >= init_window_time
      BY <2>1, <2>2, <2>3 DEF IsApart
    <3>2. n \in Nat /\ n < init_window_time /\ init_window_time \in Nat
      BY ParametersTyped DEF WindowOfReadings
    <3>3. Abs(o - new) = new - o
      BY <3>1 DEF Abs
    <3>4. new - o # 1
      <4> SUFFICES ASSUME new - o = 1 PROVE FALSE
        OBVIOUS
      <4>1. Abs(o - new) * n = n
        BY <3>2, <3>3
      <4> QED BY <3>1, <3>2, <4>1
    <3> HIDE DEF o
    <3>5. new - o >= 2
      BY <3>1, <3>4
    <3> QED BY <3>5 DEF o
  <2>5. ASSUME NEW t0 \in s.poses, NEW t1 \in s.poses, t0 < t1
        PROVE  Len(Readings(imu, t0, t1)) = t1 - t0 + 1 /\ Preintegrable(imu, t0, t1)
    <3>1. t0 \in InWindow(new) /\ t1 \in InWindow(new)
      BY <1>1
    <3> QED BY <2>5, <3>1, PeriodIs
  <2>6. Len(Readings(imu, s.oldest, new)) = new - s.oldest + 1
    BY <1>1, <2>1, <2>2, <2>5
  <2>7. ASSUME NEW t \in s.poses \ {s.oldest}
        PROVE  Preintegrable(imu, s.oldest, t) /\ Preintegrable(imu, Max({p \in s.poses : p < t}), t)
    <3> DEFINE E == {p \in s.poses : p < t}
    <3>1. s.oldest < t /\ s.oldest \in E
      BY <1>1, <1>2, <2>1, <2>7
    <3>2. E \in SUBSET (0..new)
      BY <1>1, <1>2
    <3>3. Max(E) \in E
      BY <3>1, <3>2, MaxOfBounded
    <3>4. Max(E) \in s.poses /\ Max(E) < t
      BY <3>3
    <3> QED BY <1>1, <2>5, <2>7, <3>1, <3>4
  <2>8. AllPreintegrable(imu, s)
    BY <2>7 DEF AllPreintegrable
  <2>9. ~(new - s.oldest + 1 <= 2) /\ ~(s.oldest >= new)
    BY <2>1, <2>4
  <2> QED BY <2>6, <2>8, <2>9
<1>5. ~(Len(imu) < 2)
  <2>1. Len(imu) \in Nat
    BY GaplessIs
  <2> QED BY <1>3, <2>1
<1> QED BY <1>4, <1>5 DEF Progress

-----------------------------------------------------------------------------
(***************************************************************************)
(* The invariant: what one image and one reading do.                       *)
(***************************************************************************)

\* A database of what the cameras can see, before reading b.
Database(d, b) ==
  /\ DOMAIN d \subseteq UNION Range(view) /\ \A f \in DOMAIN d : DOMAIN d[f] \subseteq Cams
  /\ Tracks(d, {t \in Nat : t + calib_camimu_dt < b})

LookingInv ==
  /\ view \in Views
  /\ Database(db, Last(imu_data))
  /\ Gapless(imu_data, Head(imu_data), Last(imu_data))
  /\ last \in [Cams -> Int] /\ \A c \in Cams : last[c] >= FirstReading - calib_camimu_dt - 1

\* The later one.
AtLeast(a, x) == IF x <= a THEN a ELSE x

LEMMA RecentIs ==
  ASSUME NEW imu, NEW a, NEW b, Gapless(imu, a, b), NEW t \in Int, t + calib_camimu_dt <= b
  PROVE  Gapless(Recent(imu, t), AtLeast(a, t + calib_camimu_dt), b)
<1> DEFINE x == t + calib_camimu_dt
           S == {u \in Nat : u >= t + calib_camimu_dt}
<1>1. x \in Int /\ x <= b /\ \A u \in Nat : u \in S <=> u >= x
  BY ParametersTyped
<1>2. Recent(imu, t) = Kept(imu, S)
  BY DEF Recent
<1> HIDE DEF x, S
<1>3. Gapless(Kept(imu, S), IF x <= a THEN a ELSE x, b)
  BY <1>1, GaplessKept
<1> QED BY <1>2, <1>3 DEF AtLeast, x

LEMMA FiniteDatabase ==
  ASSUME view \in Views, NEW d, NEW b, Database(d, b)
  PROVE  /\ IsFiniteSet(DOMAIN d) /\ IsFiniteSet(Cams) /\ \A f \in DOMAIN d : IsFiniteSet(DOMAIN d[f])
<1>1. IsFiniteSet(Cams) /\ IsFiniteSet(UNION Range(view))
  BY InitializerAssumption DEF Cams
<1> QED BY <1>1, FS_Subset DEF Database

LEMMA NewestOfDatabase ==
  ASSUME NEW d, NEW b \in Nat, Database(d, b)
  PROVE  LET new == NewestCamTime(d)
         IN  /\ new \in Int /\ (new < 0 \/ (new \in Nat /\ new \in Stamps(d) /\ new + calib_camimu_dt < b))
             /\ \A m \in Stamps(d) : m \in Nat /\ m <= new /\ m + calib_camimu_dt < b
<1> DEFINE new == NewestCamTime(d)
           S == {t \in Nat : t + calib_camimu_dt < b}
           top == IF calib_camimu_dt >= 0 THEN b ELSE b - calib_camimu_dt
<1>1. top \in Nat /\ S \subseteq 0..top
  BY ParametersTyped
<1>2. Tracks(d, S)
  BY DEF Database
<1> HIDE DEF S, top
<1>3. Tracks(d, 0..top) /\ Stamps(d) \subseteq S
  BY <1>1, <1>2, TracksOfMore, StampsTyped
<1>4. /\ new \in {-1} \cup Stamps(d) /\ new \in Int
      /\ \A m \in Stamps(d) : m <= new /\ m \in Nat
  BY <1>1, <1>3, NewestIs
<1>5. \A m \in Stamps(d) : m \in Nat /\ m + calib_camimu_dt < b
  BY <1>3, <1>4 DEF S
<1> QED BY <1>4, <1>5

LEMMA CleanupKeeps ==
  ASSUME view \in Views, NEW d, NEW b \in Nat, Database(d, b), NEW stamp \in Int
  PROVE  /\ Database(CleanupMeasurements(d, stamp), b)
         /\ Stamps(CleanupMeasurements(d, stamp)) = Stamps(d) \ 0..stamp
<1> DEFINE S == {t \in Nat : t + calib_camimu_dt < b}
           e == CleanupMeasurements(d, stamp)
<1>1. S \in SUBSET Nat /\ Tracks(d, S) /\ \A f \in DOMAIN d : IsFiniteSet(DOMAIN d[f])
  BY FiniteDatabase DEF Database
<1> HIDE DEF S, e
<1>2. /\ DOMAIN e \subseteq DOMAIN d /\ \A f \in DOMAIN e : DOMAIN e[f] = DOMAIN d[f]
      /\ Tracks(e, S) /\ Stamps(e) = Stamps(d) \ 0..stamp
  BY <1>1, CleanupIs DEF e
<1> QED BY <1>2 DEF Database, S, e

\* The dynamic initializer prunes both to the window, and chooses poses in it.
LEMMA WindowTracks ==
  ASSUME view \in Views, NEW d, NEW b \in Nat, Database(d, b), NEW old \in Int,
         NEW new \in Nat, new = NewestCamTime(d)
  PROVE  LET e == CleanupMeasurements(CleanupMeasurements(d, old), new - init_window_time)
         IN  Database(e, b) /\ Tracks(e, InWindow(new))
<1> DEFINE d1 == CleanupMeasurements(d, old)
           e == CleanupMeasurements(d1, new - init_window_time)
<1>1. Database(d1, b) /\ Stamps(d1) \subseteq Stamps(d)
  BY CleanupKeeps
<1> HIDE DEF d1
<1>2. Database(e, b) /\ Stamps(e) = Stamps(d1) \ 0..(new - init_window_time)
  BY <1>1, CleanupKeeps, ParametersTyped
<1> HIDE DEF e
<1>3. Stamps(e) \subseteq InWindow(new)
  <2> SUFFICES ASSUME NEW t \in Stamps(e) PROVE t \in InWindow(new)
    OBVIOUS
  <2>1. t \in Nat /\ t <= new
    BY <1>1, <1>2, NewestOfDatabase
  <2>2. ~(t \in 0..(new - init_window_time))
    BY <1>2
  <2> QED BY <2>1, <2>2, ParametersTyped DEF InWindow
<1>4. Tracks(e, Stamps(e))
  BY <1>2, StampsTyped DEF Database
<1>5. Tracks(e, InWindow(new))
  BY <1>3, <1>4, TracksOfMore
<1> QED BY <1>2, <1>5 DEF e, d1

LEMMA DynamicMethod == ASSUME NEW d, NEW imu, NEW new, NEW a \in Dynamic(d, imu, new) PROVE a.method = "dynamic"
<1> DEFINE kept == Recent(imu, new - init_window_time)
<1>1. PICK feats \in SetToSeqs(DOMAIN d), cams \in [DOMAIN d -> SetToSeqs(Cams)] :
        a \in Outcomes(d, new, kept, kept # imu, feats, cams)
  BY DEF Dynamic
<1>2. PICK s, end : a = WithPoses(d, new, s, feats, cams, end)
  BY <1>1 DEF Outcomes
<1> QED BY <1>2 DEF WithPoses, Tried

\* What initialize does, by how far it gets.
LEMMA InitializeIs ==
  ASSUME NEW d, Initialize(d)
  PROVE  LET new == NewestCamTime(d)
             old == OldestTime(new)
             far == CleanupMeasurements(d, old)
             near == CleanupMeasurements(far, new - init_window_time)
             kept == Recent(imu_data, old)
         IN  \/ /\ db' = d /\ imu_data' = imu_data /\ attempt' = Tried("none", "no window")
             \/ /\ ~(new < 0) /\ db' = far /\ imu_data' = kept
                /\ \/ \E k \in {"few disparities", "moving"} : attempt' = Tried("none", k)
                   \/ attempt' \in Static(kept, new)
             \/ /\ ~(new < 0) /\ db' = CleanupMeasurements(d, new - init_window_time)
                /\ imu_data' = Recent(kept, new - init_window_time)
                /\ attempt' \in Dynamic(near, kept, new)
<1> DEFINE new == NewestCamTime(d)
           old == OldestTime(new)
           far == CleanupMeasurements(d, old)
           near == CleanupMeasurements(far, new - init_window_time)
           kept == Recent(imu_data, old)
<1>1. CASE new < 0 \/ old < 0
  BY <1>1 DEF Initialize
<1>2. CASE ~(new < 0 \/ old < 0)
  <2>1. PICK before, moved \in IF init_disparity THEN BOOLEAN ELSE {FALSE} :
          /\ attempt' \in Attempts(far, kept, new, before, moved)
          /\ IF attempt'.method = "dynamic"
             THEN /\ db' = CleanupMeasurements(d, new - init_window_time)
                  /\ imu_data' = Recent(kept, new - init_window_time)
             ELSE db' = far /\ imu_data' = kept
    BY <1>2 DEF Initialize
  <2> HIDE DEF new, old, far, kept
  <2>2. \/ \E k \in {"few disparities", "moving"} : attempt' = Tried("none", k)
        \/ attempt' \in Static(kept, new)
        \/ attempt' \in Dynamic(near, kept, new)
    BY <2>1 DEF Attempts
  <2>3. ASSUME NEW k, attempt' = Tried("none", k) PROVE attempt'.method = "none"
    BY <2>3 DEF Tried
  <2>4. ASSUME attempt' \in Static(kept, new) PROVE attempt'.method = "static"
    BY <2>4 DEF Static, Tried
  <2>5. ASSUME attempt' \in Dynamic(near, kept, new) PROVE attempt'.method = "dynamic"
    BY <2>5, DynamicMethod
  <2> HIDE DEF near
  <2>6. \/ /\ ~(new < 0) /\ db' = far /\ imu_data' = kept
           /\ \/ \E k \in {"few disparities", "moving"} : attempt' = Tried("none", k)
              \/ attempt' \in Static(kept, new)
        \/ /\ ~(new < 0) /\ db' = CleanupMeasurements(d, new - init_window_time)
           /\ imu_data' = Recent(kept, new - init_window_time)
           /\ attempt' \in Dynamic(near, kept, new)
    <3>1. CASE attempt'.method = "dynamic"
      BY <1>2, <2>1, <2>2, <2>3, <2>4, <3>1
    <3>2. CASE attempt'.method # "dynamic"
      BY <1>2, <2>1, <2>2, <2>5, <3>2
    <3> QED BY <3>1, <3>2
  <2> QED BY <2>6 DEF new, old, far, near, kept
<1> QED BY <1>1, <1>2

LEMMA StartsLooking == InitializerInit => LookingInv /\ SystemComplete
<1> SUFFICES ASSUME InitializerInit PROVE LookingInv /\ SystemComplete
  OBVIOUS
<1>1. Gapless(imu_data, Head(imu_data), Last(imu_data))
  <2>1. FirstReading \in Nat
    BY ParametersTyped
  <2>2. Head(<<FirstReading>>) = FirstReading /\ Last(<<FirstReading>>) = FirstReading
    BY <2>1 DEF Last
  <2>3. <<FirstReading>> = [i \in 1..(FirstReading - FirstReading + 1) |-> FirstReading + i - 1]
    BY <2>1
  <2> QED BY <2>1, <2>2, <2>3 DEF InitializerInit, Gapless
<1>2. Database(db, Last(imu_data))
  BY DEF InitializerInit, Database, Tracks, EmptyDatabase
<1>3. last \in [Cams -> Int] /\ \A c \in Cams : last[c] >= FirstReading - calib_camimu_dt - 1
  <2>1. FirstReading - calib_camimu_dt - 1 \in Int
    BY ParametersTyped
  <2> QED BY <2>1 DEF InitializerInit
<1>4. SystemComplete
  BY DEF InitializerInit, NotTried, Tried, SystemComplete
<1> QED BY <1>1, <1>2, <1>3, <1>4 DEF InitializerInit, LookingInv

LEMMA LaterDatabase ==
  ASSUME NEW d, NEW b \in Nat, Database(d, b), NEW c \in Nat, b <= c PROVE Database(d, c)
<1> DEFINE S == {t \in Nat : t + calib_camimu_dt < b}
           T == {t \in Nat : t + calib_camimu_dt < c}
<1>1. S \subseteq T
  BY ParametersTyped
<1>2. Tracks(d, S)
  BY DEF Database
<1> HIDE DEF S, T
<1>3. Tracks(d, T)
  BY <1>1, <1>2, TracksOfMore
<1> QED BY <1>3 DEF Database, T

LEMMA FeedReadingIs ==
  ASSUME LookingInv, FeedReading
  PROVE  /\ Gapless(imu_data', AtLeast(Head(imu_data), ReadingsFrom(Last(imu_data) + 1)), Last(imu_data) + 1)
         /\ Head(imu_data') = AtLeast(Head(imu_data), ReadingsFrom(Last(imu_data) + 1))
         /\ Last(imu_data') = Last(imu_data) + 1 /\ Last(imu_data) \in Nat /\ Head(imu_data) \in Nat
<1> DEFINE a == Head(imu_data)
           b == Last(imu_data)
           x == ReadingsFrom(b + 1)
           S == {s \in Nat : s >= x}
           q == Append(imu_data, b + 1)
           h == AtLeast(a, x)
<1>1. Gapless(imu_data, a, b) /\ a \in Nat /\ b \in Nat
  BY DEF LookingInv, Gapless
<1>2. imu_data' = Kept(q, S)
  BY DEF FeedReading
<1>3. x \in Int /\ x <= b + 1
  BY <1>1, ParametersTyped DEF ReadingsFrom
<1>4. \A t \in Nat : t \in S <=> t >= x
  OBVIOUS
<1>5. Gapless(q, a, b + 1)
  BY <1>1, GaplessAppend
<1> HIDE DEF S, q, x, a, b, h
<1>6. Gapless(Kept(q, S), h, b + 1)
  BY <1>3, <1>4, <1>5, GaplessKept DEF AtLeast, h
<1>7. Gapless(imu_data', h, b + 1)
  BY <1>2, <1>6
<1>8. Head(imu_data') = h /\ Last(imu_data') = b + 1
  BY <1>7, GaplessIs
<1> QED BY <1>1, <1>7, <1>8 DEF h, x, a, b

LEMMA FeedReadingKeeps == ASSUME LookingInv, FeedReading PROVE LookingInv' /\ SystemComplete'
<1>1. /\ Last(imu_data)' = Last(imu_data) + 1 /\ Last(imu_data) \in Nat
      /\ Gapless(imu_data, Head(imu_data), Last(imu_data))'
  BY FeedReadingIs
<1>2. Database(db, Last(imu_data) + 1)
  BY <1>1, LaterDatabase DEF LookingInv
<1>3. view' = view /\ db' = db /\ last' = last /\ attempt' = NotTried
  BY DEF FeedReading
<1>4. Database(db, Last(imu_data))'
  BY <1>1, <1>2, <1>3 DEF Database, Cams
<1>5. SystemComplete'
  BY <1>3 DEF NotTried, Tried, SystemComplete
<1>6. view \in Views /\ last \in [Cams -> Int] /\ \A c \in Cams : last[c] >= FirstReading - calib_camimu_dt - 1
  BY DEF LookingInv
<1> QED BY <1>1, <1>3, <1>4, <1>5, <1>6 DEF LookingInv, Cams

\* The database with an image's tracks; of the image that is s old.
LEMMA FeedTracksIs ==
  ASSUME LookingInv, FeedTracks
  PROVE  \E d, s :
           /\ s \in Nat /\ s + calib_camimu_dt < Last(imu_data) /\ Last(imu_data) <= s + calib_camimu_dt + MaxDelay
           /\ Database(d, Last(imu_data)) /\ Initialize(d)
           /\ Stamps(db) \subseteq Stamps(d) /\ Stamps(d) \subseteq Stamps(db) \cup {s}
           /\ view' = view /\ last' \in [Cams -> Int]
           /\ \A c \in Cams : last'[c] >= FirstReading - calib_camimu_dt - 1
<1> DEFINE b == Last(imu_data)
<1>1. PICK C \in (SUBSET Cams) \ {{}}, lag \in 1..MaxDelay :
        LET s == Last(imu_data) - calib_camimu_dt - lag
        IN  /\ \A c \in C : last[c] < s
            /\ last' = [c \in Cams |-> IF c \in C THEN s ELSE last[c]]
            /\ \E seen \in [C -> SUBSET UNION Range(view)] :
                 /\ \A c \in C : seen[c] \subseteq MayTrack(c)
                 /\ Initialize(Observed(db, seen, s))
  BY DEF FeedTracks
<1> DEFINE s == b - calib_camimu_dt - lag
<1>2. PICK seen \in [C -> SUBSET UNION Range(view)] : Initialize(Observed(db, seen, s))
  BY <1>1
<1> DEFINE d == Observed(db, seen, s)
<1>3. b \in Nat /\ Database(db, b) /\ last \in [Cams -> Int]
      /\ \A c \in Cams : last[c] >= FirstReading - calib_camimu_dt - 1
  BY DEF LookingInv, Gapless
<1>4. /\ s \in Nat /\ s + calib_camimu_dt < b /\ b <= s + calib_camimu_dt + MaxDelay
      /\ s >= FirstReading - calib_camimu_dt - 1
  <2>1. PICK c : c \in C
    BY <1>1
  <2>2. last[c] < s /\ last[c] \in Int /\ last[c] >= FirstReading - calib_camimu_dt - 1 /\ s \in Int
    BY <1>1, <1>3, <2>1, ParametersTyped
  <2> QED BY <1>3, <2>2, ParametersTyped
<1> DEFINE S == {t \in Nat : t + calib_camimu_dt < b}
           F == UNION Range(view)
<1>5. S \cup {s} = S /\ Tracks(db, S) /\ C \subseteq Cams
  BY <1>3, <1>4 DEF Database
<1>6. /\ DOMAIN d \subseteq DOMAIN db \cup F
      /\ \A f \in DOMAIN d : DOMAIN d[f] \subseteq C \/ (f \in DOMAIN db /\ DOMAIN d[f] \subseteq C \cup DOMAIN db[f])
      /\ Tracks(d, S \cup {s}) /\ Stamps(db) \subseteq Stamps(d)
  <2> HIDE DEF S, s
  <2> QED BY <1>5, ObservedIs
<1>7. Stamps(d) \subseteq Stamps(db) \cup {s}
  <2>1. Tracks(db, Stamps(db))
    BY <1>5, StampsTyped
  <2> HIDE DEF S, s, b
  <2>2. Tracks(d, Stamps(db) \cup {s})
    BY <2>1, ObservedIs
  <2> HIDE DEF d
  <2> QED BY <2>2, StampsTyped
<1>8. Database(d, b)
  <2>1. Tracks(d, S)
    BY <1>5, <1>6
  <2> HIDE DEF d, s, b
  <2>2. DOMAIN d \subseteq F /\ \A f \in DOMAIN d : DOMAIN d[f] \subseteq Cams
    BY <1>3, <1>5, <1>6 DEF Database
  <2> QED BY <2>1, <2>2 DEF Database
<1>9. last' \in [Cams -> Int] /\ \A c \in Cams : last'[c] >= FirstReading - calib_camimu_dt - 1
  <2>1. last' = [c \in Cams |-> IF c \in C THEN s ELSE last[c]]
    BY <1>1
  <2> HIDE DEF s
  <2> QED BY <1>3, <1>4, <2>1
<1>10. view' = view
  BY DEF FeedTracks
<1> HIDE DEF d, s
<1>11. Initialize(d)
  BY <1>2 DEF d
<1> QED BY <1>4, <1>6, <1>7, <1>8, <1>9, <1>10, <1>11

\* The newest image stays, and the readings from head on.
Pruned(d, head) ==
  /\ NewestCamTime(d) \in Nat /\ NewestCamTime(d) \in Stamps(d)
  /\ NewestCamTime(d) + calib_camimu_dt < Last(imu_data)
  /\ Database(db', Last(imu_data)) /\ Gapless(imu_data', head, Last(imu_data))
  /\ init_window_time > 0 => NewestCamTime(d) \in Stamps(db')

HeadOf(d) == AtLeast(Head(imu_data), OldestTime(NewestCamTime(d)) + calib_camimu_dt)

HeadOfWindow(d) == AtLeast(HeadOf(d), NewestCamTime(d) - init_window_time + calib_camimu_dt)

LEMMA InitializePrunes ==
  ASSUME LookingInv, NEW d, Database(d, Last(imu_data)), Initialize(d)
  PROVE  LET new == NewestCamTime(d)
             old == OldestTime(new)
             near == CleanupMeasurements(CleanupMeasurements(d, old), new - init_window_time)
             kept == Recent(imu_data, old)
         IN  \/ /\ db' = d /\ imu_data' = imu_data /\ attempt' = Tried("none", "no window")
             \/ /\ Pruned(d, HeadOf(d))
                /\ \/ \E k \in {"few disparities", "moving"} : attempt' = Tried("none", k)
                   \/ attempt' \in Static(imu_data', new)
             \/ /\ Pruned(d, HeadOfWindow(d)) /\ imu_data' = Recent(kept, new - init_window_time)
                /\ Gapless(kept, HeadOf(d), Last(imu_data))
                /\ Tracks(near, InWindow(new)) /\ IsFiniteSet(DOMAIN near) /\ IsFiniteSet(Cams)
                /\ attempt' \in Dynamic(near, kept, new)
<1> DEFINE a == Head(imu_data)
           b == Last(imu_data)
           new == NewestCamTime(d)
           old == OldestTime(new)
           far == CleanupMeasurements(d, old)
           near == CleanupMeasurements(far, new - init_window_time)
           kept == Recent(imu_data, old)
<1>1. view \in Views /\ Gapless(imu_data, a, b) /\ b \in Nat
  BY DEF LookingInv, Gapless
<1>2. /\ new \in Int /\ (new < 0 \/ (new \in Nat /\ new \in Stamps(d) /\ new + calib_camimu_dt < b))
  BY <1>1, NewestOfDatabase
<1>3. \/ /\ db' = d /\ imu_data' = imu_data /\ attempt' = Tried("none", "no window")
      \/ /\ ~(new < 0) /\ db' = far /\ imu_data' = kept
         /\ \/ \E k \in {"few disparities", "moving"} : attempt' = Tried("none", k)
            \/ attempt' \in Static(kept, new)
      \/ /\ ~(new < 0) /\ db' = CleanupMeasurements(d, new - init_window_time)
         /\ imu_data' = Recent(kept, new - init_window_time)
         /\ attempt' \in Dynamic(near, kept, new)
  BY InitializeIs
<1>4. ASSUME ~(new < 0)
      PROVE  /\ new \in Nat /\ new \in Stamps(d) /\ new + calib_camimu_dt < b
             /\ old \in Int /\ old + calib_camimu_dt <= b /\ old <= new - init_window_time
             /\ new - init_window_time \in Int /\ new - init_window_time + calib_camimu_dt <= b
  BY <1>1, <1>2, <1>4, ParametersTyped DEF OldestTime
<1>5. ASSUME ~(new < 0) PROVE Gapless(kept, HeadOf(d), b)
  <2> HIDE DEF new, old, a, b
  <2>1. Gapless(Recent(imu_data, old), AtLeast(a, old + calib_camimu_dt), b)
    BY <1>1, <1>4, <1>5, RecentIs
  <2> QED BY <2>1 DEF HeadOf, new, old, a
<1>6. ASSUME ~(new < 0), NEW t \in Int, t <= new - init_window_time
      PROVE  /\ Database(CleanupMeasurements(d, t), b)
             /\ init_window_time > 0 => new \in Stamps(CleanupMeasurements(d, t))
  <2> HIDE DEF new
  <2>1. Stamps(CleanupMeasurements(d, t)) = Stamps(d) \ 0..t /\ Database(CleanupMeasurements(d, t), b)
    BY <1>1, CleanupKeeps
  <2>2. init_window_time > 0 => new \notin 0..t
    BY <1>4, <1>6, ParametersTyped
  <2> QED BY <1>4, <1>6, <2>1, <2>2
<1>7. CASE ~(new < 0) /\ db' = far /\ imu_data' = kept
           /\ \/ \E k \in {"few disparities", "moving"} : attempt' = Tried("none", k)
              \/ attempt' \in Static(kept, new)
  <2>1. Database(far, b) /\ (init_window_time > 0 => new \in Stamps(far))
    BY <1>4, <1>6, <1>7
  <2>2. Pruned(d, HeadOf(d))
    <3> HIDE DEF far, kept
    <3> QED BY <1>4, <1>5, <1>7, <2>1 DEF Pruned
  <2>3. (\E k \in {"few disparities", "moving"} : attempt' = Tried("none", k)) \/ attempt' \in Static(imu_data', new)
    BY <1>7
  <2> QED BY <2>2, <2>3
<1>8. CASE ~(new < 0) /\ db' = CleanupMeasurements(d, new - init_window_time)
           /\ imu_data' = Recent(kept, new - init_window_time)
           /\ attempt' \in Dynamic(near, kept, new)
  <2>1. Database(db', b) /\ (init_window_time > 0 => new \in Stamps(db'))
    <3> DEFINE t == new - init_window_time
    <3>1. t \in Int /\ t <= new - init_window_time /\ db' = CleanupMeasurements(d, t)
      BY <1>4, <1>8
    <3> HIDE DEF t
    <3> QED BY <1>6, <1>8, <3>1
  <2>2. Gapless(imu_data', HeadOfWindow(d), b)
    <3> HIDE DEF kept, new, b
    <3>1. Gapless(Recent(kept, new - init_window_time),
                  AtLeast(HeadOf(d), new - init_window_time + calib_camimu_dt), b)
      BY <1>4, <1>5, <1>8, RecentIs
    <3> QED BY <1>8, <3>1 DEF HeadOfWindow, new
  <2>3. Database(near, b) /\ Tracks(near, InWindow(new))
    <3> HIDE DEF new
    <3>1. new \in Nat /\ old \in Int /\ new = NewestCamTime(d)
      BY <1>4, <1>8 DEF new
    <3> QED BY <1>1, <3>1, WindowTracks
  <2>4. IsFiniteSet(DOMAIN near) /\ IsFiniteSet(Cams)
    <3> HIDE DEF near
    <3> QED BY <1>1, <2>3, FiniteDatabase
  <2>5. Pruned(d, HeadOfWindow(d))
    BY <1>4, <1>8, <2>1, <2>2 DEF Pruned
  <2> HIDE DEF near, kept, new, b
  <2>6. /\ Pruned(d, HeadOfWindow(d)) /\ imu_data' = Recent(kept, new - init_window_time)
        /\ Gapless(kept, HeadOf(d), b)
        /\ Tracks(near, InWindow(new)) /\ IsFiniteSet(DOMAIN near) /\ IsFiniteSet(Cams)
        /\ attempt' \in Dynamic(near, kept, new)
    BY <1>5, <1>8, <2>3, <2>4, <2>5
  <2> QED BY <2>6 DEF near, far, kept, old, new, b
<1> QED BY <1>3, <1>7, <1>8

LEMMA FeedTracksKeeps == ASSUME LookingInv, FeedTracks PROVE LookingInv' /\ SystemComplete'
<1>1. PICK d, s :
        /\ Database(d, Last(imu_data)) /\ Initialize(d)
        /\ view' = view /\ last' \in [Cams -> Int]
        /\ \A c \in Cams : last'[c] >= FirstReading - calib_camimu_dt - 1
  BY FeedTracksIs
<1> DEFINE new == NewestCamTime(d)
           old == OldestTime(new)
           near == CleanupMeasurements(CleanupMeasurements(d, old), new - init_window_time)
           kept == Recent(imu_data, old)
<1>2. ASSUME NEW h, Gapless(imu_data', h, Last(imu_data)), Database(db', Last(imu_data)) PROVE LookingInv'
  <2>1. Head(imu_data') = h /\ Last(imu_data') = Last(imu_data)
    BY <1>2, GaplessIs
  <2>2. Database(db, Last(imu_data))'
    BY <1>1, <1>2, <2>1 DEF Database, Cams
  <2>3. Gapless(imu_data, Head(imu_data), Last(imu_data))'
    BY <1>2, <2>1
  <2>4. view' \in Views
    BY <1>1 DEF LookingInv
  <2> QED BY <1>1, <2>2, <2>3, <2>4 DEF LookingInv, Cams
<1>3. CASE db' = d /\ imu_data' = imu_data /\ attempt' = Tried("none", "no window")
  <2>1. LookingInv'
    BY <1>1, <1>2, <1>3 DEF LookingInv
  <2>2. SystemComplete'
    BY <1>3 DEF Tried, SystemComplete
  <2> QED BY <2>1, <2>2
<1>4. CASE /\ Pruned(d, HeadOf(d))
           /\ (\E k \in {"few disparities", "moving"} : attempt' = Tried("none", k)) \/ attempt' \in Static(imu_data', new)
  <2>1. LookingInv'
    <3>1. Database(db', Last(imu_data)) /\ Gapless(imu_data', HeadOf(d), Last(imu_data))
      BY <1>4 DEF Pruned
    <3> QED BY <1>2, <3>1
  <2>2. attempt'.method # "dynamic"
    <3>1. ASSUME NEW k, attempt' = Tried("none", k) PROVE attempt'.method # "dynamic"
      BY <3>1 DEF Tried
    <3>2. ASSUME attempt' \in Static(imu_data', new) PROVE attempt'.method # "dynamic"
      BY <3>2 DEF Static, Tried
    <3> QED BY <1>4, <3>1, <3>2
  <2> QED BY <2>1, <2>2 DEF SystemComplete
<1>5. CASE /\ Pruned(d, HeadOfWindow(d))
           /\ Tracks(near, InWindow(new)) /\ IsFiniteSet(DOMAIN near) /\ IsFiniteSet(Cams)
           /\ attempt' \in Dynamic(near, kept, new)
  <2>1. LookingInv'
    BY <1>2, <1>5 DEF Pruned
  <2>2. InWindow(new) \in SUBSET Nat /\ new \in InWindow(new)
    BY <1>5 DEF InWindow, Pruned
  <2> HIDE DEF new, near, kept
  <2>3. CompleteOf(attempt')
    BY <1>5, <2>2, DynamicIs
  <2> QED BY <2>1, <2>3 DEF CompleteOf, SystemComplete
<1> QED BY <1>1, <1>3, <1>4, <1>5, InitializePrunes

LEMMA AlwaysLooking == InitializerSpec => [](LookingInv /\ SystemComplete)
<1>1. LookingInv /\ SystemComplete /\ [InitializerNext]_initializerVars => LookingInv' /\ SystemComplete'
  <2> SUFFICES ASSUME LookingInv, SystemComplete, [InitializerNext]_initializerVars
               PROVE  LookingInv' /\ SystemComplete'
    OBVIOUS
  <2>1. CASE UNCHANGED initializerVars
    BY <2>1 DEF initializerVars, LookingInv, Database, Cams, SystemComplete
  <2> QED BY <2>1, FeedReadingKeeps, FeedTracksKeeps DEF InitializerNext
<1> QED BY <1>1, StartsLooking, PTL DEF InitializerSpec

\* Whatever is tracked and in whatever order the hash maps are visited, the linear system of
\* the dynamic initializer has the rows it was sized for, every pose it optimizes is
\* observed, and every factor's camera has a state.
THEOREM SystemAlwaysComplete == InitializerSpec => []SystemComplete
BY AlwaysLooking, PTL

-----------------------------------------------------------------------------
(***************************************************************************)
(* How far the readings reach back.                                        *)
(***************************************************************************)

\* An image is fed before the reserve is used up.
ReserveSuffices == 0 < Reserve /\ calib_camimu_dt + MaxDelay < Reserve

\* Readings from h to b are all there were, or go back from the last one, or from an image in
\* the database, as far as the window.
Reaches(h, b, d) ==
  \/ h <= FirstReading
  \/ h <= ReadingsFrom(b)
  \/ \E m \in Stamps(d) : h <= m - init_window_time + calib_camimu_dt

ReachesBack == Reaches(Head(imu_data), Last(imu_data), db)

LEMMA FeedReadingReaches == ASSUME LookingInv, ReachesBack, FeedReading PROVE ReachesBack'
<1>1. /\ Head(imu_data)' = AtLeast(Head(imu_data), ReadingsFrom(Last(imu_data) + 1))
      /\ Last(imu_data)' = Last(imu_data) + 1 /\ Last(imu_data) \in Nat /\ Head(imu_data) \in Nat
  BY FeedReadingIs
<1>2. db' = db
  BY DEF FeedReading
<1>3. CASE Head(imu_data)' = ReadingsFrom(Last(imu_data) + 1)
  <2>1. Head(imu_data)' <= ReadingsFrom(Last(imu_data))'
    BY <1>1, <1>3, ParametersTyped DEF ReadingsFrom
  <2> QED BY <2>1 DEF ReachesBack, Reaches
<1>4. CASE Head(imu_data)' = Head(imu_data)
  <2>1. Head(imu_data) <= ReadingsFrom(Last(imu_data)) => Head(imu_data)' <= ReadingsFrom(Last(imu_data))'
    BY <1>1, <1>4, ParametersTyped DEF ReadingsFrom
  <2> QED BY <1>2, <1>4, <2>1 DEF ReachesBack, Reaches
<1> QED BY <1>1, <1>3, <1>4 DEF AtLeast

\* A kept reading may be cut off at the window of the newest image.
LEMMA PrunedReaches ==
  ASSUME WindowOfReadings, LookingInv, ReachesBack, NEW d, Database(d, Last(imu_data)),
         Stamps(db) \subseteq Stamps(d), NEW h \in {HeadOf(d), HeadOfWindow(d)}, Pruned(d, h)
  PROVE  ReachesBack' /\ Head(imu_data') = h /\ Last(imu_data') = Last(imu_data)
<1> DEFINE a == Head(imu_data)
           b == Last(imu_data)
           new == NewestCamTime(d)
<1>1. new \in Nat /\ new \in Stamps(db') /\ a \in Nat /\ b \in Nat
  BY ParametersTyped DEF Pruned, WindowOfReadings, LookingInv, Gapless
<1>2. Head(imu_data') = h /\ Last(imu_data') = b
  BY GaplessIs DEF Pruned
<1>3. \A m \in Stamps(db) : m \in Nat /\ m <= new
  BY <1>1, NewestOfDatabase
<1> HIDE DEF new, a, b
<1>4. h = a \/ h <= new - init_window_time + calib_camimu_dt
  <2>1. h \in {AtLeast(a, OldestTime(new) + calib_camimu_dt),
                AtLeast(AtLeast(a, OldestTime(new) + calib_camimu_dt), new - init_window_time + calib_camimu_dt)}
    BY DEF HeadOf, HeadOfWindow, a, new
  <2>2. OldestTime(new) + calib_camimu_dt <= new - init_window_time + calib_camimu_dt
    BY <1>1, ParametersTyped DEF OldestTime
  <2>3. OldestTime(new) + calib_camimu_dt \in Int /\ new - init_window_time + calib_camimu_dt \in Int
    BY <1>1, ParametersTyped DEF OldestTime
  <2> QED BY <1>1, <2>1, <2>2, <2>3 DEF AtLeast
<1>5. CASE h <= new - init_window_time + calib_camimu_dt
  BY <1>1, <1>2, <1>5 DEF ReachesBack, Reaches, b
<1>6. CASE h = a
  <2>1. CASE a <= FirstReading
    BY <1>2, <1>6, <2>1 DEF ReachesBack, Reaches, b
  <2>2. CASE a <= ReadingsFrom(b)
    BY <1>2, <1>6, <2>2 DEF ReachesBack, Reaches, b, ReadingsFrom
  <2>3. CASE \E m \in Stamps(db) : a <= m - init_window_time + calib_camimu_dt
    <3>1. PICK m \in Stamps(db) : a <= m - init_window_time + calib_camimu_dt
      BY <2>3
    <3>2. h <= new - init_window_time + calib_camimu_dt
      BY <1>1, <1>3, <1>6, <3>1, ParametersTyped
    <3> QED BY <1>5, <3>2
  <2> QED BY <2>1, <2>2, <2>3 DEF ReachesBack, Reaches, a, b
<1> QED BY <1>2, <1>4, <1>5, <1>6 DEF b

\* So they fill the window, if enough were fed.
LEMMA ReachesWindow ==
  ASSUME ReserveSuffices, NEW h \in Nat, NEW b \in Nat, NEW d, Database(d, b), Reaches(h, b, d),
         FirstReading <= b - init_window_time
  PROVE  h <= b - init_window_time
<1>1. \A m \in Stamps(d) : m \in Nat /\ m + calib_camimu_dt < b
  BY NewestOfDatabase
<1>2. CASE h <= FirstReading
  BY <1>2, ParametersTyped
<1>3. CASE h <= ReadingsFrom(b)
  BY <1>3, ParametersTyped DEF ReadingsFrom, ReserveSuffices
<1>4. CASE \E m \in Stamps(d) : h <= m - init_window_time + calib_camimu_dt
  BY <1>1, <1>4, ParametersTyped
<1> QED BY <1>2, <1>3, <1>4 DEF Reaches

\* Neither initializer lacks readings but at the start.
LEMMA HalvesAreFilled ==
  ASSUME WindowOfReadings, ReserveSuffices, NEW imu, NEW h, NEW b, Gapless(imu, h, b), NEW d, Database(d, b),
         Reaches(h, b, d)
  PROVE  b - FirstReading < init_window_time \/ HasWindow(imu, init_window_time)
<1>1. h \in Nat /\ b \in Nat
  BY DEF Gapless
<1>2. init_window_time \in Nat /\ 4 <= init_window_time /\ FirstReading \in Nat
  BY ParametersTyped DEF WindowOfReadings
<1>3. ASSUME FirstReading <= b - init_window_time PROVE HasWindow(imu, init_window_time)
  <2>1. h <= b - init_window_time
    BY <1>1, <1>3, ReachesWindow
  <2>2. init_window_time <= b - h
    BY <1>1, <1>2, <2>1
  <2> QED BY <1>2, <2>2, GaplessWindow
<1> QED BY <1>1, <1>2, <1>3

LEMMA DynamicHasReadings ==
  ASSUME WindowOfReadings, ReserveSuffices, LookingInv, ReachesBack,
         NEW d, NEW s \in Nat, Last(imu_data) <= s + calib_camimu_dt + MaxDelay, Database(d, Last(imu_data)),
         Stamps(d) \subseteq Stamps(db) \cup {s}, Pruned(d, HeadOfWindow(d)),
         NEW near, Tracks(near, InWindow(NewestCamTime(d))), IsFiniteSet(DOMAIN near), IsFiniteSet(Cams),
         NEW kept, Gapless(kept, HeadOf(d), Last(imu_data)),
         imu_data' = Recent(kept, NewestCamTime(d) - init_window_time),
         attempt' \in Dynamic(near, kept, NewestCamTime(d))
  PROVE  /\ attempt'.method = "dynamic" /\ attempt'.newest = NewestCamTime(d)
         /\ attempt'.outcome \notin {"assertion", "not preintegrated"}
         /\ attempt'.outcome = "no readings" /\ attempt'.fresh =>
              FirstReading >= NewestCamTime(d) - init_window_time + calib_camimu_dt
<1> DEFINE a == Head(imu_data)
           b == Last(imu_data)
           new == NewestCamTime(d)
           x == new - init_window_time + calib_camimu_dt
<1>1. /\ new \in Nat /\ new \in Stamps(d) /\ new + calib_camimu_dt < b
      /\ Gapless(imu_data', AtLeast(HeadOf(d), x), b)
  BY DEF Pruned, HeadOfWindow
<1>2. InWindow(new) \in SUBSET Nat /\ new \in InWindow(new)
  BY <1>1 DEF InWindow
<1>3. PICK p, cams :
        /\ SelectionOf(p, near, InWindow(new), new, cams)
        /\ attempt'.outcome \in Ends(Progress(near, new, imu_data', imu_data' # kept, p))
        /\ attempt'.method = "dynamic" /\ attempt'.newest = new
        /\ attempt'.fresh = (NewestCamTime(db) < new)
  <2> HIDE DEF new
  <2> QED BY <1>2, DynamicIs DEF new
<1>4. a \in Nat /\ b \in Nat /\ x \in Int /\ HeadOf(d) \in Nat /\ Database(db, b)
  BY <1>1, ParametersTyped DEF LookingInv, Gapless
<1> HIDE DEF a, b, new, x
<1>5. CASE imu_data' # kept
  <2>1. AtLeast(HeadOf(d), x) = x
    <3>1. AtLeast(HeadOf(d), x) # HeadOf(d)
      BY <1>1, <1>5 DEF Gapless, b
    <3> QED BY <3>1 DEF AtLeast
  <2>2. Progress(near, new, imu_data', TRUE, p) \notin {"no readings", "assertion", "not preintegrated"}
    BY <1>1, <1>3, <2>1, AssertionsHold DEF x
  <2>3. attempt'.outcome \notin {"no readings", "assertion", "not preintegrated"}
    BY <1>3, <1>5, <2>2 DEF Ends
  <2> QED BY <1>3, <2>3 DEF new
<1>6. CASE imu_data' = kept
  <2>1. Progress(near, new, imu_data', FALSE, p) \in {"few features", "no readings"}
    BY DEF Progress
  <2>2. attempt'.outcome \notin {"assertion", "not preintegrated"}
    BY <1>3, <1>6, <2>1 DEF Ends
  <2>3. ASSUME attempt'.fresh PROVE FirstReading >= x
    <3>1. AtLeast(HeadOf(d), x) = HeadOf(d)
      <4>1. Gapless(kept, HeadOf(d), b) /\ Gapless(kept, AtLeast(HeadOf(d), x), b)
        BY <1>1, <1>6 DEF b
      <4>2. Head(kept) = HeadOf(d) /\ Head(kept) = AtLeast(HeadOf(d), x)
        BY <4>1, GaplessIs
      <4> QED BY <4>2
    <3>2. x <= HeadOf(d) /\ HeadOf(d) = AtLeast(a, x - Reserve) /\ x - Reserve \in Int
      <4>1. OldestTime(new) + calib_camimu_dt = x - Reserve
        BY <1>1, ParametersTyped DEF OldestTime, x
      <4> QED BY <1>4, <3>1, <4>1, ParametersTyped DEF AtLeast, HeadOf, a, new
    <3>3. x <= a
      BY <1>4, <3>2, ParametersTyped DEF AtLeast, ReserveSuffices
    <3>4. NewestCamTime(db) < new
      BY <1>3, <2>3
    <3>5. \A m \in Stamps(db) : m \in Nat /\ m < new
      BY <1>1, <1>4, <3>4, NewestOfDatabase
    <3>6. new = s
      BY <1>1, <3>5
    <3>7. CASE a <= FirstReading
      BY <1>4, <3>3, <3>7, ParametersTyped
    <3>8. CASE a <= ReadingsFrom(b)
      <4>1. b <= new + calib_camimu_dt + MaxDelay
        BY <3>6 DEF b
      <4> QED BY <1>1, <1>4, <3>3, <3>8, <4>1, ParametersTyped DEF ReadingsFrom, ReserveSuffices, x
    <3>9. CASE \E m \in Stamps(db) : a <= m - init_window_time + calib_camimu_dt
      BY <1>1, <1>4, <3>3, <3>5, <3>9, ParametersTyped DEF x
    <3> QED BY <3>7, <3>8, <3>9 DEF ReachesBack, Reaches, a, b
  <2> QED BY <1>3, <2>2, <2>3 DEF new, x
<1> QED BY <1>5, <1>6

LEMMA FeedTracksReaches ==
  ASSUME WindowOfReadings, ReserveSuffices, LookingInv, ReachesBack, FeedTracks
  PROVE  ReachesBack' /\ ReadingsReachBack'
<1>1. PICK d, s :
        /\ s \in Nat /\ Last(imu_data) <= s + calib_camimu_dt + MaxDelay
        /\ Database(d, Last(imu_data)) /\ Initialize(d)
        /\ Stamps(db) \subseteq Stamps(d) /\ Stamps(d) \subseteq Stamps(db) \cup {s}
        /\ view' = view
  BY FeedTracksIs
<1> DEFINE new == NewestCamTime(d)
           old == OldestTime(new)
           near == CleanupMeasurements(CleanupMeasurements(d, old), new - init_window_time)
           kept == Recent(imu_data, old)
<1>2. CASE db' = d /\ imu_data' = imu_data /\ attempt' = Tried("none", "no window")
  <2>1. ReachesBack'
    BY <1>1, <1>2 DEF ReachesBack, Reaches
  <2>2. ReadingsReachBack'
    BY <1>2 DEF Tried, ReadingsReachBack
  <2> QED BY <2>1, <2>2
<1>3. CASE /\ Pruned(d, HeadOf(d))
           /\ \/ \E k \in {"few disparities", "moving"} : attempt' = Tried("none", k)
              \/ attempt' \in Static(imu_data', new)
  <2>1. ReachesBack' /\ Head(imu_data') = HeadOf(d) /\ Last(imu_data') = Last(imu_data)
    BY <1>1, <1>3, PrunedReaches
  <2>2. CASE \E k \in {"few disparities", "moving"} : attempt' = Tried("none", k)
    <3>1. PICK k \in {"few disparities", "moving"} : attempt' = Tried("none", k)
      BY <2>2
    <3>2. attempt'.method = "none" /\ attempt'.outcome = k
      BY <3>1 DEF Tried
    <3> QED BY <2>1, <3>1, <3>2 DEF ReadingsReachBack
  <2>3. CASE attempt' \in Static(imu_data', new)
    <3>1. Gapless(imu_data', HeadOf(d), Last(imu_data)) /\ Database(db', Last(imu_data))
      BY <1>3 DEF Pruned
    <3>2. Reaches(HeadOf(d), Last(imu_data), db')
      BY <2>1 DEF ReachesBack
    <3>3. attempt'.outcome = "no readings" => Last(imu_data) - FirstReading < init_window_time
      <4>1. attempt'.outcome = "no readings" => ~HasWindow(imu_data', init_window_time)
        BY <2>3 DEF Static, Tried
      <4>2. Last(imu_data) - FirstReading < init_window_time \/ HasWindow(imu_data', init_window_time)
        BY <3>1, <3>2, HalvesAreFilled
      <4> QED BY <4>1, <4>2
    <3>4. attempt'.method = "static" /\ attempt'.outcome \notin {"assertion", "not preintegrated"}
      BY <2>3 DEF Static, Tried
    <3> QED BY <2>1, <3>3, <3>4 DEF ReadingsReachBack
  <2> QED BY <1>3, <2>2, <2>3
<1>4. CASE /\ Pruned(d, HeadOfWindow(d)) /\ imu_data' = Recent(kept, new - init_window_time)
           /\ Gapless(kept, HeadOf(d), Last(imu_data))
           /\ Tracks(near, InWindow(new)) /\ IsFiniteSet(DOMAIN near) /\ IsFiniteSet(Cams)
           /\ attempt' \in Dynamic(near, kept, new)
  <2>1. ReachesBack'
    BY <1>1, <1>4, PrunedReaches
  <2> HIDE DEF near, kept
  <2>2. /\ attempt'.method = "dynamic" /\ attempt'.newest = new
        /\ attempt'.outcome \notin {"assertion", "not preintegrated"}
        /\ attempt'.outcome = "no readings" /\ attempt'.fresh =>
             FirstReading >= new - init_window_time + calib_camimu_dt
    BY <1>1, <1>4, DynamicHasReadings
  <2> QED BY <2>1, <2>2 DEF ReadingsReachBack
<1> QED BY <1>1, <1>2, <1>3, <1>4, InitializePrunes

\* Where readings are dense and the reserve outlasts the delay of images, the rules that
\* prune the readings leave what the initializers need: those that they find lacking were
\* not fed yet.
THEOREM ReadingsAlwaysReachBack ==
  ASSUME WindowOfReadings, ReserveSuffices
  PROVE  InitializerSpec => []ReadingsReachBack
<1> DEFINE Inv == LookingInv /\ ReachesBack /\ ReadingsReachBack
<1>1. InitializerInit => Inv
  <2> SUFFICES ASSUME InitializerInit PROVE Inv
    OBVIOUS
  <2>1. ReachesBack
    BY ParametersTyped DEF InitializerInit, ReachesBack, Reaches
  <2>2. ReadingsReachBack
    BY DEF InitializerInit, NotTried, Tried, ReadingsReachBack
  <2> QED BY <2>1, <2>2, StartsLooking
<1>2. Inv /\ [InitializerNext]_initializerVars => Inv'
  <2> SUFFICES ASSUME Inv, [InitializerNext]_initializerVars PROVE Inv'
    OBVIOUS
  <2>1. CASE UNCHANGED initializerVars
    BY <2>1 DEF initializerVars, LookingInv, Database, Cams, ReachesBack, Reaches, ReadingsReachBack
  <2>2. CASE FeedReading
    <3>1. ReadingsReachBack'
      <4>1. attempt' = NotTried
        BY <2>2 DEF FeedReading
      <4> QED BY <4>1 DEF NotTried, Tried, ReadingsReachBack
    <3> QED BY <2>2, <3>1, FeedReadingKeeps, FeedReadingReaches
  <2>3. CASE FeedTracks
    BY <2>3, FeedTracksKeeps, FeedTracksReaches
  <2> QED BY <2>1, <2>2, <2>3 DEF InitializerNext
<1>3. Inv => ReadingsReachBack
  OBVIOUS
<1> QED BY <1>1, <1>2, <1>3, PTL DEF InitializerSpec
=============================================================================
