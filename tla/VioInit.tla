------------------------------ MODULE VioInit ------------------------------
(***************************************************************************)
(* Initialization beside the stream of messages: VioManager::              *)
(* try_to_initialize (ov_msckf/src/core/VioManagerHelper.cpp) starts a     *)
(* thread that looks for an initial state and then takes the filter        *)
(* through the images it missed, while the caller goes on feeding IMU      *)
(* readings and images.  The queue of missed images has a mutex, the state *)
(* has none: two flags decide which thread may touch it.                   *)
(*                                                                         *)
(* One caller feeds everything, as run_dataset and run_simulation do.      *)
(* Readings come at every instant; an image is fed after a newer reading.  *)
(***************************************************************************)
EXTENDS Filter

CONSTANTS
  Start, Horizon,            \* the readings before the first image, the last reading
  MaxLag,                    \* readings until an image is fed, and the next one comes
  InitWindow,                \* init_window_time
  Slack,                     \* the 0.10 s kept in reserve
  MaxInit,                   \* readings that come while the thread runs
  SharedStamps,              \* cameras' stamps may coincide when the thread is detached
  max_clone_size

ASSUME InitAssumption ==
  /\ Horizon \in Nat /\ Start \in 0..Horizon /\ MaxLag \in Nat \ {0}
  /\ Slack \in Nat /\ MaxInit \in Nat /\ SharedStamps \in BOOLEAN
  /\ InitWindow \in Nat \ {0} /\ max_clone_size \in Nat \ {0}

VARIABLES
  use_multi_threading_subs, \* params: detach the thread, else join it
  newest, first,    \* the newest reading, the oldest one the propagator keeps
  newest_cam,       \* the newest image tracked
  caller, image,    \* where the caller is in track_image_and_update
  is_initialized_vio,
  thread_init_running, thread_init_success,
  camera_queue_init,
  init, started,    \* where the thread is, and the reading it was started at
  found,            \* the initial state's time, if the initializer found one
  todo,             \* images left to catch up with
  timestamp, clones,\* the state
  halted            \* std::exit or a failed assertion

flags  == <<use_multi_threading_subs, is_initialized_vio, thread_init_running, thread_init_success>>
thread == <<init, started, found, todo>>
state  == <<timestamp, clones>>
vars   == <<newest, first, newest_cam, caller, image, flags,
            camera_queue_init, thread, state, halted>>

NotFound == -1

Init ==
  /\ use_multi_threading_subs \in BOOLEAN
  /\ newest = Start /\ first = Max({0, Start - InitWindow - 2 * Slack}) /\ newest_cam = -1
  /\ caller = "idle" /\ image = -1
  /\ is_initialized_vio = FALSE /\ thread_init_running = FALSE /\ thread_init_success = FALSE
  /\ camera_queue_init = <<>>
  /\ init = "none" /\ started = 0 /\ found = NotFound /\ todo = <<>>
  /\ timestamp = -1 /\ clones = {}
  /\ halted = FALSE

-----------------------------------------------------------------------------
(***************************************************************************)
(* The caller.                                                             *)
(***************************************************************************)

\* feed_measurement_imu: what the propagator keeps when the reading at t comes.
KeptFrom(t) ==
  IF ~is_initialized_vio THEN t - InitWindow - 2 * Slack
  ELSE IF clones = {} \/ Min(clones) > timestamp THEN 0 ELSE Min(clones) - Slack

FeedImu ==
  /\ caller = "idle" /\ newest < Horizon
  /\ init # "none" => newest - started < MaxInit
  /\ newest_cam # -1 => newest - newest_cam < MaxLag
  /\ newest' = newest + 1
  /\ first' = Max({first, KeptFrom(newest + 1)})
  /\ UNCHANGED <<newest_cam, caller, image, flags, camera_queue_init, thread, state, halted>>

\* Images come in order; those of several cameras may share a stamp.  The trackers have
\* it before try_to_initialize.
FeedImage(t) ==
  /\ caller = "idle"
  /\ t < newest /\ newest - t <= MaxLag
  /\ t >= newest_cam
  /\ t = newest_cam => SharedStamps \/ ~use_multi_threading_subs
  /\ newest_cam' = t /\ image' = t
  /\ caller' = IF is_initialized_vio THEN "update" ELSE "running?"
  /\ UNCHANGED <<newest, first, flags, camera_queue_init, thread, state, halted>>

CheckRunning ==
  /\ caller = "running?"
  /\ caller' = IF thread_init_running THEN "queue" ELSE "success?"
  /\ UNCHANGED <<newest, first, newest_cam, image, flags, camera_queue_init, thread, state, halted>>

\* The thread holds the mutex while it catches up.
QueueImage ==
  /\ caller = "queue" /\ init # "catch up"
  /\ camera_queue_init' = Append(camera_queue_init, image)
  /\ caller' = "idle"
  /\ UNCHANGED <<newest, first, newest_cam, image, flags, thread, state, halted>>

CheckSuccess ==
  /\ caller = "success?"
  /\ IF thread_init_success
     THEN /\ is_initialized_vio' = TRUE /\ caller' = "update"
          /\ UNCHANGED <<thread_init_running, init, started>>
     ELSE /\ thread_init_running' = TRUE /\ init' = "start" /\ started' = newest
          /\ caller' = IF use_multi_threading_subs THEN "idle" ELSE "join"
          /\ UNCHANGED is_initialized_vio
  /\ UNCHANGED <<use_multi_threading_subs, newest, first, newest_cam, image, thread_init_success,
                 camera_queue_init, found, todo, state, halted>>

Join ==
  /\ caller = "join" /\ init = "none"
  /\ caller' = "idle"
  /\ UNCHANGED <<newest, first, newest_cam, image, flags, camera_queue_init, thread, state, halted>>

\* propagate_and_clone(t) and marginalize_old_clone; readings must reach back to the
\* state's time.
Propagate(t) ==
  /\ timestamp' = t
  /\ LET window == clones \cup {t}
     IN  clones' = IF Cardinality(window) > max_clone_size THEN window \ {Min(window)} ELSE window
  /\ halted' = (t <= timestamp \/ first > timestamp)

\* do_feature_propagate_update.
Update ==
  /\ caller = "update"
  /\ IF image > timestamp THEN Propagate(image) ELSE UNCHANGED <<state, halted>>
  /\ caller' = "idle"
  /\ UNCHANGED <<newest, first, newest_cam, image, flags, camera_queue_init, thread>>

-----------------------------------------------------------------------------
(***************************************************************************)
(* The thread.                                                             *)
(***************************************************************************)

\* InertialInitializer::initialize reads what there is: the dynamic initializer gives
\* the newest image's time, the static one that of the middle of its readings.
ReadMeasurements ==
  /\ init = "start"
  /\ found' \in {NotFound} \cup
       (IF newest_cam - InitWindow - Slack < 0 THEN {}
        ELSE {newest_cam, newest - InitWindow \div 2})
  /\ init' = "solve"
  /\ UNCHANGED <<newest, first, newest_cam, caller, image, flags, camera_queue_init, started,
                 todo, state, halted>>

Fail ==
  /\ init = "solve" /\ found = NotFound
  /\ thread_init_success' = FALSE
  /\ init' = "failed"
  /\ UNCHANGED <<use_multi_threading_subs, newest, first, newest_cam, caller, image,
                 is_initialized_vio, thread_init_running, camera_queue_init, started, found, todo,
                 state, halted>>

\* Mistakes: the thread ends there; it waits for a mutex that the caller holds.
FailForGood ==
  /\ init = "failed" /\ camera_queue_init' = <<>> /\ init' = "none"
  /\ UNCHANGED <<newest, first, newest_cam, caller, image, flags, started, found, todo, state,
                 halted>>

FailClearLocked ==
  /\ init = "failed" /\ caller # "join" /\ camera_queue_init' = <<>> /\ init' = "stop"
  /\ UNCHANGED <<newest, first, newest_cam, caller, image, flags, started, found, todo, state,
                 halted>>

FailClear ==
  /\ init = "failed"
  /\ camera_queue_init' = <<>>
  /\ init' = "stop"
  /\ UNCHANGED <<newest, first, newest_cam, caller, image, flags, started, found, todo, state,
                 halted>>

\* Mistake: success is reported before the catching up.
SetStateAndReport ==
  /\ init = "solve" /\ found # NotFound
  /\ timestamp' = found /\ init' = "set"
  /\ thread_init_success' = TRUE /\ thread_init_running' = FALSE
  /\ UNCHANGED <<use_multi_threading_subs, newest, first, newest_cam, caller, image,
                 is_initialized_vio, camera_queue_init, started, found, todo, clones, halted>>

SetState ==
  /\ init = "solve" /\ found # NotFound
  /\ timestamp' = found
  /\ init' = "set"
  /\ UNCHANGED <<newest, first, newest_cam, caller, image, flags, camera_queue_init, started,
                 found, todo, clones, halted>>

\* Mistakes: an image at the initial time is caught up with; every image is.
NotOlder == Kept(camera_queue_init, timestamp..Horizon)
EveryOne(s) == 1

\* Images up to the initial time are not needed.
Missed == Kept(camera_queue_init, (timestamp + 1)..Horizon)

clone_rate(s) == (Len(s) \div max_clone_size) + 1

EveryNth(s, n) == [i \in 1..((Len(s) + n - 1) \div n) |-> s[(i - 1) * n + 1]]

LockQueue ==
  /\ init = "set"
  /\ todo' = EveryNth(Missed, clone_rate(Missed))
  /\ init' = "catch up"
  /\ UNCHANGED <<newest, first, newest_cam, caller, image, flags, camera_queue_init, started,
                 found, state, halted>>

CatchUp ==
  /\ init = "catch up" /\ todo # <<>>
  /\ Propagate(Head(todo))
  /\ todo' = Tail(todo)
  /\ UNCHANGED <<newest, first, newest_cam, caller, image, flags, camera_queue_init, init,
                 started, found>>

CatchUpDone ==
  /\ init = "catch up" /\ todo = <<>>
  /\ thread_init_success' = TRUE
  /\ camera_queue_init' = <<>>
  /\ init' = "stop"
  /\ UNCHANGED <<use_multi_threading_subs, newest, first, newest_cam, caller, image,
                 is_initialized_vio, thread_init_running, started, found, todo, state, halted>>

Stop ==
  /\ init = "stop"
  /\ thread_init_running' = FALSE
  /\ init' = "none"
  /\ UNCHANGED <<use_multi_threading_subs, newest, first, newest_cam, caller, image,
                 is_initialized_vio, thread_init_success, camera_queue_init, started, found, todo,
                 state, halted>>

CallerStep == ~halted /\ (CheckRunning \/ QueueImage \/ CheckSuccess \/ Join \/ Update)

ThreadStep ==
  ~halted /\ (\/ ReadMeasurements \/ Fail \/ FailClear \/ SetState \/ LockQueue
              \/ CatchUp \/ CatchUpDone \/ Stop)

Next ==
  \/ ~halted /\ (FeedImu \/ \E t \in 0..Horizon : FeedImage(t))
  \/ CallerStep
  \/ ThreadStep

Spec == Init /\ [][Next]_vars

\* Both threads are scheduled; messages may stop coming.
FairSpec == Spec /\ WF_vars(CallerStep) /\ WF_vars(ThreadStep)
-----------------------------------------------------------------------------
\* The state has no lock that covers initialization and update: the caller updates it only
\* when the thread is through with it, and starts no second thread beside it.
StateHasOneOwner ==
  /\ caller = "update" => init = "none"
  /\ thread_init_running <=> init # "none"

\* Catching up neither meets the same instant twice nor goes back in time (std::exit), every
\* reading since the initial state's time is still there ("should be ok as long as the
\* initialization didn't take too long"), and none of its clones is made only to be removed.
CatchUpNeverHalts ==
  /\ ~halted
  /\ init = "catch up" => Cardinality(clones) + Len(todo) <= max_clone_size

\* A thread that was started comes to an end and lets the next image try again or go on.
InitThreadEnds == thread_init_running ~> (~thread_init_running \/ halted)

\* Feeding an image returns, also when it waits for the thread or for the queue's mutex.
FeedReturns == caller # "idle" ~> (caller = "idle" \/ halted)
=============================================================================
