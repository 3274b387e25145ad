--------------------------- MODULE SlidingWindow ---------------------------
(***************************************************************************)
(* What the filter promises about the quantities it estimates: the IMU at  *)
(* the present instant, the poses of the last max_clone_size images, and   *)
(* points of the scene, each given in the frame of one of these poses.     *)
(* Time never goes back, only the oldest pose is dropped, and never one    *)
(* that a point is still given in.                                         *)
(*                                                                         *)
(* StateHelper (reading its covariance alone) and VioManager (reading its  *)
(* own containers) are both shown to implement this.                       *)
(***************************************************************************)
EXTENDS Integers, FiniteSets

CONSTANTS Stamps, Feats, max_clone_size

VARIABLES
  now,      \* the instant the IMU's estimate is for, -1 before the start
  window,   \* the instants whose poses are estimated
  frame     \* estimated point -> the pose it is given in

svars == <<now, window, frame>>

Points == DOMAIN frame

IsOldest(m) == m \in window /\ \A t \in window : m <= t

Init == now = -1 /\ window = {} /\ frame = [f \in {} |-> 0]

\* Time passes, with or without a pose kept of the new instant.
Advance(t) ==
  /\ t > now
  /\ now' = t
  /\ \/ Cardinality(window) <= max_clone_size /\ window' = window \cup {t}
     \/ window' = window
  /\ frame' = frame

\* New points, each given in a pose of the window.
Learn(F, a) ==
  /\ F \cap Points = {} /\ a \in [F -> window]
  /\ frame' = [g \in Points \cup F |-> IF g \in F THEN a[g] ELSE frame[g]]
  /\ UNCHANGED <<now, window>>

\* Any number of points may be given up at once.
Forget(F) ==
  /\ F \subseteq Points
  /\ frame' = [g \in Points \ F |-> frame[g]]
  /\ UNCHANGED <<now, window>>

\* Points are moved to the newest pose when the oldest is about to go.
Reanchor(F) ==
  /\ F \subseteq Points /\ \A f \in F : IsOldest(frame[f])
  /\ now \in window /\ Cardinality(window) > max_clone_size
  /\ frame' = [f \in Points |-> IF f \in F THEN now ELSE frame[f]]
  /\ UNCHANGED <<now, window>>

Slide(m) ==
  /\ Cardinality(window) > max_clone_size
  /\ IsOldest(m)
  /\ \A f \in Points : frame[f] # m
  /\ window' = window \ {m}
  /\ UNCHANGED <<now, frame>>

Next ==
  \/ \E t \in Stamps : Advance(t) \/ Slide(t)
  \/ \E F \in SUBSET Feats : \/ Forget(F) \/ Reanchor(F)
                             \/ \E a \in [F -> window] : Learn(F, a)

Spec == Init /\ [][Next]_svars
=============================================================================
