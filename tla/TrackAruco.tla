----------------------------- MODULE TrackAruco -----------------------------
(***************************************************************************)
(* Features whose ids are given: the corners of tags                       *)
(* (ov_core/src/track/TrackAruco.cpp), and the simulator's features        *)
(* (TrackSIM.cpp).                                                         *)
(***************************************************************************)
EXTENDS TrackBase

CONSTANTS
  Given,     \* ids of the tags, or of the simulated features
  Hidden     \* the sets of corners that a mask may cover

ASSUME GivenAssumption == Given \subseteq Nat /\ Hidden \subseteq SUBSET (0..3)

max_tag_id == NumAruco

CornerId(tag, n) == tag + n * max_tag_id

\* perform_tracking, in a thread for each camera: the corners of tags up to max_tag_id
\* are measured, those in the mask left out.
FeedTags(C) ==
  /\ C # {} /\ C \subseteq cams /\ Arrives(C)
  /\ job' = [c \in Cams |-> IF c \in C THEN "track" ELSE "idle"]
  /\ UNCHANGED <<config, num_features, currid, last, db, work>>

perform_tracking(c) ==
  /\ job[c] = "track"
  /\ \E seen \in SUBSET {t \in Given : t <= max_tag_id}, masked \in Hidden :
       LET corners == {[id |-> CornerId(k[1], k[2]), at |-> 4 * k[1] + k[2]] :
                         k \in seen \X ((0..3) \ masked)}
       IN  MoveForward(c, corners, corners)

NextTags == \E C \in SUBSET Cams : FeedTags(C) \/ \E c \in Cams : perform_tracking(c)

-----------------------------------------------------------------------------
\* feed_measurement_simulation: what each camera of the rig sees, with ids past those of the
\* tags.
FeedSimulated ==
  /\ Arrives(cams)
  /\ \E seen \in [cams -> SUBSET Given] :
       LET points(c) == IF c \in cams THEN {[id |-> f + currid, at |-> f] : f \in seen[c]} ELSE {}
       IN  /\ last' = [c \in Cams |-> points(c)]
           /\ db' = Record(Record(db, 0, points(0)), 1, points(1))
  /\ UNCHANGED <<config, num_features, currid, job, work>>
=============================================================================
