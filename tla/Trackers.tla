------------------------------ MODULE Trackers ------------------------------
(***************************************************************************)
(* One tracker over a few images.  VioManager makes a TrackKLT or a        *)
(* TrackDescriptor, which it replaces by a TrackSIM if it is fed           *)
(* simulated features, and a TrackAruco with a database of its own.        *)
(***************************************************************************)
EXTENDS TrackAruco

CONSTANT Kinds     \* of trackers

KLT  == INSTANCE TrackKLT
Desc == INSTANCE TrackDescriptor

VARIABLE kind

vars == <<kind, baseVars>>

TrackersInit ==
  /\ kind \in Kinds /\ Init
  /\ kind \in {"aruco", "sim"} => ~use_stereo    \* they have no use for it

TrackersNext ==
  /\ UNCHANGED kind
  /\ \/ kind = "klt"        /\ KLT!Next
     \/ kind = "descriptor" /\ Desc!Next
     \/ kind = "aruco"      /\ NextTags
     \/ kind = "sim"        /\ FeedSimulated

Spec == TrackersInit /\ [][TrackersNext]_vars
-----------------------------------------------------------------------------
\* currid: "all features have unique id values", also where two threads detect features
\* at the same time.  In a camera an id names one point, and cameras that are tracked
\* apart do not share ids.
IdsNameOnePoint ==
  kind \in {"klt", "descriptor"} =>
    \A c, d \in Cams : \A p \in last[c], q \in last[d] :
      p.id = q.id /\ (c = d \/ ~use_stereo) => c = d /\ p = q

\* The database gets one measurement of a feature from each image at most: the updates
\* take one row pair for each, as if they were independent.
OncePerImage ==
  \A f \in DOMAIN db : \A c \in DOMAIN db[f] :
    \A i, j \in DOMAIN db[f][c] : i < j => db[f][c][i] < db[f][c][j]

\* A feature that is lost stays lost: its track in a camera is that camera's images from
\* one to another, none in between missing.  (VioManager updates with the features that the
\* newest image has no measurement of.)
TracksUnbroken ==
  kind \in {"klt", "descriptor"} =>
    \A f \in DOMAIN db : \A c \in DOMAIN db[f] :
      \E i, j \in DOMAIN images[c] : db[f][c] = SubSeq(images[c], i, j)

\* "Our current feature ID should be larger then the number of aruco tags we have (each has
\* 4 corners)": the filter tells tags by an id of at most 4 * max_aruco_features.
TagsKnownByTheirId ==
  \A f \in DOMAIN db \cup UNION {Ids(last[c]) : c \in Cams} : kind = "aruco" <=> f <= 4 * NumAruco

\* "mask1: mask which has what ROI we do not want features in": what the first detection
\* finds is outside of the camera's mask.
DetectedOutsideMask ==
  kind \in {"klt", "descriptor"} =>
    \A c \in Cams : Len(images[c]) = 1 /\ job[c] = "idle" => \A p \in last[c] : p.at \notin masks[c]
=============================================================================
