-------------------------- MODULE FeatureDatabase --------------------------
(***************************************************************************)
(* The feature database (ov_core/src/feat/FeatureDatabase.cpp and          *)
(* Feature.cpp) as a value: for every feature in it and every camera that  *)
(* ever saw the feature, the stamps of the stored measurements in the      *)
(* order they came.  The database is owned by a tracker; VioManager and    *)
(* its updaters query and prune it through shared pointers.                *)
(*                                                                         *)
(* A camera stays a key of a feature whose measurements of that camera are *)
(* all removed, as in the code's maps.                                     *)
(***************************************************************************)
EXTENDS Filter

EmptyDatabase == [f \in {} |-> <<>>]

\* update_feature for every feature that a camera of DOMAIN seen sees at t.
Observed(db, seen, t) ==
  LET Seers(f) == {c \in DOMAIN seen : f \in seen[c]}
      Known(f) == IF f \in DOMAIN db THEN DOMAIN db[f] ELSE {}
      Old(f, c) == IF c \in Known(f) THEN db[f][c] ELSE <<>>
  IN  [f \in DOMAIN db \cup UNION Range(seen) |->
         [c \in Known(f) \cup Seers(f) |->
            IF c \in Seers(f) THEN Append(Old(f, c), t) ELSE Old(f, c)]]

\* How many measurements a feature has, over all cameras.
NumMeasurements(d) == Cardinality(UNION {{c} \X DOMAIN d[c] : c \in DOMAIN d})

\* What d keeps of its measurements if only those of the stamps stay.
Keeping(d, stamps) == [c \in DOMAIN d |-> Kept(d[c], stamps)]

\* Feature::clean_old_measurements: only stamps that are valid stay.
CleanOldMeasurements(d, valid) == Keeping(d, valid)

\* Without the features that have no measurement left.
NonEmpty(db) == RestrictValues(db, LAMBDA d : NumMeasurements(d) >= 1)

\* cleanup_measurements: everything up to the stamp goes.
CleanupMeasurements(db, stamp) ==
  NonEmpty([f \in DOMAIN db |-> Keeping(db[f], Nat \ 0..stamp)])

\* cleanup_measurements_exact: everything of that stamp goes.
CleanupMeasurementsExact(db, stamp) ==
  NonEmpty([f \in DOMAIN db |-> Keeping(db[f], Nat \ {stamp})])

\* Mistake: used features stay.
KeepDeleted(db, to_delete) == db

\* cleanup: the features marked to_delete go.
Cleanup(db, to_delete) == Restrict(db, DOMAIN db \ to_delete)

\* features_not_containing_newer: no camera's latest entry is at the stamp or newer.
FeaturesNotContainingNewer(db, stamp) ==
  {f \in DOMAIN db : \A c \in DOMAIN db[f] :
     db[f][c] = <<>> \/ Last(db[f][c]) < stamp}

\* features_containing: some camera has a measurement of exactly that stamp.
FeaturesContaining(db, stamp) ==
  {f \in DOMAIN db : \E c \in DOMAIN db[f] : Contains(db[f][c], stamp)}

\* The measurements of feature f as <<feature, camera, stamp>>.
Measurements(db, f) ==
  UNION {{<<f, c, t>> : t \in ToSet(db[f][c])} : c \in DOMAIN db[f]}
=============================================================================
