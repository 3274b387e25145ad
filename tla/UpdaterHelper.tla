--------------------------- MODULE UpdaterHelper ---------------------------
(***************************************************************************)
(* The linear systems UpdaterMSCKF and UpdaterSLAM hand to EKFUpdate       *)
(* (update/UpdaterHelper.cpp, UpdaterMSCKF.cpp, UpdaterSLAM.cpp).          *)
(*                                                                         *)
(* get_feature_jacobian_full lays out the columns of one feature's         *)
(* Jacobian in the order its cameras, clones and anchor are met; the       *)
(* updaters then move those columns into one big matrix whose layout is    *)
(* the order in which variables were first met over all features; and      *)
(* EKFUpdate counts the columns once more from H_order alone.  An entry is *)
(* the set of partial derivatives that the code has summed into it,        *)
(* <<kind, variable, component>>, empty for a zero; what number each of    *)
(* them is, is the matter of Jacobians and FeatureInitializer.             *)
(***************************************************************************)
EXTENDS StateHelper, ErrorState, Jacobians, FeatureInitializer, SequencesExt

CONSTANTS
  Cams,            \* the cameras
  Pose,            \* Cams -> their _calib_IMUtoCAM, 0 if it is not estimated
  Intrinsics,      \* Cams -> their _cam_intrinsics, 0 if it is not estimated
  Relative,        \* is_relative_representation: features have an anchor
  FullSize,        \* columns of H_f: 3
  Inspected,       \* windows within these stamps are looked at
  MaxMeas,         \* measurements of one feature in an MSCKF update
  Updated          \* the two landmarks of a SLAM update

ASSUME UpdaterAssumption ==
  /\ Pose \in [Cams -> Calibs \cup {0}] /\ Intrinsics \in [Cams -> Calibs \cup {0}]
  /\ Relative \in BOOLEAN
  /\ FullSize \in Nat /\ FeatSize \in {1, FullSize}
  /\ Inspected \subseteq Stamps /\ MaxMeas \in Nat
  /\ Updated \in Feats \X Feats

\* A feature: its timestamps as the sequence of <<camera, stamps>> in which the map
\* is iterated, its anchor, and its landmark (<<>> outside the state).
Measurements(f) ==
  FlattenSeq([n \in 1..Len(f.views) |-> [m \in 1..Len(f.views[n][2]) |->
               <<f.views[n][1], f.views[n][2][m]>>]])

Estimated(c) == IF c = 0 THEN <<>> ELSE <<Calib(c)>>

\* dpfg_dx_order of get_feature_jacobian_representation.
AnchorOrder(f) == IF Relative THEN <<Clone(f.anchor[2])>> \o Estimated(Pose[f.anchor[1]])
                              ELSE <<>>

-----------------------------------------------------------------------------
(***************************************************************************)
(* Layouts: map_hx and x_order, or Hx_mapping and Hx_order_big.            *)
(***************************************************************************)
NoColumns == [order |-> <<>>, at |-> [v \in {} |-> 0], cols |-> 0]

\* "Add this clone if it is not added already".
AddOnce(L, v) ==
  IF v \in DOMAIN L.at THEN L
  ELSE [order |-> Append(L.order, v), at |-> L.at @@ (v :> L.cols), cols |-> L.cols + Size(v)]

\* The variables vs one after the other.
AddAll(L, vs) ==
  LET M[i \in 0..Len(vs)] == IF i = 0 THEN L ELSE AddOnce(M[i - 1], vs[i])
  IN M[Len(vs)]

\* What a camera brings along: its calibration, and the clones of its measurements.
ViewOrder(view) == Estimated(Pose[view[1]]) \o Estimated(Intrinsics[view[1]])
                     \o [m \in 1..Len(view[2]) |-> Clone(view[2][m])]

SeenOrder(f) == FlattenSeq([n \in 1..Len(f.views) |-> ViewOrder(f.views[n])])

\* The columns of one feature's Jacobian: camera by camera, then the anchor.
LocalLayout(f) == AddAll(NoColumns, SeenOrder(f) \o AnchorOrder(f))

\* map_hx[v]: operator[] gives 0 for a variable that is missing.
Column(L, v) == IF v \in DOMAIN L.at THEN L.at[v] ELSE 0

Block(i, v) == i..(i + Size(v) - 1)

\* H_x.block(...) = J, and H_x.block(...) += J for every variable of vs, J being the
\* derivatives kind of it.
Assign(row, L, vs, kind) ==
  [j \in DOMAIN row |->
     IF \E v \in ToSet(vs) : j \in Block(Column(L, v), v)
     THEN {<<kind, v, j - Column(L, v)>> : v \in {w \in ToSet(vs) : j \in Block(Column(L, w), w)}}
     ELSE row[j]]
Accumulate(row, L, vs, kind) ==
  [j \in DOMAIN row |->
     row[j] \cup {<<kind, v, j - Column(L, v)>> : v \in {w \in ToSet(vs) : j \in Block(Column(L, w), w)}}]

\* Mistake: the anchor's derivatives overwrite those of the clone.
AnchorAssigned(f, L, row) == Assign(row, L, AnchorOrder(f), "anchor")

\* "we add the Jacobian here as we might be in the anchoring pose".
AnchorAdded(f, L, row) == Accumulate(row, L, AnchorOrder(f), "anchor")

\* The two rows of the measurement by camera c at t.
RowsOf(f, L, c, t) ==
  LET zero  == [j \in 0..(L.cols - 1) |-> {}]
      posed == AnchorAdded(f, L, Assign(zero, L, <<Clone(t)>>, "pose"))
  IN Assign(Accumulate(posed, L, Estimated(Pose[c]), "extrinsics"),
            L, Estimated(Intrinsics[c]), "intrinsics")

-----------------------------------------------------------------------------
(***************************************************************************)
(* A feature's system as an updater appends it.  The Givens rotations of   *)
(* nullspace_project_inplace mix the rows of one feature, so that each of  *)
(* its columns ends up with what any of its rows had.                      *)
(***************************************************************************)
IsLandmark(f) == f.landmark # <<>>

\* What is left of 2 * total_meas rows: an MSCKF feature loses H_f.cols() of them, a
\* landmark the ones its bearing takes when only its depth is in the state.
RowsLeft(f) ==
  2 * Len(Measurements(f)) - (IF IsLandmark(f) THEN FullSize - FeatSize ELSE FullSize)

\* Hx_order or Hxf_order.
Order(f) == LocalLayout(f).order \o (IF IsLandmark(f) THEN <<Landmark(f.landmark[1])>> ELSE <<>>)

\* H_x or H_xf: the landmark's own columns come last.
LocalColumns(f) ==
  LET L    == LocalLayout(f)
      rows == {RowsOf(f, L, m[1], m[2]) : m \in ToSet(Measurements(f))}
      H_x  == [j \in 0..(L.cols - 1) |-> UNION {r[j] : r \in rows}]
  IN IF IsLandmark(f)
     THEN [j \in 0..(L.cols + FeatSize - 1) |->
             IF j < L.cols THEN H_x[j]
             ELSE {<<"lambda", Landmark(f.landmark[1]), j - L.cols>>}]
     ELSE H_x

\* H_id: where EKFUpdate finds the i-th variable, and ct_hx in the copying loop.
Offsets(order) ==
  LET at[i \in 1..(Len(order) + 1)] == IF i = 1 THEN 0 ELSE at[i - 1] + Size(order[i - 1])
  IN at

Local(f) == [feature |-> f, order |-> Order(f), H |-> LocalColumns(f), rows |-> RowsLeft(f)]

NoSystem == [layout |-> NoColumns, blocks |-> <<>>, ct_meas |-> 0]

\* Mistake: ct_hx moves on only for variables that no earlier feature has mapped.
OffsetsOfNew(S, l) ==
  LET at[i \in 1..(Len(l.order) + 1)] ==
        IF i = 1 THEN 0
        ELSE at[i - 1] + (IF l.order[i - 1] \in DOMAIN S.layout.at THEN 0 ELSE Size(l.order[i - 1]))
  IN at

\* ct_hx at each variable of the feature being appended.
SourceOffsets(S, l) == Offsets(l.order)

\* "We are good!!! Append to our large H vector".
Appended(S, l) ==
  LET big    == AddAll(S.layout, l.order)
      source == SourceOffsets(S, l)
      H_x    == [j \in 0..(big.cols - 1) |->
                   UNION {l.H[source[i] + j - big.at[l.order[i]]] :
                            i \in {n \in DOMAIN l.order : j \in Block(big.at[l.order[n]], l.order[n])}}]
  IN [layout |-> big, blocks |-> Append(S.blocks, H_x), ct_meas |-> S.ct_meas + l.rows]

\* Hx_big and Hx_order_big over the features that passed the chi2 test.
BigSystem(ls) ==
  LET S[n \in 0..Len(ls)] == IF n = 0 THEN NoSystem ELSE Appended(S[n - 1], ls[n])
  IN S[Len(ls)]

\* measurement_compress_inplace, which only UpdaterMSCKF calls.
Compressed(S) == Min({S.ct_meas, S.layout.cols})

-----------------------------------------------------------------------------
(***************************************************************************)
(* The features an update may be given on the window W: cameras in either  *)
(* order, cameras whose measurements were all cleaned away, an anchor      *)
(* chosen by the triangulation (the last stamp of the camera with the most *)
(* measurements) or kept by the landmark.                                  *)
(***************************************************************************)
Sightings(W, n) ==
  {v \in UNION {[1..k -> Cams \X {SetToSortSeq(s, <) : s \in {u \in SUBSET W : Cardinality(u) <= n}}]
                  : k \in 1..Cardinality(Cams)} :
     /\ \A i, j \in DOMAIN v : i # j => v[i][1] # v[j][1]
     /\ Cardinality({<<i, t>> \in (DOMAIN v) \X W : t \in ToSet(v[i][2])}) = n}

TriangulationAnchor(v) ==
  LET most == CHOOSE i \in DOMAIN v : \A j \in DOMAIN v :
                /\ Len(v[j][2]) <= Len(v[i][2])
                /\ j < i => Len(v[j][2]) < Len(v[i][2])
  IN <<v[most][1], Last(v[most][2])>>

MsckfFeatures(W) == {[views |-> v, anchor |-> TriangulationAnchor(v), landmark |-> <<>>] :
                       v \in Sightings(W, MaxMeas)}

SlamFeatures(W, f) == {[views |-> v, anchor |-> a, landmark |-> <<f>>] :
                         v \in Sightings(W, 1), a \in Cams \X W}

Updates(W) ==
  LET locals == {Local(f) : f \in MsckfFeatures(W)}
      firsts == {Local(f) : f \in SlamFeatures(W, Updated[1])}
      others == {Local(f) : f \in SlamFeatures(W, Updated[2])}
  IN (locals \X locals) \cup (firsts \X others)

-----------------------------------------------------------------------------
\* The reference: the derivatives the measurements of f have.
Derivatives(f) ==
  LET by(kind, vs) == UNION {{<<kind, v, k>> : k \in 0..(Size(v) - 1)} : v \in vs}
      seen         == ToSet(Measurements(f))
  IN by("pose", {Clone(m[2]) : m \in seen})
       \cup by("extrinsics", UNION {ToSet(Estimated(Pose[m[1]])) : m \in seen})
       \cup by("intrinsics", UNION {ToSet(Estimated(Intrinsics[m[1]])) : m \in seen})
       \cup (IF seen = {} THEN {} ELSE by("anchor", ToSet(AnchorOrder(f))))
       \cup by("lambda", {Landmark(m) : m \in ToSet(f.landmark)})

\* What EKFUpdate reads in block n: variable, component, and the derivatives there.
ReadByEKFUpdate(S, n) ==
  LET H_order == S.layout.order
      H_id    == Offsets(H_order)
      H       == S.blocks[n]
  IN UNION {UNION {{<<H_order[i], k, d>> : d \in IF H_id[i] + k \in DOMAIN H THEN H[H_id[i] + k] ELSE {}} :
                     k \in 0..(Size(H_order[i]) - 1)} : i \in DOMAIN H_order}

\* Every derivative is read once, as that of its own variable and component.
Agrees(S, ls) ==
  /\ S.layout.cols = Offsets(S.layout.order)[Len(S.layout.order) + 1]
  /\ \A n \in DOMAIN ls :
       ReadByEKFUpdate(S, n) = {<<d[2], d[3], d>> : d \in Derivatives(ls[n].feature)}

Windows == {W \in SUBSET Inspected : Cardinality(W) \in EnoughClones..(max_clone_size + 1)}

\* What an update asks of the state it is applied to.
Demand(W, S, ls) ==
  [window |-> W, variables |-> ToSet(S.layout.order), cols |-> S.layout.cols,
   rows |-> S.ct_meas, compressed |-> Compressed(S), agrees |-> Agrees(S, ls),
   max_meas_size |-> 2 * (Len(Measurements(ls[1].feature)) + Len(Measurements(ls[2].feature)))]

Demands == UNION {{Demand(W, BigSystem(ls), ls) : ls \in Updates(W)} : W \in Windows}

\* max_hx_size: UpdaterMSCKF leaves the landmarks out.
MaxHxSize(d) ==
  dim - (IF \E f \in Feats : Landmark(f) \in d.variables THEN 0 ELSE Cardinality(Landmarks) * FeatSize)

UpdateReadsItsDerivatives ==
  \A d \in Demands :
    d.window = clones /\ (\A f \in Feats : Landmark(f) \in d.variables => f \in Landmarks) =>
      /\ d.agrees
      /\ d.variables \subseteq variables
      /\ d.cols <= MaxHxSize(d) /\ d.rows \in 0..d.max_meas_size
      /\ d.compressed <= d.cols

DerivativesRight == RotationsAgree /\ JacobiansAgree /\ FeaturesInitialized

\* Whatever features an update is given, EKFUpdate multiplies each covariance block with
\* the derivatives of that block's variable, all of them of the state, and the assertions
\* on max_meas_size and max_hx_size hold; and so do EKFPropagation with the transition,
\* for every option and integration, and set_initial_covariance with the start.  The
\* derivatives are those of what is measured, with or without first estimates, and of the
\* change of an anchor, for every representation of a landmark; and the points they are
\* taken at are triangulated from exact views without error.
LinearizationsReadAsWritten ==
  (pc = "update" => UpdateReadsItsDerivatives) /\ MatricesReadAsWritten /\ DerivativesRight
=============================================================================
