----------------------------- MODULE Jacobians -----------------------------
(***************************************************************************)
(* The numbers of the Jacobians UpdaterHelper lays out: Landmark.cpp, and  *)
(* get_feature_jacobian_* and perform_anchor_change of the updaters, for a *)
(* window of two clones and two cameras.  Each is compared with the        *)
(* derivative of the function it linearizes; how a camera distorts the     *)
(* normalized coordinates is left to Factors.                              *)
(*                                                                         *)
(* A window S maps the clones and the calibrations to poses.               *)
(***************************************************************************)
EXTENDS QuatOps

IMUClone(t) == <<"clone", t>>
IMUtoCAM(c) == <<"calib", c>>
Window   == {"clone", "calib"} \X {1, 2}

GlobalRepresentations   == {"GLOBAL_3D", "GLOBAL_FULL_INVERSE_DEPTH"}
RelativeRepresentations == {"ANCHORED_3D", "ANCHORED_FULL_INVERSE_DEPTH", "ANCHORED_MSCKF_INVERSE_DEPTH",
                            "ANCHORED_INVERSE_DEPTH_SINGLE"}

Cartesian == {"GLOBAL_3D", "ANCHORED_3D"}
Spherical == {"GLOBAL_FULL_INVERSE_DEPTH", "ANCHORED_FULL_INVERSE_DEPTH"}
Msckf     == "ANCHORED_MSCKF_INVERSE_DEPTH"
Single    == "ANCHORED_INVERSE_DEPTH_SINGLE"

-----------------------------------------------------------------------------
(***************************************************************************)
(* Landmark: rep is its _feat_representation.  A spherical one holds the   *)
(* angles theta and phi as cosine and sine.                                *)
(***************************************************************************)
\* theta, phi and rho of p.
SphericalOf(p) ==
  LET rho     == Div(One, Norm(p))
      cos_phi == Mul(rho, p[3])
      across  == Norm(<<p[1], p[2]>>)
  IN  << <<Div(p[1], across), Div(p[2], across)>>, <<cos_phi, Mul(rho, across)>>, rho>>

OverDepth(p) == <<Div(p[1], p[3]), Div(p[2], p[3])>>

\* What represents p, and its bearing.
ValueOf(rep, p) ==
  CASE rep \in Cartesian -> p
    [] rep \in Spherical -> SphericalOf(p)
    [] rep = Msckf       -> Append(OverDepth(p), Div(One, p[3]))
    [] rep = Single      -> <<Div(One, p[3])>>
BearingOf(rep, p) == IF rep = Single THEN Append(OverDepth(p), One) ELSE <<>>

set_from_xyz(lm, p, isfej) ==
  [lm EXCEPT ![IF isfej THEN "fej" ELSE "value"] = ValueOf(lm.rep, p),
             ![IF isfej THEN "uv_norm_zero_fej" ELSE "uv_norm_zero"] = BearingOf(lm.rep, p)]

get_xyz(lm, getfej) ==
  LET l == IF getfej THEN lm.fej ELSE lm.value
  IN  CASE lm.rep \in Cartesian -> l
        [] lm.rep \in Spherical -> Scaled(Div(One, l[3]), <<Mul(l[1][1], l[2][2]), Mul(l[1][2], l[2][2]), l[2][1]>>)
        [] lm.rep = Msckf       -> Scaled(Div(One, lm.value[3]), <<lm.value[1], lm.value[2], One>>)
        [] lm.rep = Single      -> Scaled(Div(One, lm.value[1]), lm.uv_norm_zero)

\* Landmark::update, the state being moved by d.
Turned(a, d)  == <<Sub(a[1], Mul(a[2], d)), Add(a[2], Mul(a[1], d))>>
Nudged(lm, d) ==
  [lm EXCEPT !.value = IF lm.rep \in Spherical THEN <<Turned(@[1], d[1]), Turned(@[2], d[2]), Add(@[3], d[3])>>
                       ELSE Plus(@, d)]

Unset(rep) == [rep |-> rep, value |-> <<>>, fej |-> <<>>, uv_norm_zero |-> <<>>, uv_norm_zero_fej |-> <<>>]
LandmarkAt(rep, p) == set_from_xyz(set_from_xyz(Unset(rep), p, FALSE), p, TRUE)

-----------------------------------------------------------------------------
(***************************************************************************)
(* UpdaterHelper.  A feature has the landmark's representation, p_FinA or  *)
(* p_FinG, p_FinG_fej, and its anchor.                                     *)
(***************************************************************************)
IsRelative(f) == f.rep \in RelativeRepresentations

\* Of a point in the anchor's camera.
FromAnchor(S, f, p) ==
  Plus(Apply(Transpose(Product(Rot(S[IMUtoCAM(f.cam)]), Rot(S[IMUClone(f.clone)]))), Less(p, S[IMUtoCAM(f.cam)].p)),
       S[IMUClone(f.clone)].p)
IntoAnchor(S, f, p) ==
  Plus(Apply(Product(Rot(S[IMUtoCAM(f.cam)]), Rot(S[IMUClone(f.clone)])), Less(p, S[IMUClone(f.clone)].p)),
       S[IMUtoCAM(f.cam)].p)

p_FinG(S, f) == IF IsRelative(f) THEN FromAnchor(S, f, f.p) ELSE f.p

\* The clones' first estimates are linearized at, the calibration's are not.
Linearized(S, first, do_fej) == [v \in Window |-> IF do_fej /\ v[1] = "clone" THEN first[v] ELSE S[v]]

\* d_pfinA_dpinv and its siblings: of the point p by l, which represents it.
BySpherical(th, phi, far, far2) ==
  << <<Minus(Mul(far, Mul(th[2], phi[2]))), Mul(far, Mul(th[1], phi[1])), Mul(far2, Mul(th[1], phi[2]))>>,
     <<Mul(far, Mul(th[1], phi[2])), Mul(far, Mul(th[2], phi[1])), Mul(far2, Mul(th[2], phi[2]))>>,
     <<Zero, Minus(Mul(far, phi[2])), Mul(far2, phi[1])>> >>

ByRepresentation(rep, p, l) ==
  LET deep == Mul(p[3], p[3])
      far  == Div(One, l[3])
  IN  CASE rep \in Cartesian -> Identity(3)
        [] rep \in Spherical -> BySpherical(l[1], l[2], far, Minus(Mul(far, far)))
        [] rep = Msckf  -> << <<p[3], Zero, Minus(Mul(deep, l[1]))>>, <<Zero, p[3], Minus(Mul(deep, l[2]))>>,
                              <<Zero, Zero, Minus(deep)>> >>
        [] rep = Single -> Col(Scaled(Minus(deep), Append(OverDepth(p), One)))

\* Mistake: p_FinA stays what it was in the anchor's current estimate.
PointKept(S, L, f) == f.p

\* "Transform the best into our anchor frame using FEJ".
PointInAnchor(S, L, f) == IntoAnchor(L, f, FromAnchor(S, f, f.p))

\* H_anc, H_calib and H_f of a feature at p_FinA.
AnchoredJacobian(f, R_ItoC, p_IinC, R_GtoI, p_FinA) ==
  LET R_CtoG  == Transpose(Product(R_ItoC, R_GtoI))
      lever   == Less(p_FinA, p_IinC)
      turned  == Product(Transpose(R_GtoI), skew_x(Apply(Transpose(R_ItoC), lever)))
      H_anc   == Beside(Times(Num(-1), turned), Identity(3))
      H_calib == Times(Num(-1), Beside(Product(R_CtoG, skew_x(lever)), R_CtoG))
  IN  [H_f |-> Product(R_CtoG, ByRepresentation(f.rep, p_FinA, ValueOf(f.rep, p_FinA))),
       H_x |-> [v \in Window |-> CASE v = IMUClone(f.clone) -> H_anc
                                   [] v = IMUtoCAM(f.cam)   -> H_calib
                                   [] OTHER                 -> Nil(3, 6)]]

GlobalJacobian(f, p) == [H_f |-> ByRepresentation(f.rep, p, ValueOf(f.rep, p)),
                         H_x |-> [v \in Window |-> Nil(3, 6)]]

get_feature_jacobian_representation(S, first, do_fej, f) ==
  LET L == Linearized(S, first, do_fej)
  IN  IF IsRelative(f)
      THEN AnchoredJacobian(f, Rot(L[IMUtoCAM(f.cam)]), L[IMUtoCAM(f.cam)].p, Rot(L[IMUClone(f.clone)]),
                            IF do_fej THEN PointInAnchor(S, L, f) ELSE f.p)
      ELSE GlobalJacobian(f, IF do_fej THEN f.p_FinG_fej ELSE f.p)

\* The rows of the measurement by camera c at t, p_FinI being the feature in the IMU there.
RowsOfMeasurement(c, t, R_ItoC, p_IinC, R_GtoI, p_FinI, dpfg) ==
  LET p_FinC      == Plus(Apply(R_ItoC, p_FinI), p_IinC)
      near        == Div(One, p_FinC[3])
      dzn_dpfc    == << <<near, Zero, Minus(Mul(p_FinC[1], Mul(near, near)))>>,
                        <<Zero, near, Minus(Mul(p_FinC[2], Mul(near, near)))>> >>
      dpfc_dpfg   == Product(R_ItoC, R_GtoI)
      dpfc_dclone == Beside(Product(R_ItoC, skew_x(p_FinI)), Times(Num(-1), dpfc_dpfg))
      dpfc_dcalib == Beside(skew_x(Less(p_FinC, p_IinC)), Identity(3))
      direct(v)   == CASE v = IMUClone(t) -> dpfc_dclone [] v = IMUtoCAM(c) -> dpfc_dcalib [] OTHER -> Nil(3, 6)
  IN  [H_f |-> Product(dzn_dpfc, Product(dpfc_dpfg, dpfg.H_f)),
       H_x |-> [v \in Window |-> Product(dzn_dpfc, MatPlus(direct(v), Product(dpfc_dpfg, dpfg.H_x[v])))]]

get_feature_jacobian_full(S, first, do_fej, f, c, t) ==
  LET L     == Linearized(S, first, do_fej)
      point == IF do_fej /\ ~IsRelative(f) THEN f.p_FinG_fej ELSE p_FinG(S, f)
  IN  RowsOfMeasurement(c, t, Rot(L[IMUtoCAM(c)]), L[IMUtoCAM(c)].p, Rot(L[IMUClone(t)]),
                        Apply(Rot(L[IMUClone(t)]), Less(point, L[IMUClone(t)].p)),
                        get_feature_jacobian_representation(S, first, do_fej, f))

-----------------------------------------------------------------------------
(***************************************************************************)
(* UpdaterSLAM::perform_anchor_change, for f as it is anchored and g as it *)
(* is going to be.                                                         *)
(***************************************************************************)
\* R_OLDtoNEW * get_xyz(false) + p_OLDinNEW.
AnchorPose(R, p_IinC, p_IinG) == [R |-> R, p |-> Less(p_IinG, Apply(Transpose(R), p_IinC))]
AnchorOf(S, f) ==
  AnchorPose(Product(Rot(S[IMUtoCAM(f.cam)]), Rot(S[IMUClone(f.clone)])), S[IMUtoCAM(f.cam)].p, S[IMUClone(f.clone)].p)

OldToNew(old, new, p) ==
  Plus(Apply(Product(new.R, Transpose(old.R)), p), Apply(new.R, Less(old.p, new.p)))
Reanchored(S, f, g, p) == OldToNew(AnchorOf(S, f), AnchorOf(S, g), p)

\* Mistake: the new anchor's Jacobians are placed, not subtracted.
NewAnchorPlaced(old, new) == IF new = Nil(3, 6) THEN old ELSE Times(Num(-1), new)

\* Place Jacobians for old anchor, place Jacobians for new anchor.
NewAnchorTaken(old, new) == MatPlus(old, Times(Num(-1), new))

FromOldToNew(old, new, H_f_new_inv) ==
  [H_f |-> Product(H_f_new_inv, old.H_f),
   H_x |-> [v \in Window |-> Product(H_f_new_inv, NewAnchorTaken(old.H_x[v], new.H_x[v]))]]

Phi(S, first, do_fej, f, g) ==
  LET new_feat == [f EXCEPT !.cam = g.cam, !.clone = g.clone, !.p = Reanchored(S, f, g, f.p)]
      new      == get_feature_jacobian_representation(S, first, do_fej, new_feat)
  IN  FromOldToNew(get_feature_jacobian_representation(S, first, do_fej, f), new, Inverse3(new.H_f))

-----------------------------------------------------------------------------
(***************************************************************************)
(* The samples and what is expected of them.                               *)
(***************************************************************************)
PoseOf(q, p) == [q |-> Vector(q), p |-> Vector(p)]
Sample ==
  [v \in Window |-> CASE v = IMUClone(1) -> PoseOf(<<4, 7, 3, 12>>, <<3, 14, 8>>)
                      [] v = IMUClone(2) -> PoseOf(<<5, 6, 9, 13>>, <<21, 2, 17>>)
                      [] v = IMUtoCAM(1) -> PoseOf(<<2, 6, 10, 4>>, <<9, 5, 23>>)
                      [] v = IMUtoCAM(2) -> PoseOf(<<1, 13, 1, 4>>, <<12, 28, 6>>)]
First ==
  [v \in Window |-> IF v[1] = "calib" THEN Sample[v]
                    ELSE [q |-> quat_multiply(Vector(<<2, 6, 10, 4>>), Sample[v].q),
                          p |-> Plus(Sample[v].p, Vector(<<7, 1, 11>>))]]

Roots         == {Num(r * r) : r \in 1..(Prime - 1)}
HasBearing(p) == p[3] # Zero /\ Dot(p, p) \in Roots /\ Dot(SubSeq(p, 1, 2), SubSeq(p, 1, 2)) \in Roots
WithBearing   == {p \in [1..3 -> {Num(k) : k \in 1..12}] : HasBearing(p)}
Few           == {p \in WithBearing : p[1] = Num(5) /\ p[2] \in {Num(3), Num(8), Num(12)}}

\* A feature at p, and where it is going to be anchored.
Feature(rep, p) == [rep |-> rep, cam |-> 1, clone |-> 1, p |-> p, p_FinG_fej |-> CHOOSE q \in Few : q # p]
Ahead(f) == [f EXCEPT !.clone = 2]

\* The point as the linearized window has it.
Linear(do_fej, f) ==
  IF ~do_fej THEN f.p
  ELSE IF IsRelative(f) THEN IntoAnchor(Linearized(Sample, First, TRUE), f, p_FinG(Sample, f))
  ELSE f.p_FinG_fej

\* A point that has a bearing wherever one is taken of it.
SeenPoint == Vector(<<4, 3, 4>>)

Features == {Feature(rep, SeenPoint) : rep \in GlobalRepresentations \cup RelativeRepresentations}

Change(S, v, d) == [S EXCEPT ![v] = PoseUpdate(@, d)]
Dims(lm) == Len(lm.value)

\* A Jacobian H is that of Function, which is given a window and a landmark.
Linearizes(H, Function(_, _), L, lm) ==
  /\ H.H_f = Derivative(LAMBDA d : Function(L, Nudged(lm, d)), Dims(lm))
  /\ \A v \in Window : H.H_x[v] = Derivative(LAMBDA d : Function(Change(L, v, d), lm), 6)

\* Each representation gives back the point that it was set from, and setting a first
\* estimate does not move the estimate.
LandmarksKept ==
  \A rep \in GlobalRepresentations \cup RelativeRepresentations, p, q \in Few :
    get_xyz(set_from_xyz(LandmarkAt(rep, p), q, TRUE), FALSE) = p

\* What camera c sees at t.
Projected(L, f, lm, c, t) ==
  LET point == p_FinG(L, [f EXCEPT !.p = get_xyz(lm, FALSE)])
      p_FinI == Apply(Rot(L[IMUClone(t)]), Less(point, L[IMUClone(t)].p))
  IN  OverDepth(Plus(Apply(Rot(L[IMUtoCAM(c)]), p_FinI), L[IMUtoCAM(c)].p))

JacobiansRight ==
  \A f \in Features, do_fej \in BOOLEAN, c, t \in {1, 2} :
    Linearizes(get_feature_jacobian_full(Sample, First, do_fej, f, c, t),
               LAMBDA S, lm : Projected(S, f, lm, c, t),
               Linearized(Sample, First, do_fej), LandmarkAt(f.rep, Linear(do_fej, f)))

\* What of l an error is of: an angle that turns moves by the sine of the difference.
Coordinates(rep, l) ==
  LET turn(a) == Sub(Mul(Num(a[1][1]), a[2]), Mul(Num(a[2][1]), a[1]))
  IN  IF rep \in Spherical THEN <<turn(l[1]), turn(l[2]), l[3]>> ELSE l

AnchorChangesRight ==
  \A f \in {x \in Features : IsRelative(x) /\ x.rep # Single}, do_fej \in BOOLEAN :
    Linearizes(Phi(Sample, First, do_fej, f, Ahead(f)),
               LAMBDA S, lm : Coordinates(f.rep, ValueOf(f.rep, Reanchored(S, f, Ahead(f), get_xyz(lm, FALSE)))),
               Linearized(Sample, First, do_fej), LandmarkAt(f.rep, Linear(do_fej, f)))

JacobiansAgree == LandmarksKept /\ JacobiansRight /\ AnchorChangesRight
=============================================================================
