------------------------------ MODULE Factors ------------------------------
(***************************************************************************)
(* What the dynamic initializer hands to ceres: preintegrated readings     *)
(* (CpiV1), the factors over them, over image points and over priors, and  *)
(* the camera models those are linearized with.                            *)
(*                                                                         *)
(* As in ErrorState a matrix is the set of its blocks, except where the    *)
(* numbers are polynomials: CamRadtan and the preintegration of a body     *)
(* that does not turn are computed in integers, and their derivatives      *)
(* compared with differences that are exact for polynomials.               *)
(***************************************************************************)
EXTENDS Integers, Sequences, SequencesExt

Sum(s) == FoldLeft(LAMBDA a, b : a + b, 0, s)

-----------------------------------------------------------------------------
(* CpiV1::feed_IMU and Factor_ImuCPIv1. *)

\* The continuous-time matrices: rows and columns of the 15 x 15 covariance P_meas.
F_k == {<<0, 0>>, <<0, 3>>, <<6, 0>>, <<6, 9>>, <<12, 6>>}
G_k == {<<0, 0>>, <<3, 3>>, <<6, 6>>, <<9, 9>>}
Q_c == {<<0, "sigma_w">>, <<3, "sigma_wb">>, <<6, "sigma_a">>, <<9, "sigma_ab">>}

\* The residual at each row, and what its formula uses.
ResidualRows == {<<"th", 0>>, <<"bg", 3>>, <<"v", 6>>, <<"ba", 9>>, <<"p", 12>>}
ResidualUses ==
  ({"th"} \X {"q_1", "q_2", "bg_1"}) \cup ({"bg"} \X {"bg_1", "bg_2"})
    \cup ({"v"} \X {"q_1", "v_1", "v_2", "bg_1", "ba_1"}) \cup ({"ba"} \X {"ba_1", "ba_2"})
    \cup ({"p"} \X {"q_1", "p_1", "p_2", "v_1", "bg_1", "ba_1"})

\* parameters[k], and what the initializer pushes; sizes of both.
Evaluated == <<"q_1", "bg_1", "v_1", "ba_1", "p_1", "q_2", "bg_2", "v_2", "ba_2", "p_2">>
factor_params == <<"q_1", "bg_1", "v_1", "ba_1", "p_1", "q_2", "bg_2", "v_2", "ba_2", "p_2">>

ImuJacobian ==
  {<<0, 0>>, <<0, 15>>, <<0, 3>>, <<3, 3>>, <<3, 18>>, <<6, 0>>, <<6, 6>>, <<6, 21>>, <<6, 3>>, <<6, 9>>,
   <<9, 9>>, <<9, 24>>, <<12, 0>>, <<12, 6>>, <<12, 12>>, <<12, 27>>, <<12, 3>>, <<12, 9>>}
\* jacobians[k] is taken from this column.
StoredFrom ==
  {<<0, 0>>, <<5, 15>>, <<1, 3>>, <<6, 18>>, <<2, 6>>, <<7, 21>>, <<3, 9>>, <<8, 24>>, <<4, 12>>, <<9, 27>>}

RowOf(x) == (CHOOSE r \in ResidualRows : r[1] = x)[2]

ImuFactorLinearized ==
  /\ factor_params = Evaluated
  /\ UNION {{<<r[1], Evaluated[s[1] + 1]>> : s \in {s \in StoredFrom : <<r[2], s[2]>> \in ImuJacobian}} :
              r \in ResidualRows} = ResidualUses
  \* the rows of P_meas, told by the noise that drives them, are those of the residuals
  /\ \A n \in {<<"th", "sigma_w">>, <<"bg", "sigma_wb">>, <<"v", "sigma_a">>, <<"ba", "sigma_ab">>} :
       \E g \in G_k : g[1] = RowOf(n[1]) /\ <<g[2], n[2]>> \in Q_c
  \* and each is driven by what its residual at the later time would use
  /\ F_k = {<<RowOf("th"), RowOf("th")>>, <<RowOf("th"), RowOf("bg")>>, <<RowOf("v"), RowOf("th")>>,
            <<RowOf("v"), RowOf("ba")>>, <<RowOf("p"), RowOf("v")>>}

\* feed_IMU for each <<delta_t, acceleration>> without rotation; alpha and H_a doubled.
\* Mistake: beta_tau is moved on before alpha_tau uses it.
BetaFirst(C, dt, a) ==
  [C EXCEPT !.alpha2 = @ + 2 * (C.beta + dt * a) * dt + dt * dt * a, !.beta = @ + dt * a,
            !.H_a2 = @ - dt * dt + 2 * dt * C.H_b, !.H_b = @ - dt]
feed_IMU(C, dt, a) ==
  [C EXCEPT !.alpha2 = @ + 2 * C.beta * dt + dt * dt * a, !.beta = @ + dt * a,
            !.H_a2 = @ - dt * dt + 2 * dt * C.H_b, !.H_b = @ - dt]

Preintegrated(readings, ba) ==
  LET C[i \in 0..Len(readings)] ==
        IF i = 0 THEN [alpha2 |-> 0, beta |-> 0, H_a2 |-> 0, H_b |-> 0]
        ELSE feed_IMU(C[i - 1], readings[i][1], readings[i][2] - ba)
  IN C[Len(readings)]

\* The means are the double and the single integral of the readings, and H_a and H_b
\* what a bias changes in them.
PreintegrationExact ==
  \A n \in 1..3 : \A s \in [1..n -> {1, 2} \X {-1, 0, 3}] :
    LET C     == Preintegrated(s, 0)
        after(i) == Sum([j \in 1..(n - i) |-> s[i + j][1]])
    IN /\ C.alpha2 = Sum([i \in 1..n |-> s[i][2] * s[i][1] * (s[i][1] + 2 * after(i))])
       /\ C.beta = Sum([i \in 1..n |-> s[i][2] * s[i][1]])
       /\ \A ba \in {-1, 2} :
            /\ Preintegrated(s, ba).alpha2 = C.alpha2 + C.H_a2 * ba
            /\ Preintegrated(s, ba).beta = C.beta + C.H_b * ba

-----------------------------------------------------------------------------
(* Factor_ImageReprojCalib and Factor_GenericPrior. *)

\* AddParameterBlock.
BlockSize == [ori |-> 4, pos |-> 3, vel |-> 3, bias_g |-> 3, bias_a |-> 3, feat |-> 3,
              calib_ori |-> 4, calib_pos |-> 3, calib_cam |-> 8]

\* The variables pushed with an image point, and the sizes the factor declares.
PointParams == <<"ori", "pos", "feat", "calib_ori", "calib_pos", "calib_cam">>
PointSizes == <<4, 3, 3, 4, 3, 8>>
\* Evaluate: what the error uses, jacobian by jacobian, as <<variable, tangent columns>>.
PointJacobians == <<<<"ori", 3>>, <<"pos", 3>>, <<"feat", 3>>, <<"calib_ori", 3>>, <<"calib_pos", 3>>, <<"calib_cam", 8>>>>
\* State_JPLQuatLocal: three degrees of freedom, read from the first three columns.
TangentSize(x) == IF x \in {"ori", "calib_ori"} THEN BlockSize[x] - 1 ELSE BlockSize[x]

\* x_type: entries of the value and of the error.
PriorTypes == [quat |-> <<4, 3>>, quat_yaw |-> <<4, 1>>, vec1 |-> <<1, 1>>, vec3 |-> <<3, 3>>, vec8 |-> <<8, 8>>]

\* The priors of the first pose and of a camera's calibration: variables, types, rows of
\* x_lin and of prior_Info, and <<variables meant, first row, rows>> of its blocks.
Priors ==
  {[params |-> <<"ori", "pos", "bias_g", "bias_a">>, x_types |-> <<"quat_yaw", "vec3", "vec3", "vec3">>,
    x_lin |-> 13, prior_Info |-> 10,
    blocks |-> {<<{1, 2}, 0, 4>>, <<{3}, 4, 3>>, <<{4}, 7, 3>>}],
   [params |-> <<"calib_ori", "calib_pos">>, x_types |-> <<"quat", "vec3">>, x_lin |-> 7, prior_Info |-> 6,
    blocks |-> {<<{1}, 0, 3>>, <<{2}, 3, 3>>}],
   [params |-> <<"calib_cam">>, x_types |-> <<"vec8">>, x_lin |-> 8, prior_Info |-> 8,
    blocks |-> {<<{1}, 0, 4>>, <<{1}, 4, 4>>}]}

\* global_it and local_it at each variable, and behind the last.
Walked(x_types, k) ==
  LET it[i \in 1..(Len(x_types) + 1)] == IF i = 1 THEN 0 ELSE it[i - 1] + PriorTypes[x_types[i - 1]][k]
  IN it

FactorSizesAgree ==
  /\ \A i \in DOMAIN PointParams :
       /\ BlockSize[PointParams[i]] = PointSizes[i]
       /\ PointJacobians[i] = <<PointParams[i], TangentSize(PointParams[i])>>
  /\ \A p \in Priors :
       LET n == Len(p.x_types)
           local_it == Walked(p.x_types, 2)
       IN /\ Walked(p.x_types, 1)[n + 1] = p.x_lin /\ local_it[n + 1] = p.prior_Info
          /\ \A i \in 1..n : PriorTypes[p.x_types[i]][1] = BlockSize[p.params[i]]
          /\ \A b \in p.blocks :
               UNION {c[2]..(c[2] + c[3] - 1) : c \in {c \in p.blocks : c[1] = b[1]}}
                 = UNION {local_it[i]..(local_it[i + 1] - 1) : i \in b[1]}

-----------------------------------------------------------------------------
(* Camera models: d is the vector of camera values, f_x, f_y, c_x, c_y and four of    *)
(* the distortion.                                                                    *)

distort(d, x, y) ==
  LET r_2 == x * x + y * y
      r_4 == r_2 * r_2
  IN <<d[1] * (x * (1 + d[5] * r_2 + d[6] * r_4) + 2 * d[7] * x * y + d[8] * (r_2 + 2 * x * x)) + d[3],
       d[2] * (y * (1 + d[5] * r_2 + d[6] * r_4) + d[7] * (r_2 + 2 * y * y) + 2 * d[8] * x * y) + d[4]>>

\* compute_distort_jacobian of CamRadtan.
H_dz_dzn(d, x, y) ==
  LET r_2  == x * x + y * y
      r_4  == r_2 * r_2
      mixed == 2 * d[5] * x * y + 4 * d[6] * x * y * r_2 + 2 * d[7] * x + 2 * d[8] * y
      same(c) == (1 + d[5] * r_2 + d[6] * r_4) + (2 * d[5] * c * c + 4 * d[6] * c * c * r_2)
  IN <<<<d[1] * (same(x) + 2 * d[7] * y + (2 * d[8] * x + 4 * d[8] * x)), d[1] * mixed>>,
       <<d[2] * mixed, d[2] * (same(y) + 2 * d[8] * x + (2 * d[7] * y + 4 * d[7] * y))>>>>

H_dz_dzeta(d, x, y) ==
  LET r_2 == x * x + y * y
      r_4 == r_2 * r_2
      z   == distort([d EXCEPT ![1] = 1, ![2] = 1, ![3] = 0, ![4] = 0], x, y)
  IN <<<<z[1], 0, 1, 0, d[1] * x * r_2, d[1] * x * r_4, 2 * d[1] * x * y, d[1] * (r_2 + 2 * x * x)>>,
       <<0, z[2], 0, 1, d[2] * y * r_2, d[2] * y * r_4, d[2] * (r_2 + 2 * y * y), 2 * d[2] * x * y>>>>

\* CamEqui: which camera values move which coordinate, in distort_f and in H_dz_dzeta.
EquiUses == {<<1, 1>>, <<1, 3>>, <<2, 2>>, <<2, 4>>} \cup ({1, 2} \X {5, 6, 7, 8})
EquiJacobian == {<<1, k>> : k \in {1, 3, 5, 6, 7, 8}} \cup {<<2, k>> : k \in {2, 4, 5, 6, 7, 8}}

CameraValues == {<<2, 3, 1, 1>> \o k : k \in [1..4 -> {-1, 0, 2}]}

\* Six times the derivative of a polynomial of degree at most six at 0, times ten.
SixtyTimesSlope(f) == 45 * (f[1] - f[-1]) - 9 * (f[2] - f[-2]) + (f[3] - f[-3])

CamerasLinearized ==
  /\ \A d \in CameraValues, x, y \in {-1, 0, 2}, i \in {1, 2} :
       /\ \A k \in 1..8 :
            distort([d EXCEPT ![k] = @ + 1], x, y)[i] - distort(d, x, y)[i] = H_dz_dzeta(d, x, y)[i][k]
       /\ 60 * H_dz_dzn(d, x, y)[i][1] = SixtyTimesSlope([s \in -3..3 |-> distort(d, x + s, y)[i]])
       /\ 60 * H_dz_dzn(d, x, y)[i][2] = SixtyTimesSlope([s \in -3..3 |-> distort(d, x, y + s)[i]])
  /\ EquiJacobian = EquiUses

FactorsAgree == ImuFactorLinearized /\ PreintegrationExact /\ FactorSizesAgree /\ CamerasLinearized
=============================================================================
