---------------------------- MODULE ErrorState ----------------------------
(***************************************************************************)
(* Who writes which block of a matrix, and who reads it as what.           *)
(*                                                                         *)
(* The error state of the IMU and of its intrinsics is laid out by the     *)
(* constructor of State.  Propagator, UpdaterZeroVelocity and the          *)
(* initializers fill matrices over it by offsets of their own, often       *)
(* plain numbers; StateHelper and ceres read them by theirs.  The numbers  *)
(* are left out: a matrix is the set of its blocks <<x, y>> that are not   *)
(* zero, x and y being what the writer takes the row and the column for.   *)
(*                                                                         *)
(* The reference is the function that was linearized: a derivative belongs *)
(* there exactly if the function uses the variable.                        *)
(***************************************************************************)
EXTENDS Integers, Sequences, SequencesExt

Widths == [q |-> 3, p |-> 3, v |-> 3, bg |-> 3, ba |-> 3,
           dw |-> 6, da |-> 6, tg |-> 9, wtoI |-> 3, atoI |-> 3]

\* do_calib_imu_intrinsics, do_calib_imu_g_sensitivity, and imu_model = KALIBR.
Options == [intrinsics : BOOLEAN, g : BOOLEAN, kalibr : BOOLEAN]

If(c, parts) == IF c THEN parts ELSE <<>>

\* The offset of each part of a sequence, and the part at an offset.
Ends(order) ==
  LET end[i \in 0..Len(order)] == IF i = 0 THEN 0 ELSE end[i - 1] + Widths[order[i]]
  IN end
Place(order, x) == Ends(order)[CHOOSE i \in 0..(Len(order) - 1) : order[i + 1] = x]
PartAt(order, c) ==
  LET at == {i \in 0..(Len(order) - 1) : Ends(order)[i] = c}
  IN IF at = {} THEN "none" ELSE order[(CHOOSE i \in at : TRUE) + 1]

-----------------------------------------------------------------------------
(* The state, and what Propagator passes on. *)

\* IMU::set_local_id and PoseJPL::set_local_id; the intrinsics come right behind.
ImuParts == <<"q", "p", "v", "bg", "ba">>
StateOrder(o) ==
  ImuParts \o If(o.intrinsics,
                 <<"dw", "da">> \o If(o.g, <<"tg">>) \o If(o.kalibr, <<"wtoI">>) \o If(~o.kalibr, <<"atoI">>))

imu_intrinsic_size(o) == IF o.intrinsics THEN 15 + (IF o.g THEN 9 ELSE 0) ELSE 0

Phi_order(o) ==
  ImuParts \o If(o.intrinsics, <<"dw", "da">>) \o If(o.intrinsics /\ o.g, <<"tg">>)
           \o If(o.intrinsics, IF o.kalibr THEN <<"wtoI">> ELSE <<"atoI">>)

\* th_id ... th_atoI_id of compute_F_and_G_*.  Mistake: those of tg left behind.
LocalOrderTgLast(o) ==
  ImuParts \o If(o.intrinsics, <<"dw", "da">> \o (IF o.kalibr THEN <<"wtoI">> ELSE <<"atoI">>)
                                 \o If(o.g, <<"tg">>))
LocalOrder(o) ==
  ImuParts \o If(o.intrinsics, <<"dw", "da">> \o If(o.g, <<"tg">>)
                                 \o (IF o.kalibr THEN <<"wtoI">> ELSE <<"atoI">>))

Known(o, parts) == parts \cap ToSet(LocalOrder(o))
Itself(o) == {<<x, x>> : x \in ToSet(LocalOrder(o))}

compute_F_analytic(o) ==
  Itself(o)
    \cup {<<"p", "q">>, <<"v", "q">>, <<"p", "v">>}
    \cup {"q", "p", "v"} \X Known(o, {"bg", "ba", "dw", "da", "tg", "atoI", "wtoI"})
compute_F_discrete(o) ==
  Itself(o)
    \cup {<<"p", "q">>, <<"v", "q">>, <<"p", "v">>}
    \cup {"q"} \X Known(o, {"bg", "ba", "dw", "da", "tg", "atoI", "wtoI"})
    \cup {"p", "v"} \X Known(o, {"ba", "da", "atoI"})

\* G: the block at <<row, column>>; Qc: the noise at each column.
compute_G_analytic == ({"q", "p", "v"} \X {0, 3}) \cup {<<"bg", 6>>, <<"ba", 9>>}
compute_G_discrete == ({"q", "p", "v"} \X {3}) \cup {<<"q", 0>>, <<"bg", 6>>, <<"ba", 9>>}
Qc == {<<0, "sigma_w">>, <<3, "sigma_a">>, <<6, "sigma_wb">>, <<9, "sigma_ab">>}

Transition(o, method) == IF method = "discrete" THEN compute_F_discrete(o) ELSE compute_F_analytic(o)
NoiseJacobian(method) == IF method = "discrete" THEN compute_G_discrete ELSE compute_G_analytic

\* EKFPropagation: rows from order_NEW's first id on, columns by Phi_id.
PropagationReads(o, method) ==
  {<<PartAt(StateOrder(o), Place(StateOrder(o), Phi_order(o)[1]) + Place(LocalOrder(o), b[1])),
     PartAt(Phi_order(o), Place(LocalOrder(o), b[2]))>> : b \in Transition(o, method)}

\* Its guard, and its assertions on the size of Phi.
Contiguous(o, order) ==
  \A i \in 1..(Len(order) - 1) :
    Place(StateOrder(o), order[i]) + Widths[order[i]] = Place(StateOrder(o), order[i + 1])
PhiSize(o) == imu_intrinsic_size(o) + 15

\* The readings after correction, and predict_mean_*.
a_hat(o) == {"ba"} \cup (IF o.intrinsics THEN {"da"} \cup (IF o.kalibr THEN {} ELSE {"atoI"}) ELSE {})
w_hat(o) ==
  {"bg"} \cup a_hat(o)
    \cup (IF o.intrinsics THEN {"dw"} \cup (IF o.g THEN {"tg"} ELSE {}) \cup (IF o.kalibr THEN {"wtoI"} ELSE {})
          ELSE {})
Moved(o, by) ==
  Itself(o) \cup ({"q"} \X w_hat(o)) \cup ({"v"} \X ({"q"} \cup by)) \cup ({"p"} \X ({"q", "v"} \cup by))
\* The discrete one rotates the readings once, the others all along.
predict_mean_discrete(o) == Moved(o, a_hat(o))
predict_mean_rk4(o) == Moved(o, a_hat(o) \cup w_hat(o))
predict_mean_analytic(o) == Moved(o, a_hat(o) \cup w_hat(o))
predict_mean(o, method) ==
  CASE method = "discrete" -> predict_mean_discrete(o)
    [] method = "rk4"      -> predict_mean_rk4(o)
    [] method = "analytic" -> predict_mean_analytic(o)

Entering(o, method, x) == {b[1] : b \in {c \in predict_mean(o, method) : c[2] = x}} \ {x}

\* The transition is that of the mean that was predicted, and EKFPropagation reads it,
\* and the noise, as that of the same parts of the state.
PropagationLinearized ==
  \A o \in Options, method \in {"discrete", "rk4", "analytic"} :
    /\ PropagationReads(o, method) = predict_mean(o, method)
    /\ Contiguous(o, Phi_order(o))
    /\ PhiSize(o) = Ends(Phi_order(o))[Len(Phi_order(o))]
    /\ {<<b[1], n[2]>> : <<b, n>> \in {<<b, n>> \in NoiseJacobian(method) \X Qc : b[2] = n[1]}}
         = (Entering(o, method, "bg") \X {"sigma_w"}) \cup (Entering(o, method, "ba") \X {"sigma_a"})
             \cup {<<"bg", "sigma_wb">>, <<"ba", "sigma_ab">>}

-----------------------------------------------------------------------------
(* The parameters of the IMU models: entry <<row, column, index>> of State::Dm and    *)
(* State::Tg, and each column of compute_H_D* and compute_H_Tg as <<component, unit>>. *)
Dm(kalibr) ==
  IF kalibr THEN {<<1, 1, 0>>, <<2, 1, 1>>, <<2, 2, 3>>, <<3, 1, 2>>, <<3, 2, 4>>, <<3, 3, 5>>}
            ELSE {<<1, 1, 0>>, <<1, 2, 1>>, <<1, 3, 3>>, <<2, 2, 2>>, <<2, 3, 4>>, <<3, 3, 5>>}
Tg == {<<1, 1, 0>>, <<1, 2, 3>>, <<1, 3, 6>>, <<2, 1, 1>>, <<2, 2, 4>>, <<2, 3, 7>>,
       <<3, 1, 2>>, <<3, 2, 5>>, <<3, 3, 8>>}
TimesIdentity(c) == <<<<c, 1>>, <<c, 2>>, <<c, 3>>>>
compute_H_D(kalibr) ==
  IF kalibr THEN TimesIdentity(1) \o <<<<2, 2>>, <<2, 3>>, <<3, 3>>>>
            ELSE <<<<1, 1>>, <<2, 1>>, <<2, 2>>>> \o TimesIdentity(3)
compute_H_Tg == TimesIdentity(1) \o TimesIdentity(2) \o TimesIdentity(3)

\* Column k is the derivative of the product of the matrix with a reading.
DerivativeOf(matrix, columns) ==
  {<<e[3] + 1, <<e[2], e[1]>>>> : e \in matrix} = {<<k, columns[k]>> : k \in DOMAIN columns}

ParametersLinearized ==
  /\ \A kalibr \in BOOLEAN : DerivativeOf(Dm(kalibr), compute_H_D(kalibr))
  /\ DerivativeOf(Tg, compute_H_Tg)

-----------------------------------------------------------------------------
(* Zero velocity updates, and the covariance the filter starts with. *)

HxOrder == <<"q", "bg", "ba">>
\* H of try_update: <<measurement, column>>, and where Q_bias is added.
StillJacobian == {<<"w_true", 3>>, <<"a_true", 0>>, <<"a_true", 6>>}
BiasNoise == {<<0, "sigma_wb">>, <<3, "sigma_ab">>}
BiasOrder == <<"bg", "ba">>

StillLinearized ==
  /\ {<<b[1], PartAt(HxOrder, b[2])>> : b \in StillJacobian} = {<<"w_true", "bg">>, <<"a_true", "q">>, <<"a_true", "ba">>}
  /\ \A n \in BiasNoise : PartAt(BiasOrder, n[1]) = PartAt(HxOrder, 3 + n[1])
  /\ \A o \in Options : Contiguous(o, BiasOrder)
  /\ \A n \in BiasNoise : \A c \in {6, 9} : <<c, n[2]>> \in Qc => <<PartAt(BiasOrder, n[1]), c>> \in compute_G_analytic

\* covariance.block(i, k, 3, 3) of the dynamic initializer, upper part: what is asked
\* of ceres, what is fetched, and where it goes.
covariance_blocks ==
  {<<x, x>> : x \in ToSet(ImuParts)} \cup ({"q"} \X {"p", "v", "bg", "ba"})
    \cup ({"p"} \X {"v", "bg", "ba"}) \cup ({"v"} \X {"bg", "ba"}) \cup {<<"bg", "ba">>}
RecoveredAt == {<<"q", 0>>, <<"p", 3>>, <<"v", 6>>, <<"bg", 9>>, <<"ba", 12>>}
\* init_dyn_inflation_*; the diagonal blocks of the static initializer and of
\* initialize_with_gt.
Inflated == {<<"q", 0>>, <<"v", 6>>, <<"bg", 9>>, <<"ba", 12>>}
StaticCovariance == {<<"q", 0>>, <<"p", 3>>, <<"v", 6>>}
GroundTruthCovariance == {<<"q", 0>>, <<"p", 3>>, <<"v", 6>>}

\* set_initial_covariance with the order {imu}; IMU::update.
InitialReads(i) == PartAt(ImuParts, i)
ImuUpdate == {<<"q", 0>>, <<"p", 3>>, <<"v", 6>>, <<"bg", 9>>, <<"ba", 12>>}

\* The value of the IMU, a quaternion longer: where it is read and where it is written.
ImuValue == {<<"q", 0>>, <<"p", 4>>, <<"v", 7>>, <<"bg", 10>>, <<"ba", 13>>}
PropagatedValue == {<<"q", 0>>, <<"p", 4>>, <<"v", 7>>}
StaticValue == {<<"q", 0>>, <<"bg", 10>>, <<"ba", 13>>}
RecoveredValue == {<<"q", 0>>, <<"p", 4>>, <<"v", 7>>, <<"bg", 10>>, <<"ba", 13>>}

StartLinearized ==
  /\ \A c \in RecoveredAt \cup Inflated \cup StaticCovariance \cup GroundTruthCovariance \cup ImuUpdate :
       InitialReads(c[2]) = c[1]
  /\ \A x, y \in ToSet(ImuParts) : <<x, y>> \in covariance_blocks \/ <<y, x>> \in covariance_blocks
  /\ {c[1] : c \in RecoveredAt} = ToSet(ImuParts)
  /\ PropagatedValue \cup StaticValue \cup RecoveredValue \subseteq ImuValue

MatricesReadAsWritten == PropagationLinearized /\ ParametersLinearized /\ StillLinearized /\ StartLinearized
=============================================================================
