------------------------- MODULE FeatureInitializer -------------------------
(***************************************************************************)
(* ov_core/src/feat/FeatureInitializer.cpp.  The linear systems of the     *)
(* triangulations and the Jacobian of the refinement are computed over     *)
(* dual numbers; the loop of the refinement is run for every outcome its   *)
(* comparisons may have.  Whether a result is accepted (its depth, its     *)
(* condition number, its baseline) is left to its callers' modules.        *)
(*                                                                         *)
(* A ClonePose is [R |-> R_GtoC, p |-> p_CinG]; a view is a pose and the   *)
(* normalized coordinates seen there.                                      *)
(***************************************************************************)
EXTENDS QuatOps

R_AtoC(ref, pose) == Product(pose.R, Transpose(ref.R))
p_CinA(ref, pose) == Apply(ref.R, Less(pose.p, ref.p))

Squared(A)  == Product(Transpose(A), A)
Bearing(uv) == Append(uv, One)

\* skew_x(b_i): the bearing of a view turned into the anchor's frame.
Bperp(ref, view) == skew_x(Apply(Transpose(R_AtoC(ref, view.pose)), Bearing(view.uv)))

\* "Append to our linear system": <<A, b>>.  b_i / b_i.norm() enters twice.
AppendToSystem(sys, ref, view) ==
  LET B  == Bperp(ref, view)
      Ai == Times(Div(One, Dot(Bearing(view.uv), Bearing(view.uv))), Squared(B))
  IN  <<MatPlus(sys[1], Ai), Plus(sys[2], Apply(Ai, p_CinA(ref, view.pose)))>>

single_triangulation(ref, views) ==
  LET sys[i \in 0..Len(views)] == IF i = 0 THEN <<Nil(3, 3), Vector(<<0, 0, 0>>)>>
                                  ELSE AppendToSystem(sys[i - 1], ref, views[i])
  IN  Apply(Inverse3(sys[Len(views)][1]), sys[Len(views)][2])

\* The depth along the last view, the anchor's, which is skipped.
single_triangulation_1d(ref, views) ==
  LET bearing_inA == Bearing(views[Len(views)].uv)
      BperpBanchor(i) == Apply(Bperp(ref, views[i]), bearing_inA)
      weight(i)   == Div(One, Dot(Bearing(views[i].uv), Bearing(views[i].uv)))
      sum[i \in 0..(Len(views) - 1)] ==
        IF i = 0 THEN <<Zero, Zero>>
        ELSE LET toC == Apply(Bperp(ref, views[i]), p_CinA(ref, views[i].pose))
             IN  <<Add(sum[i - 1][1], Mul(weight(i), Dot(BperpBanchor(i), BperpBanchor(i)))),
                   Add(sum[i - 1][2], Mul(weight(i), Dot(BperpBanchor(i), toC)))>>
      A == sum[Len(views) - 1][1]
      b == sum[Len(views) - 1][2]
  IN  Scaled(Div(b, A), bearing_inA)

\* feat->p_FinG.
InGlobal(ref, p_FinA) == Plus(Apply(Transpose(ref.R), p_FinA), ref.p)

\* Mistake: p_AinCi without its sign.
OriginUnsigned(ref, pose) == Apply(R_AtoC(ref, pose), p_CinA(ref, pose))
p_AinC(ref, pose) == Neg(Apply(R_AtoC(ref, pose), p_CinA(ref, pose)))

\* hi1, hi2 and hi3 of single_gaussnewton and compute_error, at x = <<alpha, beta, rho>>.
hi(ref, pose, x) ==
  Plus(Apply(R_AtoC(ref, pose), <<x[1], x[2], One>>), Scaled(x[3], p_AinC(ref, pose)))

OverDepthOf(h)  == <<Div(h[1], h[3]), Div(h[2], h[3])>>
Z(ref, pose, x) == OverDepthOf(hi(ref, pose, x))

\* d_z1_d_alpha ... d_z2_d_rho, by being the derivative of h.
Quotient(h, by) == Matrix(2, 3, LAMBDA i, j : Div(Sub(Mul(by[i][j], h[3]), Mul(h[i], by[3][j])), Mul(h[3], h[3])))
d_z(ref, pose, x) ==
  Quotient(hi(ref, pose, x),
           Beside(Entries(3, LAMBDA i : SubSeq(R_AtoC(ref, pose)[i], 1, 2)), Col(p_AinC(ref, pose))))

\* "Get into inverse depth" and "Revert to standard".
IntoInverseDepth(p) == <<Div(p[1], p[3]), Div(p[2], p[3]), Div(One, p[3])>>
RevertToStandard(x) == <<Div(x[1], x[3]), Div(x[2], x[3]), Div(One, x[3])>>

-----------------------------------------------------------------------------
(***************************************************************************)
(* The loop of single_gaussnewton.  A cost is a small number or NaN, lam a *)
(* power of lam_mult; at counts the steps that (alpha, beta, rho) has      *)
(* taken, hess those it had taken when Hess was summed up.  The bounds are *)
(* smaller than the options' and the loop is the same.                     *)
(***************************************************************************)
max_runs  == 2
max_lamda == 2
Costs == 0..4
NaN   == 5

LowerOrSame(a, b) == a # NaN /\ b # NaN /\ a <= b
\* (cost_old - cost) / cost_old < min_dcost, a quarter; 0 / 0 is not less.
Converging(cost_old, cost) == cost_old # 0 /\ 4 * (cost_old - cost) < cost_old

Start(cost) == [at |-> 0, hess |-> 0, cost |-> cost, cost_old |-> cost, runs |-> 0, lam |-> 0,
                recompute |-> TRUE, converged |-> FALSE, first |-> cost, fresh |-> TRUE]

Running(l) == l.runs < max_runs /\ l.lam < max_lamda /\ ~l.converged

\* Mistake: after a rejected step the Jacobians are never computed again.
AcceptedStale(l, cost, small) ==
  [l EXCEPT !.at = @ + 1, !.cost = cost, !.cost_old = cost, !.runs = @ + 1, !.lam = @ - 1, !.converged = small]

\* "If cost is lowered, accept step"; it may be small, eps <= min_dx.
Accepted(l, cost, small) ==
  [l EXCEPT !.recompute = TRUE, !.at = @ + 1, !.cost = cost, !.cost_old = cost, !.runs = @ + 1,
            !.lam = @ - 1, !.converged = small]

\* One pass: the step solved for has this cost.
Pass(l, cost, small) ==
  LET hess == IF l.recompute THEN l.at ELSE l.hess
      k    == [l EXCEPT !.hess = hess, !.fresh = hess = l.at]
  IN  IF LowerOrSame(cost, k.cost_old) /\ Converging(k.cost_old, cost)
      THEN [k EXCEPT !.at = @ + 1, !.cost = cost, !.converged = TRUE]
      ELSE IF LowerOrSame(cost, k.cost_old) THEN Accepted(k, cost, small)
      ELSE [k EXCEPT !.recompute = FALSE, !.lam = @ + 1]

\* Where the passes lead, one after the other.  A rejected pass is paid with lam, which
\* an accepted one gives back.
MostPasses == 2 * (max_runs - 1) + max_lamda
Loops ==
  LET after[n \in 0..MostPasses] ==
        IF n = 0 THEN {Start(c) : c \in Costs \cup {NaN}}
        ELSE UNION {{Pass(l, c, small) : c \in Costs \cup {NaN}, small \in BOOLEAN} :
                      l \in {m \in after[n - 1] : Running(m)}}
  IN  [n \in 0..MostPasses |-> after[n]]

\* It ends, whatever the costs are; each step is solved for with the Jacobians of the
\* estimate it is added to, and no estimate is worse than the triangulated one.
RefinementEnds ==
  /\ \A l \in Loops[MostPasses] : ~Running(l)
  /\ \A l \in UNION {Loops[n] : n \in 0..MostPasses} :
       l.fresh /\ (l.at > 0 => LowerOrSame(l.cost, l.first))

-----------------------------------------------------------------------------
\* Three poses, the last one the anchor's, and points in front of it.
ClonePose(q, p) == [R |-> quat_2_Rot(Vector(q)), p |-> Vector(p)]
Poses  == <<ClonePose(<<4, 7, 3, 12>>, <<3, 14, 8>>), ClonePose(<<5, 6, 9, 13>>, <<21, 2, 17>>),
            ClonePose(<<2, 6, 10, 4>>, <<9, 5, 23>>)>>
SamplePoints == {Vector(p) : p \in {<<2, 3, 5>>, <<4, 1, 6>>, <<11, 8, 3>>, <<7, 5, 12>>}}

\* What the poses see of p, a point in the anchor's frame.
Views(poses, ref, p) ==
  [i \in 1..3 |-> [pose |-> poses[i], uv |-> OverDepthOf(Apply(poses[i].R, Less(InGlobal(ref, p), poses[i].p)))]]

\* Exact views give the point back, with depth and bearing estimated or the depth alone,
\* and the refinement has no residual there and the Jacobian of what it compares.
Triangulated(ref, views, p, x) ==
  /\ single_triangulation(ref, views) = p
  /\ single_triangulation_1d(ref, views) = p
  /\ RevertToStandard(x) = p
  /\ \A i \in 1..3 :
       /\ Z(ref, views[i].pose, x) = views[i].uv
       /\ d_z(ref, views[i].pose, x) = Derivative(LAMBDA d : Z(ref, views[i].pose, Plus(x, d)), 3)

PointsTriangulated ==
  \A p \in SamplePoints : Triangulated(Poses[3], Views(Poses, Poses[3], p), p, IntoInverseDepth(p))

FeaturesInitialized == PointsTriangulated /\ RefinementEnds
=============================================================================
