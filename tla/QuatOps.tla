------------------------------ MODULE QuatOps ------------------------------
(***************************************************************************)
(* ov_core/src/utils/quat_ops.h, JPLQuat and PoseJPL over dual numbers.    *)
(* That q and -q are one rotation, and the division by a norm that is 1,   *)
(* are left out.  An angle is the pair of its cosine and sine.             *)
(***************************************************************************)
EXTENDS DualNumbers

skew_x(w) == << <<Zero, Minus(w[3]), w[2]>>, <<w[3], Zero, Minus(w[1])>>, <<Minus(w[2]), w[1], Zero>> >>

vee(w_x) == <<w_x[3][2], w_x[1][3], w_x[2][1]>>

Vec(q) == SubSeq(q, 1, 3)

\* Mistake: the rotation of a Hamilton quaternion, the transposed one.
HamiltonRot(q) ==
  MatPlus(MatPlus(Times(Sub(Mul(Num(2), Mul(q[4], q[4])), One), Identity(3)),
                  Times(Mul(Num(2), q[4]), skew_x(Vec(q)))),
          Times(Num(2), Product(Col(Vec(q)), <<Vec(q)>>)))

quat_2_Rot(q) ==
  MatPlus(MatPlus(Times(Sub(Mul(Num(2), Mul(q[4], q[4])), One), Identity(3)),
                  Times(Mul(Num(-2), q[4]), skew_x(Vec(q)))),
          Times(Num(2), Product(Col(Vec(q)), <<Vec(q)>>)))

quat_multiply(q, p) ==
  LET upper == Beside(MatPlus(Times(q[4], Identity(3)), Times(Num(-1), skew_x(Vec(q)))), Col(Vec(q)))
  IN  Apply(Append(upper, Append(Neg(Vec(q)), q[4])), p)

Inv(q) == Append(Neg(Vec(q)), q[4])

Omega(w) == Append(Beside(Times(Num(-1), skew_x(w)), Col(w)), Append(Neg(w), Zero))

\* About the axis k, of norm 1: A w_x is then sin k_x, and B w_x w_x is (1 - cos) k_x k_x.
exp_so3(k, c, s) ==
  MatPlus(MatPlus(Identity(3), Times(s, skew_x(k))), Times(Sub(One, c), Product(skew_x(k), skew_x(k))))

rot_x(c, s) == << <<One, Zero, Zero>>, <<Zero, c, Minus(s)>>, <<Zero, s, c>> >>
rot_y(c, s) == << <<c, Zero, s>>, <<Zero, One, Zero>>, <<Minus(s), Zero, c>> >>
rot_z(c, s) == << <<c, Minus(s), Zero>>, <<s, c, Zero>>, <<Zero, Zero, One>> >>

Inv_se3(R, p) == <<Transpose(R), Neg(Apply(Transpose(R), p))>>

\* Of a rotation with integer entries: the largest of the trace and the diagonal tells which
\* component to begin with, 4 for the trace, and the others are divided by it.
rot_2_quat(rot) ==
  LET T          == rot[1][1] + rot[2][2] + rot[3][3]
      largest(k) == rot[k][k] >= T /\ \A i \in 1..3 : rot[k][k] >= rot[i][i]
      first      == IF \E k \in 1..3 : largest(k)
                    THEN CHOOSE k \in 1..3 : largest(k) /\ \A i \in 1..(k - 1) : ~largest(i) ELSE 4
      q          == Root(Div(Num(IF first = 4 THEN 1 + T ELSE 1 + 2 * rot[first][first] - T), Num(4)))
      over(x)    == Div(Num(x), Mul(Num(4), q))
      sum(i, j)  == over(rot[i][j] + rot[j][i])
      last(k)    == over(rot[After(k)][After(After(k))] - rot[After(After(k))][After(k)])
  IN  IF first = 4 THEN <<last(1), last(2), last(3), q>>
      ELSE [k \in 1..3 |-> IF k = first THEN q ELSE sum(first, k)] \o <<last(first)>>

\* JPLQuat::update, PoseJPL::update and PoseJPL::Rot.
QuatUpdate(q, dx) == quat_multiply(Append(Scaled(Div(One, Num(2)), dx), One), q)
PoseUpdate(x, dx) == [q |-> QuatUpdate(x.q, SubSeq(dx, 1, 3)), p |-> Plus(x.p, SubSeq(dx, 4, 6))]
Rot(x) == quat_2_Rot(x.q)

-----------------------------------------------------------------------------
\* Some rotations and axes, of norm 1, and the rotations that permute the axes.
Quats == {Vector(q) : q \in {<<0, 0, 0, 1>>, <<4, 7, 3, 12>>, <<5, 6, 9, 13>>, <<2, 6, 10, 4>>, <<1, 13, 1, 4>>}}
Axes  == {Vector(k) : k \in {<<1, 0, 0>>, <<0, 1, 0>>, <<0, 0, 1>>, <<2, 3, 9>>, <<4, 4, 0>>}}
Angles == {Vector(a) : a \in {<<1, 0>>, <<0, 1>>, <<2, 11>>, <<4, 4>>}}

AxisRotations ==
  LET e(i, s)     == [j \in 1..3 |-> IF j = i THEN s ELSE 0]
      cross(u, v) == <<u[2] * v[3] - u[3] * v[2], u[3] * v[1] - u[1] * v[3], u[1] * v[2] - u[2] * v[1]>>
      two         == {a \in (1..3) \X (1..3) \X {1, -1} \X {1, -1} : a[1] # a[2]}
  IN  {LET u == e(a[1], a[3]) v == e(a[2], a[4]) IN <<u, v, cross(u, v)>> : a \in two}

\* Rotations multiply as quaternions do in JPL's order, are inverted with them and come back
\* from them; exp_so3 adds up the angles about an axis; and an update by theta turns by
\* exp(-theta) from the left.
RotationsAgree ==
  /\ \A q \in Quats :
       /\ \A p \in Quats :
            /\ quat_2_Rot(quat_multiply(q, p)) = Product(quat_2_Rot(q), quat_2_Rot(p))
            /\ Apply(Omega(Vec(p)), q) = quat_multiply(Append(Vec(p), Zero), q)
       /\ quat_multiply(Inv(q), q) = Vector(<<0, 0, 0, 1>>)
       /\ \A k \in 1..3 :
            quat_2_Rot(QuatUpdate(q, Along(k, 3)))
              = Product(exp_so3([i \in 1..3 |-> IF i = k THEN One ELSE Zero], One, Minus(Eps)), quat_2_Rot(q))
       /\ \A p \in Axes :
            LET T == Inv_se3(quat_2_Rot(q), p)
            IN  /\ Product(T[1], quat_2_Rot(q)) = Identity(3)
                /\ Plus(Apply(T[1], p), T[2]) = Vector(<<0, 0, 0>>)
  /\ \A k \in Axes :
       /\ vee(skew_x(k)) = k /\ Apply(skew_x(k), k) = Vector(<<0, 0, 0>>)
       /\ \A a, b \in Angles :
            Product(exp_so3(k, a[1], a[2]), exp_so3(k, b[1], b[2]))
              = exp_so3(k, Sub(Mul(a[1], b[1]), Mul(a[2], b[2])), Add(Mul(a[1], b[2]), Mul(a[2], b[1])))
  /\ \A a \in Angles :
       /\ rot_x(a[1], a[2]) = exp_so3(Vector(<<1, 0, 0>>), a[1], a[2])
       /\ rot_y(a[1], a[2]) = exp_so3(Vector(<<0, 1, 0>>), a[1], a[2])
       /\ rot_z(a[1], a[2]) = exp_so3(Vector(<<0, 0, 1>>), a[1], a[2])
  /\ \A R \in AxisRotations : quat_2_Rot(rot_2_quat(R)) = [i \in 1..3 |-> Vector(R[i])]
=============================================================================
