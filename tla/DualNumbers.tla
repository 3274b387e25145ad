---------------------------- MODULE DualNumbers ----------------------------
(***************************************************************************)
(* Numbers to check derivatives with.  <<x, y>> is x + y eps, eps^2 = 0,   *)
(* both parts modulo a prime, so that every division is exact.  A function *)
(* of x + eps has its derivative at x behind eps, and a formula made of    *)
(* sums, products and quotients that is wrong for real numbers is wrong    *)
(* here for almost every choice of its arguments.                          *)
(*                                                                         *)
(* A vector is a sequence of numbers, a matrix the sequence of its rows.   *)
(***************************************************************************)
EXTENDS Integers, Sequences

Prime == 31       \* 1, 2 and 4 have roots

Num(k) == <<k % Prime, 0>>
Zero   == Num(0)
One    == Num(1)
Eps    == <<0, 1>>

Add(x, y) == <<(x[1] + y[1]) % Prime, (x[2] + y[2]) % Prime>>
Sub(x, y) == <<(x[1] - y[1]) % Prime, (x[2] - y[2]) % Prime>>
Mul(x, y) == <<(x[1] * y[1]) % Prime, (x[1] * y[2] + x[2] * y[1]) % Prime>>
Minus(x)  == Sub(Zero, x)

\* 1 / 0 is 0.
Reciprocals == [k \in 0..(Prime - 1) |->
                  IF k = 0 THEN 0 ELSE CHOOSE r \in 1..(Prime - 1) : (k * r) % Prime = 1]
Div(x, y) == LET r == Reciprocals[y[1]] IN Mul(x, <<r, (-(y[2] * r * r)) % Prime>>)

\* The smaller root of a number, not 0, that has one.
Root(x) ==
  LET r == CHOOSE k \in 1..(Prime \div 2) : (k * k) % Prime = x[1]
  IN  <<r, Div(Num(x[2]), Num(2 * r))[1]>>

\* SubSeq has TLC compute each entry once.
Entries(n, entry(_)) == SubSeq([i \in 1..n |-> entry(i)], 1, n)

Vector(s)     == Entries(Len(s), LAMBDA i : Num(s[i]))
Plus(u, v)    == Entries(Len(u), LAMBDA i : Add(u[i], v[i]))
Less(u, v)    == Entries(Len(u), LAMBDA i : Sub(u[i], v[i]))
Scaled(a, v)  == Entries(Len(v), LAMBDA i : Mul(a, v[i]))
Neg(v)        == Scaled(Num(-1), v)
Dot(u, v)     == LET sum[i \in 0..Len(u)] == IF i = 0 THEN Zero ELSE Add(sum[i - 1], Mul(u[i], v[i]))
                 IN  sum[Len(u)]
Norm(v)       == Root(Dot(v, v))

Matrix(m, n, entry(_, _)) == Entries(m, LAMBDA i : Entries(n, LAMBDA j : entry(i, j)))
Identity(n)   == Matrix(n, n, LAMBDA i, j : IF i = j THEN One ELSE Zero)
Nil(m, n)     == Matrix(m, n, LAMBDA i, j : Zero)
Transpose(A)  == Matrix(Len(A[1]), Len(A), LAMBDA i, j : A[j][i])
Apply(A, v)   == Entries(Len(A), LAMBDA i : Dot(A[i], v))
Product(A, B) == LET C == Transpose(B) IN Matrix(Len(A), Len(C), LAMBDA i, j : Dot(A[i], C[j]))
MatPlus(A, B) == Entries(Len(A), LAMBDA i : Plus(A[i], B[i]))
Times(a, A)   == Entries(Len(A), LAMBDA i : Scaled(a, A[i]))
Beside(A, B)  == Entries(Len(A), LAMBDA i : A[i] \o B[i])
Col(v)        == Entries(Len(v), LAMBDA i : <<v[i]>>)

\* Of a 3 x 3 matrix: the determinant and the inverse by cofactors.
After(k) == (k % 3) + 1
Cofactor(A, i, j) ==
  LET r == After(i)
      c == After(j)
  IN  Sub(Mul(A[r][c], A[After(r)][After(c)]), Mul(A[r][After(c)], A[After(r)][c]))
Det(A)     == Dot(A[1], Entries(3, LAMBDA j : Cofactor(A, 1, j)))
Inverse3(A) == LET d == Div(One, Det(A)) IN Matrix(3, 3, LAMBDA i, j : Mul(d, Cofactor(A, j, i)))

\* eps in the k-th of n components, and the derivative of f, a function of n changes.
Along(k, n) == Entries(n, LAMBDA i : IF i = k THEN Eps ELSE Zero)
Derivative(f(_), n) ==
  LET moved == Entries(n, LAMBDA k : f(Along(k, n)))
  IN  Matrix(Len(moved[1]), n, LAMBDA i, k : Num(moved[k][i][2]))
=============================================================================
