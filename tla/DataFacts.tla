------------------------------ MODULE DataFacts ------------------------------
(***************************************************************************)
(* Facts that the proofs share, about numbers, sequences and the operators *)
(* on them.  They are stated for sets and sequences, so that they can be   *)
(* cited: minima, maxima, and induction as a fact about the set of numbers *)
(* that have the property; what Kept keeps; and what                       *)
(* Propagator::select_imu_readings returns, for buffers of any number of   *)
(* readings and periods of any length.                                     *)
(***************************************************************************)
EXTENDS ImuSelect, SequenceTheorems, WellFoundedInduction, TLAPS

LEMMA MinOfNaturals ==
  ASSUME NEW S \in SUBSET Nat, S # {}
  PROVE  Min(S) \in S /\ \A y \in S : Min(S) <= y
<1> DEFINE Less == OpToRel(<, Nat)
<1>1. \A x, y \in Nat : y < x => <<y, x>> \in Less
  BY DEF OpToRel
<1>2. IsWellFoundedOn(Less, Nat)
  BY NatLessThanWellFounded
<1> HIDE DEF Less
<1>3. PICK x \in S : \A y \in S : ~(<<y, x>> \in Less)
  BY <1>2, WFMin
<1>4. \A y \in S : ~(y < x) /\ y \in Nat /\ x \in Nat
  BY <1>1, <1>3
<1>5. \A y \in S : x <= y
  BY <1>4
<1> QED BY <1>5 DEF Min

LEMMA MaxOfBounded ==
  ASSUME NEW b \in Nat, NEW S \in SUBSET (0..b), S # {}
  PROVE  Max(S) \in S /\ \A y \in S : y <= Max(S)
<1> DEFINE T == {b - n : n \in S}
<1>1. T \subseteq Nat /\ T # {}
  <2>1. \A n \in S : n \in Nat /\ b - n \in Nat
    OBVIOUS
  <2>2. PICK n : n \in S
    OBVIOUS
  <2>3. b - n \in T
    BY <2>2
  <2> QED BY <2>1, <2>3
<1>2. Min(T) \in T /\ \A y \in T : Min(T) <= y
  BY <1>1, MinOfNaturals
<1>3. PICK n \in S : Min(T) = b - n
  BY <1>2
<1>4. \A m \in S : m <= n
  <2> SUFFICES ASSUME NEW m \in S PROVE m <= n
    OBVIOUS
  <2>1. b - m \in T
    OBVIOUS
  <2>2. b - n <= b - m
    BY <2>1, <1>2, <1>3
  <2> QED BY <2>2
<1> QED BY <1>4 DEF Max

\* Induction: a set of naturals with 0, and with n + 1 if with n, is Nat.
LEMMA Inductive ==
  ASSUME NEW S, 0 \in S, \A n \in Nat : n \in S => n + 1 \in S
  PROVE  Nat \subseteq S
<1> SUFFICES ASSUME Nat \ S # {} PROVE FALSE
  OBVIOUS
<1> DEFINE m == Min(Nat \ S)
<1>1. m \in Nat /\ m \notin S /\ \A y \in Nat \ S : m <= y
  BY MinOfNaturals
<1> HIDE DEF m
<1>2. m # 0 /\ m - 1 \in Nat /\ m - 1 \in S
  BY <1>1
<1>3. (m - 1) + 1 \in S /\ (m - 1) + 1 = m
  BY <1>1, <1>2
<1> QED BY <1>1, <1>3
\* Cutting a sequence in two loses nothing.
LEMMA CutInTwo ==
  ASSUME NEW T, NEW r \in Seq(T), NEW q \in Seq(T), NEW n \in 0..Len(q)
  PROVE  (r \o SubSeq(q, 1, n)) \o SubSeq(q, n + 1, Len(q)) = r \o q
<1> DEFINE a == SubSeq(q, 1, n)
           b == SubSeq(q, n + 1, Len(q))
<1>1. a \in Seq(T) /\ b \in Seq(T)
  OBVIOUS
<1>2. a \o b = q
  <2>1. 1 \in 1..(Len(q) + 1) /\ n \in (1 - 1)..Len(q) /\ Len(q) \in n..Len(q)
    OBVIOUS
  <2> QED BY <2>1, ConcatAdjacentSubSeq, SubSeqFull
<1>3. \A x, y, z \in Seq(T) : (x \o y) \o z = x \o (y \o z)
  BY ConcatAssociative
<1> HIDE DEF a, b
<1>4. (r \o a) \o b = r \o (a \o b)
  BY <1>1, <1>3
<1> QED BY <1>2, <1>4 DEF a, b

LEMMA PairOf == ASSUME NEW x, NEW y PROVE <<x>> \o <<y>> = <<x, y>>
<1> DEFINE S == {x, y}
           p == <<x>> \o <<y>>
           q == <<x, y>>
<1>1. <<x>> \in Seq(S) /\ <<y>> \in Seq(S) /\ q \in Seq(S) /\ Len(q) = 2 /\ q[1] = x /\ q[2] = y
  OBVIOUS
<1>2. p \in Seq(S) /\ Len(p) = 2 /\ p[1] = x /\ p[2] = y
  BY <1>1, ConcatProperties
<1> HIDE DEF S, p, q
<1>3. \A i \in 1..Len(p) : p[i] = q[i]
  BY <1>1, <1>2
<1>4. p = q
  BY <1>1, <1>2, <1>3, SeqEqual
<1> QED BY <1>4 DEF p, q

-----------------------------------------------------------------------------
(***************************************************************************)
(* FlattenSeq.                                                             *)
(***************************************************************************)
\* f is the function that FlattenSeq computes, on the first n pieces.
Flattens(f, seqs, n) ==
  f = [i \in 1..n |-> IF i = 1 THEN seqs[i] ELSE f[i - 1] \o seqs[i]]

LEMMA FlattensExists == \A n \in Nat : \A seqs : \E f : Flattens(f, seqs, n)
<1> DEFINE S == {n \in Nat : \A seqs : \E f : Flattens(f, seqs, n)}
<1>1. 0 \in S
  <2>1. ASSUME NEW seqs PROVE Flattens(<<>>, seqs, 0)
    BY DEF Flattens
  <2> QED BY <2>1
<1>2. ASSUME NEW n \in Nat, n \in S PROVE n + 1 \in S
  <2> SUFFICES ASSUME NEW seqs PROVE \E f : Flattens(f, seqs, n + 1)
    OBVIOUS
  <2>1. PICK f : Flattens(f, seqs, n)
    BY <1>2
  <2> DEFINE g == [i \in 1..(n + 1) |-> IF i = n + 1
                     THEN IF i = 1 THEN seqs[i] ELSE f[i - 1] \o seqs[i] ELSE f[i]]
  <2>2. \A i \in 1..n : f[i] = IF i = 1 THEN seqs[i] ELSE f[i - 1] \o seqs[i]
    BY <2>1 DEF Flattens
  <2>3. \A i \in 1..n : g[i] = f[i]
    OBVIOUS
  <2>4. \A i \in 1..(n + 1) : g[i] = IF i = 1 THEN seqs[i] ELSE g[i - 1] \o seqs[i]
    <3> SUFFICES ASSUME NEW i \in 1..(n + 1)
                 PROVE  g[i] = IF i = 1 THEN seqs[i] ELSE g[i - 1] \o seqs[i]
      OBVIOUS
    <3>1. i # 1 => i - 1 \in 1..n
      OBVIOUS
    <3>2. CASE i = n + 1
      <4>1. g[i] = IF i = 1 THEN seqs[i] ELSE f[i - 1] \o seqs[i]
        BY <3>2
      <4> QED BY <4>1, <3>1, <2>3
    <3>3. CASE i # n + 1
      <4>1. i \in 1..n
        BY <3>3
      <4> QED BY <4>1, <3>1, <2>2, <2>3
    <3> QED BY <3>2, <3>3
  <2>5. Flattens(g, seqs, n + 1)
    <3> DEFINE h == [i \in 1..(n + 1) |-> IF i = 1 THEN seqs[i] ELSE g[i - 1] \o seqs[i]]
    <3>1. \A i \in 1..(n + 1) : g[i] = h[i]
      BY <2>4
    <3>2. DOMAIN g = 1..(n + 1) /\ DOMAIN h = 1..(n + 1)
      OBVIOUS
    <3>3. g = h
      BY <3>1, <3>2
    <3> QED BY <3>3 DEF Flattens
  <2> QED BY <2>5
<1> QED BY <1>1, <1>2, Inductive

LEMMA FlattenEmpty == ASSUME NEW seqs, Len(seqs) = 0 PROVE FlattenSeq(seqs) = seqs
  BY DEF FlattenSeq

LEMMA FlattenIs ==
  ASSUME NEW T, NEW seqs \in Seq(Seq(T)), Len(seqs) # 0
  PROVE  \E f : Flattens(f, seqs, Len(seqs)) /\ FlattenSeq(seqs) = f[Len(seqs)]
<1> DEFINE f == CHOOSE f : Flattens(f, seqs, Len(seqs))
<1>1. Flattens(f, seqs, Len(seqs))
  <2>1. Len(seqs) \in Nat
    OBVIOUS
  <2>2. \E g : Flattens(g, seqs, Len(seqs))
    BY <2>1, FlattensExists
  <2> QED BY <2>2
<1>2. FlattenSeq(seqs) = f[Len(seqs)]
  BY DEF FlattenSeq, Flattens
<1> QED BY <1>1, <1>2

\* One more piece is one more concatenation.
LEMMA FlattenAppend ==
  ASSUME NEW T, NEW seqs \in Seq(Seq(T)), NEW p \in Seq(T)
  PROVE  FlattenSeq(Append(seqs, p)) = FlattenSeq(seqs) \o p
<1> DEFINE n == Len(seqs)
           more == Append(seqs, p)
<1>1. /\ n \in Nat /\ Len(more) = n + 1 /\ more \in Seq(Seq(T)) /\ more[n + 1] = p
      /\ \A i \in 1..n : more[i] = seqs[i]
  OBVIOUS
<1> HIDE DEF n, more
<1>2. PICK g : Flattens(g, more, n + 1) /\ FlattenSeq(more) = g[n + 1]
  BY <1>1, FlattenIs
<1>3. \A i \in 1..(n + 1) : g[i] = IF i = 1 THEN more[i] ELSE g[i - 1] \o more[i]
  BY <1>2 DEF Flattens
<1>4. CASE n = 0
  <2>1. seqs = <<>> /\ FlattenSeq(seqs) = <<>>
    BY <1>4, FlattenEmpty DEF n
  <2>2. g[n + 1] = p
    BY <1>1, <1>3, <1>4
  <2> QED BY <1>2, <2>1, <2>2, ConcatEmptySeq DEF more
<1>5. CASE n # 0
  <2>1. PICK f : Flattens(f, seqs, n) /\ FlattenSeq(seqs) = f[n]
    BY <1>5, FlattenIs DEF n
  <2>2. \A i \in 1..n : f[i] = IF i = 1 THEN seqs[i] ELSE f[i - 1] \o seqs[i]
    BY <2>1 DEF Flattens
  <2> DEFINE S == {i \in Nat : i \in 1..n => f[i] = g[i]}
  <2>3. 0 \in S
    OBVIOUS
  <2>4. ASSUME NEW i \in Nat, i \in S PROVE i + 1 \in S
    <3> SUFFICES ASSUME i + 1 \in 1..n PROVE f[i + 1] = g[i + 1]
      OBVIOUS
    <3>1. i + 1 \in 1..(n + 1) /\ (i + 1) - 1 = i /\ (i # 0 => i \in 1..n)
      BY <1>1
    <3>2. f[i + 1] = IF i + 1 = 1 THEN seqs[i + 1] ELSE f[i] \o seqs[i + 1]
      BY <2>2, <3>1
    <3>3. g[i + 1] = IF i + 1 = 1 THEN seqs[i + 1] ELSE g[i] \o seqs[i + 1]
      BY <1>1, <1>3, <3>1
    <3>4. i # 0 => f[i] = g[i]
      BY <2>4, <3>1
    <3> QED BY <3>2, <3>3, <3>4
  <2>5. Nat \subseteq S
    BY <2>3, <2>4, Inductive
  <2>6. f[n] = g[n]
    BY <1>1, <1>5, <2>5
  <2>7. g[n + 1] = g[n] \o p
    <3>1. n + 1 \in 1..(n + 1) /\ n + 1 # 1 /\ (n + 1) - 1 = n
      BY <1>1, <1>5
    <3> QED BY <1>1, <1>3, <3>1
  <2> QED BY <1>2, <2>1, <2>6, <2>7 DEF more
<1> QED BY <1>4, <1>5

\* A sequence that is not empty is an element appended to another.
LEMMA AllButLast ==
  ASSUME NEW T, NEW n \in Nat
  PROVE  \A q \in Seq(T) : Len(q) = n + 1 =>
           \E r \in Seq(T) : /\ Len(r) = n /\ q = Append(r, q[n + 1])
                             /\ \A i \in 1..n : r[i] = q[i]
<1> SUFFICES ASSUME NEW q \in Seq(T), Len(q) = n + 1
             PROVE  \E r \in Seq(T) : /\ Len(r) = n /\ q = Append(r, q[n + 1])
                                      /\ \A i \in 1..n : r[i] = q[i]
  OBVIOUS
<1> DEFINE r == [i \in 1..n |-> q[i]]
<1>1. r \in Seq(T) /\ Len(r) = n /\ q[n + 1] \in T
  OBVIOUS
<1>2. /\ Append(r, q[n + 1]) \in Seq(T) /\ Len(Append(r, q[n + 1])) = n + 1
      /\ \A i \in 1..(n + 1) : Append(r, q[n + 1])[i] = q[i]
  BY <1>1
<1>3. Append(r, q[n + 1]) = q
  BY <1>2, SeqEqual
<1> QED BY <1>1, <1>3

LEMMA FlattenType == ASSUME NEW T PROVE \A seqs \in Seq(Seq(T)) : FlattenSeq(seqs) \in Seq(T)
<1> DEFINE S == {n \in Nat : \A seqs \in Seq(Seq(T)) : Len(seqs) = n => FlattenSeq(seqs) \in Seq(T)}
<1>1. 0 \in S
  <2>1. ASSUME NEW seqs \in Seq(Seq(T)), Len(seqs) = 0 PROVE FlattenSeq(seqs) \in Seq(T)
    <3>1. seqs = <<>> /\ <<>> \in Seq(T)
      BY <2>1
    <3> QED BY <2>1, <3>1, FlattenEmpty
  <2> QED BY <2>1
<1>2. ASSUME NEW n \in Nat, n \in S PROVE n + 1 \in S
  <2> SUFFICES ASSUME NEW seqs \in Seq(Seq(T)), Len(seqs) = n + 1
               PROVE  FlattenSeq(seqs) \in Seq(T)
    OBVIOUS
  <2>1. PICK r \in Seq(Seq(T)) : Len(r) = n /\ seqs = Append(r, seqs[n + 1])
    BY AllButLast
  <2>2. FlattenSeq(r) \in Seq(T) /\ seqs[n + 1] \in Seq(T)
    BY <1>2, <2>1
  <2>3. FlattenSeq(Append(r, seqs[n + 1])) = FlattenSeq(r) \o seqs[n + 1]
    BY <2>2, FlattenAppend
  <2>4. \A x, y \in Seq(T) : x \o y \in Seq(T)
    BY ConcatProperties
  <2> QED BY <2>1, <2>2, <2>3, <2>4
<1>3. Nat \subseteq S
  BY <1>1, <1>2, Inductive
<1> QED BY <1>3

\* The last piece, and the whole without it.
LEMMA FlattenStep ==
  ASSUME NEW T, NEW n \in Nat
  PROVE  \A seqs \in Seq(Seq(T)) : Len(seqs) = n + 1 =>
           \E r \in Seq(Seq(T)) :
             /\ Len(r) = n /\ \A i \in 1..n : r[i] = seqs[i]
             /\ FlattenSeq(r) \in Seq(T) /\ seqs[n + 1] \in Seq(T)
             /\ FlattenSeq(seqs) = FlattenSeq(r) \o seqs[n + 1]
<1>0. \A q \in Seq(Seq(T)) : Len(q) = n + 1 =>
        \E r \in Seq(Seq(T)) : /\ Len(r) = n /\ q = Append(r, q[n + 1])
                               /\ \A i \in 1..n : r[i] = q[i]
  <2> DEFINE U == Seq(T)
  <2> SUFFICES \A q \in Seq(U) : Len(q) = n + 1 =>
                 \E r \in Seq(U) : /\ Len(r) = n /\ q = Append(r, q[n + 1])
                                   /\ \A i \in 1..n : r[i] = q[i]
    OBVIOUS
  <2> HIDE DEF U
  <2> QED BY AllButLast
<1> SUFFICES ASSUME NEW seqs \in Seq(Seq(T)), Len(seqs) = n + 1
             PROVE  \E r \in Seq(Seq(T)) :
                      /\ Len(r) = n /\ \A i \in 1..n : r[i] = seqs[i]
                      /\ FlattenSeq(r) \in Seq(T) /\ seqs[n + 1] \in Seq(T)
                      /\ FlattenSeq(seqs) = FlattenSeq(r) \o seqs[n + 1]
  OBVIOUS
<1>1. PICK r \in Seq(Seq(T)) : /\ Len(r) = n /\ seqs = Append(r, seqs[n + 1])
                               /\ \A i \in 1..n : r[i] = seqs[i]
  BY <1>0
<1>2. FlattenSeq(r) \in Seq(T) /\ seqs[n + 1] \in Seq(T)
  BY FlattenType
<1>3. FlattenSeq(Append(r, seqs[n + 1])) = FlattenSeq(r) \o seqs[n + 1]
  BY <1>2, FlattenAppend
<1> QED BY <1>1, <1>2, <1>3

\* An element is in the whole if and only if it is in a piece.
LEMMA FlattenRange ==
  ASSUME NEW T
  PROVE  \A seqs \in Seq(Seq(T)) : \A x :
           x \in ToSet(FlattenSeq(seqs)) <=> \E i \in 1..Len(seqs) : x \in ToSet(seqs[i])
<1> DEFINE Is(seqs) == \A x :
             x \in ToSet(FlattenSeq(seqs)) <=> \E i \in 1..Len(seqs) : x \in ToSet(seqs[i])
           S == {n \in Nat : \A seqs \in Seq(Seq(T)) : Len(seqs) = n => Is(seqs)}
<1>1. 0 \in S
  <2>1. ASSUME NEW seqs \in Seq(Seq(T)), Len(seqs) = 0 PROVE Is(seqs)
    <3>1. seqs = <<>> /\ ToSet(<<>>) = {}
      BY <2>1 DEF ToSet
    <3> QED BY <2>1, <3>1, FlattenEmpty
  <2> QED BY <2>1
<1>2. ASSUME NEW n \in Nat, n \in S PROVE n + 1 \in S
  <2> SUFFICES ASSUME NEW seqs \in Seq(Seq(T)), Len(seqs) = n + 1
               PROVE  Is(seqs)
    OBVIOUS
  <2>1. PICK r \in Seq(Seq(T)) :
          /\ Len(r) = n /\ \A i \in 1..n : r[i] = seqs[i]
          /\ FlattenSeq(r) \in Seq(T) /\ seqs[n + 1] \in Seq(T)
          /\ FlattenSeq(seqs) = FlattenSeq(r) \o seqs[n + 1]
    <3> HIDE DEF S, Is
    <3> QED BY FlattenStep
  <2> DEFINE p == seqs[n + 1]
             a == FlattenSeq(r)
  <2>2. a \in Seq(T) /\ p \in Seq(T) /\ Is(r)
    BY <1>2, <2>1
  <2>3. FlattenSeq(seqs) = a \o p
    BY <2>1
  <2> HIDE DEF p, a
  <2>4. ToSet(a \o p) = ToSet(a) \cup ToSet(p)
    <3>1. /\ Len(a \o p) = Len(a) + Len(p) /\ Len(a) \in Nat /\ Len(p) \in Nat
          /\ DOMAIN (a \o p) = 1..Len(a \o p) /\ DOMAIN a = 1..Len(a) /\ DOMAIN p = 1..Len(p)
          /\ \A i \in 1..Len(a) : (a \o p)[i] = a[i]
          /\ \A i \in 1..Len(p) : (a \o p)[Len(a) + i] = p[i]
      BY <2>2, ConcatProperties
    <3>2. \A i \in 1..Len(p) : Len(a) + i \in 1..Len(a \o p)
      BY <3>1
    <3>3. \A i \in 1..Len(a \o p) : i \in 1..Len(a) \/ (i - Len(a) \in 1..Len(p) /\ Len(a) + (i - Len(a)) = i)
      BY <3>1
    <3>4. \A i \in 1..Len(a) : i \in 1..Len(a \o p)
      BY <3>1
    <3>5. ToSet(a \o p) \subseteq ToSet(a) \cup ToSet(p)
      BY <3>1, <3>3 DEF ToSet
    <3>6. ToSet(a) \subseteq ToSet(a \o p)
      BY <3>1, <3>4 DEF ToSet
    <3>7. ToSet(p) \subseteq ToSet(a \o p)
      <4> SUFFICES ASSUME NEW i \in 1..Len(p) PROVE p[i] \in ToSet(a \o p)
        BY <3>1 DEF ToSet
      <4>1. Len(a) + i \in DOMAIN (a \o p) /\ (a \o p)[Len(a) + i] = p[i]
        BY <3>1, <3>2
      <4> QED BY <4>1 DEF ToSet
    <3> QED BY <3>5, <3>6, <3>7
  <2>5. \A x : (\E i \in 1..Len(seqs) : x \in ToSet(seqs[i]))
                 <=> x \in ToSet(p) \/ \E i \in 1..Len(r) : x \in ToSet(r[i])
    <3>1. /\ Len(r) = n /\ n + 1 \in 1..Len(seqs)
          /\ \A i \in 1..n : i \in 1..Len(seqs) /\ ToSet(r[i]) = ToSet(seqs[i])
          /\ \A i \in 1..Len(seqs) : i = n + 1 \/ i \in 1..n
      BY <2>1
    <3> QED BY <3>1 DEF p
  <2> HIDE DEF S
  <2>6. \A x : x \in ToSet(a) <=> \E i \in 1..Len(r) : x \in ToSet(r[i])
    BY <2>2 DEF a
  <2>7. \A x : x \in ToSet(FlattenSeq(seqs)) <=> x \in ToSet(a) \/ x \in ToSet(p)
    BY <2>3, <2>4
  <2> QED BY <2>5, <2>6, <2>7
<1>3. Nat \subseteq S
  BY <1>1, <1>2, Inductive
<1> QED BY <1>3

\* The first piece that is not empty starts the whole.
LEMMA FlattenHead ==
  ASSUME NEW T
  PROVE  \A seqs \in Seq(Seq(T)) : \A k \in 1..Len(seqs) :
           (\A i \in 1..(k - 1) : seqs[i] = <<>>) /\ seqs[k] # <<>> =>
              FlattenSeq(seqs) # <<>> /\ Head(FlattenSeq(seqs)) = Head(seqs[k])
<1> DEFINE Is(seqs, k) == (\A i \in 1..(k - 1) : seqs[i] = <<>>) /\ seqs[k] # <<>> =>
              FlattenSeq(seqs) # <<>> /\ Head(FlattenSeq(seqs)) = Head(seqs[k])
           S == {n \in Nat : \A seqs \in Seq(Seq(T)) : Len(seqs) = n =>
                               \A k \in 1..Len(seqs) : Is(seqs, k)}
<1>1. 0 \in S
  OBVIOUS
<1>2. ASSUME NEW n \in Nat, n \in S PROVE n + 1 \in S
  <2> SUFFICES ASSUME NEW seqs \in Seq(Seq(T)), Len(seqs) = n + 1, NEW k \in 1..(n + 1)
               PROVE  Is(seqs, k)
    OBVIOUS
  <2> SUFFICES ASSUME \A i \in 1..(k - 1) : seqs[i] = <<>>, seqs[k] # <<>>
               PROVE  FlattenSeq(seqs) # <<>> /\ Head(FlattenSeq(seqs)) = Head(seqs[k])
    OBVIOUS
  <2>1. PICK r \in Seq(Seq(T)) :
          /\ Len(r) = n /\ \A i \in 1..n : r[i] = seqs[i]
          /\ FlattenSeq(r) \in Seq(T) /\ seqs[n + 1] \in Seq(T)
          /\ FlattenSeq(seqs) = FlattenSeq(r) \o seqs[n + 1]
    <3> HIDE DEF S, Is
    <3> QED BY FlattenStep
  <2> DEFINE p == seqs[n + 1]
             a == FlattenSeq(r)
  <2>2. a \in Seq(T) /\ p \in Seq(T)
    BY <2>1
  <2>3. FlattenSeq(seqs) = a \o p
    BY <2>1
  <2>4. CASE k = n + 1
    <3>1. \A i \in 1..Len(r) : ToSet(r[i]) = {}
      BY <2>1, <2>4 DEF ToSet
    <3>2. ToSet(a) = {}
      BY <2>1, <3>1, FlattenRange
    <3> HIDE DEF a, p
    <3>3. a = <<>>
      <4>1. ASSUME Len(a) # 0 PROVE FALSE
        <5>1. 1 \in DOMAIN a
          BY <2>2, <4>1
        <5> QED BY <5>1, <3>2 DEF ToSet
      <4> QED BY <2>2, <4>1
    <3>4. a \o p = p
      BY <2>2, <3>3, ConcatEmptySeq
    <3> QED BY <2>3, <2>4, <3>4 DEF p
  <2>5. CASE k # n + 1
    <3>1. k \in 1..Len(r) /\ r[k] = seqs[k] /\ \A i \in 1..(k - 1) : r[i] = seqs[i]
      BY <2>1, <2>5
    <3>2. Is(r, k)
      BY <1>2, <2>1, <3>1
    <3>3. a # <<>> /\ Head(a) = Head(seqs[k])
      BY <3>1, <3>2
    <3> HIDE DEF a, p
    <3>4. a \o p # <<>> /\ Head(a \o p) = Head(a)
      BY <2>2, <3>3, ConcatProperties
    <3> QED BY <2>3, <3>3, <3>4
  <2> QED BY <2>4, <2>5
<1>3. Nat \subseteq S
  BY <1>1, <1>2, Inductive
<1> QED BY <1>3

\* The last piece that is not empty ends it.
LEMMA FlattenLast ==
  ASSUME NEW T
  PROVE  \A seqs \in Seq(Seq(T)) : \A k \in 1..Len(seqs) :
           (\A i \in (k + 1)..Len(seqs) : seqs[i] = <<>>) /\ seqs[k] # <<>> =>
              FlattenSeq(seqs) # <<>> /\ Last(FlattenSeq(seqs)) = Last(seqs[k])
<1> DEFINE Is(seqs, k) == (\A i \in (k + 1)..Len(seqs) : seqs[i] = <<>>) /\ seqs[k] # <<>> =>
              FlattenSeq(seqs) # <<>> /\ Last(FlattenSeq(seqs)) = Last(seqs[k])
           S == {n \in Nat : \A seqs \in Seq(Seq(T)) : Len(seqs) = n =>
                               \A k \in 1..Len(seqs) : Is(seqs, k)}
<1>1. 0 \in S
  OBVIOUS
<1>2. ASSUME NEW n \in Nat, n \in S PROVE n + 1 \in S
  <2> SUFFICES ASSUME NEW seqs \in Seq(Seq(T)), Len(seqs) = n + 1, NEW k \in 1..(n + 1)
               PROVE  Is(seqs, k)
    OBVIOUS
  <2> SUFFICES ASSUME \A i \in (k + 1)..(n + 1) : seqs[i] = <<>>, seqs[k] # <<>>
               PROVE  FlattenSeq(seqs) # <<>> /\ Last(FlattenSeq(seqs)) = Last(seqs[k])
    OBVIOUS
  <2>1. PICK r \in Seq(Seq(T)) :
          /\ Len(r) = n /\ \A i \in 1..n : r[i] = seqs[i]
          /\ FlattenSeq(r) \in Seq(T) /\ seqs[n + 1] \in Seq(T)
          /\ FlattenSeq(seqs) = FlattenSeq(r) \o seqs[n + 1]
    <3> HIDE DEF S, Is
    <3> QED BY FlattenStep
  <2> DEFINE p == seqs[n + 1]
             a == FlattenSeq(r)
  <2>2. a \in Seq(T) /\ p \in Seq(T)
    BY <2>1
  <2>3. FlattenSeq(seqs) = a \o p
    BY <2>1
  <2>4. CASE k = n + 1
    <3>1. p # <<>> /\ p = seqs[k]
      BY <2>4
    <3> HIDE DEF a, p
    <3>2. Len(a \o p) = Len(a) + Len(p) /\ Len(p) # 0 /\ Len(a) \in Nat /\ Len(p) \in Nat
      BY <2>2, <3>1, ConcatProperties
    <3>3. (a \o p)[Len(a) + Len(p)] = p[Len(p)]
      BY <2>2, <3>2, ConcatProperties
    <3>4. a \o p # <<>> /\ Last(a \o p) = Last(p)
      BY <2>2, <3>2, <3>3 DEF Last
    <3> QED BY <2>3, <3>1, <3>4
  <2>5. CASE k # n + 1
    <3>1. /\ k \in 1..Len(r) /\ r[k] = seqs[k] /\ p = <<>>
          /\ \A i \in (k + 1)..Len(r) : r[i] = <<>>
      BY <2>1, <2>5
    <3>2. Is(r, k)
      BY <1>2, <2>1, <3>1
    <3>3. a # <<>> /\ Last(a) = Last(seqs[k])
      BY <3>1, <3>2
    <3> HIDE DEF a, p
    <3>4. a \o p = a
      BY <2>2, <3>1, ConcatEmptySeq
    <3> QED BY <2>3, <3>3, <3>4
  <2> QED BY <2>4, <2>5
<1>3. Nat \subseteq S
  BY <1>1, <1>2, Inductive
<1> QED BY <1>3

-----------------------------------------------------------------------------
(***************************************************************************)
(* Kept.                                                                   *)
(***************************************************************************)
LEMMA KeptIs ==
  ASSUME NEW T, NEW s \in Seq(T), NEW S
  PROVE  /\ Kept(s, S) \in Seq(T)
         /\ \A x : x \in ToSet(Kept(s, S)) <=> x \in ToSet(s) /\ x \in S
<1> DEFINE pieces == [i \in DOMAIN s |-> IF s[i] \in S THEN <<s[i]>> ELSE <<>>]
<1>1. /\ pieces \in Seq(Seq(T)) /\ Len(pieces) = Len(s) /\ DOMAIN s = 1..Len(s)
      /\ \A i \in 1..Len(s) : pieces[i] = IF s[i] \in S THEN <<s[i]>> ELSE <<>>
  <2>1. DOMAIN s = 1..Len(s) /\ Len(s) \in Nat
    OBVIOUS
  <2>2. \A i \in 1..Len(s) : pieces[i] \in Seq(T)
    BY <2>1
  <2>3. \A f, n : n \in Nat /\ DOMAIN f = 1..n /\ f = [i \in 1..n |-> f[i]]
                  /\ (\A i \in 1..n : f[i] \in Seq(T)) => f \in Seq(Seq(T)) /\ Len(f) = n
    <3> DEFINE U == Seq(T)
    <3> HIDE DEF U
    <3>1. \A f, n : n \in Nat /\ DOMAIN f = 1..n /\ f = [i \in 1..n |-> f[i]]
                  /\ (\A i \in 1..n : f[i] \in U) => f \in Seq(U) /\ Len(f) = n
      OBVIOUS
    <3> QED BY <3>1 DEF U
  <2>4. DOMAIN pieces = 1..Len(s) /\ pieces = [i \in 1..Len(s) |-> pieces[i]]
    BY <2>1
  <2> HIDE DEF pieces
  <2>5. pieces \in Seq(Seq(T)) /\ Len(pieces) = Len(s)
    BY <2>1, <2>2, <2>3, <2>4
  <2> QED BY <2>1, <2>5 DEF pieces
<1>2. Kept(s, S) = FlattenSeq(pieces)
  BY DEF Kept
<1> HIDE DEF pieces
<1>3. Kept(s, S) \in Seq(T)
  BY <1>1, <1>2, FlattenType
<1>4. \A x : x \in ToSet(Kept(s, S)) <=> \E i \in 1..Len(s) : x \in ToSet(pieces[i])
  BY <1>1, <1>2, FlattenRange
<1>5. ASSUME NEW i \in 1..Len(s), NEW x
      PROVE  x \in ToSet(pieces[i]) <=> x = s[i] /\ x \in S
  <2>1. ToSet(<<s[i]>>) = {s[i]} /\ ToSet(<<>>) = {}
    BY DEF ToSet
  <2> QED BY <1>1, <2>1
<1>6. \A x : x \in ToSet(s) <=> \E i \in 1..Len(s) : x = s[i]
  BY <1>1 DEF ToSet
<1>7. \A x : x \in ToSet(Kept(s, S)) <=> x \in ToSet(s) /\ x \in S
  BY <1>4, <1>5, <1>6
<1> QED BY <1>3, <1>7

\* An element more is kept or not.
LEMMA KeptAppend ==
  ASSUME NEW T, NEW s \in Seq(T), NEW x \in T, NEW S
  PROVE  Kept(Append(s, x), S) = IF x \in S THEN Append(Kept(s, S), x) ELSE Kept(s, S)
<1> DEFINE Pieces(q) == [i \in DOMAIN q |-> IF q[i] \in S THEN <<q[i]>> ELSE <<>>]
           p == IF x \in S THEN <<x>> ELSE <<>>
<1>1. /\ DOMAIN s = 1..Len(s) /\ Len(s) \in Nat /\ Append(s, x) \in Seq(T)
      /\ DOMAIN Append(s, x) = 1..(Len(s) + 1) /\ Append(s, x)[Len(s) + 1] = x
      /\ \A i \in 1..Len(s) : Append(s, x)[i] = s[i]
  OBVIOUS
<1>2. Pieces(s) \in Seq(Seq(T)) /\ Len(Pieces(s)) = Len(s) /\ p \in Seq(T)
  <2>1. \A i \in 1..Len(s) : Pieces(s)[i] \in Seq(T)
    BY <1>1
  <2>2. DOMAIN Pieces(s) = 1..Len(s) /\ Pieces(s) = [i \in 1..Len(s) |-> Pieces(s)[i]]
    BY <1>1
  <2>3. \A f, n : n \in Nat /\ DOMAIN f = 1..n /\ f = [i \in 1..n |-> f[i]]
                  /\ (\A i \in 1..n : f[i] \in Seq(T)) => f \in Seq(Seq(T)) /\ Len(f) = n
    <3> DEFINE U == Seq(T)
    <3> HIDE DEF U
    <3>1. \A f, n : n \in Nat /\ DOMAIN f = 1..n /\ f = [i \in 1..n |-> f[i]]
                  /\ (\A i \in 1..n : f[i] \in U) => f \in Seq(U) /\ Len(f) = n
      OBVIOUS
    <3> QED BY <3>1 DEF U
  <2> HIDE DEF Pieces
  <2> QED BY <1>1, <2>1, <2>2, <2>3
<1>3. Pieces(Append(s, x)) = Append(Pieces(s), p)
  <2>1. \A n \in Nat : \A a, b : /\ DOMAIN a = 1..n /\ DOMAIN b = 1..n
                                 /\ a = [i \in 1..n |-> a[i]] /\ b = [i \in 1..n |-> b[i]]
                                 /\ \A i \in 1..n : a[i] = b[i]
                                 => a = b
    OBVIOUS
  <2>2. /\ DOMAIN Pieces(Append(s, x)) = 1..(Len(s) + 1)
        /\ Pieces(Append(s, x)) = [i \in 1..(Len(s) + 1) |-> Pieces(Append(s, x))[i]]
    BY <1>1
  <2>3. \A i \in 1..(Len(s) + 1) :
          Pieces(Append(s, x))[i] = IF i = Len(s) + 1 THEN p ELSE Pieces(s)[i]
    BY <1>1
  <2> HIDE DEF Pieces, p
  <2>4. /\ DOMAIN Append(Pieces(s), p) = 1..(Len(s) + 1)
        /\ Append(Pieces(s), p) = [i \in 1..(Len(s) + 1) |-> Append(Pieces(s), p)[i]]
        /\ \A i \in 1..(Len(s) + 1) :
             Append(Pieces(s), p)[i] = IF i = Len(s) + 1 THEN p ELSE Pieces(s)[i]
    <3> DEFINE U == Seq(T)
    <3>1. Pieces(s) \in Seq(U) /\ p \in U /\ Len(Pieces(s)) = Len(s)
      BY <1>2
    <3> HIDE DEF U
    <3>2. \A q \in Seq(U), e \in U :
            /\ Append(q, e) \in Seq(U) /\ Len(Append(q, e)) = Len(q) + 1
            /\ \A i \in 1..(Len(q) + 1) : Append(q, e)[i] = IF i = Len(q) + 1 THEN e ELSE q[i]
      OBVIOUS
    <3>3. \A z \in Seq(U) : DOMAIN z = 1..Len(z) /\ z = [i \in 1..Len(z) |-> z[i]]
      OBVIOUS
    <3>4. Append(Pieces(s), p) \in Seq(U) /\ Len(Append(Pieces(s), p)) = Len(s) + 1
      BY <3>1, <3>2
    <3>5. \A i \in 1..(Len(s) + 1) :
            Append(Pieces(s), p)[i] = IF i = Len(s) + 1 THEN p ELSE Pieces(s)[i]
      BY <3>1, <3>2
    <3>6. /\ DOMAIN Append(Pieces(s), p) = 1..(Len(s) + 1)
          /\ Append(Pieces(s), p) = [i \in 1..(Len(s) + 1) |-> Append(Pieces(s), p)[i]]
      BY <3>3, <3>4
    <3> QED BY <3>5, <3>6
  <2> QED BY <1>1, <2>1, <2>2, <2>3, <2>4
<1>4. Kept(Append(s, x), S) = FlattenSeq(Pieces(Append(s, x))) /\ Kept(s, S) = FlattenSeq(Pieces(s))
  BY DEF Kept
<1> HIDE DEF Pieces
<1>5. Kept(Append(s, x), S) = Kept(s, S) \o p
  BY <1>2, <1>3, <1>4, FlattenAppend
<1>6. Kept(s, S) \in Seq(T)
  BY KeptIs
<1> QED BY <1>5, <1>6, ConcatEmptySeq, AppendIsConcat

\* Every element is related to all that follow it.
Chained(s, R) == \A i, j \in 1..Len(s) : i < j => <<s[i], s[j]>> \in R

\* What is kept is in the order it was in.
LEMMA KeptChained ==
  ASSUME NEW T, NEW S, NEW R
  PROVE  \A s \in Seq(T) : Chained(s, R) => Chained(Kept(s, S), R)
<1> DEFINE N == {n \in Nat : \A s \in Seq(T) :
                   Len(s) = n /\ Chained(s, R) => Chained(Kept(s, S), R)}
<1>0. ASSUME NEW n \in Nat
      PROVE  \A q \in Seq(T) : Len(q) = n + 1 =>
               \E r \in Seq(T) : /\ Len(r) = n /\ q = Append(r, q[n + 1])
                                 /\ \A i \in 1..n : r[i] = q[i]
  BY AllButLast
<1>00. \A q \in Seq(T), x \in T :
         Kept(Append(q, x), S) = IF x \in S THEN Append(Kept(q, S), x) ELSE Kept(q, S)
  BY KeptAppend
<1>1. 0 \in N
  <2> SUFFICES ASSUME NEW s \in Seq(T), Len(s) = 0 PROVE Chained(Kept(s, S), R)
    OBVIOUS
  <2>1. Kept(s, S) \in Seq(T) /\ \A x : x \in ToSet(Kept(s, S)) => x \in ToSet(s)
    BY KeptIs
  <2>2. ToSet(s) = {}
    BY DEF ToSet
  <2>3. \A i \in 1..Len(Kept(s, S)) : FALSE
    BY <2>1, <2>2 DEF ToSet
  <2> QED BY <2>3 DEF Chained
<1>2. ASSUME NEW n \in Nat, n \in N PROVE n + 1 \in N
  <2> SUFFICES ASSUME NEW s \in Seq(T), Len(s) = n + 1, Chained(s, R)
               PROVE  Chained(Kept(s, S), R)
    OBVIOUS
  <2>1. PICK r \in Seq(T) : /\ Len(r) = n /\ s = Append(r, s[n + 1])
                            /\ \A i \in 1..n : r[i] = s[i]
    BY <1>0
  <2> DEFINE x == s[n + 1]
             k == Kept(r, S)
  <2>2. x \in T /\ \A i \in 1..n : <<r[i], x>> \in R
    BY <2>1 DEF Chained
  <2>3. Chained(r, R)
    BY <2>1 DEF Chained
  <2>4. k \in Seq(T) /\ Chained(k, R) /\ \A y : y \in ToSet(k) => y \in ToSet(r)
    BY <1>2, <2>1, <2>3, KeptIs
  <2>5. Kept(s, S) = IF x \in S THEN Append(k, x) ELSE k
    <3>1. Kept(Append(r, s[n + 1]), S)
            = IF s[n + 1] \in S THEN Append(Kept(r, S), s[n + 1]) ELSE Kept(r, S)
      BY <1>00, <2>2
    <3> QED BY <2>1, <3>1
  <2> HIDE DEF x, k, N
  <2>6. \A i \in 1..Len(k) : <<k[i], x>> \in R
    <3> SUFFICES ASSUME NEW i \in 1..Len(k) PROVE <<k[i], x>> \in R
      OBVIOUS
    <3>1. k[i] \in ToSet(r)
      <4>1. i \in DOMAIN k
        BY <2>4
      <4>2. k[i] \in ToSet(k)
        BY <4>1 DEF ToSet
      <4> QED BY <2>4, <4>2
    <3> QED BY <2>1, <2>2, <3>1 DEF ToSet
  <2>7. Chained(Append(k, x), R)
    <3>1. /\ Len(Append(k, x)) = Len(k) + 1 /\ Len(k) \in Nat /\ Append(k, x)[Len(k) + 1] = x
          /\ \A i \in 1..Len(k) : Append(k, x)[i] = k[i]
      BY <2>2, <2>4
    <3> QED BY <2>4, <2>6, <3>1 DEF Chained
  <2> QED BY <2>4, <2>5, <2>7
<1>3. Nat \subseteq N
  BY <1>1, <1>2, Inductive
<1> QED BY <1>3

-----------------------------------------------------------------------------
(***************************************************************************)
(* What select_imu_readings makes of readings in order.                    *)
(***************************************************************************)

\* The pieces that a loop appends, up to piece n.
UpTo(p, n) == FlattenSeq([i \in 1..n |-> p[i]])

LEMMA UpToNone == ASSUME NEW p PROVE UpTo(p, 0) = <<>>
<1> DEFINE none == [i \in 1..0 |-> p[i]]
<1>1. none = <<>>
  OBVIOUS
<1>2. Len(none) = 0
  BY <1>1
<1> HIDE DEF none
<1>3. FlattenSeq(none) = <<>>
  BY <1>1, <1>2, FlattenEmpty
<1> QED BY <1>3 DEF UpTo, none

LEMMA UpToNext ==
  ASSUME NEW T, NEW M \in Nat, NEW p \in [1..M -> Seq(T)], NEW n \in Nat, n < M
  PROVE  UpTo(p, n + 1) = UpTo(p, n) \o p[n + 1] /\ UpTo(p, n) \in Seq(T)
<1> DEFINE U == Seq(T)
           more == [i \in 1..(n + 1) |-> p[i]]
           less == [i \in 1..n |-> p[i]]
<1>1. /\ more \in Seq(U) /\ Len(more) = n + 1 /\ less \in Seq(U) /\ Len(less) = n /\ more[n + 1] = p[n + 1]
      /\ \A i \in 1..n : more[i] = less[i]
  <2>1. p \in [1..M -> U]
    OBVIOUS
  <2> HIDE DEF U
  <2>2. \A i \in 1..(n + 1) : p[i] \in U
    BY <2>1
  <2> QED BY <2>2
<1> HIDE DEF more, less
<1>2. PICK r \in Seq(Seq(T)) :
             /\ Len(r) = n /\ \A i \in 1..n : r[i] = more[i]
             /\ FlattenSeq(r) \in Seq(T) /\ more[n + 1] \in Seq(T)
             /\ FlattenSeq(more) = FlattenSeq(r) \o more[n + 1]
  BY <1>1, FlattenStep
<1>3. r = less
  <2>1. r \in Seq(U)
    OBVIOUS
  <2> HIDE DEF U
  <2> QED BY <1>1, <1>2, <2>1, SeqEqual
<1> QED BY <1>1, <1>2, <1>3 DEF UpTo, more, less

\* The first m elements of a sequence given by d.
First(d, m) == [k \in 1..m |-> d[k]]

LEMMA FirstNext ==
  ASSUME NEW T, NEW M \in Nat, NEW d \in [1..M -> T], NEW m \in Nat, m < M
  PROVE  /\ First(d, m) \in Seq(T) /\ First(d, m) \o <<d[m + 1]>> = First(d, m + 1)
<1>1. /\ First(d, m) \in Seq(T) /\ First(d, m + 1) \in Seq(T) /\ <<d[m + 1]>> \in Seq(T)
      /\ Len(First(d, m)) = m /\ Len(First(d, m + 1)) = m + 1
      /\ \A k \in 1..m : First(d, m)[k] = d[k]
      /\ \A k \in 1..(m + 1) : First(d, m + 1)[k] = d[k]
  BY DEF First
<1> DEFINE a == First(d, m) \o <<d[m + 1]>>
<1>2. a \in Seq(T) /\ Len(a) = m + 1 /\ \A k \in 1..(m + 1) : a[k] = d[k]
  <2> HIDE DEF First
  <2> QED BY <1>1, ConcatProperties
<1> HIDE DEF a
<1>3. a = First(d, m + 1)
  <2> DEFINE b == First(d, m + 1)
  <2>1. b \in Seq(T) /\ Len(b) = Len(a) /\ \A k \in 1..Len(a) : a[k] = b[k]
    BY <1>1, <1>2
  <2> HIDE DEF b
  <2>2. a = b
    BY <1>2, <2>1, SeqEqual
  <2> QED BY <2>2 DEF b
<1> QED BY <1>1, <1>3 DEF a

\* Pieces of one element each.
LEMMA UpToSingles ==
  ASSUME NEW T, NEW M \in Nat, NEW d \in [1..M -> T], NEW p \in [1..M -> Seq(T)],
         \A i \in 1..M : p[i] = <<d[i]>>
  PROVE  \A n \in 0..M : UpTo(p, n) = First(d, n)
<1> DEFINE S == {n \in Nat : n <= M => UpTo(p, n) = First(d, n)}
<1>1. 0 \in S
  <2>1. First(d, 0) = <<>>
    BY DEF First
  <2> QED BY <2>1, UpToNone
<1>2. ASSUME NEW n \in Nat, n \in S PROVE n + 1 \in S
  <2> SUFFICES ASSUME n + 1 <= M PROVE UpTo(p, n + 1) = First(d, n + 1)
    OBVIOUS
  <2>1. n < M /\ n + 1 \in 1..M /\ UpTo(p, n) = First(d, n)
    BY <1>2
  <2>2. UpTo(p, n + 1) = UpTo(p, n) \o p[n + 1]
    BY <2>1, UpToNext
  <2> QED BY <2>1, <2>2, FirstNext
<1> HIDE DEF S
<1>3. Nat \subseteq S
  BY <1>1, <1>2, Inductive
<1> QED BY <1>3 DEF S

-----------------------------------------------------------------------------
(***************************************************************************)
(* What is selected.                                                       *)
(***************************************************************************)
Later == {p \in Nat \X Nat : p[1] < p[2]}

\* Readings in the order of their stamps.
Ascending(imu) == imu \in Seq(Nat) /\ Chained(imu, Later)

Reading == [timestamp : Int, from : SUBSET Int]

\* The period starts between readings lo and lo + 1, and ends between hi and hi + 1 or after
\* the last of all.
Brackets(imu, lo, hi, time0, time1) ==
  /\ lo \in 1..(Len(imu) - 1) /\ imu[lo] <= time0 /\ time0 < imu[lo + 1]
  /\ hi \in 1..(Len(imu) - 1) /\ imu[hi] < time1
  /\ hi = Len(imu) - 1 \/ time1 <= imu[hi + 1]

\* The selection: a value at the start, the readings between and a value at the end.
Picked(imu, lo, hi, time0, time1) ==
  [k \in 1..(hi - lo + 2) |->
     IF k = 1 THEN interpolate_data(imu[lo], imu[lo + 1], time0)
     ELSE IF k = hi - lo + 2 THEN interpolate_data(imu[hi], imu[hi + 1], time1)
     ELSE Raw(imu[lo + k - 1])]

LEMMA AscendingIs ==
  ASSUME NEW imu, Ascending(imu)
  PROVE  /\ Len(imu) \in Nat /\ DOMAIN imu = 1..Len(imu)
         /\ \A i \in 1..Len(imu) : imu[i] \in Nat
         /\ \A i, j \in 1..Len(imu) : i < j => imu[i] < imu[j]
<1>1. imu \in Seq(Nat)
  BY DEF Ascending
<1>2. \A i, j \in 1..Len(imu) : i < j => imu[i] < imu[j]
  BY DEF Ascending, Chained, Later
<1> QED BY <1>1, <1>2

LEMMA PickedTyped ==
  ASSUME NEW imu, Ascending(imu), NEW time0 \in Int, NEW time1 \in Int, time0 < time1,
         NEW lo, NEW hi, Brackets(imu, lo, hi, time0, time1)
  PROVE  /\ lo <= hi /\ hi - lo + 2 \in Nat
         /\ Picked(imu, lo, hi, time0, time1) \in [1..(hi - lo + 2) -> Reading]
<1>1. /\ Len(imu) \in Nat /\ \A i \in 1..Len(imu) : imu[i] \in Nat
      /\ \A i, j \in 1..Len(imu) : i < j => imu[i] < imu[j]
  BY AscendingIs
<1>2. lo \in Nat /\ hi \in Nat /\ 1 <= lo /\ lo + 1 <= Len(imu) /\ 1 <= hi /\ hi + 1 <= Len(imu)
  BY <1>1 DEF Brackets
<1>3. lo <= hi
  <2> SUFFICES ASSUME hi < lo PROVE FALSE
    BY <1>2
  <2>1. hi # Len(imu) - 1 /\ hi + 1 \in 1..Len(imu) /\ lo \in 1..Len(imu)
    BY <1>1, <1>2
  <2>2. imu[hi + 1] <= imu[lo]
    <3>1. CASE hi + 1 = lo
      BY <1>1, <2>1, <3>1
    <3>2. CASE hi + 1 < lo
      BY <1>1, <2>1, <3>2
    <3> QED BY <1>2, <3>1, <3>2
  <2> QED BY <1>1, <2>1, <2>2 DEF Brackets
<1>4. ASSUME NEW i \in 1..Len(imu), NEW j \in 1..Len(imu), NEW t \in Int
      PROVE  interpolate_data(imu[i], imu[j], t) \in Reading /\ Raw(imu[i]) \in Reading
  BY <1>1 DEF interpolate_data, Raw, Reading
<1>5. ASSUME NEW k \in 1..(hi - lo + 2), k # 1, k # hi - lo + 2 PROVE lo + k - 1 \in 1..Len(imu)
  BY <1>1, <1>2, <1>3
<1>6. /\ lo \in 1..Len(imu) /\ lo + 1 \in 1..Len(imu) /\ hi \in 1..Len(imu)
      /\ hi + 1 \in 1..Len(imu) /\ hi - lo + 2 \in Nat
  BY <1>1, <1>2, <1>3
<1> QED BY <1>3, <1>4, <1>5, <1>6 DEF Picked

\* What each iteration of the loop appends.
LEMMA AppendedIs ==
  ASSUME NEW imu, Ascending(imu), NEW time0 \in Int, NEW time1 \in Int, time0 < time1,
         NEW lo, NEW hi, Brackets(imu, lo, hi, time0, time1), NEW i \in 1..(Len(imu) - 1)
  PROVE  LET d == Picked(imu, lo, hi, time0, time1)
             p == Appended(imu, i, time0, time1)
             end == IsEnd(imu, i, time0, time1)
         IN  /\ i < lo => p = <<>> /\ ~end
             /\ lo <= i /\ i < hi => ~end
             /\ lo <= i /\ i <= hi /\ ~end => p = <<d[i - lo + 1]>>
             /\ i = hi /\ end => p = <<d[i - lo + 1], d[i - lo + 2]>>
             /\ i = hi + 1 => end /\ p = <<d[hi - lo + 2]>>
<1> DEFINE d == Picked(imu, lo, hi, time0, time1)
           p == Appended(imu, i, time0, time1)
           end == IsEnd(imu, i, time0, time1)
<1>1. /\ Len(imu) \in Nat /\ \A j \in 1..Len(imu) : imu[j] \in Nat
      /\ \A j, k \in 1..Len(imu) : j < k => imu[j] < imu[k]
      /\ i \in 1..Len(imu) /\ i + 1 \in 1..Len(imu) /\ i \in Nat
      /\ lo \in 1..Len(imu) /\ lo + 1 \in 1..Len(imu) /\ lo \in Nat
      /\ hi \in 1..Len(imu) /\ hi + 1 \in 1..Len(imu) /\ hi \in Nat /\ lo <= hi
  BY AscendingIs, PickedTyped DEF Brackets
<1>2. /\ imu[lo] <= time0 /\ time0 < imu[lo + 1] /\ imu[hi] < time1
      /\ hi = Len(imu) - 1 \/ time1 <= imu[hi + 1]
  BY DEF Brackets
<1>3. imu[i] < imu[i + 1]
  BY <1>1
<1>4. ASSUME i < lo PROVE p = <<>> /\ ~end
  <2>1. imu[i] < imu[lo] /\ imu[i + 1] <= imu[lo]
    <3>1. CASE i + 1 = lo
      BY <1>1, <1>4, <3>1
    <3>2. CASE i + 1 < lo
      BY <1>1, <1>4, <3>2
    <3> QED BY <1>1, <1>4, <3>1, <3>2
  <2>2. imu[i] < time0 /\ imu[i + 1] <= time0 /\ imu[i + 1] < time1
    BY <1>1, <1>2, <2>1
  <2>3. /\ ~IsStart(imu, i, time0) /\ ~IsMiddle(imu, i, time0, time1)
        /\ ~IsEnd(imu, i, time0, time1)
    BY <1>1, <2>2 DEF IsStart, IsMiddle, IsEnd
  <2> QED BY <2>3 DEF Appended
<1>5. ASSUME lo < i PROVE time0 < imu[i] /\ ~IsStart(imu, i, time0)
  <2>1. imu[lo + 1] <= imu[i]
    <3>1. CASE lo + 1 = i
      BY <1>1, <3>1
    <3>2. CASE lo + 1 < i
      BY <1>1, <3>2
    <3> QED BY <1>1, <1>5, <3>1, <3>2
  <2> QED BY <1>1, <1>2, <2>1 DEF IsStart
<1>6. ASSUME i < hi PROVE imu[i + 1] < time1
  <2>1. imu[i + 1] <= imu[hi]
    <3>1. CASE i + 1 = hi
      BY <1>1, <3>1
    <3>2. CASE i + 1 < hi
      BY <1>1, <3>2
    <3> QED BY <1>1, <1>6, <3>1, <3>2
  <2> QED BY <1>1, <1>2, <2>1
<1>7. ASSUME lo <= i, i < hi PROVE ~end
  BY <1>1, <1>6, <1>7 DEF IsEnd
<1>8. ASSUME NEW j \in 1..Len(imu), NEW k \in 1..Len(imu), j # k
      PROVE  /\ interpolate_data(imu[j], imu[k], imu[j]) = Raw(imu[j])
             /\ interpolate_data(imu[j], imu[k], imu[k]) = Raw(imu[k])
  <2>1. imu[j] # imu[k]
    BY <1>1, <1>8
  <2> QED BY <2>1 DEF interpolate_data, Raw
<1>9. /\ i = lo => d[i - lo + 1] = interpolate_data(imu[lo], imu[lo + 1], time0)
      /\ lo < i /\ i <= hi => d[i - lo + 1] = Raw(imu[i])
      /\ d[hi - lo + 2] = interpolate_data(imu[hi], imu[hi + 1], time1)
  <2>1. 1 \in 1..(hi - lo + 2) /\ hi - lo + 2 \in 1..(hi - lo + 2) /\ hi - lo + 2 # 1
    BY <1>1
  <2>2. i = lo => i - lo + 1 = 1
    BY <1>1
  <2>3. lo < i /\ i <= hi => /\ i - lo + 1 \in 1..(hi - lo + 2) /\ i - lo + 1 # 1
                             /\ i - lo + 1 # hi - lo + 2 /\ lo + (i - lo + 1) - 1 = i
    BY <1>1
  <2> QED BY <2>1, <2>2, <2>3 DEF Picked
<1> HIDE DEF d
<1>10. ASSUME lo <= i, i <= hi, ~IsStart(imu, i, time0)
       PROVE  imu[i] >= time0 /\ d[i - lo + 1] = Raw(imu[i])
  <2>1. CASE i = lo
    <3>1. imu[i] = time0
      BY <1>1, <1>2, <1>10, <2>1 DEF IsStart
    <3>2. lo + 1 # lo /\ interpolate_data(imu[lo], imu[lo + 1], imu[lo]) = Raw(imu[lo])
      BY <1>1, <1>8
    <3> QED BY <1>9, <2>1, <3>1, <3>2
  <2>2. CASE lo < i
    BY <1>1, <1>5, <1>9, <1>10, <2>2
  <2> QED BY <1>1, <1>10, <2>1, <2>2
<1>11. ASSUME lo <= i, i <= hi, ~end PROVE p = <<d[i - lo + 1]>>
  <2>1. CASE IsStart(imu, i, time0)
    <3>1. i = lo
      BY <1>1, <1>5, <1>11, <2>1
    <3>2. ~IsMiddle(imu, i, time0, time1) /\ ~IsEnd(imu, i, time0, time1)
      BY <2>1 DEF IsMiddle, IsEnd
    <3> QED BY <1>9, <2>1, <3>1, <3>2 DEF Appended
  <2>2. CASE ~IsStart(imu, i, time0)
    <3>1. IsMiddle(imu, i, time0, time1)
      BY <1>1, <1>10, <1>11, <2>2 DEF IsMiddle, IsEnd
    <3> QED BY <1>10, <1>11, <2>2, <3>1 DEF Appended
  <2> QED BY <2>1, <2>2
<1>12. ASSUME i = hi, end PROVE p = <<d[i - lo + 1], d[i - lo + 2]>>
  <2>1. ~IsStart(imu, i, time0) /\ ~IsMiddle(imu, i, time0, time1) /\ lo <= i /\ i <= hi
    BY <1>1, <1>12 DEF IsEnd
  <2>2. d[i - lo + 1] = Raw(imu[i]) /\ d[i - lo + 2] = interpolate_data(imu[i], imu[i + 1], time1)
    BY <1>9, <1>10, <1>12, <2>1
  <2>3. ~(imu[i] > time1) /\ imu[i] # time1
    BY <1>1, <1>2, <1>12
  <2>4. p = AtEnd(imu, i, time1)
    BY <1>12, <2>1 DEF Appended
  <2> QED BY <2>2, <2>3, <2>4 DEF AtEnd
<1>13. ASSUME i = hi + 1 PROVE end /\ p = <<d[hi - lo + 2]>>
  <2>1. time1 <= imu[i] /\ lo < i /\ i # 1 /\ i - 1 = hi
    BY <1>1, <1>2, <1>13
  <2>2. ~IsStart(imu, i, time0) /\ ~IsMiddle(imu, i, time0, time1) /\ end
    BY <1>1, <1>3, <1>5, <2>1 DEF IsMiddle, IsEnd
  <2>3. p = AtEnd(imu, i, time1)
    BY <2>2 DEF Appended
  <2>4. d[hi - lo + 2] = interpolate_data(imu[hi], imu[i], time1)
    BY <1>9, <1>13
  <2>5. CASE imu[i] > time1
    BY <2>1, <2>2, <2>3, <2>4, <2>5 DEF AtEnd
  <2>6. CASE imu[i] = time1
    <3>1. ~(imu[i] > time1) /\ hi # i
      BY <1>1, <2>1, <2>6
    <3>2. interpolate_data(imu[hi], imu[i], imu[i]) = Raw(imu[i])
      BY <1>1, <1>8, <3>1
    <3> QED BY <2>2, <2>3, <2>4, <2>6, <3>1, <3>2 DEF AtEnd
  <2> QED BY <1>1, <2>1, <2>5, <2>6
<1> QED BY <1>4, <1>7, <1>11, <1>12, <1>13 DEF d

LEMMA PickedAscends ==
  ASSUME NEW imu, Ascending(imu), NEW time0 \in Int, NEW time1 \in Int, time0 < time1,
         NEW lo, NEW hi, Brackets(imu, lo, hi, time0, time1)
  PROVE  LET d == Picked(imu, lo, hi, time0, time1)
         IN  /\ d[1].timestamp = time0 /\ d[hi - lo + 2].timestamp = time1
             /\ \A k \in 1..(hi - lo + 1) : d[k].timestamp < d[k + 1].timestamp
<1> DEFINE d == Picked(imu, lo, hi, time0, time1)
           W == hi - lo + 2
<1>1. /\ Len(imu) \in Nat /\ \A j \in 1..Len(imu) : imu[j] \in Nat
      /\ \A j, k \in 1..Len(imu) : j < k => imu[j] < imu[k]
      /\ lo \in 1..Len(imu) /\ lo + 1 \in 1..Len(imu) /\ lo \in Nat
      /\ hi \in 1..Len(imu) /\ hi + 1 \in 1..Len(imu) /\ hi \in Nat /\ lo <= hi
      /\ imu[lo] <= time0 /\ time0 < imu[lo + 1] /\ imu[hi] < time1
  BY AscendingIs, PickedTyped DEF Brackets
<1>2. W \in Nat /\ 2 <= W /\ 1 \in 1..W /\ W \in 1..W /\ W # 1
  BY <1>1
<1>3. d[1].timestamp = time0 /\ d[W].timestamp = time1
  BY <1>2 DEF Picked, interpolate_data
<1>4. ASSUME NEW k \in 1..W, k # 1, k # W
      PROVE  /\ d[k].timestamp = imu[lo + k - 1] /\ lo + k - 1 \in 1..Len(imu)
             /\ lo + 1 <= lo + k - 1 /\ lo + k - 1 <= hi /\ k \in Nat
  <2>1. lo + k - 1 \in 1..Len(imu) /\ lo + 1 <= lo + k - 1 /\ lo + k - 1 <= hi /\ k \in Nat
    BY <1>1, <1>2, <1>4
  <2>2. d[k] = Raw(imu[lo + k - 1])
    BY <1>4 DEF Picked
  <2> QED BY <2>1, <2>2 DEF Raw
<1> HIDE DEF d
<1>5. ASSUME NEW k \in 1..(hi - lo + 1) PROVE d[k].timestamp < d[k + 1].timestamp
  <2>1. /\ k \in Nat /\ k \in 1..W /\ k # W /\ k + 1 \in 1..W /\ k + 1 # 1 /\ lo + (k + 1) - 1 = lo + k
        /\ (k = 1 => lo + k = lo + 1)
    BY <1>1, <1>2
  <2> HIDE DEF W
  <2>2. CASE k = 1 /\ k + 1 = W
    BY <1>3, <2>2
  <2>3. CASE k = 1 /\ k + 1 # W
    <3>1. d[k + 1].timestamp = imu[lo + k]
      BY <1>4, <2>1, <2>3
    <3> QED BY <1>1, <1>3, <2>3, <3>1
  <2>4. CASE k # 1 /\ k + 1 = W
    <3> DEFINE j == lo + k - 1
    <3>1. d[k].timestamp = imu[j] /\ j \in 1..Len(imu) /\ j <= hi
      BY <1>4, <2>1, <2>4
    <3> HIDE DEF j
    <3>2. imu[j] <= imu[hi]
      <4>1. j < hi => imu[j] < imu[hi]
        BY <1>1, <3>1
      <4>2. j = hi \/ j < hi
        BY <1>1, <3>1
      <4>3. imu[j] \in Nat /\ imu[hi] \in Nat
        BY <1>1, <3>1
      <4> QED BY <4>1, <4>2, <4>3
    <3>3. imu[j] < time1
      BY <1>1, <3>1, <3>2
    <3> QED BY <1>3, <2>4, <3>1, <3>3
  <2>5. CASE k # 1 /\ k + 1 # W
    <3>1. /\ d[k].timestamp = imu[lo + k - 1] /\ lo + k - 1 \in 1..Len(imu)
          /\ d[k + 1].timestamp = imu[lo + k] /\ lo + k \in 1..Len(imu)
      BY <1>4, <2>1, <2>5
    <3>2. lo + k - 1 < lo + k
      BY <1>1, <2>1
    <3> QED BY <1>1, <3>1, <3>2
  <2> QED BY <2>2, <2>3, <2>4, <2>5
<1> QED BY <1>3, <1>5 DEF d, W

\* The loop ends with the piece that reaches the end of the period, or with the buffer.
LEMMA IterationsAre ==
  ASSUME NEW imu, Ascending(imu), NEW time0 \in Int, NEW time1 \in Int, time0 < time1,
         NEW lo, NEW hi, Brackets(imu, lo, hi, time0, time1)
  PROVE  Iterations(imu, time0, time1)
           = IF hi = Len(imu) - 1 \/ IsEnd(imu, hi, time0, time1) THEN hi ELSE hi + 1
<1> DEFINE all  == 1..(Len(imu) - 1)
           ends == {i \in all : IsEnd(imu, i, time0, time1)}
<1>1. Len(imu) \in Nat /\ hi \in all /\ hi \in Nat /\ lo \in Nat /\ lo <= hi
  BY AscendingIs, PickedTyped DEF Brackets
<1>2. ASSUME NEW i \in ends PROVE hi <= i
  <2>1. i < hi => ~IsEnd(imu, i, time0, time1)
    <3>1. i < lo => ~IsEnd(imu, i, time0, time1)
      BY AppendedIs
    <3>2. lo <= i /\ i < hi => ~IsEnd(imu, i, time0, time1)
      BY AppendedIs
    <3> QED BY <1>1, <3>1, <3>2
  <2> QED BY <1>1, <2>1
<1>3. ends # {} => Min(ends) \in ends /\ \A y \in ends : Min(ends) <= y
  <2>1. ends \in SUBSET Nat
    OBVIOUS
  <2> HIDE DEF ends
  <2> QED BY <2>1, MinOfNaturals
<1>4. Iterations(imu, time0, time1) = IF ends = {} THEN Len(imu) - 1 ELSE Min(ends)
  BY DEF Iterations
<1>5. CASE IsEnd(imu, hi, time0, time1)
  <2>1. hi \in ends
    BY <1>1, <1>5
  <2> HIDE DEF ends
  <2>2. Min(ends) = hi
    <3>1. Min(ends) \in Nat
      BY <1>3, <2>1 DEF ends
    <3> QED BY <1>1, <1>2, <1>3, <2>1, <3>1
  <2> QED BY <1>4, <1>5, <2>1, <2>2
<1>6. CASE ~IsEnd(imu, hi, time0, time1) /\ hi # Len(imu) - 1
  <2>1. hi + 1 \in all
    BY <1>1, <1>6
  <2>2. hi + 1 \in ends
    <3>1. \A i \in all : i = hi + 1 => IsEnd(imu, i, time0, time1)
      BY AppendedIs
    <3> QED BY <2>1, <3>1
  <2>3. \A i \in ends : hi + 1 <= i /\ i \in Nat
    <3>1. hi \notin ends
      BY <1>6
    <3>2. \A i \in ends : hi <= i /\ i # hi /\ i \in Nat
      BY <1>2, <3>1
    <3> HIDE DEF ends
    <3> QED BY <1>1, <3>2
  <2> HIDE DEF ends
  <2>4. Min(ends) = hi + 1
    BY <1>1, <1>3, <2>2, <2>3
  <2> QED BY <1>4, <1>6, <2>2, <2>4
<1>7. CASE ~IsEnd(imu, hi, time0, time1) /\ hi = Len(imu) - 1
  <2>1. ends = {}
    <3> SUFFICES ASSUME NEW i \in ends PROVE FALSE
      OBVIOUS
    <3>1. i = hi
      BY <1>1, <1>2, <1>7
    <3> QED BY <1>7, <3>1
  <2> QED BY <1>4, <1>7, <2>1
<1> QED BY <1>5, <1>6, <1>7

\* What goes forward is left as it is.
LEMMA NoZeroDt ==
  ASSUME NEW W \in Nat, NEW d \in [1..W -> Reading],
         \A k \in 1..(W - 1) : d[k].timestamp < d[k + 1].timestamp
  PROVE  WithoutZeroDt(d) = d
<1> DEFINE q == [i \in 1..W |-> <<d[i]>>]
<1>1. DOMAIN d = 1..W /\ Len(d) = W
  OBVIOUS
<1>2. ASSUME NEW i \in 1..W, i # W PROVE d[i].timestamp # d[i + 1].timestamp
  <2>1. i \in 1..(W - 1) /\ i + 1 \in 1..W
    BY <1>2
  <2>2. d[i].timestamp < d[i + 1].timestamp /\ d[i] \in Reading /\ d[i + 1] \in Reading
    BY <2>1
  <2> QED BY <2>2 DEF Reading
<1>3. WithoutZeroDt(d) = FlattenSeq([i \in 1..W |-> <<d[i]>>])
  BY <1>1, <1>2 DEF WithoutZeroDt
<1>4. q \in [1..W -> Seq(Reading)] /\ \A i \in 1..W : q[i] = <<d[i]>>
  OBVIOUS
<1> HIDE DEF q
<1>5. \A n \in 0..W : UpTo(q, n) = First(d, n)
  BY <1>4, UpToSingles
<1>6. UpTo(q, W) = First(d, W) /\ First(d, W) = d
  BY <1>5 DEF First
<1>7. UpTo(q, W) = FlattenSeq([i \in 1..W |-> <<d[i]>>])
  BY DEF UpTo, q
<1> QED BY <1>3, <1>6, <1>7

\* What the loop appends, up to the end of the period if a reading is at it or after it.
LEMMA CollectedIs ==
  ASSUME NEW imu, Ascending(imu), NEW time0 \in Int, NEW time1 \in Int, time0 < time1,
         NEW lo, NEW hi, Brackets(imu, lo, hi, time0, time1)
  PROVE  Collected(imu, time0, time1)
           = IF IsEnd(imu, hi, time0, time1) \/ hi # Len(imu) - 1 THEN Picked(imu, lo, hi, time0, time1)
             ELSE First(Picked(imu, lo, hi, time0, time1), hi - lo + 1)
<1> DEFINE d == Picked(imu, lo, hi, time0, time1)
           W == hi - lo + 2
           N == Iterations(imu, time0, time1)
           p == [i \in 1..N |-> Appended(imu, i, time0, time1)]
           end == IsEnd(imu, hi, time0, time1)
           K(n) == IF n < lo THEN 0 ELSE n - lo + 1
<1>1. /\ Len(imu) \in Nat /\ hi \in 1..(Len(imu) - 1) /\ hi \in Nat /\ lo \in Nat
      /\ 1 <= lo /\ lo <= hi /\ W \in Nat /\ 2 <= W
  BY AscendingIs, PickedTyped DEF Brackets
<1>2. N = IF hi = Len(imu) - 1 \/ end THEN hi ELSE hi + 1
  BY IterationsAre
<1>3. N \in Nat /\ hi <= N /\ N <= Len(imu) - 1 /\ 1..N \subseteq 1..(Len(imu) - 1)
  BY <1>1, <1>2
<1>4. d \in [1..W -> Reading]
  BY PickedTyped
<1>5. ASSUME NEW i \in 1..N
      PROVE  /\ i < lo => p[i] = <<>>
             /\ lo <= i /\ i <= hi /\ ~(i = hi /\ end) => p[i] = <<d[i - lo + 1]>>
             /\ i = hi /\ end => p[i] = <<d[W - 1], d[W]>>
             /\ i = hi + 1 => p[i] = <<d[W]>>
  <2>1. i \in 1..(Len(imu) - 1) /\ i \in Nat
    BY <1>3
  <2>2. p[i] = Appended(imu, i, time0, time1)
    OBVIOUS
  <2> DEFINE q == Appended(imu, i, time0, time1)
  <2>3. /\ i < lo => q = <<>>
        /\ lo <= i /\ i < hi => ~IsEnd(imu, i, time0, time1)
        /\ lo <= i /\ i <= hi /\ ~IsEnd(imu, i, time0, time1) => q = <<d[i - lo + 1]>>
        /\ i = hi /\ IsEnd(imu, i, time0, time1) => q = <<d[i - lo + 1], d[i - lo + 2]>>
        /\ i = hi + 1 => q = <<d[hi - lo + 2]>>
    BY <2>1, AppendedIs
  <2>4. i = hi => i - lo + 1 = W - 1 /\ i - lo + 2 = W
    BY <1>1
  <2> HIDE DEF p, q, d
  <2>5. i <= hi => i < hi \/ i = hi
    BY <1>1, <2>1
  <2> QED BY <2>2, <2>3, <2>4, <2>5 DEF q
<1>6. p \in [1..N -> Seq(Reading)]
  <2> SUFFICES ASSUME NEW i \in 1..N PROVE p[i] \in Seq(Reading)
    OBVIOUS
  <2>1. d[W - 1] \in Reading /\ d[W] \in Reading
    BY <1>1, <1>4
  <2>2. lo <= i /\ i <= hi => d[i - lo + 1] \in Reading
    BY <1>1, <1>4
  <2>3. i < lo \/ (lo <= i /\ i <= hi) \/ i = hi + 1
    BY <1>1, <1>2
  <2> HIDE DEF p, d, W
  <2>4. <<>> \in Seq(Reading) /\ <<d[W]>> \in Seq(Reading) /\ <<d[W - 1], d[W]>> \in Seq(Reading)
    BY <2>1
  <2>5. lo <= i /\ i <= hi => <<d[i - lo + 1]>> \in Seq(Reading)
    BY <2>2
  <2> QED BY <1>5, <2>3, <2>4, <2>5
<1> HIDE DEF p, d, N, W, end
<1>14. ASSUME NEW m \in Nat, m < W
       PROVE  First(d, m) \in Seq(Reading) /\ First(d, m) \o <<d[m + 1]>> = First(d, m + 1)
  <2>1. W \in Nat
    BY <1>1
  <2> QED BY <1>4, <1>14, <2>1, FirstNext
\* Until the piece that ends the period.
<1>7. \A n \in Nat : n <= hi /\ ~(n = hi /\ end) => UpTo(p, n) = First(d, K(n))
  <2> DEFINE S == {n \in Nat : n <= hi /\ ~(n = hi /\ end) => UpTo(p, n) = First(d, K(n))}
  <2>1. 0 \in S
    <3>1. K(0) = 0 /\ First(d, 0) = <<>>
      BY <1>1 DEF First
    <3> QED BY <3>1, UpToNone
  <2>2. ASSUME NEW n \in Nat, n \in S PROVE n + 1 \in S
    <3> SUFFICES ASSUME n + 1 <= hi, ~(n + 1 = hi /\ end)
                 PROVE  UpTo(p, n + 1) = First(d, K(n + 1))
      OBVIOUS
    <3>1. n <= hi /\ n # hi /\ n < N /\ n + 1 \in 1..N
      BY <1>1, <1>3
    <3>2. UpTo(p, n) = First(d, K(n))
      BY <2>2, <3>1
    <3>3. UpTo(p, n + 1) = UpTo(p, n) \o p[n + 1] /\ UpTo(p, n) \in Seq(Reading)
      BY <1>3, <1>6, <3>1, UpToNext
    <3>4. CASE n + 1 < lo
      <4>1. p[n + 1] = <<>> /\ K(n + 1) = K(n)
        BY <1>1, <1>5, <3>1, <3>4
      <4> QED BY <3>2, <3>3, <4>1, ConcatEmptySeq
    <3>5. CASE lo <= n + 1
      <4>1. p[n + 1] = <<d[(n + 1) - lo + 1]>> /\ (n + 1) - lo + 1 = K(n) + 1 /\ K(n + 1) = K(n) + 1
        BY <1>1, <1>5, <3>1, <3>5
      <4>2. K(n) \in Nat /\ K(n) < W
        BY <1>1, <3>1 DEF W
      <4> HIDE DEF K
      <4>3. First(d, K(n)) \o <<d[K(n) + 1]>> = First(d, K(n) + 1)
        BY <1>14, <4>2
      <4> QED BY <3>2, <3>3, <4>1, <4>3
    <3> QED BY <1>1, <3>4, <3>5
  <2> HIDE DEF S
  <2>3. Nat \subseteq S
    BY <2>1, <2>2, Inductive
  <2> QED BY <2>3 DEF S
<1>8. /\ First(d, W - 2) \o <<d[W - 1]>> = First(d, W - 1)
      /\ First(d, W - 1) \o <<d[W]>> = First(d, W) /\ First(d, W) = d
      /\ First(d, W - 2) \in Seq(Reading) /\ First(d, W - 1) \in Seq(Reading)
  <2>1. /\ W - 2 \in Nat /\ W - 2 < W /\ W - 2 + 1 = W - 1
        /\ W - 1 \in Nat /\ W - 1 < W /\ W - 1 + 1 = W
    BY <1>1
  <2>2. First(d, W) = d
    BY <1>4 DEF First
  <2>3. First(d, W - 2) \o <<d[(W - 2) + 1]>> = First(d, (W - 2) + 1) /\ First(d, W - 2) \in Seq(Reading)
    BY <1>14, <2>1
  <2>4. First(d, W - 1) \o <<d[(W - 1) + 1]>> = First(d, (W - 1) + 1) /\ First(d, W - 1) \in Seq(Reading)
    BY <1>14, <2>1
  <2> QED BY <2>1, <2>2, <2>3, <2>4
<1>9. Collected(imu, time0, time1) = UpTo(p, N)
  <2>1. [i \in 1..N |-> p[i]] = [i \in 1..N |-> Appended(imu, i, time0, time1)]
    BY DEF p
  <2> QED BY <2>1 DEF Collected, UpTo, N
<1>10. /\ K(hi) = W - 1 /\ K(hi - 1) = W - 2 /\ hi - 1 \in Nat /\ hi - 1 <= hi /\ hi - 1 < N
       /\ hi - 1 + 1 = hi /\ hi \in 1..N /\ hi - 1 # hi
  BY <1>1, <1>3 DEF W
<1>11. CASE end \/ hi # Len(imu) - 1
  <2>1. CASE end
    <3>1. N = hi /\ p[hi] = <<d[W - 1], d[W]>>
      BY <1>2, <1>5, <1>10, <2>1
    <3>2. UpTo(p, hi) = UpTo(p, hi - 1) \o p[hi]
      <4>1. UpTo(p, (hi - 1) + 1) = UpTo(p, hi - 1) \o p[(hi - 1) + 1]
        BY <1>3, <1>6, <1>10, UpToNext
      <4> QED BY <1>10, <4>1
    <3>3. UpTo(p, hi - 1) = First(d, W - 2)
      BY <1>7, <1>10
    <3>4. <<d[W - 1], d[W]>> = <<d[W - 1]>> \o <<d[W]>>
      BY PairOf
    <3>5. <<d[W - 1]>> \in Seq(Reading) /\ <<d[W]>> \in Seq(Reading)
      BY <1>1, <1>4
    <3>6. First(d, W - 2) \o (<<d[W - 1]>> \o <<d[W]>>)
            = (First(d, W - 2) \o <<d[W - 1]>>) \o <<d[W]>>
      BY <1>8, <3>5, ConcatAssociative
    <3>7. Collected(imu, time0, time1) = d
      BY <1>8, <1>9, <3>1, <3>2, <3>3, <3>4, <3>6
    <3> QED BY <1>11, <3>7 DEF end, d
  <2>2. CASE ~end /\ hi # Len(imu) - 1
    <3>1. N = hi + 1 /\ hi < N /\ hi + 1 \in 1..N
      BY <1>1, <1>2, <2>2
    <3>2. UpTo(p, hi + 1) = UpTo(p, hi) \o p[hi + 1]
      BY <1>1, <1>3, <1>6, <3>1, UpToNext
    <3>4. p[hi + 1] = <<d[W]>>
      BY <1>1, <1>5, <3>1
    <3>3. UpTo(p, hi) = First(d, W - 1)
      BY <1>1, <1>7, <1>10, <2>2
    <3>5. Collected(imu, time0, time1) = d
      BY <1>8, <1>9, <3>1, <3>2, <3>3, <3>4
    <3> QED BY <1>11, <3>5 DEF end, d
  <2> QED BY <1>11, <2>1, <2>2
<1>12. CASE ~end /\ hi = Len(imu) - 1
  <2>1. Collected(imu, time0, time1) = First(d, W - 1) /\ W - 1 = hi - lo + 1
    BY <1>1, <1>2, <1>7, <1>9, <1>10, <1>12 DEF W
  <2> QED BY <1>12, <2>1 DEF end, d
<1> QED BY <1>11, <1>12 DEF end, d

\* The selection is the start, the readings between and the end.
LEMMA SelectIs ==
  ASSUME NEW imu, Ascending(imu), NEW time0 \in Int, NEW time1 \in Int, time0 < time1,
         NEW lo, NEW hi, Brackets(imu, lo, hi, time0, time1)
  PROVE  select_imu_readings(imu, time0, time1) = Picked(imu, lo, hi, time0, time1)
<1> DEFINE d == Picked(imu, lo, hi, time0, time1)
           W == hi - lo + 2
           end == IsEnd(imu, hi, time0, time1)
<1>1. /\ Len(imu) \in Nat /\ hi \in 1..(Len(imu) - 1) /\ hi \in Nat /\ lo \in Nat
      /\ 1 <= lo /\ lo <= hi /\ W \in Nat /\ 2 <= W /\ W - 1 = hi - lo + 1
  BY AscendingIs, PickedTyped DEF Brackets
<1>2. Collected(imu, time0, time1) = IF end \/ hi # Len(imu) - 1 THEN d ELSE First(d, W - 1)
  BY <1>1, CollectedIs
<1>4. d \in [1..W -> Reading]
  BY PickedTyped
<1> HIDE DEF d, W, end
<1>8. /\ First(d, W - 1) \o <<d[W]>> = First(d, W) /\ First(d, W) = d
      /\ First(d, W - 1) \in Seq(Reading)
  <2>1. W - 1 \in Nat /\ W - 1 < W /\ W - 1 + 1 = W /\ W \in Nat
    BY <1>1
  <2>2. First(d, W) = d
    BY <1>4 DEF First
  <2>3. First(d, W - 1) \o <<d[(W - 1) + 1]>> = First(d, (W - 1) + 1) /\ First(d, W - 1) \in Seq(Reading)
    BY <1>4, <2>1, FirstNext
  <2> QED BY <2>1, <2>2, <2>3
<1>10. /\ d[1].timestamp = time0 /\ d[W].timestamp = time1
       /\ \A k \in 1..(W - 1) : d[k].timestamp < d[k + 1].timestamp
  <2>1. hi - lo + 1 = W - 1
    BY <1>1 DEF W
  <2> QED BY <2>1, PickedAscends DEF d, W
<1>11. Stretched(imu, Collected(imu, time0, time1), time1) = d
  <2>2. CASE end \/ hi # Len(imu) - 1
    <3>1. Collected(imu, time0, time1) = d
      BY <1>2, <2>2
    <3>2. Len(d) = W /\ Last(d) = d[W]
      BY <1>1, <1>4 DEF Last
    <3> QED BY <1>10, <3>1, <3>2 DEF Stretched
  <2>3. CASE ~end /\ hi = Len(imu) - 1
    <3> DEFINE c == First(d, W - 1)
    <3>1. Collected(imu, time0, time1) = c
      BY <1>2, <2>3
    <3>2. Len(c) = W - 1 /\ W - 1 \in 1..(W - 1) /\ c[W - 1] = d[W - 1] /\ c \in Seq(Reading)
      BY <1>1, <1>8 DEF First
    <3>3. d[W - 1].timestamp < time1 /\ d[W] \in Reading /\ d[W - 1] \in Reading
      <4>1. W - 1 \in 1..(W - 1) /\ (W - 1) + 1 = W /\ W \in 1..W /\ W - 1 \in 1..W
        BY <1>1
      <4> QED BY <1>4, <1>10, <4>1
    <3> HIDE DEF c
    <3>4. c # <<>> /\ Last(c) = d[W - 1]
      BY <1>1, <3>2 DEF Last
    <3>5. d[W - 1].timestamp # time1
      BY <3>3 DEF Reading
    <3>6. interpolate_data(imu[Len(imu) - 1], imu[Len(imu)], time1) = d[W]
      <4>1. W \in 1..W /\ W # 1 /\ W = hi - lo + 2 /\ hi + 1 = Len(imu)
        BY <1>1, <2>3 DEF W
      <4>2. d[W] = interpolate_data(imu[hi], imu[hi + 1], time1)
        BY <4>1 DEF d, Picked
      <4> QED BY <2>3, <4>1, <4>2
    <3>7. Append(c, d[W]) = d
      BY <1>8, <3>2, <3>3, AppendIsConcat DEF c
    <3> QED BY <3>1, <3>4, <3>5, <3>6, <3>7 DEF Stretched
  <2> QED BY <2>2, <2>3
<1>12. WithoutZeroDt(d) = d
  <2>1. W \in Nat /\ d \in [1..W -> Reading] /\ \A k \in 1..(W - 1) : d[k].timestamp < d[k + 1].timestamp
    BY <1>1, <1>4, <1>10
  <2> QED BY <2>1, NoZeroDt
<1>13. imu # <<>>
  BY <1>1
<1> QED BY <1>11, <1>12, <1>13 DEF select_imu_readings, d

\* Without the stretch it is the same for a period that ends before the last reading.
LEMMA SelectWithinIs ==
  ASSUME NEW imu, Ascending(imu), NEW time0 \in Int, NEW time1 \in Int, time0 < time1,
         NEW lo, NEW hi, Brackets(imu, lo, hi, time0, time1), hi # Len(imu) - 1
  PROVE  select_within(imu, time0, time1) = Picked(imu, lo, hi, time0, time1)
<1> DEFINE d == Picked(imu, lo, hi, time0, time1)
           W == hi - lo + 2
<1>1. Len(imu) \in Nat /\ W \in Nat /\ d \in [1..W -> Reading] /\ W - 1 = hi - lo + 1
  <2>1. Len(imu) \in Nat /\ lo \in Nat /\ hi \in Nat
    BY AscendingIs DEF Brackets
  <2> HIDE DEF d
  <2>2. d \in [1..W -> Reading] /\ W \in Nat
    BY PickedTyped DEF d
  <2> QED BY <2>1, <2>2
<1>2. Collected(imu, time0, time1) = d
  BY CollectedIs
<1>3. \A k \in 1..(hi - lo + 1) : d[k].timestamp < d[k + 1].timestamp
  BY PickedAscends
<1>4. imu # <<>>
  <2>1. hi \in 1..(Len(imu) - 1)
    BY DEF Brackets
  <2> QED BY <2>1
<1> HIDE DEF d, W
<1>5. \A k \in 1..(W - 1) : d[k].timestamp < d[k + 1].timestamp
  BY <1>1, <1>3
<1>6. WithoutZeroDt(d) = d
  BY <1>1, <1>5, NoZeroDt
<1> QED BY <1>2, <1>4, <1>6 DEF select_within, d

-----------------------------------------------------------------------------
(***************************************************************************)
(* Where a period lies in the buffer.                                      *)
(***************************************************************************)
LEMMA BracketsExist ==
  ASSUME NEW imu, Ascending(imu), NEW time0 \in Int, NEW time1 \in Int, time0 < time1,
         \E r \in ToSet(imu) : r <= time0, \E r \in ToSet(imu) : time0 < r
  PROVE  \E lo, hi : Brackets(imu, lo, hi, time0, time1)
<1>1. /\ Len(imu) \in Nat /\ DOMAIN imu = 1..Len(imu) /\ \A i \in 1..Len(imu) : imu[i] \in Nat
      /\ \A i, j \in 1..Len(imu) : i < j => imu[i] < imu[j]
  BY AscendingIs
<1>2. \A S \in SUBSET (0..Len(imu)) : S # {} => Max(S) \in S /\ \A y \in S : y <= Max(S)
  BY <1>1, MaxOfBounded
<1>3. PICK lo \in 1..(Len(imu) - 1) : imu[lo] <= time0 /\ time0 < imu[lo + 1]
  <2> DEFINE S == {i \in 1..Len(imu) : imu[i] <= time0}
  <2>1. S \in SUBSET (0..Len(imu)) /\ S # {}
    BY <1>1 DEF ToSet
  <2>2. PICK m : m \in S /\ \A y \in S : y <= m
    BY <1>2, <2>1
  <2>3. PICK j \in 1..Len(imu) : time0 < imu[j]
    BY <1>1 DEF ToSet
  <2>4. m < j
    <3>1. j < m => imu[j] < imu[m]
      BY <1>1, <2>2
    <3>2. j # m /\ ~(imu[j] < imu[m])
      BY <1>1, <2>2, <2>3
    <3> QED BY <2>2, <3>1, <3>2
  <2>5. m \in 1..(Len(imu) - 1) /\ m + 1 \in 1..Len(imu)
    BY <1>1, <2>2, <2>4
  <2>6. m + 1 \notin S
    <3> HIDE DEF S
    <3> QED BY <2>2, <2>5
  <2>7. ~(imu[m + 1] <= time0) /\ imu[m + 1] \in Nat
    BY <1>1, <2>5, <2>6
  <2> QED BY <2>2, <2>5, <2>7
<1>4. PICK hi \in 1..(Len(imu) - 1) : imu[hi] < time1 /\ (hi = Len(imu) - 1 \/ time1 <= imu[hi + 1])
  <2> DEFINE S == {i \in 1..(Len(imu) - 1) : imu[i] < time1}
  <2>1. imu[lo] < time1
    BY <1>1, <1>3
  <2>2. S \in SUBSET (0..Len(imu)) /\ S # {}
    BY <1>1, <1>3, <2>1
  <2>3. PICK m : m \in S /\ \A y \in S : y <= m
    BY <1>2, <2>2
  <2>4. m \in 1..(Len(imu) - 1) /\ imu[m] < time1
    BY <2>3
  <2>5. CASE m = Len(imu) - 1
    BY <2>4, <2>5
  <2>6. CASE m # Len(imu) - 1
    <3>1. m + 1 \in 1..(Len(imu) - 1) /\ m + 1 \in 1..Len(imu)
      <4> DEFINE n == Len(imu)
      <4>1. n \in Nat /\ m \in 1..(n - 1) /\ m # n - 1
        BY <1>1, <2>4, <2>6
      <4> HIDE DEF n
      <4>2. m + 1 \in 1..(n - 1) /\ m + 1 \in 1..n
        BY <4>1
      <4> QED BY <4>2 DEF n
    <3>2. m + 1 \notin S
      <4> HIDE DEF S
      <4> QED BY <2>3, <2>4, <1>1, <3>1
    <3>3. ~(imu[m + 1] < time1) /\ imu[m + 1] \in Nat
      BY <1>1, <3>1, <3>2
    <3> QED BY <2>4, <3>3
  <2> QED BY <2>5, <2>6
<1> QED BY <1>3, <1>4 DEF Brackets

\* Integrating the selection covers a period that starts within the buffer, also one
\* that ends after it.
LEMMA Covers ==
  ASSUME NEW imu, Ascending(imu), NEW time0 \in Int, NEW time1 \in Int, time0 < time1,
         \E r \in ToSet(imu) : r <= time0, \E r \in ToSet(imu) : time0 < r
  PROVE  LET data == select_imu_readings(imu, time0, time1)
         IN  TimeCovered(data) = time1 - time0 /\ Len(data) >= 2
<1>1. PICK lo, hi : Brackets(imu, lo, hi, time0, time1)
  BY BracketsExist
<1> DEFINE d == Picked(imu, lo, hi, time0, time1)
           W == hi - lo + 2
<1>2. d \in [1..W -> Reading] /\ W \in Nat /\ 2 <= W
  <2>1. lo \in Int /\ hi \in Int
    <3>1. Len(imu) \in Nat
      BY AscendingIs
    <3> QED BY <1>1, <3>1 DEF Brackets
  <2>2. lo <= hi /\ W \in Nat /\ d \in [1..W -> Reading]
    BY <1>1, PickedTyped
  <2> HIDE DEF d
  <2> QED BY <2>1, <2>2
<1>3. d[1].timestamp = time0 /\ d[W].timestamp = time1
  BY <1>1, PickedAscends
<1> HIDE DEF d, W
<1>4. Len(d) = W /\ ~(Len(d) < 2) /\ Head(d) = d[1] /\ Last(d) = d[W]
  BY <1>2 DEF Last
<1>5. TimeCovered(d) = time1 - time0
  BY <1>3, <1>4 DEF TimeCovered
<1> QED BY <1>1, <1>2, <1>4, <1>5, SelectIs DEF d

\* Empty pieces add up to nothing.
LEMMA UpToEmpty ==
  ASSUME NEW M \in Nat, NEW p, \A i \in 1..M : p[i] = <<>>
  PROVE  UpTo(p, M) = <<>>
<1> DEFINE q == [i \in 1..M |-> p[i]]
           S == {n \in Nat : n <= M => UpTo(q, n) = <<>>}
<1>1. q \in [1..M -> Seq(Nat)]
  <2>1. <<>> \in Seq(Nat)
    OBVIOUS
  <2> DEFINE U == Seq(Nat)
  <2> HIDE DEF U
  <2>2. \A i \in 1..M : p[i] \in U
    BY <2>1 DEF U
  <2>3. q \in [1..M -> U]
    BY <2>2
  <2> QED BY <2>3 DEF U
<1>2. 0 \in S
  BY UpToNone
<1>3. ASSUME NEW n \in Nat, n \in S PROVE n + 1 \in S
  <2> SUFFICES ASSUME n + 1 <= M PROVE UpTo(q, n + 1) = <<>>
    OBVIOUS
  <2>1. n < M /\ n + 1 \in 1..M
    BY <1>3
  <2>2. UpTo(q, n) = <<>> /\ q[n + 1] = <<>>
    BY <1>3, <2>1
  <2> HIDE DEF q
  <2>3. UpTo(q, n + 1) = UpTo(q, n) \o q[n + 1]
    BY <1>1, <2>1, UpToNext
  <2>4. <<>> \o <<>> = <<>>
    OBVIOUS
  <2> QED BY <2>2, <2>3, <2>4
<1>4. UpTo(q, M) = <<>>
  <2> HIDE DEF S
  <2>1. M \in S
    BY <1>2, <1>3, Inductive
  <2> QED BY <2>1 DEF S
<1> QED BY <1>4 DEF UpTo

LEMMA NothingLeft == WithoutZeroDt(<<>>) = <<>>
<1> DEFINE none == [i \in DOMAIN <<>> |->
         IF i # Len(<<>>) /\ <<>>[i].timestamp = <<>>[i + 1].timestamp THEN <<>> ELSE <<<<>>[i]>>]
<1>1. none = <<>> /\ Len(<<>>) = 0
  OBVIOUS
<1> HIDE DEF none
<1>2. FlattenSeq(none) = <<>>
  BY <1>1, FlattenEmpty
<1> QED BY <1>2 DEF WithoutZeroDt, none

\* Nothing is selected for a period that starts where the buffer ends.
LEMMA NothingAfterBuffer ==
  ASSUME NEW imu, Ascending(imu), NEW time0 \in Int, NEW time1 \in Int, time0 < time1,
         \A r \in ToSet(imu) : r <= time0
  PROVE  select_imu_readings(imu, time0, time1) = <<>>
<1>1. /\ Len(imu) \in Nat /\ DOMAIN imu = 1..Len(imu) /\ \A i \in 1..Len(imu) : imu[i] \in Nat
      /\ \A i, j \in 1..Len(imu) : i < j => imu[i] < imu[j]
  BY AscendingIs
<1>2. CASE imu = <<>>
  BY <1>2 DEF select_imu_readings
<1>3. CASE imu # <<>>
  <2>1. Len(imu) - 1 \in Nat
    <3>1. imu \in Seq(Nat)
      BY DEF Ascending
    <3> QED BY <1>3, <3>1
  <2>2. ASSUME NEW i \in 1..(Len(imu) - 1)
        PROVE  ~IsEnd(imu, i, time0, time1) /\ Appended(imu, i, time0, time1) = <<>>
    <3>1. /\ i \in 1..Len(imu) /\ i + 1 \in 1..Len(imu) /\ i < i + 1
      BY <1>1, <2>1
    <3>2. imu[i] < imu[i + 1] /\ imu[i + 1] <= time0 /\ imu[i] \in Nat /\ imu[i + 1] \in Nat
      BY <1>1, <3>1 DEF ToSet
    <3>3. /\ ~IsStart(imu, i, time0) /\ ~IsMiddle(imu, i, time0, time1)
          /\ ~IsEnd(imu, i, time0, time1)
      BY <3>2 DEF IsStart, IsMiddle, IsEnd
    <3> QED BY <3>3 DEF Appended
  <2>3. Iterations(imu, time0, time1) = Len(imu) - 1
    BY <2>2 DEF Iterations
  <2> DEFINE p == [i \in 1..(Len(imu) - 1) |-> Appended(imu, i, time0, time1)]
  <2>4. UpTo(p, Len(imu) - 1) = <<>>
    BY <2>1, <2>2, UpToEmpty
  <2>5. Collected(imu, time0, time1) = <<>>
    BY <2>3, <2>4 DEF Collected, UpTo
  <2>6. Stretched(imu, <<>>, time1) = <<>>
    BY DEF Stretched
  <2> QED BY <1>3, <2>5, <2>6, NothingLeft DEF select_imu_readings
<1> QED BY <1>2, <1>3

\* Pieces over T add up to a sequence over T.
LEMMA UpToTyped ==
  ASSUME NEW T, NEW M \in Nat, NEW p \in [1..M -> Seq(T)]
  PROVE  UpTo(p, M) \in Seq(T)
<1>1. CASE M = 0
  <2>1. <<>> \in Seq(T)
    OBVIOUS
  <2> QED BY <1>1, <2>1, UpToNone
<1>2. CASE M # 0
  <2>1. M - 1 \in Nat /\ M - 1 < M /\ M - 1 + 1 = M /\ M \in 1..M
    BY <1>2
  <2>2. UpTo(p, (M - 1) + 1) = UpTo(p, M - 1) \o p[(M - 1) + 1] /\ UpTo(p, M - 1) \in Seq(T)
    BY <2>1, UpToNext
  <2>3. p[M] \in Seq(T)
    <3> DEFINE U == Seq(T)
    <3>1. p \in [1..M -> U]
      OBVIOUS
    <3> HIDE DEF U
    <3>2. p[M] \in U
      BY <2>1, <3>1
    <3> QED BY <3>2 DEF U
  <2>4. UpTo(p, M - 1) \o p[M] \in Seq(T)
    <3> DEFINE a == UpTo(p, M - 1)
               b == p[M]
    <3>1. a \in Seq(T) /\ b \in Seq(T)
      BY <2>2, <2>3
    <3> HIDE DEF a, b
    <3>2. a \o b \in Seq(T)
      BY <3>1
    <3> QED BY <3>2 DEF a, b
  <2> QED BY <2>1, <2>2, <2>4
<1> QED BY <1>1, <1>2

\* A period without length is covered by whatever is selected for it.
LEMMA AtOneInstant ==
  ASSUME NEW imu, Ascending(imu), NEW t \in Int
  PROVE  TimeCovered(select_imu_readings(imu, t, t)) = 0
<1> DEFINE T == [timestamp : {t}, from : SUBSET Int]
           N == Iterations(imu, t, t)
           p == [i \in 1..N |-> Appended(imu, i, t, t)]
<1>1. /\ Len(imu) \in Nat /\ DOMAIN imu = 1..Len(imu) /\ \A i \in 1..Len(imu) : imu[i] \in Nat
      /\ \A i, j \in 1..Len(imu) : i < j => imu[i] < imu[j]
  BY AscendingIs
<1>2. \A x \in Seq(T) : TimeCovered(x) = 0
  <2> SUFFICES ASSUME NEW x \in Seq(T) PROVE TimeCovered(x) = 0
    OBVIOUS
  <2>1. CASE Len(x) < 2
    BY <2>1 DEF TimeCovered
  <2>2. CASE ~(Len(x) < 2)
    <3>1. Len(x) \in Nat /\ 1 \in 1..Len(x) /\ Len(x) \in 1..Len(x)
      BY <2>2
    <3>2. x[1] \in T /\ x[Len(x)] \in T /\ Head(x) = x[1] /\ Last(x) = x[Len(x)]
      <4> HIDE DEF T
      <4> QED BY <3>1 DEF Last
    <3> QED BY <2>2, <3>2 DEF TimeCovered
  <2> QED BY <2>1, <2>2
<1>3. CASE imu = <<>>
  BY <1>3, <1>2 DEF select_imu_readings, TimeCovered
<1>4. CASE imu # <<>>
  <2>1. Len(imu) - 1 \in Nat
    <3>1. imu \in Seq(Nat)
      BY DEF Ascending
    <3> QED BY <1>4, <3>1
  <2>2. N \in Nat /\ N <= Len(imu) - 1
    <3> DEFINE ends == {i \in 1..(Len(imu) - 1) : IsEnd(imu, i, t, t)}
    <3>1. CASE ends = {}
      BY <2>1, <3>1 DEF Iterations
    <3>2. CASE ends # {}
      <4>1. Min(ends) \in ends
        <5>1. ends \in SUBSET Nat
          OBVIOUS
        <5> HIDE DEF ends
        <5> QED BY <3>2, <5>1, MinOfNaturals
      <4>2. N = Min(ends)
        BY <3>2 DEF Iterations
      <4> QED BY <2>1, <4>1, <4>2
    <3> QED BY <3>1, <3>2
  <2>3. ASSUME NEW i \in 1..N PROVE Appended(imu, i, t, t) \in Seq(T)
    <3>1. i \in 1..Len(imu) /\ i + 1 \in 1..Len(imu) /\ i < i + 1 /\ i \in Nat
      BY <2>1, <2>2
    <3>2. imu[i] < imu[i + 1] /\ imu[i] \in Nat /\ imu[i + 1] \in Nat
      BY <1>1, <3>1
    <3>3. \A j, k \in 1..Len(imu) : interpolate_data(imu[j], imu[k], t) \in T
      BY <1>1 DEF interpolate_data
    <3>4. Raw(t) \in T
      BY DEF Raw
    <3>5. i # 1 => i - 1 \in 1..Len(imu)
      BY <3>1, <1>1
    <3> HIDE DEF T
    <3>6. ~IsMiddle(imu, i, t, t)
      BY <3>2 DEF IsMiddle
    <3>7. CASE IsStart(imu, i, t)
      <4>1. Appended(imu, i, t, t) = <<interpolate_data(imu[i], imu[i + 1], t)>>
        BY <3>6, <3>7 DEF Appended, IsEnd
      <4> QED BY <3>1, <3>3, <4>1
    <3>8. CASE IsEnd(imu, i, t, t) /\ ~IsStart(imu, i, t)
      <4>1. Appended(imu, i, t, t) = AtEnd(imu, i, t)
        BY <3>6, <3>8 DEF Appended
      <4>2. imu[i] > t \/ imu[i] = t
        BY <3>2, <3>8 DEF IsEnd, IsStart
      <4>3. AtEnd(imu, i, t) \in Seq(T)
        BY <3>1, <3>2, <3>3, <3>4, <3>5, <4>2 DEF AtEnd
      <4> QED BY <4>1, <4>3
    <3>9. CASE ~IsEnd(imu, i, t, t) /\ ~IsStart(imu, i, t)
      <4>1. Appended(imu, i, t, t) = <<>>
        BY <3>6, <3>9 DEF Appended
      <4>2. <<>> \in Seq(T)
        OBVIOUS
      <4> QED BY <4>1, <4>2
    <3> QED BY <3>7, <3>8, <3>9
  <2>4. p \in [1..N -> Seq(T)]
    <3> DEFINE U == Seq(T)
    <3> HIDE DEF T, U, N
    <3>1. \A i \in 1..N : Appended(imu, i, t, t) \in U
      BY <2>3 DEF U
    <3>2. p \in [1..N -> U]
      BY <3>1
    <3> QED BY <3>2 DEF U
  <2> DEFINE c == Collected(imu, t, t)
  <2>5. c \in Seq(T)
    <3>1. c = UpTo(p, N)
      <4>1. [i \in 1..N |-> p[i]] = [i \in 1..N |-> Appended(imu, i, t, t)]
        OBVIOUS
      <4> QED BY <4>1 DEF Collected, UpTo
    <3> HIDE DEF c, p, N, T
    <3>2. UpTo(p, N) \in Seq(T)
      BY <2>2, <2>4, UpToTyped
    <3> QED BY <3>1, <3>2
  <2> HIDE DEF c, p, N
  <2>6. Stretched(imu, c, t) = c
    <3>1. c # <<>> => Last(c).timestamp = t
      <4> SUFFICES ASSUME c # <<>> PROVE Last(c).timestamp = t
        OBVIOUS
      <4> HIDE DEF T
      <4>1. c[Len(c)] \in T
        BY <2>5
      <4> USE DEF T
      <4> QED BY <4>1 DEF Last
    <3> QED BY <3>1 DEF Stretched
  <2>7. WithoutZeroDt(c) \in Seq(T)
    <3> DEFINE M == Len(c)
               q == [i \in 1..M |-> IF i # Len(c) /\ c[i].timestamp = c[i + 1].timestamp
                                    THEN <<>> ELSE <<c[i]>>]
               U == Seq(T)
    <3>1. M \in Nat /\ DOMAIN c = 1..M
      BY <2>5
    <3>2. \A i \in 1..M : <<>> \in U /\ <<c[i]>> \in U
      <4> HIDE DEF T
      <4> QED BY <2>5
    <3>3. q \in [1..M -> U]
      <4> HIDE DEF U, M, T
      <4> QED BY <3>2
    <3>4. WithoutZeroDt(c) = UpTo(q, M)
      <4>1. [i \in 1..M |-> q[i]] = q
        OBVIOUS
      <4> HIDE DEF M
      <4>2. WithoutZeroDt(c) = FlattenSeq(q)
        BY <3>1 DEF WithoutZeroDt
      <4> QED BY <4>1, <4>2 DEF UpTo
    <3>5. UpTo(q, M) \in Seq(T)
      <4>1. q \in [1..M -> Seq(T)]
        BY <3>3
      <4> HIDE DEF q, M, T
      <4> QED BY <3>1, <4>1, UpToTyped
    <3> QED BY <3>4, <3>5
  <2>8. select_imu_readings(imu, t, t) = WithoutZeroDt(c)
    BY <1>4, <2>6 DEF select_imu_readings, c
  <2> QED BY <1>2, <2>7, <2>8
<1> QED BY <1>3, <1>4

-----------------------------------------------------------------------------
(***************************************************************************)
(* What is selected, on its own.                                           *)
(***************************************************************************)
\* A test that a stretch of s passes, and nothing else of it, keeps that stretch.
LEMMA UpToStretch ==
  ASSUME NEW T, NEW n \in Nat, NEW lo \in Nat, NEW hi \in Nat, lo <= hi, hi <= n
  PROVE  \A d \in [1..(hi - lo) -> T], p \in [1..n -> Seq(T)] :
           (\A i \in 1..n : p[i] = IF lo < i /\ i <= hi THEN <<d[i - lo]>> ELSE <<>>)
             => UpTo(p, n) = d
<1>0. \A e \in [1..(hi - lo) -> T], j \in Nat :
        j < hi - lo => First(e, j) \o <<e[j + 1]>> = First(e, j + 1)
  <2> DEFINE V == hi - lo
  <2>1. V \in Nat
    OBVIOUS
  <2>2. \A M \in Nat : \A e \in [1..M -> T] : \A j \in Nat :
          j < M => First(e, j) \o <<e[j + 1]>> = First(e, j + 1)
    BY FirstNext
  <2> HIDE DEF V
  <2>3. \A e \in [1..V -> T] : \A j \in Nat :
          j < V => First(e, j) \o <<e[j + 1]>> = First(e, j + 1)
    BY <2>1, <2>2
  <2> QED BY <2>3 DEF V
<1> SUFFICES ASSUME NEW d \in [1..(hi - lo) -> T], NEW p \in [1..n -> Seq(T)],
                    \A i \in 1..n : p[i] = IF lo < i /\ i <= hi THEN <<d[i - lo]>> ELSE <<>>
             PROVE  UpTo(p, n) = d
  OBVIOUS
<1> DEFINE W == hi - lo
           K(m) == IF m <= lo THEN 0 ELSE IF m <= hi THEN m - lo ELSE hi - lo
           Q == {m \in Nat : m <= n => UpTo(p, m) = First(d, K(m))}
<1>1. /\ K(0) = 0 /\ K(n) = W /\ W \in Nat
      /\ \A m \in Nat : lo < m + 1 /\ m + 1 <= hi =>
           K(m) \in Nat /\ K(m) < W /\ K(m + 1) = K(m) + 1 /\ (m + 1) - lo = K(m) + 1
      /\ \A m \in Nat : ~(lo < m + 1 /\ m + 1 <= hi) => K(m + 1) = K(m)
  OBVIOUS
<1> HIDE DEF K
<1>2. 0 \in Q
  <2>1. First(d, 0) = <<>>
    BY DEF First
  <2> QED BY <1>1, <2>1, UpToNone
<1>3. ASSUME NEW m \in Nat, m \in Q PROVE m + 1 \in Q
  <2> SUFFICES ASSUME m + 1 <= n PROVE UpTo(p, m + 1) = First(d, K(m + 1))
    OBVIOUS
  <2>1. m < n /\ m + 1 \in 1..n /\ UpTo(p, m) = First(d, K(m))
    BY <1>3
  <2>2. UpTo(p, m + 1) = UpTo(p, m) \o p[m + 1] /\ UpTo(p, m) \in Seq(T)
    BY <2>1, UpToNext
  <2>3. CASE lo < m + 1 /\ m + 1 <= hi
    <3>1. p[m + 1] = <<d[(m + 1) - lo]>>
      BY <2>1, <2>3
    <3>2. K(m) \in Nat /\ K(m) < W /\ K(m + 1) = K(m) + 1 /\ (m + 1) - lo = K(m) + 1
      BY <1>1, <2>3
    <3>3. First(d, K(m)) \o <<d[K(m) + 1]>> = First(d, K(m) + 1)
      BY <1>0, <3>2
    <3> QED BY <2>1, <2>2, <3>1, <3>2, <3>3
  <2>4. CASE ~(lo < m + 1 /\ m + 1 <= hi)
    <3>1. p[m + 1] = <<>>
      BY <2>1, <2>4
    <3>2. K(m + 1) = K(m)
      BY <1>1, <2>4
    <3> QED BY <2>1, <2>2, <3>1, <3>2, ConcatEmptySeq
  <2> QED BY <2>3, <2>4
<1>4. UpTo(p, n) = First(d, W)
  <2> HIDE DEF Q
  <2>1. n \in Q
    BY <1>2, <1>3, Inductive
  <2> QED BY <1>1, <2>1 DEF Q
<1> QED BY <1>4 DEF First

Stretch(s, lo, hi) == [k \in 1..(hi - lo) |-> s[lo + k]]

LEMMA KeptStretch ==
  ASSUME NEW T, NEW s \in Seq(T), NEW S, NEW lo \in Nat, NEW hi \in Nat, lo <= hi, hi <= Len(s),
         \A i \in 1..Len(s) : s[i] \in S <=> lo < i /\ i <= hi
  PROVE  Kept(s, S) = Stretch(s, lo, hi)
<1> DEFINE n == Len(s)
           p == [i \in 1..n |-> IF s[i] \in S THEN <<s[i]>> ELSE <<>>]
           W == hi - lo
           d == [k \in 1..W |-> s[lo + k]]
<1>1. n \in Nat /\ DOMAIN s = 1..n /\ W \in Nat /\ hi <= n /\ \A i \in 1..n : s[i] \in T
  OBVIOUS
<1>2. d \in [1..W -> T]
  <2>1. \A k \in 1..W : lo + k \in 1..n
    OBVIOUS
  <2> QED BY <1>1, <2>1
<1>3. p \in [1..n -> Seq(T)]
  <2> DEFINE U == Seq(T)
  <2>1. \A x \in T : <<>> \in U /\ <<x>> \in U
    OBVIOUS
  <2> HIDE DEF U, n
  <2>2. p \in [1..n -> U]
    BY <1>1, <2>1
  <2> QED BY <2>2 DEF U
<1>4. ASSUME NEW i \in 1..n
      PROVE  p[i] = IF lo < i /\ i <= hi THEN <<d[i - lo]>> ELSE <<>>
  <2>1. CASE lo < i /\ i <= hi
    <3>1. i - lo \in 1..W /\ lo + (i - lo) = i
      BY <2>1
    <3> QED BY <2>1, <3>1
  <2>2. CASE ~(lo < i /\ i <= hi)
    BY <2>2
  <2> QED BY <2>1, <2>2
<1>5. Kept(s, S) = UpTo(p, n)
  <2>1. [i \in 1..n |-> p[i]] = [i \in DOMAIN s |-> IF s[i] \in S THEN <<s[i]>> ELSE <<>>]
    BY <1>1
  <2> QED BY <2>1 DEF Kept, UpTo
<1>6. UpTo(p, n) = d
  <2>1. n \in Nat /\ hi <= n /\ d \in [1..(hi - lo) -> T]
    BY <1>1, <1>2
  <2> HIDE DEF p, d, n, W
  <2>2. \A i \in 1..n : p[i] = IF lo < i /\ i <= hi THEN <<d[i - lo]>> ELSE <<>>
    BY <1>4
  <2>3. \A e \in [1..(hi - lo) -> T], q \in [1..n -> Seq(T)] :
           (\A i \in 1..n : q[i] = IF lo < i /\ i <= hi THEN <<e[i - lo]>> ELSE <<>>)
             => UpTo(q, n) = e
    BY <2>1, UpToStretch
  <2> QED BY <1>3, <2>1, <2>2, <2>3
<1> QED BY <1>5, <1>6 DEF Stretch

\* A selection that goes forward from time0 to time1, of values that are there.
GoesForward(data, time0, time1) ==
  /\ \A i \in 1..(Len(data) - 1) : data[i].timestamp < data[i + 1].timestamp
  /\ data # <<>> => Head(data).timestamp >= time0 /\ Last(data).timestamp = time1
  /\ \A i \in DOMAIN data : data[i].from # {}

LEMMA PickedGoesForward ==
  ASSUME NEW imu, Ascending(imu), NEW time0 \in Int, NEW time1 \in Int, time0 < time1,
         NEW lo, NEW hi, Brackets(imu, lo, hi, time0, time1)
  PROVE  GoesForward(Picked(imu, lo, hi, time0, time1), time0, time1)
<1> DEFINE d == Picked(imu, lo, hi, time0, time1)
           W == hi - lo + 2
<1>1. /\ Len(imu) \in Nat /\ \A j \in 1..Len(imu) : imu[j] \in Nat
      /\ \A j, k \in 1..Len(imu) : j < k => imu[j] < imu[k]
      /\ lo \in 1..Len(imu) /\ lo + 1 \in 1..Len(imu) /\ lo \in Nat
      /\ hi \in 1..Len(imu) /\ hi + 1 \in 1..Len(imu) /\ hi \in Nat /\ lo <= hi
  BY AscendingIs, PickedTyped DEF Brackets
<1>2. d \in [1..W -> Reading]
  BY PickedTyped
<1>3. /\ d[1].timestamp = time0 /\ d[W].timestamp = time1
      /\ \A k \in 1..(hi - lo + 1) : d[k].timestamp < d[k + 1].timestamp
  BY PickedAscends
<1>4. W \in Nat /\ 2 <= W /\ hi - lo + 1 = W - 1
  BY <1>1
<1>5. ASSUME NEW k \in 1..W PROVE d[k].from # {}
  <2>1. imu[lo] # imu[lo + 1] /\ imu[hi] # imu[hi + 1]
    <3>1. imu[lo] < imu[lo + 1] /\ imu[hi] < imu[hi + 1]
      BY <1>1
    <3> QED BY <1>1, <3>1
  <2>2. \A a, b, t : a # b => interpolate_data(a, b, t).from # {} /\ Raw(t).from # {}
    BY DEF interpolate_data, Raw
  <2> QED BY <2>1, <2>2 DEF Picked
<1> HIDE DEF d, W
<1>6. Len(d) = W /\ Head(d) = d[1] /\ Last(d) = d[W] /\ DOMAIN d = 1..W
  BY <1>2, <1>4 DEF Last
<1>7. GoesForward(d, time0, time1)
  BY <1>3, <1>4, <1>5, <1>6 DEF GoesForward
<1> QED BY <1>7 DEF d

\* Wherever the period lies: what is selected goes forward, up to the end of the period.
LEMMA SelectGoesForward ==
  ASSUME NEW imu, Ascending(imu), imu # <<>>, NEW time0 \in Int, NEW time1 \in Int, time0 < time1
  PROVE  GoesForward(select_imu_readings(imu, time0, time1), time0, time1)
<1> DEFINE Is(data) == GoesForward(data, time0, time1)
<1>1. /\ Len(imu) \in Nat /\ Len(imu) >= 1 /\ 1 \in 1..Len(imu) /\ DOMAIN imu = 1..Len(imu)
      /\ \A i \in 1..Len(imu) : imu[i] \in Nat
      /\ \A i, j \in 1..Len(imu) : i < j => imu[i] < imu[j]
  <2>1. imu \in Seq(Nat)
    BY DEF Ascending
  <2>2. Len(imu) \in Nat /\ Len(imu) >= 1 /\ 1 \in 1..Len(imu)
    BY <2>1
  <2> QED BY <2>2, AscendingIs
<1>2. Is(<<>>)
  BY DEF GoesForward
<1>3. CASE \A r \in ToSet(imu) : r <= time0
  BY <1>2, <1>3, NothingAfterBuffer
<1>4. CASE (\E r \in ToSet(imu) : r <= time0) /\ (\E r \in ToSet(imu) : time0 < r)
  <2>1. PICK lo, hi : Brackets(imu, lo, hi, time0, time1)
    BY <1>4, BracketsExist
  <2> QED BY <2>1, SelectIs, PickedGoesForward
<1>5. CASE \A r \in ToSet(imu) : time0 < r
  <2>1. \A i \in 1..Len(imu) : time0 < imu[i]
    BY <1>1, <1>5 DEF ToSet
  <2>2. CASE Len(imu) = 1
    <3> DEFINE p == [i \in 1..Iterations(imu, time0, time1) |-> Appended(imu, i, time0, time1)]
    <3>1. Iterations(imu, time0, time1) = 0
      <4>1. 1..(Len(imu) - 1) = {}
        BY <2>2
      <4> QED BY <2>2, <4>1 DEF Iterations
    <3>2. UpTo(p, 0) = <<>> /\ [i \in 1..0 |-> p[i]] = p
      BY <3>1, UpToNone
    <3>3. Collected(imu, time0, time1) = <<>>
      BY <3>1, <3>2 DEF Collected, UpTo
    <3> QED BY <1>2, <3>3, NothingLeft DEF select_imu_readings, Stretched
  <2>3. CASE Len(imu) # 1 /\ time1 <= imu[1]
    <3>1. IsEnd(imu, 1, time0, time1)
      <4>1. imu[1] < imu[2] /\ imu[1] \in Nat /\ imu[2] \in Nat /\ time0 < imu[1]
        BY <1>1, <2>1, <2>3
      <4> QED BY <2>3, <4>1 DEF IsEnd, IsStart, IsMiddle
    <3>2. Iterations(imu, time0, time1) = 1
      <4> DEFINE ends == {i \in 1..(Len(imu) - 1) : IsEnd(imu, i, time0, time1)}
      <4>1. 1 \in ends /\ ends \in SUBSET Nat
        BY <1>1, <2>3, <3>1
      <4>2. Min(ends) \in Nat /\ Min(ends) <= 1 /\ Min(ends) \in 1..(Len(imu) - 1)
        <5>1. ends \subseteq 1..(Len(imu) - 1)
          OBVIOUS
        <5> HIDE DEF ends
        <5> QED BY <4>1, <5>1, MinOfNaturals
      <4>3. Min(ends) = 1
        BY <4>2
      <4> QED BY <4>1, <4>3 DEF Iterations
    <3> DEFINE x == AtEnd(imu, 1, time1)
    <3>3. x = <<>> \/ x = <<Raw(time1)>>
      <4>1. imu[1] > time1 \/ imu[1] = time1
        BY <1>1, <2>3
      <4> QED BY <4>1 DEF AtEnd
    <3>4. Appended(imu, 1, time0, time1) = x
      BY <3>1 DEF Appended, IsEnd
    <3> HIDE DEF x
    <3>5. Collected(imu, time0, time1) = x
      <4> DEFINE p == [i \in 1..1 |-> Appended(imu, i, time0, time1)]
      <4>1. <<>> \in Seq(Reading) /\ <<Raw(time1)>> \in Seq(Reading)
        BY DEF Raw, Reading
      <4>2. p \in [1..1 -> Seq(Reading)] /\ p[1] = x
        <5> DEFINE U == Seq(Reading)
        <5>1. x \in U
          BY <3>3, <4>1
        <5> HIDE DEF U
        <5>2. p \in [1..1 -> U] /\ p[1] = x
          BY <3>4, <5>1
        <5> QED BY <5>2 DEF U
      <4>3. [i \in 1..1 |-> p[i]] = p
        OBVIOUS
      <4>4. Collected(imu, time0, time1) = UpTo(p, 1)
        BY <3>2, <4>3 DEF Collected, UpTo
      <4> HIDE DEF p
      <4>5. \A m \in Nat : m < 1 => UpTo(p, m + 1) = UpTo(p, m) \o p[m + 1]
        BY <4>2, UpToNext
      <4>6. UpTo(p, 1) = <<>> \o x
        <5>1. 0 \in Nat /\ 0 < 1 /\ 0 + 1 = 1
          OBVIOUS
        <5>2. UpTo(p, 0 + 1) = UpTo(p, 0) \o p[0 + 1]
          BY <4>5, <5>1
        <5> QED BY <4>2, <5>1, <5>2, UpToNone
      <4>7. x \in Seq(Reading)
        BY <3>3, <4>1
      <4> QED BY <4>4, <4>6, <4>7, ConcatEmptySeq
    <3>6. CASE x = <<>>
      BY <1>2, <3>5, <3>6, NothingLeft DEF select_imu_readings, Stretched
    <3>7. CASE x = <<Raw(time1)>>
      <4> DEFINE d == <<Raw(time1)>>
      <4>1. d \in [1..1 -> Reading] /\ Len(d) = 1 /\ d[1].timestamp = time1 /\ d[1].from = {time1}
            /\ Head(d) = d[1] /\ Last(d) = d[1] /\ d # <<>>
        BY DEF Raw, Reading, Last
      <4> HIDE DEF d
      <4>2. WithoutZeroDt(d) = d
        <5>1. \A k \in 1..(1 - 1) : d[k].timestamp < d[k + 1].timestamp
          OBVIOUS
        <5> QED BY <4>1, <5>1, NoZeroDt
      <4>3. Stretched(imu, d, time1) = d
        BY <4>1 DEF Stretched
      <4>4. select_imu_readings(imu, time0, time1) = d
        BY <3>5, <3>7, <4>2, <4>3 DEF select_imu_readings, d
      <4>5. Is(d)
        <5>1. \A i \in DOMAIN d : i = 1
          BY <4>1
        <5>2. \A i \in 1..(Len(d) - 1) : FALSE
          BY <4>1
        <5> QED BY <4>1, <5>1, <5>2 DEF GoesForward
      <4> QED BY <4>4, <4>5
    <3> QED BY <3>3, <3>6, <3>7
  <2>4. CASE Len(imu) # 1 /\ imu[1] < time1
    <3> DEFINE first == imu[1]
    <3>1. ASSUME NEW i \in 1..(Len(imu) - 1)
          PROVE  /\ IsEnd(imu, i, time0, time1) <=> IsEnd(imu, i, first, time1)
                 /\ Appended(imu, i, time0, time1) = Appended(imu, i, first, time1)
      <4>1. i \in 1..Len(imu) /\ i \in Nat
        BY <1>1
      <4>2. time0 < imu[i] /\ first <= imu[i] /\ imu[i] \in Nat /\ first \in Nat
        <5>1. i = 1 \/ 1 < i
          BY <4>1
        <5> QED BY <1>1, <2>1, <4>1, <5>1
      <4>3. ~IsStart(imu, i, time0) /\ ~IsStart(imu, i, first)
        BY <4>2 DEF IsStart
      <4>4. IsMiddle(imu, i, time0, time1) <=> IsMiddle(imu, i, first, time1)
        BY <4>2, <4>3 DEF IsMiddle
      <4>5. IsEnd(imu, i, time0, time1) <=> IsEnd(imu, i, first, time1)
        BY <4>3, <4>4 DEF IsEnd
      <4>6. CASE IsMiddle(imu, i, first, time1)
        BY <4>3, <4>4, <4>6 DEF Appended, IsEnd
      <4>7. CASE IsEnd(imu, i, first, time1)
        BY <4>3, <4>4, <4>5, <4>7 DEF Appended, IsEnd
      <4>8. CASE ~IsMiddle(imu, i, first, time1) /\ ~IsEnd(imu, i, first, time1)
        BY <4>3, <4>4, <4>5, <4>8 DEF Appended
      <4> QED BY <4>5, <4>6, <4>7, <4>8
    <3>2. Iterations(imu, time0, time1) = Iterations(imu, first, time1)
      <4>1. {i \in 1..(Len(imu) - 1) : IsEnd(imu, i, time0, time1)}
              = {i \in 1..(Len(imu) - 1) : IsEnd(imu, i, first, time1)}
        BY <3>1
      <4> QED BY <4>1 DEF Iterations
    <3>3. 1..Iterations(imu, time0, time1) \subseteq 1..(Len(imu) - 1)
      <4>1. Iterations(imu, time0, time1) \in 1..(Len(imu) - 1)
        <5> DEFINE ends == {i \in 1..(Len(imu) - 1) : IsEnd(imu, i, time0, time1)}
        <5>1. CASE ends = {}
          BY <1>1, <2>4, <5>1 DEF Iterations
        <5>2. CASE ends # {}
          <6>1. Min(ends) \in ends
            <7>1. ends \in SUBSET Nat
              OBVIOUS
            <7> HIDE DEF ends
            <7> QED BY <5>2, <7>1, MinOfNaturals
          <6> QED BY <5>2, <6>1 DEF Iterations
        <5> QED BY <5>1, <5>2
      <4> QED BY <1>1, <4>1
    <3>4. Collected(imu, time0, time1) = Collected(imu, first, time1)
      <4>1. [i \in 1..Iterations(imu, time0, time1) |-> Appended(imu, i, time0, time1)]
              = [i \in 1..Iterations(imu, first, time1) |-> Appended(imu, i, first, time1)]
        BY <3>1, <3>2, <3>3
      <4> QED BY <4>1 DEF Collected
    <3>5. select_imu_readings(imu, time0, time1) = select_imu_readings(imu, first, time1)
      BY <3>4 DEF select_imu_readings
    <3>6. /\ first \in Int /\ first < time1 /\ time0 < first
          /\ \E r \in ToSet(imu) : r <= first
          /\ \E r \in ToSet(imu) : first < r
      <4>1. 2 \in 1..Len(imu) /\ imu[1] < imu[2] /\ imu[1] \in Nat
        BY <1>1, <2>4
      <4>2. imu[1] \in ToSet(imu) /\ imu[2] \in ToSet(imu)
        BY <1>1, <4>1 DEF ToSet
      <4> QED BY <1>1, <2>1, <2>4, <4>1, <4>2
    <3> HIDE DEF first
    <3>7. PICK lo, hi : Brackets(imu, lo, hi, first, time1)
      BY <3>6, BracketsExist
    <3> DEFINE d == select_imu_readings(imu, first, time1)
    <3>8. GoesForward(d, first, time1)
      BY <3>6, <3>7, SelectIs, PickedGoesForward
    <3>9. d # <<>> => Head(d).timestamp >= time0
      <4>1. d = Picked(imu, lo, hi, first, time1)
        BY <3>6, <3>7, SelectIs
      <4>2. d[1].timestamp = first
        BY <3>6, <3>7, <4>1, PickedAscends
      <4>3. Head(d) = d[1]
        OBVIOUS
      <4> QED BY <3>6, <4>2, <4>3
    <3> HIDE DEF d
    <3>10. Is(d)
      BY <3>8, <3>9 DEF GoesForward
    <3> QED BY <3>5, <3>10 DEF d
  <2> QED BY <1>1, <2>2, <2>3, <2>4
<1>6. \A r \in ToSet(imu) : r <= time0 \/ time0 < r
  BY <1>1 DEF ToSet
<1> QED BY <1>3, <1>4, <1>5, <1>6

\* A sequence with an element at either end.
Enclosing(a, b, c, n) ==
  [k \in 1..(n + 2) |-> IF k = 1 THEN a ELSE IF k = n + 2 THEN c ELSE b[k - 1]]

LEMMA Enclosed ==
  ASSUME NEW T, NEW n \in Nat, NEW a \in T, NEW c \in T, NEW b \in [1..n -> T]
  PROVE  (<<a>> \o b) \o <<c>> = Enclosing(a, b, c, n)
<1>0. \A q, r \in Seq(T) :
        /\ q \o r \in Seq(T) /\ Len(q \o r) = Len(q) + Len(r)
        /\ \A i \in 1..(Len(q) + Len(r)) : (q \o r)[i] = IF i <= Len(q) THEN q[i] ELSE r[i - Len(q)]
  BY ConcatProperties
<1> DEFINE x == <<a>>
           z == <<c>>
           d == Enclosing(a, b, c, n)
<1>1. /\ x \in Seq(T) /\ z \in Seq(T) /\ b \in Seq(T) /\ Len(x) = 1 /\ Len(z) = 1 /\ Len(b) = n
      /\ x[1] = a /\ z[1] = c
  OBVIOUS
<1>2. d \in Seq(T) /\ Len(d) = n + 2
  <2>1. \A k \in 1..(n + 2) : k # 1 /\ k # n + 2 => k - 1 \in 1..n
    OBVIOUS
  <2>2. d \in [1..(n + 2) -> T]
    BY <2>1 DEF Enclosing
  <2> HIDE DEF d
  <2> QED BY <2>2
<1> HIDE DEF x, z
<1> DEFINE y == x \o b
<1>3. /\ y \in Seq(T) /\ Len(y) = 1 + n
      /\ \A i \in 1..(1 + n) : y[i] = IF i <= 1 THEN x[i] ELSE b[i - 1]
  <2> HIDE DEF d
  <2> QED BY <1>0, <1>1
<1> HIDE DEF y
<1> DEFINE w == y \o z
<1>4. /\ w \in Seq(T) /\ Len(w) = (1 + n) + 1
      /\ \A i \in 1..((1 + n) + 1) : w[i] = IF i <= 1 + n THEN y[i] ELSE z[i - (1 + n)]
  <2> HIDE DEF d
  <2>1. y \in Seq(T) /\ z \in Seq(T) /\ Len(y) = 1 + n /\ Len(z) = 1
    BY <1>1, <1>3
  <2>2. /\ w \in Seq(T) /\ Len(w) = Len(y) + Len(z)
        /\ \A i \in 1..(Len(y) + Len(z)) : w[i] = IF i <= Len(y) THEN y[i] ELSE z[i - Len(y)]
    BY <1>0, <2>1
  <2> HIDE DEF w
  <2> QED BY <2>1, <2>2
<1> HIDE DEF w
<1>5. ASSUME NEW k \in 1..(n + 2) PROVE w[k] = d[k]
  <2>1. CASE k = 1
    <3>1. w[k] = y[1] /\ y[1] = x[1]
      BY <1>3, <1>4, <2>1
    <3> QED BY <1>1, <2>1, <3>1 DEF Enclosing
  <2>2. CASE k = n + 2
    <3>1. w[k] = z[1]
      <4>1. k \in 1..((1 + n) + 1) /\ ~(k <= 1 + n) /\ k - (1 + n) = 1
        BY <2>2
      <4> QED BY <1>4, <4>1
    <3> QED BY <1>1, <2>2, <3>1 DEF Enclosing
  <2>3. CASE k # 1 /\ k # n + 2
    <3>1. w[k] = y[k] /\ y[k] = b[k - 1]
      BY <1>3, <1>4, <2>3
    <3> QED BY <2>3, <3>1 DEF Enclosing
  <2> QED BY <2>1, <2>2, <2>3
<1> HIDE DEF d
<1>6. w = d
  <2>1. Len(w) = Len(d) /\ \A k \in 1..Len(w) : w[k] = d[k]
    BY <1>2, <1>4, <1>5
  <2> QED BY <1>2, <1>4, <2>1, SeqEqual
<1> QED BY <1>6 DEF w, y, x, z, d
=============================================================================
