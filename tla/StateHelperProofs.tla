------------------------- MODULE StateHelperProofs -------------------------
(***************************************************************************)
(* Proofs about StateHelper: for every set of stamps, features and         *)
(* calibration variables, every block size and every window length, the    *)
(* covariance stays partitioned into the blocks of the state's variables   *)
(* and each block describes its variable.                                  *)
(***************************************************************************)
EXTENDS StateHelper, FiniteSetTheorems, TLAPS

(***************************************************************************)
(* Blocks of a set V of variables at positions I in the rows C, where M    *)
(* gives each variable's meaning: they tile 0..n-1 and say what M says.    *)
(***************************************************************************)
Layout(V, I, C, n, M) ==
  /\ n \in Nat
  /\ DOMAIN C = 0..(n - 1)
  /\ \A v \in V : I[v] \in Nat /\ I[v] + Size(v) <= n
  /\ \A v \in V : \A k \in 0..(Size(v) - 1) : C[I[v] + k] = <<M[v], k>>
  /\ \A v, w \in V : v # w => I[v] + Size(v) <= I[w] \/ I[w] + Size(w) <= I[v]
  /\ \A r \in 0..(n - 1) : \E v \in V : I[v] <= r /\ r < I[v] + Size(v)

LEMMA SizePositive == \A v \in Type : Size(v) \in Nat \ {0}
  BY StateAssumption DEF Type, Size, Imu, Calib, Clone, Landmark, Calibs

\* The rows D and meanings N are C and M with a block for u behind the last row.
ExtendedBy(V, I, C, n, M, u, D, N) ==
  /\ V \in SUBSET Type /\ I \in [Type -> Int] /\ Layout(V, I, C, n, M)
  /\ u \in Type /\ u \notin V
  /\ DOMAIN D = 0..(n + Size(u) - 1)
  /\ \A r \in 0..(n - 1) : D[r] = C[r]
  /\ \A k \in 0..(Size(u) - 1) : D[n + k] = <<N[u], k>>
  /\ \A v \in V : N[v] = M[v]

LEMMA LayoutAppend ==
  ASSUME NEW V, NEW I, NEW C, NEW n, NEW M, NEW u, NEW D, NEW N,
         ExtendedBy(V, I, C, n, M, u, D, N)
  PROVE  Layout(V \cup {u}, [I EXCEPT ![u] = n], D, n + Size(u), N)
<1> DEFINE J == [I EXCEPT ![u] = n]
           W == V \cup {u}
<1> USE DEF ExtendedBy
<1>0. n \in Nat /\ \A v \in Type : Size(v) \in Nat \ {0}
  BY SizePositive DEF Layout
<1>1. J[u] = n /\ \A v \in V : J[v] = I[v] /\ v # u
  OBVIOUS
<1>2. \A v \in W : J[v] \in Nat /\ J[v] + Size(v) <= n + Size(u)
  BY <1>0, <1>1 DEF Layout
<1>3. \A v \in W : \A k \in 0..(Size(v) - 1) : D[J[v] + k] = <<N[v], k>>
  <2>1. ASSUME NEW v \in V, NEW k \in 0..(Size(v) - 1)
        PROVE  D[J[v] + k] = <<N[v], k>>
    <3>1. J[v] = I[v] /\ I[v] \in Nat /\ I[v] + Size(v) <= n /\ Size(v) \in Nat
      BY <1>0, <1>1 DEF Layout
    <3>2. I[v] + k \in 0..(n - 1)
      BY <3>1, <1>0
    <3>3. C[I[v] + k] = <<M[v], k>>
      BY DEF Layout
    <3> QED BY <3>1, <3>2, <3>3
  <2>2. ASSUME NEW k \in 0..(Size(u) - 1)
        PROVE  D[J[u] + k] = <<N[u], k>>
    BY <1>1
  <2> QED BY <2>1, <2>2
<1>4. \A v, w \in W : v # w => J[v] + Size(v) <= J[w] \/ J[w] + Size(w) <= J[v]
  BY <1>0, <1>1 DEF Layout
<1>5. \A r \in 0..(n + Size(u) - 1) : \E v \in W : J[v] <= r /\ r < J[v] + Size(v)
  <2>1. ASSUME NEW r \in 0..(n + Size(u) - 1)
        PROVE  \E v \in W : J[v] <= r /\ r < J[v] + Size(v)
    <3>1. CASE r < n
      <4>1. r \in 0..(n - 1)
        BY <3>1, <1>0
      <4>2. PICK v \in V : I[v] <= r /\ r < I[v] + Size(v)
        BY <4>1 DEF Layout
      <4> QED BY <4>2, <1>1
    <3>2. CASE ~(r < n)
      BY <3>2, <1>0, <1>1
    <3> QED BY <3>1, <3>2
  <2> QED BY <2>1
<1>6. n + Size(u) \in Nat
  BY <1>0
<1>7. DOMAIN D = 0..((n + Size(u)) - 1)
  BY <1>0
<1> HIDE DEF J, W
<1>8. Layout(W, J, D, n + Size(u), N)
  BY <1>0, <1>2, <1>3, <1>4, <1>5, <1>6, <1>7 DEF Layout
<1> QED BY <1>8 DEF J, W

\* A block cut out of the middle; the blocks behind it move up by its size.
LEMMA LayoutCut ==
  ASSUME NEW V \in SUBSET Type, NEW I \in [Type -> Int], NEW C, NEW n, NEW M,
         Layout(V, I, C, n, M),
         NEW m \in V, NEW J, NEW N,
         \A v \in V \ {m} : J[v] = IF I[v] > I[m] THEN I[v] - Size(m) ELSE I[v],
         \A v \in V \ {m} : N[v] = M[v]
  PROVE  Layout(V \ {m}, J, Cut(C, n, I[m], Size(m)), n - Size(m), N)
<1> DEFINE W == V \ {m}
           s == Size(m)
           D == Cut(C, n, I[m], s)
<1>0. /\ n \in Nat /\ I[m] \in Nat /\ s \in Nat \ {0} /\ I[m] + s <= n
      /\ \A v \in V : I[v] \in Nat /\ I[v] + Size(v) <= n /\ Size(v) \in Nat \ {0}
  BY SizePositive DEF Layout
<1>1. \A v \in W : \/ I[v] + Size(v) <= I[m] /\ J[v] = I[v]
                   \/ I[m] + s <= I[v] /\ J[v] = I[v] - s
  BY <1>0 DEF Layout
<1>2. n - s \in Nat /\ DOMAIN D = 0..(n - s - 1)
  BY <1>0 DEF Cut
<1>3. \A v \in W : J[v] \in Nat /\ J[v] + Size(v) <= n - s
  BY <1>0, <1>1
<1>4. \A v \in W : \A k \in 0..(Size(v) - 1) : D[J[v] + k] = <<N[v], k>>
  <2>1. ASSUME NEW v \in W, NEW k \in 0..(Size(v) - 1)
        PROVE  D[J[v] + k] = <<N[v], k>>
    <3>1. C[I[v] + k] = <<M[v], k>> /\ N[v] = M[v]
      BY DEF Layout
    <3>2. J[v] + k \in 0..(n - s - 1)
      BY <1>0, <1>3
    <3>3. CASE I[v] + Size(v) <= I[m] /\ J[v] = I[v]
      <4>1. J[v] + k < I[m]
        BY <3>3, <1>0
      <4> QED BY <4>1, <3>1, <3>2, <3>3 DEF Cut
    <3>4. CASE I[m] + s <= I[v] /\ J[v] = I[v] - s
      <4>1. ~(J[v] + k < I[m]) /\ J[v] + k + s = I[v] + k
        BY <3>4, <1>0
      <4> QED BY <4>1, <3>1, <3>2 DEF Cut
    <3> QED BY <3>3, <3>4, <1>1
  <2> QED BY <2>1
<1>5. \A v, w \in W : v # w => J[v] + Size(v) <= J[w] \/ J[w] + Size(w) <= J[v]
  <2>1. ASSUME NEW v \in W, NEW w \in W, v # w
        PROVE  J[v] + Size(v) <= J[w] \/ J[w] + Size(w) <= J[v]
    <3>1. I[v] + Size(v) <= I[w] \/ I[w] + Size(w) <= I[v]
      BY <2>1 DEF Layout
    <3> QED BY <3>1, <1>0, <1>1
  <2> QED BY <2>1
<1>6. \A r \in 0..(n - s - 1) : \E v \in W : J[v] <= r /\ r < J[v] + Size(v)
  <2>1. ASSUME NEW r \in 0..(n - s - 1)
        PROVE  \E v \in W : J[v] <= r /\ r < J[v] + Size(v)
    <3>1. CASE r < I[m]
      <4>1. PICK v \in V : I[v] <= r /\ r < I[v] + Size(v)
        BY <1>0 DEF Layout
      <4> QED BY <4>1, <3>1, <1>0, <1>1
    <3>2. CASE ~(r < I[m])
      <4>1. r + s \in 0..(n - 1)
        BY <1>0
      <4>2. PICK v \in V : I[v] <= r + s /\ r + s < I[v] + Size(v)
        BY <4>1 DEF Layout
      <4>3. v # m
        BY <4>2, <3>2, <1>0
      <4> QED BY <4>2, <4>3, <3>2, <1>0, <1>1
    <3> QED BY <3>1, <3>2
  <2> QED BY <2>1
<1> QED BY <1>2, <1>3, <1>4, <1>5, <1>6 DEF Layout

\* The rows of one variable rewritten: only that variable's meaning changes.
LEMMA LayoutRewrite ==
  ASSUME NEW V \in SUBSET Type, NEW I \in [Type -> Int], NEW C, NEW n, NEW M,
         Layout(V, I, C, n, M),
         NEW u \in V, NEW q, NEW N,
         \A v \in V \ {u} : N[v] = M[v],
         N[u] = q
  PROVE  Layout(V, I, Rewritten(C, I[u], Size(u), q), n, N)
<1> DEFINE D == Rewritten(C, I[u], Size(u), q)
<1>0. /\ n \in Nat
      /\ \A v \in V : I[v] \in Nat /\ I[v] + Size(v) <= n /\ Size(v) \in Nat \ {0}
  BY SizePositive DEF Layout
<1>1. DOMAIN D = 0..(n - 1)
  BY DEF Layout, Rewritten
<1>2. \A v \in V : \A k \in 0..(Size(v) - 1) : D[I[v] + k] = <<N[v], k>>
  <2>1. ASSUME NEW v \in V, NEW k \in 0..(Size(v) - 1)
        PROVE  D[I[v] + k] = <<N[v], k>>
    <3>0. I[v] + k \in 0..(n - 1)
      BY <1>0
    <3>1. I[v] + k \in DOMAIN C /\ C[I[v] + k] = <<M[v], k>>
      BY <3>0 DEF Layout
    <3>2. CASE v = u
      <4>1. I[u] + k \in I[u]..(I[u] + Size(u) - 1) /\ (I[u] + k) - I[u] = k
        BY <3>2, <1>0
      <4>2. D[I[u] + k] = <<q, k>>
        BY <4>1, <3>1, <3>2 DEF Rewritten
      <4> QED BY <4>2, <3>2
    <3>3. CASE v # u
      <4>0. I[v] + Size(v) <= I[u] \/ I[u] + Size(u) <= I[v]
        BY <3>3 DEF Layout
      <4>1. I[v] + k \notin I[u]..(I[u] + Size(u) - 1)
        BY <4>0, <1>0
      <4> QED BY <4>1, <3>1, <3>3 DEF Rewritten
    <3> QED BY <3>2, <3>3
  <2> QED BY <2>1
<1> QED BY <1>1, <1>2 DEF Layout

-----------------------------------------------------------------------------
(***************************************************************************)
(* The inductive invariant.                                                *)
(***************************************************************************)
Meanings == [v \in variables |-> Meaning(v)]

LayoutInv == Layout(variables, id, cov, dim, Meanings)

\* The calibration variables follow the IMU one right behind the other.
End(c) == IF c = 0 THEN ImuSize ELSE id[Calib(c)] + CalibSize[c]

CalibrationChain ==
  /\ id[Imu] = 0
  /\ \A c \in Calibs : Calib(c) \in variables =>
       /\ \A b \in 1..(c - 1) : Calib(b) \in variables
       /\ id[Calib(c)] = End(c - 1)

\* While the constructor runs the state ends with its last calibration variable.
Constructing ==
  pc = "construct" =>
    /\ clones = {} /\ Landmarks = {}
    /\ variables \subseteq {Imu} \cup {Calib(c) : c \in Calibs}
    /\ \A c \in 0..NumCalib :
         /\ c > 0 => Calib(c) \in variables
         /\ Calib(c + 1) \notin variables
         => dim = End(c)

\* No clone is newer than the state, the state's instant has a clone while an image
\* is processed, and no landmark hangs on the clone about to be marginalized.
Processing ==
  /\ \A t \in clones : t <= timestamp
  /\ pc \in {"update", "delayed", "anchors"} => timestamp \in clones
  /\ pc = "marginalize" => \A f \in Landmarks : WindowExceeded => ~IsMargTimestep(anchor[f])

IInv == /\ TypeOK
        /\ LayoutInv
        /\ ContainersAgree
        /\ CalibrationChain
        /\ Constructing
        /\ AnchorsInWindow
        /\ Processing
        /\ NeverExits

LEMMA TypeCases ==
  \A v \in Type : \/ v = Imu
                  \/ \E c \in Calibs : v = Calib(c)
                  \/ \E t \in Stamps : v = Clone(t)
                  \/ \E f \in Feats : v = Landmark(f)
  BY DEF Type

LEMMA TypeMembers ==
  /\ Imu \in Type
  /\ \A c \in Calibs : Calib(c) \in Type
  /\ \A t \in Stamps : Clone(t) \in Type
  /\ \A f \in Feats : Landmark(f) \in Type
  BY DEF Type

LEMMA Sizes ==
  /\ Size(Imu) = ImuSize
  /\ \A c \in Calibs : Size(Calib(c)) = CalibSize[c]
  /\ \A t \in Stamps : Size(Clone(t)) = PoseSize
  /\ \A f \in Feats : Size(Landmark(f)) = FeatSize
  BY DEF Size, Imu, Calib, Clone, Landmark

LEMMA ConstructorInit == Init => IInv
<1> SUFFICES ASSUME Init PROVE IInv
  OBVIOUS
<1> USE DEF Init
<1>1. TypeOK
  <2>1. cov \in [0..(dim - 1) -> Quantities \X Nat]
    BY StateAssumption DEF Quantities
  <2> QED BY <2>1, StateAssumption, TypeMembers DEF TypeOK, Landmarks
<1>2. LayoutInv
  <2>1. \A v \in variables : v = Imu /\ Size(v) = ImuSize /\ id[v] = 0
    BY Sizes, TypeMembers
  <2>2. Meanings[Imu] = At(-1)
    BY DEF Meanings, Meaning, Imu
  <2>3. dim \in Nat /\ DOMAIN cov = 0..(dim - 1) /\ dim = ImuSize
    BY StateAssumption
  <2>4. \A k \in 0..(ImuSize - 1) : cov[0 + k] = <<At(-1), k>>
    BY StateAssumption
  <2>5. \A v \in variables : id[v] \in Nat /\ id[v] + Size(v) <= dim
    BY <2>1, <2>3, StateAssumption
  <2>6. \A v \in variables : \A k \in 0..(Size(v) - 1) : cov[id[v] + k] = <<Meanings[v], k>>
    BY <2>1, <2>2, <2>4
  <2>7. \A v, w \in variables :
          v # w => id[v] + Size(v) <= id[w] \/ id[w] + Size(w) <= id[v]
    OBVIOUS
  <2>8. \A r \in 0..(dim - 1) : \E v \in variables : id[v] <= r /\ r < id[v] + Size(v)
    BY <2>1, <2>3, StateAssumption
  <2> HIDE DEF Init
  <2> QED BY <2>3, <2>5, <2>6, <2>7, <2>8 DEF LayoutInv, Layout
<1>3. ContainersAgree
  BY TypeMembers DEF ContainersAgree
<1>4. CalibrationChain
  BY TypeMembers DEF CalibrationChain, Imu, Calib
<1>5. Constructing
  BY StateAssumption DEF Constructing, Landmarks, End, Imu, Calib
<1>6. AnchorsInWindow /\ Processing /\ NeverExits
  BY DEF AnchorsInWindow, Processing, NeverExits, Landmarks
<1> QED BY <1>1, <1>2, <1>3, <1>4, <1>5, <1>6 DEF IInv

-----------------------------------------------------------------------------
(***************************************************************************)
(* What the shared operations preserve.                                    *)
(***************************************************************************)

\* The meaning of every variable but the IMU is independent of the state's time,
\* and that of every variable but a landmark of its anchor.
LEMMA MeaningValues ==
  /\ Meaning(Imu) = At(timestamp)
  /\ \A c \in Calibs : Meaning(Calib(c)) = Value(c)
  /\ \A t \in Stamps : Meaning(Clone(t)) = At(t)
  /\ \A f \in Feats : Meaning(Landmark(f)) = Point(f, anchor[f])
  /\ Meaning(Imu)' = At(timestamp')
  /\ \A c \in Calibs : Meaning(Calib(c))' = Value(c)
  /\ \A t \in Stamps : Meaning(Clone(t))' = At(t)
  /\ \A f \in Feats : Meaning(Landmark(f))' = Point(f, anchor'[f])
  BY DEF Meaning, Imu, Calib, Clone, Landmark

LEMMA Distinct ==
  /\ \A c \in Calibs : Calib(c) # Imu
  /\ \A t \in Stamps : Clone(t) # Imu /\ \A c \in Calibs : Clone(t) # Calib(c)
  /\ \A f \in Feats : /\ Landmark(f) # Imu
                      /\ \A c \in Calibs : Landmark(f) # Calib(c)
                      /\ \A t \in Stamps : Landmark(f) # Clone(t)
  /\ \A t, u \in Stamps : Clone(t) = Clone(u) => t = u
  /\ \A f, g \in Feats : Landmark(f) = Landmark(g) => f = g
  BY DEF Imu, Calib, Clone, Landmark

\* marginalize of a clone or landmark, whatever is done to the containers.
LEMMA MarginalizeKeeps ==
  ASSUME IInv, NEW m \in variables, m # Imu, \A c \in Calibs : m # Calib(c),
         Marginalize(m),
         \A v \in variables \ {m} : Meaning(v)' = Meaning(v)
  PROVE  /\ variables' \subseteq Type /\ Imu \in variables'
         /\ id' \in [Type -> Int] /\ dim' \in Nat
         /\ cov' \in [0..(dim' - 1) -> Quantities \X Nat]
         /\ LayoutInv'
         /\ \A v \in Type \ variables' : id'[v] = -1
         /\ CalibrationChain'
<1> USE DEF IInv, Marginalize
<1>1. /\ variables \in SUBSET Type /\ id \in [Type -> Int] /\ Imu \in variables
      /\ cov \in [0..(dim - 1) -> Quantities \X Nat]
  BY DEF TypeOK
<1>2. /\ dim \in Nat /\ id[m] \in Nat /\ Size(m) \in Nat \ {0} /\ id[m] + Size(m) <= dim
      /\ \A v \in variables : id[v] \in Nat /\ Size(v) \in Nat \ {0}
      /\ \A v \in variables \ {m} : id[v] + Size(v) <= id[m] \/ id[m] + Size(m) <= id[v]
  BY <1>1, SizePositive DEF LayoutInv, Layout
<1>3. variables' \subseteq Type /\ Imu \in variables'
  BY <1>1
<1>4. id' \in [Type -> Int] /\ dim' \in Nat
  BY <1>1, <1>2
<1>5. cov' \in [0..(dim' - 1) -> Quantities \X Nat]
  <2>1. dim' = dim - Size(m) /\ cov' = Cut(cov, dim, id[m], Size(m))
    OBVIOUS
  <2>2. \A r \in 0..((dim - Size(m)) - 1) : r + Size(m) \in 0..(dim - 1) /\ r \in 0..(dim - 1)
    BY <1>2
  <2> HIDE DEF IInv, Marginalize
  <2> QED BY <1>1, <1>2, <2>1, <2>2 DEF Cut
<1>6. LayoutInv'
  <2>1. \A v \in variables \ {m} :
          id'[v] = IF id[v] > id[m] THEN id[v] - Size(m) ELSE id[v]
    BY <1>1
  <2>2. \A v \in variables \ {m} : Meanings'[v] = Meanings[v]
    BY DEF Meanings
  <2>3. Layout(variables, id, cov, dim, Meanings)
    BY DEF LayoutInv
  <2>4. Layout(variables \ {m}, id', Cut(cov, dim, id[m], Size(m)), dim - Size(m), Meanings')
    <3> HIDE DEF IInv, Marginalize
    <3> QED BY <1>1, <2>1, <2>2, <2>3, LayoutCut
  <2> QED BY <2>4 DEF LayoutInv
<1>7. \A v \in Type \ variables' : id'[v] = -1
  BY <1>1 DEF ContainersAgree
<1>8. CalibrationChain'
  <2>1. id'[Imu] = 0
    BY <1>1, <1>2 DEF CalibrationChain
  <2>2. ASSUME NEW c \in Calibs, Calib(c) \in variables'
        PROVE  /\ \A b \in 1..(c - 1) : Calib(b) \in variables'
               /\ id'[Calib(c)] = End(c - 1)'
    <3>1. /\ Calib(c) \in variables /\ Calib(c) # m
          /\ \A b \in 1..(c - 1) : Calib(b) \in variables /\ Calib(b) # m
          /\ id[Calib(c)] = End(c - 1)
      BY <2>2, StateAssumption DEF CalibrationChain, Calibs
    <3>2. CASE c = 1
      <4>1. id[Calib(c)] = Size(Imu) /\ Size(Imu) = ImuSize /\ id[Imu] = 0
        BY <3>1, <3>2, Sizes, StateAssumption DEF End, CalibrationChain
      <4>2. id[m] >= Size(Imu)
        BY <4>1, <1>1, <1>2
      <4>3. ~(id[Calib(c)] > id[m])
        BY <4>1, <4>2, <1>1, <1>2
      <4> QED BY <4>1, <4>3, <3>1, <3>2, <1>1 DEF End
    <3>3. CASE c # 1
      <4> DEFINE b == c - 1
      <4>1. b \in Calibs /\ b # 0 /\ b \in 1..(c - 1)
        BY <3>3, StateAssumption DEF Calibs
      <4>2. /\ Calib(b) \in variables /\ Calib(b) # m /\ Size(Calib(b)) = CalibSize[b]
            /\ id[Calib(c)] = id[Calib(b)] + CalibSize[b]
        BY <3>1, <3>3, <4>1, Sizes DEF End, Calibs
      <4>3. id[Calib(c)] > id[m] <=> id[Calib(b)] > id[m]
        BY <4>2, <3>1, <1>2
      <4>4. id'[Calib(c)] = id'[Calib(b)] + CalibSize[b]
        BY <4>2, <4>3, <3>1, <1>1, <1>2
      <4>5. \A a \in 1..(c - 1) : Calib(a) \in variables'
        BY <3>1
      <4> QED BY <4>1, <4>4, <4>5 DEF End
    <3> QED BY <3>2, <3>3
  <2> QED BY <2>1, <2>2 DEF CalibrationChain
<1> QED BY <1>3, <1>4, <1>5, <1>6, <1>7, <1>8

\* A calibration chain only depends on the ids of the IMU and the calibrations.
LEMMA ChainUnchanged ==
  ASSUME CalibrationChain, id'[Imu] = id[Imu],
         \A c \in Calibs : Calib(c) \in variables' <=> Calib(c) \in variables,
         \A c \in Calibs : Calib(c) \in variables => id'[Calib(c)] = id[Calib(c)]
  PROVE  CalibrationChain'
<1> SUFFICES ASSUME NEW c \in Calibs, Calib(c) \in variables'
             PROVE  /\ \A b \in 1..(c - 1) : Calib(b) \in variables'
                    /\ id'[Calib(c)] = End(c - 1)'
  BY DEF CalibrationChain
<1>1. /\ Calib(c) \in variables
      /\ \A b \in 1..(c - 1) : Calib(b) \in variables /\ b \in Calibs
      /\ id[Calib(c)] = End(c - 1)
  BY StateAssumption DEF CalibrationChain, Calibs
<1>2. CASE c = 1
  BY <1>1, <1>2, StateAssumption DEF End
<1>3. CASE c # 1
  <2>1. c - 1 \in 1..(c - 1) /\ c - 1 \in Calibs /\ c - 1 # 0
    BY <1>3, StateAssumption DEF Calibs
  <2> QED BY <2>1, <1>1 DEF End
<1> QED BY <1>2, <1>3

\* The IMU's rows rewritten for instant t: EKFPropagation, set_initial_covariance.
LEMMA RetimeKeeps ==
  ASSUME IInv, NEW t \in Stamps
  PROVE  LET C == Rewritten(cov, id[Imu], ImuSize, At(t))
             M == [v \in variables |-> IF v = Imu THEN At(t) ELSE Meaning(v)]
         IN  /\ C \in [0..(dim - 1) -> Quantities \X Nat]
             /\ Layout(variables, id, C, dim, M)
             /\ \A k \in 0..(ImuSize - 1) : C[id[Imu] + k] = <<At(t), k>>
<1> DEFINE C == Rewritten(cov, id[Imu], ImuSize, At(t))
           M == [v \in variables |-> IF v = Imu THEN At(t) ELSE Meaning(v)]
<1>1. /\ variables \in SUBSET Type /\ id \in [Type -> Int] /\ Imu \in variables
      /\ cov \in [0..(dim - 1) -> Quantities \X Nat] /\ id[Imu] = 0 /\ Size(Imu) = ImuSize
      /\ Layout(variables, id, cov, dim, Meanings)
  BY Sizes DEF IInv, TypeOK, CalibrationChain, LayoutInv
<1>2. Layout(variables, id, C, dim, M)
  <2>1. M[Imu] = At(t) /\ \A v \in variables \ {Imu} : M[v] = Meanings[v]
    BY <1>1 DEF Meanings
  <2> HIDE DEF M
  <2>2. Layout(variables, id, Rewritten(cov, id[Imu], Size(Imu), At(t)), dim, M)
    BY <1>1, <2>1, LayoutRewrite
  <2> QED BY <2>2, <1>1
<1>3. At(t) \in Quantities
  BY DEF Quantities
<1>4. C \in [0..(dim - 1) -> Quantities \X Nat]
  <2>1. dim \in Nat
    BY <1>2 DEF Layout
  <2> QED BY <1>1, <1>3, <2>1, StateAssumption DEF Rewritten
<1>5. \A k \in 0..(ImuSize - 1) : C[id[Imu] + k] = <<At(t), k>>
  <2>1. ASSUME NEW k \in 0..(ImuSize - 1) PROVE C[id[Imu] + k] = <<M[Imu], k>>
    BY <1>1, <1>2 DEF Layout
  <2>2. M[Imu] = At(t)
    BY <1>1
  <2> QED BY <2>1, <2>2
<1> QED BY <1>2, <1>4, <1>5

LEMMA PropagateKeeps ==
  ASSUME IInv, pc = "ready", NEW t \in Stamps, t > timestamp, PropagateAndClone(t)
  PROVE  /\ ~PropagationExits(t)
         /\ variables' \subseteq Type /\ Imu \in variables'
         /\ id' \in [Type -> Int] /\ dim' \in Nat
         /\ cov' \in [0..(dim' - 1) -> Quantities \X Nat]
         /\ LayoutInv'
         /\ variables' = {Imu} \cup {Calib(c) : c \in Calibs}
              \cup {Clone(u) : u \in clones'} \cup {Landmark(f) : f \in Landmarks'}
         /\ \A v \in Type \ variables' : id'[v] = -1
         /\ CalibrationChain'
<1> DEFINE C == Rewritten(cov, id[Imu], ImuSize, At(t))
           M == [v \in variables |-> IF v = Imu THEN At(t) ELSE Meaning(v)]
<1>1. /\ variables \in SUBSET Type /\ id \in [Type -> Int] /\ Imu \in variables
      /\ clones \subseteq Stamps /\ timestamp \in Int /\ Clone(t) \in Type
      /\ Landmarks \subseteq Feats
  BY TypeMembers, StateAssumption DEF IInv, TypeOK
<1>2. variables = {Imu} \cup {Calib(c) : c \in Calibs}
        \cup {Clone(u) : u \in clones} \cup {Landmark(f) : f \in Landmarks}
  BY DEF IInv, ContainersAgree
<1>3. t \notin clones
  BY <1>1, StateAssumption DEF IInv, Processing
<1>4. Clone(t) \notin variables
  BY <1>1, <1>2, <1>3, Distinct
<1>5. OrderContiguous
  <2>1. ASSUME NEW c \in 1..NumIntrinsics
        PROVE  id[Calib(c)] = IF c = 1 THEN id[Imu] + ImuSize
                              ELSE id[Calib(c - 1)] + CalibSize[c - 1]
    <3>1. c \in Calibs /\ Calib(c) \in variables
      BY <1>2, StateAssumption DEF Calibs
    <3>2. id[Calib(c)] = End(c - 1) /\ id[Imu] = 0
      BY <3>1 DEF IInv, CalibrationChain
    <3> QED BY <3>1, <3>2, StateAssumption DEF End, Calibs
  <2> QED BY <2>1 DEF OrderContiguous
<1>6. ~PropagationExits(t)
  BY <1>1, <1>3, <1>5, StateAssumption DEF PropagationExits
<1>7. /\ variables' = variables \cup {Clone(t)} /\ id' = [id EXCEPT ![Clone(t)] = dim]
      /\ cov' = Copied(C, dim, id[Imu], PoseSize) /\ dim' = dim + PoseSize
      /\ clones' = clones \cup {t} /\ timestamp' = t /\ anchor' = anchor
      /\ Size(Clone(t)) = PoseSize
  BY Sizes DEF PropagateAndClone
<1>8. /\ C \in [0..(dim - 1) -> Quantities \X Nat] /\ dim \in Nat
      /\ Layout(variables, id, C, dim, M) /\ id[Imu] = 0 /\ dim >= ImuSize
      /\ \A k \in 0..(ImuSize - 1) : C[id[Imu] + k] = <<At(t), k>>
  <2>1. C \in [0..(dim - 1) -> Quantities \X Nat] /\ Layout(variables, id, C, dim, M)
        /\ \A k \in 0..(ImuSize - 1) : C[id[Imu] + k] = <<At(t), k>>
    BY RetimeKeeps
  <2>2. id[Imu] = 0 /\ dim \in Nat /\ dim >= ImuSize
    BY <2>1, <1>1, Sizes, StateAssumption DEF IInv, CalibrationChain, Layout
  <2> QED BY <2>1, <2>2
<1> HIDE DEF C
<1>9. cov' \in [0..(dim' - 1) -> Quantities \X Nat] /\ dim' \in Nat
  <2>1. \A r \in 0..((dim + PoseSize) - 1) :
          ~(r < dim) => id[Imu] + (r - dim) \in 0..(dim - 1)
    BY <1>8, StateAssumption
  <2> QED BY <1>7, <1>8, <2>1, StateAssumption DEF Copied
<1>10. LayoutInv'
  <2>1. /\ DOMAIN cov' = 0..((dim + Size(Clone(t))) - 1)
        /\ \A r \in 0..(dim - 1) : cov'[r] = C[r]
    BY <1>7, <1>8, StateAssumption DEF Copied
  <2>2. \A k \in 0..(Size(Clone(t)) - 1) : cov'[dim + k] = <<At(t), k>>
    <3>1. ASSUME NEW k \in 0..(PoseSize - 1) PROVE cov'[dim + k] = <<At(t), k>>
      <4>1. /\ dim + k \in 0..(dim + PoseSize - 1) /\ ~(dim + k < dim)
            /\ id[Imu] + ((dim + k) - dim) = id[Imu] + k /\ k \in 0..(ImuSize - 1)
        BY <1>8, StateAssumption
      <4>2. cov'[dim + k] = C[id[Imu] + k]
        BY <4>1, <1>7 DEF Copied
      <4> QED BY <4>1, <4>2, <1>8
    <3> QED BY <3>1, <1>7
  <2>3. \A v \in variables : Meanings'[v] = M[v]
    <3>1. ASSUME NEW v \in variables PROVE Meanings'[v] = M[v]
      <4>1. Meanings'[v] = Meaning(v)' /\ M[v] = IF v = Imu THEN At(t) ELSE Meaning(v)
        BY <1>7 DEF Meanings
      <4>2. v # Imu => Meaning(v)' = Meaning(v)
        BY <1>1, <1>7, TypeCases, MeaningValues
      <4> QED BY <4>1, <4>2, <1>7, MeaningValues
    <3> QED BY <3>1
  <2>4. Meanings'[Clone(t)] = At(t)
    BY <1>7, MeaningValues DEF Meanings
  <2>5. Layout(variables \cup {Clone(t)}, [id EXCEPT ![Clone(t)] = dim], cov',
               dim + Size(Clone(t)), Meanings')
    <3>1. DOMAIN cov' = 0..(dim + Size(Clone(t)) - 1)
      BY <2>1, <1>7, <1>8, StateAssumption
    <3>2. ExtendedBy(variables, id, C, dim, M, Clone(t), cov', Meanings')
      <4> HIDE DEF M
      <4> QED BY <3>1, <1>1, <1>4, <1>8, <2>1, <2>2, <2>3, <2>4 DEF ExtendedBy
    <3> HIDE DEF M
    <3> QED BY <3>2, LayoutAppend
  <2> QED BY <2>5, <1>7 DEF LayoutInv
<1>11. /\ variables' \subseteq Type /\ Imu \in variables' /\ id' \in [Type -> Int]
       /\ \A v \in Type \ variables' : id'[v] = -1
  BY <1>1, <1>7, <1>8 DEF IInv, ContainersAgree
<1>12. variables' = {Imu} \cup {Calib(c) : c \in Calibs}
         \cup {Clone(u) : u \in clones'} \cup {Landmark(f) : f \in Landmarks'}
  BY <1>2, <1>7 DEF Landmarks
<1>13. CalibrationChain'
  BY <1>1, <1>7, Distinct, TypeMembers, ChainUnchanged DEF IInv
<1> QED BY <1>6, <1>9, <1>10, <1>11, <1>12, <1>13

\* A new block behind the last row: AppendCalibration and DelayedInit.
LEMMA AugmentKeeps ==
  ASSUME IInv, NEW u \in Type, u \notin variables, NEW q \in Quantities,
         variables' = variables \cup {u}, id' = [id EXCEPT ![u] = dim],
         cov' = Augmented(cov, dim, Size(u), q), dim' = dim + Size(u),
         Meaning(u)' = q, \A v \in variables : Meaning(v)' = Meaning(v)
  PROVE  /\ variables' \subseteq Type /\ Imu \in variables'
         /\ id' \in [Type -> Int] /\ dim' \in Nat
         /\ cov' \in [0..(dim' - 1) -> Quantities \X Nat]
         /\ LayoutInv'
         /\ \A v \in Type \ variables' : id'[v] = -1
<1>1. /\ variables \in SUBSET Type /\ id \in [Type -> Int] /\ Imu \in variables
      /\ cov \in [0..(dim - 1) -> Quantities \X Nat] /\ dim \in Nat
      /\ Layout(variables, id, cov, dim, Meanings)
      /\ \A v \in Type \ variables : id[v] = -1
  BY DEF IInv, TypeOK, LayoutInv, ContainersAgree
<1>2. Size(u) \in Nat \ {0}
  BY SizePositive
<1>3. /\ variables' \subseteq Type /\ Imu \in variables'
      /\ id' \in [Type -> Int] /\ dim' \in Nat
      /\ \A v \in Type \ variables' : id'[v] = -1
  BY <1>1, <1>2
<1>4. cov' \in [0..(dim' - 1) -> Quantities \X Nat]
  BY <1>1, <1>2 DEF Augmented
<1>5. LayoutInv'
  <2>1. DOMAIN cov' = 0..(dim + Size(u) - 1)
    BY <1>1, <1>2 DEF Augmented
  <2>2. \A r \in 0..(dim - 1) : cov'[r] = cov[r]
    BY <1>1, <1>2 DEF Augmented
  <2>3. \A k \in 0..(Size(u) - 1) : cov'[dim + k] = <<Meanings'[u], k>>
    <3>1. Meanings'[u] = q
      BY DEF Meanings
    <3>2. ASSUME NEW k \in 0..(Size(u) - 1) PROVE cov'[dim + k] = <<q, k>>
      <4>1. /\ dim + k \in 0..(dim + Size(u) - 1) /\ ~(dim + k < dim)
            /\ (dim + k) - dim = k
        BY <1>1, <1>2
      <4> QED BY <4>1 DEF Augmented
    <3> QED BY <3>1, <3>2
  <2>4. \A v \in variables : Meanings'[v] = Meanings[v]
    BY DEF Meanings
  <2>5. ExtendedBy(variables, id, cov, dim, Meanings, u, cov', Meanings')
    BY <1>1, <2>1, <2>2, <2>3, <2>4 DEF ExtendedBy
  <2> QED BY <2>5, LayoutAppend DEF LayoutInv
<1> QED BY <1>3, <1>4, <1>5

-----------------------------------------------------------------------------
(***************************************************************************)
(* Every action preserves the invariant.                                   *)
(***************************************************************************)
LEMMA AppendCalibrationStep ==
  ASSUME IInv, NEW c \in Calibs, AppendCalibration(c)
  PROVE  IInv'
<1> USE DEF AppendCalibration
<1>1. /\ Calib(c) \in Type /\ Size(Calib(c)) = CalibSize[c] /\ Value(c) \in Quantities
      /\ Meaning(Calib(c))' = Value(c)
      /\ variables \subseteq {Imu} \cup {Calib(b) : b \in Calibs}
  BY TypeMembers, Sizes, MeaningValues DEF Quantities, IInv, Constructing
<1>2. \A v \in variables : Meaning(v)' = Meaning(v)
  BY <1>1, MeaningValues
<1>3. /\ variables' \subseteq Type /\ Imu \in variables'
      /\ id' \in [Type -> Int] /\ dim' \in Nat
      /\ cov' \in [0..(dim' - 1) -> Quantities \X Nat]
      /\ LayoutInv'
      /\ \A v \in Type \ variables' : id'[v] = -1
  BY <1>1, <1>2, AugmentKeeps
<1>4. TypeOK' /\ ContainersAgree' /\ AnchorsInWindow' /\ NeverExits'
  BY <1>3 DEF IInv, TypeOK, Landmarks, ContainersAgree, AnchorsInWindow, NeverExits
<1>5. Processing'
  BY DEF IInv, Processing, Landmarks
<1>6. CalibrationChain' /\ Constructing'
  <2>1. \A b \in Calibs : b # c => Calib(b) # Calib(c)
    BY DEF Calib
  <2>2. /\ id \in [Type -> Int]
        /\ \A b \in Calibs : b # c => id'[Calib(b)] = id[Calib(b)]
        /\ id'[Calib(c)] = dim /\ id'[Imu] = id[Imu]
    BY <1>1, <2>1, Distinct, TypeMembers DEF IInv, TypeOK
  <2>3. dim = End(c - 1)
    <3>1. c - 1 \in 0..NumCalib /\ (c - 1 > 0 => Calib(c - 1) \in variables)
      BY StateAssumption DEF Calibs
    <3>2. c - 1 + 1 = c /\ Calib(c) \notin variables
      BY StateAssumption DEF Calibs
    <3> QED BY <3>1, <3>2 DEF IInv, Constructing
  <2>4. End(c - 1)' = End(c - 1)
    BY <2>2, StateAssumption DEF End, Calibs
  <2>5. \A b \in Calibs : Calib(b) \in variables' => b <= c
    <3>1. ASSUME NEW b \in Calibs, Calib(b) \in variables', ~(b <= c)
          PROVE  FALSE
      <4>1. c \in 1..(b - 1) /\ Calib(b) \in variables
        BY <3>1, <2>1, StateAssumption DEF Calibs
      <4> QED BY <4>1 DEF IInv, CalibrationChain
    <3> QED BY <3>1
  <2>6. CalibrationChain'
    <3>1. ASSUME NEW b \in Calibs, Calib(b) \in variables'
          PROVE  /\ \A a \in 1..(b - 1) : Calib(a) \in variables'
                 /\ id'[Calib(b)] = End(b - 1)'
      <4>1. CASE b = c
        BY <4>1, <2>2, <2>3, <2>4
      <4>2. CASE b # c
        <5>1. /\ Calib(b) \in variables /\ id[Calib(b)] = End(b - 1)
              /\ \A a \in 1..(b - 1) : Calib(a) \in variables
          BY <3>1, <4>2, <2>1 DEF IInv, CalibrationChain
        <5>2. b - 1 # c
          BY <3>1, <2>5, StateAssumption DEF Calibs
        <5>3. End(b - 1)' = End(b - 1)
          BY <5>2, <2>2, StateAssumption DEF End, Calibs
        <5> QED BY <5>1, <5>3, <2>2, <4>2
      <4> QED BY <4>1, <4>2
    <3> QED BY <3>1, <2>2 DEF IInv, CalibrationChain
  <2>7. Constructing'
    <3>1. clones' = {} /\ Landmarks' = {}
          /\ variables' \subseteq {Imu} \cup {Calib(b) : b \in Calibs}
      BY <1>1 DEF IInv, Constructing, Landmarks
    <3>2. ASSUME NEW b \in 0..NumCalib, b > 0 => Calib(b) \in variables',
                 Calib(b + 1) \notin variables'
          PROVE  dim' = End(b)'
      <4>1. ~(b > c)
        BY <3>2, <2>5, StateAssumption DEF Calibs
      <4>2. ~(b < c)
        <5>1. ASSUME b < c PROVE FALSE
          <6>1. b + 1 \in 1..(c - 1) \/ b + 1 = c
            BY <5>1, StateAssumption DEF Calibs
          <6> QED BY <6>1, <3>2
        <5> QED BY <5>1
      <4>3. b = c
        BY <4>1, <4>2, StateAssumption DEF Calibs
      <4> QED BY <4>3, <2>2, StateAssumption DEF End, Calibs
    <3> QED BY <3>1, <3>2 DEF Constructing
  <2> QED BY <2>6, <2>7
<1> QED BY <1>3, <1>4, <1>5, <1>6 DEF IInv

LEMMA InitializeStep ==
  ASSUME IInv, NEW t \in Stamps, Initialize(t)
  PROVE  IInv'
<1> USE DEF Initialize
<1>1. /\ cov' \in [0..(dim' - 1) -> Quantities \X Nat]
      /\ LayoutInv'
  <2>1. /\ cov' \in [0..(dim - 1) -> Quantities \X Nat]
        /\ Layout(variables, id, cov', dim,
                  [v \in variables |-> IF v = Imu THEN At(t) ELSE Meaning(v)])
    BY RetimeKeeps
  <2>2. Meanings' = [v \in variables |-> IF v = Imu THEN At(t) ELSE Meaning(v)]
    BY MeaningValues, TypeCases DEF Meanings, IInv, TypeOK
  <2> QED BY <2>1, <2>2 DEF LayoutInv
<1>2. TypeOK'
  BY <1>1 DEF IInv, TypeOK, Landmarks
<1>3. ContainersAgree'
  <2>1. /\ variables \subseteq {Imu} \cup {Calib(c) : c \in Calibs}
        /\ Imu \in variables /\ clones = {} /\ Landmarks = {}
        /\ \A c \in Calibs : Calib(c) \in variables
    BY DEF IInv, TypeOK, Constructing
  <2>2. variables = {Imu} \cup {Calib(c) : c \in Calibs} \cup {Clone(u) : u \in clones}
                      \cup {Landmark(f) : f \in Landmarks}
    BY <2>1
  <2> QED BY <2>2 DEF IInv, ContainersAgree, Landmarks
<1>4. CalibrationChain'
  BY ChainUnchanged DEF IInv
<1>5. Constructing' /\ AnchorsInWindow' /\ Processing' /\ NeverExits'
  BY DEF IInv, Constructing, AnchorsInWindow, Processing, NeverExits, Landmarks
<1> QED BY <1>1, <1>2, <1>3, <1>4, <1>5 DEF IInv

LEMMA ZeroVelocityUpdateStep ==
  ASSUME IInv, NEW t \in Stamps, ZeroVelocityUpdate(t)
  PROVE  IInv'
<1> USE DEF ZeroVelocityUpdate
<1>1. /\ cov' \in [0..(dim' - 1) -> Quantities \X Nat]
      /\ LayoutInv'
  <2>1. /\ cov' \in [0..(dim - 1) -> Quantities \X Nat]
        /\ Layout(variables, id, cov', dim,
                  [v \in variables |-> IF v = Imu THEN At(t) ELSE Meaning(v)])
    BY RetimeKeeps
  <2>2. Meanings' = [v \in variables |-> IF v = Imu THEN At(t) ELSE Meaning(v)]
    BY MeaningValues, TypeCases DEF Meanings, IInv, TypeOK
  <2> QED BY <2>1, <2>2 DEF LayoutInv
<1>2. TypeOK'
  BY <1>1 DEF IInv, TypeOK, Landmarks
<1>3. Processing'
  BY StateAssumption DEF IInv, TypeOK, Processing
<1>4. CalibrationChain'
  BY ChainUnchanged DEF IInv
<1>5. ContainersAgree' /\ Constructing' /\ AnchorsInWindow' /\ NeverExits'
  BY DEF IInv, ContainersAgree, Constructing, AnchorsInWindow, NeverExits, Landmarks
<1> QED BY <1>1, <1>2, <1>3, <1>4, <1>5 DEF IInv

\* NewImage and CatchUp: a propagation, whatever comes after it.
LEMMA PropagationStep ==
  ASSUME IInv, NEW t \in Stamps, NewImage(t) \/ CatchUp(t)
  PROVE  IInv'
<1>1. /\ pc = "ready" /\ t > timestamp /\ PropagateAndClone(t)
      /\ CatchUp(t) => Landmarks = {} /\ (pc' = IF PropagationExits(t) THEN "exit" ELSE "marginalize")
      /\ NewImage(t) => pc' = IF PropagationExits(t) THEN "exit"
                              ELSE IF Cardinality(clones') < EnoughClones THEN "ready" ELSE "update"
  BY DEF NewImage, CatchUp
<1>2. /\ ~PropagationExits(t)
      /\ variables' \subseteq Type /\ Imu \in variables'
      /\ id' \in [Type -> Int] /\ dim' \in Nat
      /\ cov' \in [0..(dim' - 1) -> Quantities \X Nat]
      /\ LayoutInv'
      /\ variables' = {Imu} \cup {Calib(c) : c \in Calibs}
           \cup {Clone(u) : u \in clones'} \cup {Landmark(f) : f \in Landmarks'}
      /\ \A v \in Type \ variables' : id'[v] = -1
      /\ CalibrationChain'
  BY <1>1, PropagateKeeps
<1>3. /\ timestamp' = t /\ clones' = clones \cup {t} /\ anchor' = anchor
      /\ clones \subseteq Stamps /\ timestamp \in Int /\ t \in Int /\ Stamps \subseteq Int
      /\ Landmarks' = Landmarks
  BY <1>1, StateAssumption DEF PropagateAndClone, IInv, TypeOK, Landmarks
<1>4. pc' \in {"ready", "update", "marginalize"} /\ (pc' = "marginalize" => Landmarks = {})
  BY <1>1, <1>2
<1>5. TypeOK'
  BY <1>2, <1>3, <1>4 DEF IInv, TypeOK
<1>6. ContainersAgree' /\ Constructing' /\ NeverExits'
  BY <1>2, <1>4 DEF ContainersAgree, Constructing, NeverExits
<1>7. AnchorsInWindow'
  BY <1>3 DEF IInv, AnchorsInWindow
<1>8. Processing'
  <2>1. \A u \in clones' : u <= timestamp'
    BY <1>1, <1>3 DEF IInv, Processing
  <2>2. pc' = "marginalize" => Landmarks' = {}
    BY <1>3, <1>4
  <2> QED BY <1>3, <1>4, <2>1, <2>2 DEF Processing
<1> QED BY <1>2, <1>5, <1>6, <1>7, <1>8 DEF IInv

LEMMA DelayedInitStep ==
  ASSUME IInv, NEW f \in Feats, NEW a \in Stamps, DelayedInit(f, a)
  PROVE  IInv'
<1> DEFINE u == Landmark(f)
<1>1. /\ pc = "delayed" /\ f \notin Landmarks /\ a \in clones
      /\ variables' = variables \cup {u} /\ id' = [id EXCEPT ![u] = dim]
      /\ cov' = Augmented(cov, dim, Size(u), Point(f, a)) /\ dim' = dim + Size(u)
      /\ anchor' = [g \in Landmarks \cup {f} |-> IF g = f THEN a ELSE anchor[g]]
      /\ Landmarks' = Landmarks \cup {f}
      /\ timestamp' = timestamp /\ clones' = clones /\ pc' = pc
  BY Sizes DEF DelayedInit, Landmarks
<1>2. /\ u \in Type /\ Point(f, a) \in Quantities
      /\ variables \in SUBSET Type /\ id \in [Type -> Int] /\ Landmarks \subseteq Feats
      /\ anchor \in [Landmarks -> Stamps] /\ clones \subseteq Stamps
  BY TypeMembers DEF IInv, TypeOK, Quantities
<1>3. variables = {Imu} \cup {Calib(c) : c \in Calibs}
        \cup {Clone(t) : t \in clones} \cup {Landmark(g) : g \in Landmarks}
  BY <1>1 DEF IInv, ContainersAgree
<1>4. u \notin variables
  BY <1>1, <1>2, <1>3, Distinct
<1>5. anchor'[f] = a /\ \A g \in Landmarks : anchor'[g] = anchor[g]
  BY <1>1
<1>6. Meaning(u)' = Point(f, a)
  BY <1>5, MeaningValues
<1>7. \A v \in variables : Meaning(v)' = Meaning(v)
  <2>1. ASSUME NEW v \in variables PROVE Meaning(v)' = Meaning(v)
    <3>1. CASE v = Imu
      BY <3>1, <1>1, MeaningValues
    <3>2. CASE \E c \in Calibs : v = Calib(c)
      BY <3>2, MeaningValues
    <3>3. CASE \E t \in clones : v = Clone(t)
      BY <3>3, <1>2, MeaningValues
    <3>4. CASE \E g \in Landmarks : v = Landmark(g)
      BY <3>4, <1>2, <1>5, MeaningValues
    <3> QED BY <3>1, <3>2, <3>3, <3>4, <1>3
  <2> QED BY <2>1
<1> HIDE DEF u
<1>8. /\ variables' \subseteq Type /\ Imu \in variables'
      /\ id' \in [Type -> Int] /\ dim' \in Nat
      /\ cov' \in [0..(dim' - 1) -> Quantities \X Nat]
      /\ LayoutInv'
      /\ \A v \in Type \ variables' : id'[v] = -1
  BY <1>1, <1>2, <1>4, <1>6, <1>7, AugmentKeeps
<1>9. TypeOK'
  BY <1>1, <1>2, <1>8 DEF IInv, TypeOK
<1>10. ContainersAgree'
  BY <1>1, <1>3, <1>8 DEF ContainersAgree, u
<1>11. CalibrationChain'
  <2>1. Imu # u /\ \A c \in Calibs : Calib(c) # u /\ Calib(c) \in Type
    BY Distinct, TypeMembers DEF u
  <2>2. /\ id'[Imu] = id[Imu]
        /\ \A c \in Calibs : id'[Calib(c)] = id[Calib(c)]
                           /\ (Calib(c) \in variables' <=> Calib(c) \in variables)
    BY <1>1, <1>2, <2>1, TypeMembers
  <2> QED BY <2>2, ChainUnchanged DEF IInv
<1>12. Constructing' /\ NeverExits' /\ Processing'
  BY <1>1 DEF IInv, Constructing, NeverExits, Processing
<1>13. AnchorsInWindow'
  BY <1>1, <1>5 DEF IInv, AnchorsInWindow
<1> QED BY <1>8, <1>9, <1>10, <1>11, <1>12, <1>13 DEF IInv

LEMMA PerformAnchorChangeStep ==
  ASSUME IInv, NEW f \in Feats, PerformAnchorChange(f)
  PROVE  IInv'
<1> DEFINE u == Landmark(f)
           q == Point(f, timestamp)
<1>1. /\ pc = "anchors" /\ pc' = pc /\ f \in Landmarks
      /\ cov' = Rewritten(cov, id[u], Size(u), q)
      /\ anchor' = [anchor EXCEPT ![f] = timestamp] /\ Landmarks' = Landmarks
      /\ timestamp' = timestamp /\ variables' = variables /\ id' = id
      /\ dim' = dim /\ clones' = clones
  BY Sizes DEF PerformAnchorChange, Landmarks
<1>2. /\ timestamp \in clones /\ timestamp \in Stamps
      /\ u \in variables /\ u \in Type /\ q \in Quantities
  BY <1>1, TypeMembers DEF IInv, TypeOK, ContainersAgree, Processing, Quantities
<1>3. /\ variables \in SUBSET Type /\ id \in [Type -> Int] /\ dim \in Nat
      /\ cov \in [0..(dim - 1) -> Quantities \X Nat]
      /\ Landmarks \subseteq Feats /\ anchor \in [Landmarks -> Stamps]
      /\ Layout(variables, id, cov, dim, Meanings)
      /\ id[u] \in Nat /\ Size(u) \in Nat
  BY <1>2, SizePositive DEF IInv, TypeOK, LayoutInv, Layout
<1>4. anchor' \in [Landmarks' -> Stamps] /\ anchor'[f] = timestamp
      /\ \A g \in Landmarks \ {f} : anchor'[g] = anchor[g]
  BY <1>1, <1>2, <1>3
<1>5. \A v \in variables \ {u} : Meanings'[v] = Meanings[v]
  <2>1. ASSUME NEW v \in variables \ {u} PROVE Meaning(v)' = Meaning(v)
    <3>1. CASE v = Imu
      BY <3>1, <1>1, MeaningValues
    <3>2. CASE \E c \in Calibs : v = Calib(c)
      BY <3>2, MeaningValues
    <3>3. CASE \E t \in Stamps : v = Clone(t)
      BY <3>3, MeaningValues
    <3>4. CASE \E g \in Feats : v = Landmark(g)
      <4>1. PICK g \in Feats : v = Landmark(g)
        BY <3>4
      <4>2. g # f
        BY <4>1
      <4>3. g \in Landmarks
        <5>1. variables = {Imu} \cup {Calib(c) : c \in Calibs}
                \cup {Clone(t) : t \in clones} \cup {Landmark(h) : h \in Landmarks}
          BY <1>1 DEF IInv, ContainersAgree
        <5>2. clones \subseteq Stamps
          BY DEF IInv, TypeOK
        <5> HIDE DEF u
        <5> QED BY <5>1, <5>2, <4>1, <1>3, Distinct
      <4> QED BY <4>1, <4>2, <4>3, <1>4, MeaningValues
    <3> QED BY <3>1, <3>2, <3>3, <3>4, <1>3, TypeCases
  <2> QED BY <2>1, <1>1 DEF Meanings
<1>6. Meanings'[u] = q
  BY <1>1, <1>2, <1>4, MeaningValues DEF Meanings
<1> HIDE DEF u, q
<1>7. LayoutInv'
  <2>1. Layout(variables, id, cov', dim, Meanings')
    BY <1>1, <1>2, <1>3, <1>5, <1>6, LayoutRewrite
  <2> QED BY <2>1, <1>1 DEF LayoutInv
<1>8. cov' \in [0..(dim' - 1) -> Quantities \X Nat]
  BY <1>1, <1>2, <1>3 DEF Rewritten
<1>9. TypeOK'
  BY <1>1, <1>2, <1>4, <1>8 DEF IInv, TypeOK
<1>10. ContainersAgree' /\ CalibrationChain'
  BY <1>1, ChainUnchanged DEF IInv, ContainersAgree
<1>11. AnchorsInWindow'
  BY <1>1, <1>2, <1>4 DEF IInv, AnchorsInWindow
<1>12. Constructing' /\ Processing' /\ NeverExits'
  BY <1>1 DEF IInv, Constructing, Processing, NeverExits
<1> QED BY <1>7, <1>9, <1>10, <1>11, <1>12 DEF IInv

LEMMA MarginalizeSlamStep ==
  ASSUME IInv, NEW f \in Feats, MarginalizeSlam(f)
  PROVE  IInv'
<1> DEFINE m == Landmark(f)
<1>1. /\ pc = "update" /\ pc' = pc /\ f \in Landmarks /\ Marginalize(m)
      /\ anchor' = [g \in Landmarks \ {f} |-> anchor[g]] /\ Landmarks' = Landmarks \ {f}
      /\ timestamp' = timestamp /\ clones' = clones
  BY DEF MarginalizeSlam, Landmarks
<1>2. variables = {Imu} \cup {Calib(c) : c \in Calibs}
        \cup {Clone(t) : t \in clones} \cup {Landmark(g) : g \in Landmarks}
  BY <1>1 DEF IInv, ContainersAgree
<1>3. Landmarks \subseteq Feats /\ clones \subseteq Stamps /\ anchor \in [Landmarks -> Stamps]
  BY DEF IInv, TypeOK
<1>4. m \in variables /\ m # Imu /\ \A c \in Calibs : m # Calib(c)
  BY <1>1, <1>2, Distinct
<1>5. \A v \in variables \ {m} : Meaning(v)' = Meaning(v)
  <2>1. ASSUME NEW v \in variables \ {m} PROVE Meaning(v)' = Meaning(v)
    <3>1. CASE v = Imu
      BY <3>1, <1>1, MeaningValues
    <3>2. CASE \E c \in Calibs : v = Calib(c)
      BY <3>2, MeaningValues
    <3>3. CASE \E t \in clones : v = Clone(t)
      BY <3>3, <1>3, MeaningValues
    <3>4. CASE \E g \in Landmarks : v = Landmark(g)
      <4>1. PICK g \in Landmarks : v = Landmark(g)
        BY <3>4
      <4>2. g # f /\ g \in Feats
        BY <4>1, <1>3
      <4> QED BY <4>1, <4>2, <1>1, MeaningValues
    <3> QED BY <3>1, <3>2, <3>3, <3>4, <1>2
  <2> QED BY <2>1
<1>6. variables' = {Imu} \cup {Calib(c) : c \in Calibs}
        \cup {Clone(t) : t \in clones'} \cup {Landmark(g) : g \in Landmarks'}
  BY <1>1, <1>2, <1>3, <1>4, Distinct DEF Marginalize
<1> HIDE DEF m
<1>7. /\ variables' \subseteq Type /\ Imu \in variables'
      /\ id' \in [Type -> Int] /\ dim' \in Nat
      /\ cov' \in [0..(dim' - 1) -> Quantities \X Nat]
      /\ LayoutInv'
      /\ \A v \in Type \ variables' : id'[v] = -1
      /\ CalibrationChain'
  BY <1>1, <1>4, <1>5, MarginalizeKeeps
<1>8. TypeOK'
  BY <1>1, <1>3, <1>7 DEF IInv, TypeOK
<1>9. ContainersAgree'
  BY <1>6, <1>7 DEF ContainersAgree
<1>10. AnchorsInWindow'
  BY <1>1 DEF IInv, AnchorsInWindow
<1>11. Constructing' /\ Processing' /\ NeverExits'
  BY <1>1 DEF IInv, Constructing, Processing, NeverExits
<1> QED BY <1>7, <1>8, <1>9, <1>10, <1>11 DEF IInv

LEMMA MarginalizeOldCloneStep ==
  ASSUME IInv, NEW a \in Stamps, MarginalizeOldClone(a)
  PROVE  IInv'
<1> DEFINE m == Clone(a)
<1>1. /\ pc = "marginalize" /\ WindowExceeded /\ IsMargTimestep(a) /\ Marginalize(m)
      /\ anchor' = anchor /\ Landmarks' = Landmarks
      /\ timestamp' = timestamp /\ clones' = clones \ {a}
      /\ pc' = IF m \notin variables THEN "exit" ELSE "ready"
  BY DEF MarginalizeOldClone, Landmarks
<1>2. variables = {Imu} \cup {Calib(c) : c \in Calibs}
        \cup {Clone(t) : t \in clones} \cup {Landmark(g) : g \in Landmarks}
  BY <1>1 DEF IInv, ContainersAgree
<1>3. Landmarks \subseteq Feats /\ clones \subseteq Stamps /\ a \in clones
  BY <1>1 DEF IInv, TypeOK, IsMargTimestep
<1>4. m \in variables /\ m # Imu /\ \A c \in Calibs : m # Calib(c)
  BY <1>2, <1>3, Distinct
<1>5. \A v \in variables \ {m} : Meaning(v)' = Meaning(v)
  BY <1>1, <1>2, <1>3, MeaningValues
<1>6. variables' = {Imu} \cup {Calib(c) : c \in Calibs}
        \cup {Clone(t) : t \in clones'} \cup {Landmark(g) : g \in Landmarks'}
  BY <1>1, <1>2, <1>3, <1>4, Distinct DEF Marginalize
<1> HIDE DEF m
<1>7. /\ variables' \subseteq Type /\ Imu \in variables'
      /\ id' \in [Type -> Int] /\ dim' \in Nat
      /\ cov' \in [0..(dim' - 1) -> Quantities \X Nat]
      /\ LayoutInv'
      /\ \A v \in Type \ variables' : id'[v] = -1
      /\ CalibrationChain'
  BY <1>1, <1>4, <1>5, MarginalizeKeeps
<1>8. pc' = "ready"
  BY <1>1, <1>4
<1>9. TypeOK'
  BY <1>1, <1>3, <1>7, <1>8 DEF IInv, TypeOK
<1>10. ContainersAgree'
  BY <1>6, <1>7 DEF ContainersAgree
<1>11. AnchorsInWindow'
  <2>1. \A f \in Landmarks : anchor[f] \in clones /\ anchor[f] # a
    BY <1>1 DEF IInv, Processing, AnchorsInWindow
  <2> QED BY <1>1, <2>1 DEF AnchorsInWindow
<1>12. Constructing' /\ Processing' /\ NeverExits'
  BY <1>1, <1>8 DEF IInv, Constructing, Processing, NeverExits
<1> QED BY <1>7, <1>8, <1>9, <1>10, <1>11, <1>12 DEF IInv

\* Steps that only move pc, and stuttering.
LEMMA ControlStep ==
  ASSUME IInv, UNCHANGED <<timestamp, variables, id, cov, dim, clones, anchor>>,
         \/ SameStampImage \/ MarginalizeSlamDone \/ DelayedInitDone
         \/ ChangeAnchorsDone \/ KeepClones \/ UNCHANGED pc
  PROVE  IInv'
<1>1. /\ pc' \in {"construct", "ready", "update", "delayed", "anchors", "marginalize"}
      /\ pc' = "construct" => pc = "construct"
      /\ pc = "construct" => pc' = "construct"
      /\ pc' \in {"update", "delayed", "anchors"} => timestamp \in clones
      /\ pc' = "marginalize" =>
           \A f \in Landmarks : WindowExceeded => ~IsMargTimestep(anchor[f])
  BY DEF SameStampImage, MarginalizeSlamDone, DelayedInitDone, ChangeAnchorsDone, KeepClones,
         IInv, TypeOK, Processing, NeverExits
<1>2. LayoutInv' /\ CalibrationChain'
  <2>1. Meanings' = Meanings
    BY DEF Meanings, Meaning
  <2> QED BY <2>1, ChainUnchanged DEF IInv, LayoutInv
<1>3. TypeOK'
  BY <1>1 DEF IInv, TypeOK, Landmarks
<1>4. ContainersAgree' /\ Constructing' /\ AnchorsInWindow' /\ NeverExits'
  <2>1. ContainersAgree'
    BY <1>1 DEF IInv, ContainersAgree, Landmarks
  <2>2. Constructing'
    BY <1>1 DEF IInv, Constructing, Landmarks, End
  <2>3. AnchorsInWindow' /\ NeverExits'
    BY <1>1 DEF IInv, AnchorsInWindow, NeverExits, Landmarks
  <2> QED BY <2>1, <2>2, <2>3
<1>5. Processing'
  BY <1>1 DEF IInv, Processing, WindowExceeded, IsMargTimestep, Landmarks
<1> QED BY <1>2, <1>3, <1>4, <1>5 DEF IInv

LEMMA StepKeepsInvariant == IInv /\ [Next]_vars => IInv'
<1> SUFFICES ASSUME IInv, [Next]_vars PROVE IInv'
  OBVIOUS
<1>1. ASSUME NEW c \in Calibs, AppendCalibration(c) PROVE IInv'
  BY <1>1, AppendCalibrationStep
<1>2. ASSUME NEW t \in Stamps, Initialize(t) PROVE IInv'
  BY <1>2, InitializeStep
<1>3. ASSUME NEW t \in Stamps, NewImage(t) \/ CatchUp(t) PROVE IInv'
  BY <1>3, PropagationStep
<1>4. ASSUME NEW t \in Stamps, ZeroVelocityUpdate(t) PROVE IInv'
  BY <1>4, ZeroVelocityUpdateStep
<1>5. ASSUME NEW t \in Stamps, MarginalizeOldClone(t) PROVE IInv'
  BY <1>5, MarginalizeOldCloneStep
<1>6. ASSUME NEW f \in Feats, MarginalizeSlam(f) PROVE IInv'
  BY <1>6, MarginalizeSlamStep
<1>7. ASSUME NEW f \in Feats, NEW a \in Stamps, DelayedInit(f, a) PROVE IInv'
  BY <1>7, DelayedInitStep
<1>8. ASSUME NEW f \in Feats, PerformAnchorChange(f) PROVE IInv'
  BY <1>8, PerformAnchorChangeStep
<1>9. CASE \/ SameStampImage \/ MarginalizeSlamDone \/ DelayedInitDone
           \/ ChangeAnchorsDone \/ KeepClones
  <2>1. UNCHANGED <<timestamp, variables, id, cov, dim, clones, anchor>>
    BY <1>9 DEF SameStampImage, MarginalizeSlamDone, DelayedInitDone, ChangeAnchorsDone, KeepClones
  <2> QED BY <2>1, <1>9, ControlStep
<1>10. CASE UNCHANGED vars
  BY <1>10, ControlStep DEF vars
<1> QED BY <1>1, <1>2, <1>3, <1>4, <1>5, <1>6, <1>7, <1>8, <1>9, <1>10 DEF Next

LEMMA Inductive == Spec => []IInv
<1> QED BY ConstructorInit, StepKeepsInvariant, PTL DEF Spec

-----------------------------------------------------------------------------
(***************************************************************************)
(* The theorems.                                                           *)
(***************************************************************************)

\* Every reachable state has the types TypeOK gives it.
THEOREM TypeCorrect == Spec => []TypeOK
<1>1. IInv => TypeOK
  BY DEF IInv
<1> QED BY <1>1, Inductive, PTL

\* Whatever the block sizes and the order of appends and removals, the rows at a
\* variable's id() are that variable's (State.cpp, StateHelper.cpp).
THEOREM BlocksAlwaysDescribeVariables == Spec => []BlocksDescribeVariables
<1>1. IInv => BlocksDescribeVariables
  <2> SUFFICES ASSUME IInv, NEW v \in variables, NEW k \in 0..(Size(v) - 1)
               PROVE  id[v] + k \in DOMAIN cov /\ cov[id[v] + k] = <<Meaning(v), k>>
    BY DEF BlocksDescribeVariables
  <2>1. Layout(variables, id, cov, dim, Meanings) /\ variables \subseteq Type
    BY DEF IInv, LayoutInv, TypeOK
  <2>2. id[v] \in Nat /\ id[v] + Size(v) <= dim /\ DOMAIN cov = 0..(dim - 1) /\ dim \in Nat
        /\ cov[id[v] + k] = <<Meanings[v], k>> /\ Size(v) \in Nat
    BY <2>1, SizePositive DEF Layout
  <2> QED BY <2>2 DEF Meanings
<1> QED BY <1>1, Inductive, PTL

\* The variables' blocks tile the covariance: marginalize leaves no row behind and
\* initialize and clone overlap none.
THEOREM RowsAlwaysPartitioned == Spec => []RowsPartitioned
<1>1. IInv => RowsPartitioned
  <2> SUFFICES ASSUME IInv, NEW r \in 0..(dim - 1)
               PROVE  \E v \in variables : r \in Rows(v) /\ \A w \in variables \ {v} : r \notin Rows(w)
    BY DEF RowsPartitioned
  <2>1. Layout(variables, id, cov, dim, Meanings) /\ variables \subseteq Type
    BY DEF IInv, LayoutInv, TypeOK
  <2>2. \A v \in variables : id[v] \in Nat /\ Size(v) \in Nat
    BY <2>1, SizePositive DEF Layout
  <2>3. \A v \in variables : r \in Rows(v) <=> id[v] <= r /\ r < id[v] + Size(v)
    BY <2>2 DEF Rows
  <2>4. \E v \in variables : id[v] <= r /\ r < id[v] + Size(v)
    BY <2>1 DEF Layout
  <2>5. \A v, w \in variables : v # w => id[v] + Size(v) <= id[w] \/ id[w] + Size(w) <= id[v]
    BY <2>1 DEF Layout
  <2>6. PICK v \in variables : id[v] <= r /\ r < id[v] + Size(v)
    BY <2>4
  <2>7. \A w \in variables \ {v} : r \notin Rows(w)
    BY <2>2, <2>3, <2>5, <2>6
  <2> QED BY <2>3, <2>6, <2>7
<1> QED BY <1>1, Inductive, PTL

\* The containers of State name exactly the variables of the covariance.
THEOREM ContainersAlwaysAgree == Spec => []ContainersAgree
<1>1. IInv => ContainersAgree
  BY DEF IInv
<1> QED BY <1>1, Inductive, PTL

\* change_anchors runs before marginalize_old_clone, so no landmark loses the clone
\* it is anchored in.
THEOREM AnchorsStayInWindow == Spec => []AnchorsInWindow
<1>1. IInv => AnchorsInWindow
  BY DEF IInv
<1> QED BY <1>1, Inductive, PTL

\* For images newer than the state none of the std::exit checks of propagation,
\* cloning and marginalization fires.
THEOREM ExitIsUnreachable == Spec => []NeverExits
<1>1. IInv => NeverExits
  BY DEF IInv
<1> QED BY <1>1, Inductive, PTL

LEMMA WindowStep ==
  IInv /\ IsFiniteSet(clones) /\ WindowBounded /\ [Next]_vars
    => IsFiniteSet(clones)' /\ WindowBounded'
<1> SUFFICES ASSUME IInv, IsFiniteSet(clones), WindowBounded, [Next]_vars
             PROVE  IsFiniteSet(clones)' /\ WindowBounded'
  OBVIOUS
<1>1. Cardinality(clones) \in Nat /\ max_clone_size \in Nat \ {0} /\ EnoughClones <= max_clone_size
      /\ EnoughClones \in Nat
  BY FS_CardinalityType, StateAssumption
<1>2. ASSUME NEW t \in Stamps, NewImage(t) \/ CatchUp(t)
      PROVE  IsFiniteSet(clones)' /\ WindowBounded'
  <2>1. /\ pc = "ready" /\ t > timestamp /\ PropagateAndClone(t) /\ clones' = clones \cup {t}
        /\ NewImage(t) => pc' = IF PropagationExits(t) THEN "exit"
                                ELSE IF Cardinality(clones') < EnoughClones THEN "ready" ELSE "update"
        /\ CatchUp(t) => pc' = IF PropagationExits(t) THEN "exit" ELSE "marginalize"
    BY <1>2 DEF NewImage, CatchUp, PropagateAndClone
  <2>2. IsFiniteSet(clones') /\ Cardinality(clones') \in Nat
        /\ Cardinality(clones') <= Cardinality(clones) + 1
    <3>1. /\ IsFiniteSet(clones \cup {t})
          /\ Cardinality(clones \cup {t}) = Cardinality(clones)
             \/ Cardinality(clones \cup {t}) = Cardinality(clones) + 1
      BY FS_AddElement
    <3> QED BY <2>1, <3>1, <1>1
  <2>3. Cardinality(clones) <= max_clone_size
    BY <2>1, <1>1 DEF WindowBounded
  <2>4. pc' = "ready" => Cardinality(clones') < EnoughClones
    BY <2>1, <1>2
  <2>5. pc' # "construct"
    BY <2>1, <1>2
  <2> QED BY <2>2, <2>3, <2>4, <2>5, <1>1 DEF WindowBounded
<1>3. ASSUME NEW t \in Stamps, MarginalizeOldClone(t)
      PROVE  IsFiniteSet(clones)' /\ WindowBounded'
  <2>1. pc = "marginalize" /\ t \in clones /\ clones' = clones \ {t}
    BY <1>3 DEF MarginalizeOldClone, IsMargTimestep
  <2>2. IsFiniteSet(clones') /\ Cardinality(clones') = Cardinality(clones) - 1
    BY <2>1, FS_RemoveElement
  <2>3. Cardinality(clones) <= max_clone_size + 1
    BY <2>1 DEF WindowBounded
  <2> QED BY <2>2, <2>3, <1>1 DEF WindowBounded
<1>4. CASE KeepClones
  <2>1. clones' = clones /\ ~(Cardinality(clones) > max_clone_size)
    BY <1>4 DEF KeepClones, WindowExceeded
  <2> QED BY <2>1, <1>1 DEF WindowBounded
<1>5. CASE SameStampImage \/ MarginalizeSlamDone \/ DelayedInitDone \/ ChangeAnchorsDone
  <2>1. clones' = clones /\ pc' \in {"update", "delayed", "anchors", "marginalize"}
    BY <1>5 DEF SameStampImage, MarginalizeSlamDone, DelayedInitDone, ChangeAnchorsDone
  <2> QED BY <2>1, <1>1 DEF WindowBounded
<1>6. CASE \E t \in Stamps : Initialize(t)
  <2>1. clones' = clones /\ pc = "construct"
    BY <1>6 DEF Initialize
  <2> QED BY <2>1, <1>1 DEF WindowBounded
<1>7. CASE clones' = clones /\ pc' = pc
  BY <1>7 DEF WindowBounded
<1>8. \/ \E t \in Stamps : NewImage(t) \/ CatchUp(t)
      \/ \E t \in Stamps : MarginalizeOldClone(t)
      \/ KeepClones
      \/ SameStampImage \/ MarginalizeSlamDone \/ DelayedInitDone \/ ChangeAnchorsDone
      \/ \E t \in Stamps : Initialize(t)
      \/ clones' = clones /\ pc' = pc
  BY DEF Next, vars, AppendCalibration, ZeroVelocityUpdate, MarginalizeSlam, DelayedInit,
         PerformAnchorChange
<1> QED BY <1>2, <1>3, <1>4, <1>5, <1>6, <1>7, <1>8

\* marginalize_old_clone removes one clone per image, which keeps the window at
\* max_clone_size between images for every window length.
THEOREM WindowStaysBounded == Spec => []WindowBounded
<1>1. Init => IsFiniteSet(clones) /\ WindowBounded
  BY FS_EmptySet, StateAssumption DEF Init, WindowBounded
<1> QED BY <1>1, WindowStep, Inductive, PTL DEF Spec

-----------------------------------------------------------------------------
(***************************************************************************)
(* StateHelper implements SlidingWindow, the window being read off the     *)
(* rows of the covariance alone.  By the invariant above the covariance    *)
(* tells what the containers hold, and a step on the containers is one of  *)
(* SlidingWindow's.                                                        *)
(***************************************************************************)
\* The state has no time before it is initialized.
NotStarted == pc = "construct" => timestamp = -1

LEMMA StartsOnce == Spec => []NotStarted
<1>1. Init => NotStarted
  BY DEF Init, NotStarted
<1>2. NotStarted /\ [Next]_vars => NotStarted'
  BY DEF NotStarted, Next, vars, AppendCalibration, Initialize, NewImage, CatchUp,
         ZeroVelocityUpdate, MarginalizeOldClone, SameStampImage, MarginalizeSlam, DelayedInit,
         PerformAnchorChange, MarginalizeSlamDone, DelayedInitDone, ChangeAnchorsDone, KeepClones
<1> QED BY <1>1, <1>2, PTL DEF Spec

\* Every row is some variable's, and says what that variable means.
LEMMA RowOfVariable ==
  ASSUME IInv, NEW r \in DOMAIN cov
  PROVE  \E v \in variables : /\ id[v] <= r /\ r < id[v] + Size(v)
                              /\ cov[r] = <<Meaning(v), r - id[v]>>
<1>1. /\ variables \subseteq Type /\ dim \in Nat /\ r \in 0..(dim - 1)
      /\ \A v \in variables : id[v] \in Nat /\ Size(v) \in Nat \ {0}
  BY SizePositive DEF IInv, TypeOK, LayoutInv, Layout
<1>2. PICK v \in variables : id[v] <= r /\ r < id[v] + Size(v)
  BY <1>1 DEF IInv, LayoutInv, Layout
<1>3. r - id[v] \in 0..(Size(v) - 1) /\ id[v] + (r - id[v]) = r
  BY <1>1, <1>2
<1>4. cov[id[v] + (r - id[v])] = <<Meanings[v], r - id[v]>>
  BY <1>3 DEF IInv, LayoutInv, Layout
<1> QED BY <1>2, <1>3, <1>4 DEF Meanings

\* Every variable has a first row.
LEMMA VariableHasRow ==
  ASSUME IInv, NEW v \in variables
  PROVE  id[v] \in DOMAIN cov /\ cov[id[v]] = <<Meaning(v), 0>>
<1>1. /\ id[v] \in Nat /\ Size(v) \in Nat \ {0} /\ id[v] + Size(v) <= dim /\ dim \in Nat
      /\ DOMAIN cov = 0..(dim - 1)
      /\ \A k \in 0..(Size(v) - 1) : cov[id[v] + k] = <<Meanings[v], k>>
  BY SizePositive DEF IInv, TypeOK, LayoutInv, Layout
<1>2. 0 \in 0..(Size(v) - 1) /\ id[v] + 0 = id[v] /\ id[v] \in 0..(dim - 1)
  BY <1>1
<1> QED BY <1>1, <1>2 DEF Meanings

\* Behind the IMU's rows there are only other variables'.
LEMMA ImuComesFirst ==
  ASSUME IInv
  PROVE  /\ Imu \in variables /\ id[Imu] = 0
         /\ \A v \in variables \ {Imu} : id[v] >= ImuSize
<1>1. Imu \in variables /\ id[Imu] = 0 /\ variables \subseteq Type
  BY DEF IInv, TypeOK, CalibrationChain
<1>2. ImuSize \in Nat \ {0} /\ Size(Imu) = ImuSize
  BY Sizes, StateAssumption
<1>3. ASSUME NEW v \in variables \ {Imu} PROVE id[v] >= ImuSize
  <2>1. id[v] \in Nat /\ Size(v) \in Nat \ {0}
    BY <1>1, SizePositive DEF IInv, LayoutInv, Layout
  <2>2. id[v] + Size(v) <= id[Imu] \/ id[Imu] + Size(Imu) <= id[v]
    BY <1>1 DEF IInv, LayoutInv, Layout
  <2> QED BY <1>1, <1>2, <2>1, <2>2
<1> QED BY <1>1, <1>3

\* The containers name clones and landmarks of the state, and only those.
LEMMA ContainersNameVariables ==
  ASSUME IInv
  PROVE  /\ \A t \in Stamps : Clone(t) \in variables <=> t \in clones
         /\ \A f \in Feats : Landmark(f) \in variables <=> f \in Landmarks
<1>1. clones \subseteq Stamps /\ Landmarks \subseteq Feats
  BY DEF IInv, TypeOK
<1>2. CASE pc = "construct"
  BY <1>2, Distinct DEF IInv, Constructing
<1>3. CASE pc # "construct"
  BY <1>1, <1>3, Distinct DEF IInv, ContainersAgree
<1> QED BY <1>2, <1>3

-----------------------------------------------------------------------------
(***************************************************************************)
(* What the covariance tells.                                              *)
(***************************************************************************)
LEMMA TellsNow == IInv => CovNow = timestamp
<1> SUFFICES ASSUME IInv PROVE CovNow = timestamp
  OBVIOUS
<1>1. cov[0] = <<At(timestamp), 0>>
  BY ImuComesFirst, VariableHasRow, MeaningValues
<1> QED BY <1>1 DEF CovNow, At

\* What the rows of each kind of variable look like.
LEMMA Kinds ==
  ASSUME IInv, NEW v \in variables
  PROVE  /\ Meaning(v)[1] = "at" /\ v # Imu => v = Clone(Meaning(v)[2]) /\ Meaning(v)[2] \in Stamps
         /\ Meaning(v)[1] = "point" =>
              /\ Meaning(v)[2] \in Feats /\ v = Landmark(Meaning(v)[2])
              /\ Meaning(v) = Point(Meaning(v)[2], anchor[Meaning(v)[2]])
<1>1. v \in Type
  BY DEF IInv, TypeOK
<1>2. CASE v = Imu
  BY <1>2, MeaningValues DEF At
<1>3. ASSUME NEW c \in Calibs, v = Calib(c)
      PROVE  Meaning(v)[1] = "value"
  BY <1>3, MeaningValues DEF Value
<1>4. ASSUME NEW t \in Stamps, v = Clone(t)
      PROVE  Meaning(v)[1] = "at" /\ Meaning(v)[2] = t
  BY <1>4, MeaningValues DEF At
<1>5. ASSUME NEW f \in Feats, v = Landmark(f)
      PROVE  Meaning(v)[1] = "point" /\ Meaning(v)[2] = f /\ Meaning(v) = Point(f, anchor[f])
  BY <1>5, MeaningValues DEF Point
<1> QED BY <1>1, <1>2, <1>3, <1>4, <1>5, TypeCases

LEMMA TellsWindow == IInv => CovWindow = clones
<1> SUFFICES ASSUME IInv PROVE CovWindow = clones
  OBVIOUS
<1>0. clones \subseteq Stamps
  BY DEF IInv, TypeOK
<1>1. ASSUME NEW r \in DOMAIN cov, r >= ImuSize, cov[r][1][1] = "at"
      PROVE  cov[r][1][2] \in clones
  <2>1. PICK v \in variables : /\ id[v] <= r /\ r < id[v] + Size(v)
                               /\ cov[r] = <<Meaning(v), r - id[v]>>
    BY RowOfVariable
  <2>2. v # Imu
    <3>1. r < ImuSize \/ v # Imu
      BY <2>1, ImuComesFirst, Sizes, StateAssumption
    <3>2. r \in Int /\ ImuSize \in Int
      BY StateAssumption DEF IInv, TypeOK
    <3> QED BY <1>1, <3>1, <3>2
  <2>3. cov[r][1] = Meaning(v)
    BY <2>1
  <2> QED BY <1>1, <2>2, <2>3, Kinds, ContainersNameVariables
<1>2. ASSUME NEW t \in clones
      PROVE  \E r \in DOMAIN cov : r >= ImuSize /\ cov[r][1][1] = "at" /\ cov[r][1][2] = t
  <2>1. Clone(t) \in variables /\ Clone(t) # Imu
    BY <1>0, ContainersNameVariables, Distinct
  <2>2. /\ id[Clone(t)] \in DOMAIN cov /\ cov[id[Clone(t)]] = <<Meaning(Clone(t)), 0>>
        /\ id[Clone(t)] >= ImuSize
    BY <2>1, VariableHasRow, ImuComesFirst
  <2>3. cov[id[Clone(t)]][1] = At(t)
    BY <1>0, <2>2, MeaningValues
  <2> QED BY <2>2, <2>3 DEF At
<1> QED BY <1>1, <1>2 DEF CovWindow

LEMMA TellsPoints == IInv => CovPoints = Landmarks
<1> SUFFICES ASSUME IInv PROVE CovPoints = Landmarks
  OBVIOUS
<1>0. Landmarks \subseteq Feats
  BY DEF IInv, TypeOK
<1>1. ASSUME NEW r \in DOMAIN cov, cov[r][1][1] = "point"
      PROVE  cov[r][1][2] \in Landmarks
  <2>1. PICK v \in variables : cov[r] = <<Meaning(v), r - id[v]>>
    BY RowOfVariable
  <2>2. cov[r][1] = Meaning(v)
    BY <2>1
  <2> QED BY <1>1, <2>2, Kinds, ContainersNameVariables
<1>2. ASSUME NEW f \in Landmarks
      PROVE  \E r \in DOMAIN cov : cov[r][1][1] = "point" /\ cov[r][1][2] = f
  <2>1. Landmark(f) \in variables
    BY <1>0, ContainersNameVariables
  <2>2. id[Landmark(f)] \in DOMAIN cov /\ cov[id[Landmark(f)]] = <<Meaning(Landmark(f)), 0>>
    BY <2>1, VariableHasRow
  <2>3. cov[id[Landmark(f)]][1] = Point(f, anchor[f])
    BY <1>0, <2>2, MeaningValues
  <2> QED BY <2>2, <2>3 DEF Point
<1> QED BY <1>1, <1>2 DEF CovPoints

LEMMA TellsFrame == IInv => CovFrame = anchor
<1> SUFFICES ASSUME IInv PROVE CovFrame = anchor
  OBVIOUS
<1>0. Landmarks \subseteq Feats /\ anchor \in [Landmarks -> Stamps]
  BY DEF IInv, TypeOK
<1>1. ASSUME NEW f \in Landmarks
      PROVE  (CHOOSE a \in Stamps : \E r \in DOMAIN cov : cov[r][1] = Point(f, a)) = anchor[f]
  <2>1. \E r \in DOMAIN cov : cov[r][1] = Point(f, anchor[f])
    <3>1. Landmark(f) \in variables
      BY <1>0, ContainersNameVariables
    <3>2. id[Landmark(f)] \in DOMAIN cov /\ cov[id[Landmark(f)]] = <<Meaning(Landmark(f)), 0>>
      BY <3>1, VariableHasRow
    <3> QED BY <1>0, <3>2, MeaningValues
  <2>2. ASSUME NEW a \in Stamps, NEW r \in DOMAIN cov, cov[r][1] = Point(f, a)
        PROVE  a = anchor[f]
    <3>1. PICK v \in variables : cov[r] = <<Meaning(v), r - id[v]>>
      BY RowOfVariable
    <3>2. Meaning(v) = <<"point", f, a>>
      BY <2>2, <3>1 DEF Point
    <3>3. Meaning(v) = <<"point", f, anchor[f]>>
      BY <3>2, Kinds DEF Point
    <3> QED BY <3>2, <3>3
  <2>3. anchor[f] \in Stamps
    BY <1>0
  <2> QED BY <2>1, <2>2, <2>3
<1>2. CovFrame = [f \in Landmarks |-> anchor[f]]
  BY <1>1, TellsPoints DEF CovFrame
<1> QED BY <1>0, <1>2

-----------------------------------------------------------------------------
(***************************************************************************)
(* Every step is a step of SlidingWindow or a stutter.                     *)
(***************************************************************************)

\* The covariance tells the containers.
Told == CovNow = timestamp /\ CovWindow = clones /\ CovFrame = anchor

LEMMA CovarianceTells == IInv => Told
  BY TellsNow, TellsWindow, TellsFrame DEF Told

\* What is known of both ends of a step.
Known ==
  /\ IInv /\ Told /\ NotStarted
  /\ IsFiniteSet(clones) /\ WindowBounded

\* SlidingWindow counts with a Cardinality of its own instance of FiniteSets.
LEMMA SameCardinality == \A S : SW!Cardinality(S) = Cardinality(S)
  BY DEF Cardinality, SW!Cardinality

LEMMA AdvanceStep ==
  ASSUME Known, Told', NEW t \in Stamps, t > timestamp, timestamp' = t, anchor' = anchor,
         \/ clones' = clones
         \/ clones' = clones \cup {t} /\ Cardinality(clones) <= max_clone_size
  PROVE  SW!Advance(t)
  BY SameCardinality DEF Known, Told, SW!Advance

LEMMA TimeStep ==
  ASSUME Known, Told', NEW t \in Stamps,
         Initialize(t) \/ NewImage(t) \/ CatchUp(t) \/ ZeroVelocityUpdate(t)
  PROVE  SW!Advance(t)
<1>1. CASE Initialize(t)
  <2>1. t > timestamp
    BY <1>1, StateAssumption DEF Initialize, Known, NotStarted
  <2> QED BY <1>1, <2>1, AdvanceStep DEF Initialize
<1>2. CASE NewImage(t) \/ CatchUp(t)
  <2>1. /\ pc = "ready" /\ t > timestamp /\ timestamp' = t /\ clones' = clones \cup {t}
        /\ anchor' = anchor
    BY <1>2 DEF NewImage, CatchUp, PropagateAndClone
  <2>2. Cardinality(clones) <= max_clone_size
    BY <2>1, FS_CardinalityType, StateAssumption DEF Known, WindowBounded
  <2> QED BY <2>1, <2>2, AdvanceStep
<1>3. CASE ZeroVelocityUpdate(t)
  BY <1>3, AdvanceStep DEF ZeroVelocityUpdate
<1> QED BY <1>1, <1>2, <1>3

LEMMA ForgetStep ==
  ASSUME Known, Told', NEW f \in Feats, MarginalizeSlam(f)
  PROVE  SW!Forget({f})
<1>1. f \in Landmarks /\ anchor' = [g \in Landmarks \ {f} |-> anchor[g]]
      /\ timestamp' = timestamp /\ clones' = clones
  BY DEF MarginalizeSlam
<1> QED BY <1>1 DEF Known, Told, Landmarks, SW!Forget, SW!Points

LEMMA LearnStep ==
  ASSUME Known, Told', NEW f \in Feats, NEW a \in Stamps, DelayedInit(f, a)
  PROVE  \E b \in [{f} -> CovWindow] : SW!Learn({f}, b)
<1> DEFINE b == [g \in {f} |-> a]
<1>1. /\ f \notin Landmarks /\ a \in clones /\ timestamp' = timestamp /\ clones' = clones
      /\ anchor' = [g \in Landmarks \cup {f} |-> IF g = f THEN a ELSE anchor[g]]
  BY DEF DelayedInit
<1>2. b \in [{f} -> CovWindow]
  BY <1>1 DEF Known, Told
<1>3. anchor' = [g \in Landmarks \cup {f} |-> IF g \in {f} THEN b[g] ELSE anchor[g]]
  BY <1>1
<1>4. SW!Learn({f}, b)
  BY <1>1, <1>2, <1>3 DEF Known, Told, Landmarks, SW!Learn, SW!Points
<1> QED BY <1>2, <1>4

LEMMA ReanchorStep ==
  ASSUME Known, Told', NEW f \in Feats, PerformAnchorChange(f)
  PROVE  SW!Reanchor({f})
<1>1. /\ pc = "anchors" /\ f \in Landmarks /\ Cardinality(clones) > max_clone_size
      /\ IsMargTimestep(anchor[f]) /\ timestamp' = timestamp /\ clones' = clones
      /\ anchor' = [anchor EXCEPT ![f] = timestamp]
  BY DEF PerformAnchorChange, WindowExceeded
<1>2. timestamp \in clones
  BY <1>1 DEF Known, IInv, Processing
<1>3. anchor' = [g \in Landmarks |-> IF g \in {f} THEN timestamp ELSE anchor[g]]
  BY <1>1 DEF Known, IInv, TypeOK, Landmarks
<1> QED BY <1>1, <1>2, <1>3, SameCardinality
        DEF Known, Told, Landmarks, IsMargTimestep, SW!Reanchor, SW!Points, SW!IsOldest

LEMMA SlideStep ==
  ASSUME Known, Told', NEW m \in Stamps, MarginalizeOldClone(m)
  PROVE  SW!Slide(m)
<1>1. /\ pc = "marginalize" /\ Cardinality(clones) > max_clone_size /\ IsMargTimestep(m)
      /\ clones' = clones \ {m} /\ timestamp' = timestamp /\ anchor' = anchor
  BY DEF MarginalizeOldClone, WindowExceeded
<1>2. \A f \in Landmarks : anchor[f] # m
  BY <1>1 DEF Known, IInv, Processing, WindowExceeded
<1> QED BY <1>1, <1>2, SameCardinality
        DEF Known, Told, Landmarks, IsMargTimestep, SW!Slide, SW!Points, SW!IsOldest

LEMMA StepRefines == Known /\ Told' /\ [Next]_vars => [SW!Next]_(SW!svars)
<1> SUFFICES ASSUME Known, Told', [Next]_vars
             PROVE  SW!Next \/ UNCHANGED SW!svars
  OBVIOUS
<1>1. ASSUME NEW t \in Stamps,
             Initialize(t) \/ NewImage(t) \/ CatchUp(t) \/ ZeroVelocityUpdate(t)
      PROVE  SW!Next
  BY <1>1, TimeStep DEF SW!Next
<1>2. ASSUME NEW t \in Stamps, MarginalizeOldClone(t) PROVE SW!Next
  BY <1>2, SlideStep DEF SW!Next
<1>3. ASSUME NEW f \in Feats, MarginalizeSlam(f) PROVE SW!Next
  BY <1>3, ForgetStep DEF SW!Next
<1>4. ASSUME NEW f \in Feats, NEW a \in Stamps, DelayedInit(f, a) PROVE SW!Next
  BY <1>4, LearnStep DEF SW!Next
<1>5. ASSUME NEW f \in Feats, PerformAnchorChange(f) PROVE SW!Next
  BY <1>5, ReanchorStep DEF SW!Next
<1>6. CASE UNCHANGED <<timestamp, clones, anchor>>
  BY <1>6 DEF Known, Told, SW!svars
<1>7. CASE \/ \E c \in Calibs : AppendCalibration(c)
           \/ SameStampImage \/ MarginalizeSlamDone \/ DelayedInitDone
           \/ ChangeAnchorsDone \/ KeepClones \/ UNCHANGED vars
  BY <1>6, <1>7 DEF AppendCalibration, SameStampImage, MarginalizeSlamDone, DelayedInitDone,
                    ChangeAnchorsDone, KeepClones, vars
<1> QED BY <1>1, <1>2, <1>3, <1>4, <1>5, <1>7 DEF Next

LEMMA InitRefines == Init => SW!Init
<1> SUFFICES ASSUME Init PROVE SW!Init
  OBVIOUS
<1>1. Told
  BY ConstructorInit, CovarianceTells
<1> QED BY <1>1 DEF Init, Told, SW!Init

LEMMA WindowKnown == Spec => [](IsFiniteSet(clones) /\ WindowBounded)
<1>1. Init => IsFiniteSet(clones) /\ WindowBounded
  BY FS_EmptySet, StateAssumption DEF Init, WindowBounded
<1> QED BY <1>1, WindowStep, Inductive, PTL DEF Spec

\* StateHelper's operations on the covariance implement the sliding window: for any
\* sizes and any window length, what the rows describe changes only as it allows.
THEOREM CovarianceImplementsSlidingWindow == Spec => CovarianceIsSlidingWindow
<1>1. Spec => []Known
  <2>1. IInv /\ NotStarted /\ IsFiniteSet(clones) /\ WindowBounded => Known
    BY CovarianceTells DEF Known
  <2> QED BY <2>1, Inductive, StartsOnce, WindowKnown, PTL
<1>2. Known => Told
  BY DEF Known
<1> QED BY <1>1, <1>2, InitRefines, StepRefines, PTL DEF Spec, CovarianceIsSlidingWindow, SW!Spec
=============================================================================
