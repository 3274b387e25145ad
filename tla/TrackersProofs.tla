--------------------------- MODULE TrackersProofs ---------------------------
(***************************************************************************)
(* Proofs about the trackers, for any number of images, points and tags:   *)
(* an id names one point, a feature is measured once in an image, its      *)
(* track has no holes, and tags are known by their ids.                    *)
(*                                                                         *)
(* A step is reduced to what it measures of each camera and to the ids it  *)
(* leaves in the last points: each kind of step has a lemma of that form,  *)
(* and each tracker's operators are shown to return points with ids of     *)
(* their own, taken from the last points or from the counter.              *)
(***************************************************************************)
EXTENDS Trackers, DataFacts, FiniteSetTheorems

Point == [id : Nat, at : Int]

UniqueIds(P) == \A p, q \in P : p.id = q.id => p = q

\* The stamps that database d has of feature f in camera c.
TrackOf(d, f, c) ==
  IF f \in DOMAIN d THEN IF c \in DOMAIN d[f] THEN d[f][c] ELSE <<>> ELSE <<>>

DbTyped(d) ==
  /\ DOMAIN d \subseteq Nat
  /\ \A f \in DOMAIN d :
       /\ DOMAIN d[f] \subseteq Cams
       /\ \A c \in DOMAIN d[f] : d[f][c] \in Seq(Nat) /\ d[f][c] # <<>>

LEMMA TrackTyped ==
  ASSUME NEW d, DbTyped(d), NEW f, NEW c
  PROVE  TrackOf(d, f, c) \in Seq(Nat)
  BY DEF TrackOf, DbTyped

\* The measurements of a message: those of camera c are of the features M[c].
Measures(M) ==
  /\ DbTyped(db') /\ DOMAIN db' = DOMAIN db \cup UNION {M[c] : c \in Cams}
  /\ \A f \in Nat, c \in Cams :
       TrackOf(db', f, c) = IF f \in M[c] THEN Append(TrackOf(db, f, c), now') ELSE TrackOf(db, f, c)

\* Database r is d with one more measurement of each of camera c's points P.
Recorded(r, d, c, P) ==
  /\ DbTyped(r) /\ DOMAIN r = DOMAIN d \cup Ids(P)
  /\ \A f \in Nat, k \in Cams :
       TrackOf(r, f, k) = IF k = c /\ f \in Ids(P) THEN Append(TrackOf(d, f, k), now')
                          ELSE TrackOf(d, f, k)

\* So it is, if every point has an id of its own.
LEMMA RecordIs ==
  ASSUME NEW d, DbTyped(d), NEW c \in Cams, NEW P \in SUBSET Point, UniqueIds(P), now' \in Nat
  PROVE  Recorded(Record(d, c, P), d, c, P)
<1> DEFINE r == Record(d, c, P)
           Known(f) == IF f \in DOMAIN d THEN DOMAIN d[f] ELSE {}
<1>1. DOMAIN r = DOMAIN d \cup Ids(P) /\ \A f \in Ids(P) : f \in Nat
  BY DEF Record, Ids, Point
<1>2. ASSUME NEW f \in DOMAIN d, f \notin Ids(P) PROVE r[f] = d[f]
  BY <1>2 DEF Record
<1>3. ASSUME NEW f \in Ids(P)
      PROVE  /\ DOMAIN r[f] = Known(f) \cup {c}
             /\ r[f][c] = Append(TrackOf(d, f, c), now')
             /\ \A k \in Known(f) : k # c => r[f][k] = d[f][k]
  <2> DEFINE Old == IF f \in DOMAIN d THEN d[f] ELSE <<>>
             Stamps == IF c \in DOMAIN Old THEN Old[c] ELSE <<>>
             Again == [i \in 1..Cardinality({p \in P : p.id = f}) |-> now']
  <2>1. r[f] = [k \in DOMAIN Old \cup {c} |-> IF k = c THEN Stamps \o Again ELSE Old[k]]
    BY <1>3 DEF Record
  <2>2. PICK p \in P : p.id = f
    BY <1>3 DEF Ids
  <2>3. {q \in P : q.id = f} = {p}
    BY <2>2 DEF UniqueIds
  <2>4. Cardinality({q \in P : q.id = f}) = 1
    BY <2>3, FS_Singleton
  <2>5. Again = <<now'>>
    <3>1. \A n : [i \in 1..1 |-> n] = <<n>>
      OBVIOUS
    <3> QED BY <2>4, <3>1
  <2>6. DOMAIN Old = Known(f) /\ Stamps = TrackOf(d, f, c)
    <3>1. CASE f \in DOMAIN d
      BY <3>1 DEF TrackOf
    <3>2. CASE f \notin DOMAIN d
      BY <3>2 DEF TrackOf
    <3> QED BY <3>1, <3>2
  <2>7. TrackOf(d, f, c) \in Seq(Nat)
    BY TrackTyped
  <2>8. \A s \in Seq(Nat), n \in Nat : s \o <<n>> = Append(s, n)
    OBVIOUS
  <2> HIDE DEF Old, Stamps, Again
  <2>9. r[f][c] = Append(TrackOf(d, f, c), now')
    BY <2>1, <2>5, <2>6, <2>7, <2>8
  <2>10. \A k \in Known(f) : k # c => r[f][k] = d[f][k]
    BY <2>1, <2>6 DEF Old
  <2> QED BY <2>1, <2>6, <2>9, <2>10
<1> HIDE DEF r
<1>4. \A s \in Seq(Nat), n \in Nat : Append(s, n) \in Seq(Nat) /\ Append(s, n) # <<>>
  OBVIOUS
<1>5. DbTyped(r)
  <2>1. ASSUME NEW f \in DOMAIN r
        PROVE  /\ DOMAIN r[f] \subseteq Cams
               /\ \A k \in DOMAIN r[f] : r[f][k] \in Seq(Nat) /\ r[f][k] # <<>>
    <3>1. CASE f \notin Ids(P)
      BY <1>1, <1>2, <2>1, <3>1 DEF DbTyped
    <3>2. CASE f \in Ids(P)
      <4>1. r[f][c] \in Seq(Nat) /\ r[f][c] # <<>>
        BY <1>3, <1>4, <3>2, TrackTyped
      <4>2. \A k \in Known(f) : k \in Cams /\ d[f][k] \in Seq(Nat) /\ d[f][k] # <<>>
        BY DEF DbTyped
      <4> QED BY <1>3, <3>2, <4>1, <4>2
    <3> QED BY <3>1, <3>2
  <2>2. DOMAIN r \subseteq Nat
    BY <1>1 DEF DbTyped
  <2> QED BY <2>1, <2>2 DEF DbTyped
<1>6. ASSUME NEW f \in Nat, NEW k \in Cams
      PROVE  TrackOf(r, f, k) = IF k = c /\ f \in Ids(P) THEN Append(TrackOf(d, f, k), now')
                                ELSE TrackOf(d, f, k)
  <2>1. CASE f \notin Ids(P)
    BY <1>1, <1>2, <2>1 DEF TrackOf
  <2>2. CASE f \in Ids(P)
    BY <1>1, <1>3, <2>2 DEF TrackOf
  <2> QED BY <2>1, <2>2
<1> QED BY <1>1, <1>5, <1>6 DEF r, Recorded

-----------------------------------------------------------------------------
(***************************************************************************)
(* What an image adds to the tracks.                                       *)
(***************************************************************************)
LEMMA NothingMeasured == DbTyped(db) /\ db' = db => Measures([k \in Cams |-> {}])
<1> SUFFICES ASSUME DbTyped(db), db' = db PROVE Measures([k \in Cams |-> {}])
  OBVIOUS
<1> DEFINE M == [k \in Cams |-> {}]
<1>1. UNION {M[k] : k \in Cams} = {}
  OBVIOUS
<1>2. \A f, k : f \notin {} /\ (k \in Cams => M[k] = {})
  OBVIOUS
<1> QED BY <1>1, <1>2 DEF Measures

LEMMA OneMeasured ==
  ASSUME DbTyped(db), NEW c \in Cams, NEW P \in SUBSET Point, UniqueIds(P), now' \in Nat,
         db' = Record(db, c, P)
  PROVE  Measures([k \in Cams |-> IF k = c THEN Ids(P) ELSE {}])
<1> DEFINE M == [k \in Cams |-> IF k = c THEN Ids(P) ELSE {}]
<1>1. UNION {M[k] : k \in Cams} = Ids(P)
  OBVIOUS
<1>2. Recorded(db', db, c, P)
  BY RecordIs
<1> QED BY <1>1, <1>2 DEF Measures, Recorded

\* Of two cameras, or of one whose points P and Q are others.
LEMMA TwoMeasured ==
  ASSUME DbTyped(db), NEW a \in Cams, NEW b \in Cams, now' \in Nat,
         NEW P \in SUBSET Point, NEW Q \in SUBSET Point, UniqueIds(P), UniqueIds(Q),
         a = b => Ids(P) \cap Ids(Q) = {}, db' = Record(Record(db, a, P), b, Q)
  PROVE  Measures([k \in Cams |-> (IF k = a THEN Ids(P) ELSE {}) \cup (IF k = b THEN Ids(Q) ELSE {})])
<1> DEFINE M == [k \in Cams |-> (IF k = a THEN Ids(P) ELSE {}) \cup (IF k = b THEN Ids(Q) ELSE {})]
           d == Record(db, a, P)
<1>1. UNION {M[k] : k \in Cams} = Ids(P) \cup Ids(Q)
  OBVIOUS
<1>2. Recorded(d, db, a, P)
  BY RecordIs
<1> HIDE DEF d
<1>3. Recorded(db', d, b, Q)
  <2>1. db' = Record(d, b, Q)
    BY DEF d
  <2>2. DbTyped(d)
    BY <1>2 DEF Recorded
  <2> QED BY <2>1, <2>2, RecordIs
<1>4. ASSUME NEW f \in Nat, NEW k \in Cams
      PROVE  TrackOf(db', f, k) = IF f \in M[k] THEN Append(TrackOf(db, f, k), now')
                                  ELSE TrackOf(db, f, k)
  <2>1. M[k] = (IF k = a THEN Ids(P) ELSE {}) \cup (IF k = b THEN Ids(Q) ELSE {})
    OBVIOUS
  <2>2. k = a /\ k = b => ~(f \in Ids(P) /\ f \in Ids(Q))
    OBVIOUS
  <2> HIDE DEF M
  <2> QED BY <1>2, <1>3, <2>1, <2>2 DEF Recorded
<1> QED BY <1>1, <1>2, <1>3, <1>4 DEF Measures, Recorded

\* The stereo pair, whose right points come in two parts.
LEMMA ThreeMeasured ==
  ASSUME DbTyped(db), NEW a \in Cams, NEW b \in Cams, a # b, now' \in Nat,
         NEW P \in SUBSET Point, NEW Q \in SUBSET Point, NEW R \in SUBSET Point,
         UniqueIds(P), UniqueIds(Q), UniqueIds(R), Ids(Q) \cap Ids(R) = {},
         db' = Record(Record(Record(db, a, P), b, Q), b, R)
  PROVE  Measures([k \in Cams |-> (IF k = a THEN Ids(P) ELSE {})
                                  \cup (IF k = b THEN Ids(Q) \cup Ids(R) ELSE {})])
<1> DEFINE M == [k \in Cams |-> (IF k = a THEN Ids(P) ELSE {})
                                \cup (IF k = b THEN Ids(Q) \cup Ids(R) ELSE {})]
           d == Record(db, a, P)
           e == Record(d, b, Q)
<1>1. UNION {M[k] : k \in Cams} = Ids(P) \cup Ids(Q) \cup Ids(R)
  OBVIOUS
<1>2. Recorded(d, db, a, P)
  BY RecordIs
<1>0. db' = Record(e, b, R)
  OBVIOUS
<1> HIDE DEF d
<1>3. Recorded(e, d, b, Q)
  <2>1. DbTyped(d)
    BY <1>2 DEF Recorded
  <2> QED BY <2>1, RecordIs
<1> HIDE DEF e
<1>4. Recorded(db', e, b, R)
  <2>1. DbTyped(e)
    BY <1>3 DEF Recorded
  <2> QED BY <1>0, <2>1, RecordIs
<1>5. ASSUME NEW f \in Nat, NEW k \in Cams
      PROVE  TrackOf(db', f, k) = IF f \in M[k] THEN Append(TrackOf(db, f, k), now')
                                  ELSE TrackOf(db, f, k)
  <2>1. M[k] = (IF k = a THEN Ids(P) ELSE {}) \cup (IF k = b THEN Ids(Q) \cup Ids(R) ELSE {})
    OBVIOUS
  <2>2. ~(f \in Ids(Q) /\ f \in Ids(R))
    OBVIOUS
  <2> HIDE DEF M
  <2> QED BY <1>2, <1>3, <1>4, <2>1, <2>2 DEF Recorded
<1> QED BY <1>1, <1>2, <1>3, <1>4, <1>5 DEF Measures, Recorded

\* A camera that the rig does not have sees nothing.
LEMMA NoneRecorded ==
  ASSUME NEW d, DbTyped(d), NEW c
  PROVE  LET r == Record(d, c, {})
         IN  DbTyped(r) /\ DOMAIN r = DOMAIN d /\ \A f, k : TrackOf(r, f, k) = TrackOf(d, f, k)
<1> DEFINE r == Record(d, c, {})
<1>1. Ids({}) = {}
  BY DEF Ids
<1>2. DOMAIN r = DOMAIN d /\ \A f \in DOMAIN d : r[f] = d[f]
  BY <1>1 DEF Record
<1> HIDE DEF r
<1>3. DbTyped(r)
  BY <1>2 DEF DbTyped
<1>4. \A f, k : TrackOf(r, f, k) = TrackOf(d, f, k)
  BY <1>2 DEF TrackOf
<1> QED BY <1>2, <1>3, <1>4 DEF r

-----------------------------------------------------------------------------
(***************************************************************************)
(* The invariants.                                                         *)
(***************************************************************************)
TrackersTyped ==
  /\ cams \in Rigs /\ num_features \in Nat /\ currid \in Nat /\ FirstId <= currid /\ now \in Nat
  /\ last \in [Cams -> SUBSET Point] /\ DbTyped(db)
  /\ images \in [Cams -> Seq(Nat)]
  /\ job \in [Cams -> {"idle", "begin", "detect", "track"}]
  /\ work \in [Cams -> [kept : SUBSET Point, new : SUBSET Point]]

\* Stamps in s ascend and are at most n.
Ordered(s, n) ==
  /\ \A i, j \in DOMAIN s : i < j => s[i] < s[j]
  /\ \A i \in DOMAIN s : s[i] <= n

\* Camera c has measured nothing of the message its thread still works on.
Until(c) == IF job[c] = "idle" THEN now ELSE now - 1

OrderInv == \A f \in Nat, c \in Cams : Ordered(TrackOf(db, f, c), Until(c))

\* Track t is empty, or that of images up to the jth of s.
Part(t, s, j) == t = <<>> \/ \E i \in 1..j : t = SubSeq(s, i, j)

Newest(c) == IF job[c] = "idle" THEN Len(images[c]) ELSE Len(images[c]) - 1

\* The points that may be measured next are those measured in the last image, and new ones.
CameraTracks(c) ==
  /\ job[c] # "idle" => Len(images[c]) # 0 /\ images[c][Len(images[c])] = now
  /\ \A f \in Nat : \E j \in 0..Len(images[c]) : Part(TrackOf(db, f, c), images[c], j)
  /\ \A f \in Ids(last[c]) : Part(TrackOf(db, f, c), images[c], Newest(c))
  /\ \A f \in Ids(work[c].new) : TrackOf(db, f, c) = <<>>

\* The trackers that number their points.
Numbering == kind \in {"klt", "descriptor"}

Pairing == use_stereo /\ Cardinality(cams) = 2

Held(c) == last[c] \cup work[c].new

IdsInv ==
  /\ \A c \in Cams : /\ UniqueIds(Held(c)) /\ Ids(last[c]) \cap Ids(work[c].new) = {}
                      /\ work[c].kept \subseteq last[c]
  /\ \A f \in DOMAIN db \cup UNION {Ids(Held(c)) : c \in Cams} : 4 * NumAruco < f /\ f <= currid
  /\ Pairing => \A c \in Cams : job[c] = "idle" /\ work[c] = NoWork
  /\ ~use_stereo => \A c, d \in Cams : c # d => Ids(Held(c)) \cap Ids(Held(d)) = {}

TrackersInv ==
  /\ TrackersTyped
  /\ Numbering => IdsInv /\ \A c \in Cams : CameraTracks(c)

-----------------------------------------------------------------------------
(***************************************************************************)
(* The order of measurements.                                              *)
(***************************************************************************)
LEMMA OrderedMore ==
  ASSUME NEW s \in Seq(Nat), NEW n \in Int, NEW m \in Int, Ordered(s, n), n <= m
  PROVE  Ordered(s, m)
  BY DEF Ordered

LEMMA OrderedAppend ==
  ASSUME NEW s \in Seq(Nat), NEW n \in Int, NEW m \in Nat, Ordered(s, n), n < m
  PROVE  Ordered(Append(s, m), m)
<1>1. /\ Append(s, m) \in Seq(Nat) /\ Len(Append(s, m)) = Len(s) + 1
      /\ \A i \in 1..Len(s) : Append(s, m)[i] = s[i] /\ s[i] \in Nat
      /\ Append(s, m)[Len(s) + 1] = m
  OBVIOUS
<1>2. DOMAIN Append(s, m) = 1..(Len(s) + 1) /\ DOMAIN s = 1..Len(s) /\ Len(s) \in Nat
  OBVIOUS
<1> QED BY <1>1, <1>2 DEF Ordered

LEMMA OrderKeeps ==
  ASSUME DbTyped(db), OrderInv, now \in Nat, now' \in Nat,
         NEW M \in [Cams -> SUBSET Nat], Measures(M),
         \A c \in Cams : Until(c) <= Until(c)' /\ (M[c] # {} => Until(c) < now' /\ job'[c] = "idle")
  PROVE  OrderInv'
<1> SUFFICES ASSUME NEW f \in Nat, NEW c \in Cams
             PROVE  Ordered(TrackOf(db', f, c), Until(c)')
  BY DEF OrderInv, TrackOf, Until
<1> DEFINE s == TrackOf(db, f, c)
<1>1. s \in Seq(Nat) /\ Ordered(s, Until(c)) /\ Until(c) \in Int /\ Until(c)' \in Int
  BY TrackTyped DEF OrderInv, Until
<1>2. CASE f \in M[c]
  <2>1. TrackOf(db', f, c) = Append(s, now') /\ Until(c) < now' /\ Until(c)' = now'
    BY <1>2 DEF Measures, Until
  <2> HIDE DEF s
  <2> QED BY <1>1, <2>1, OrderedAppend
<1>3. CASE f \notin M[c]
  <2>1. TrackOf(db', f, c) = s /\ Until(c) <= Until(c)'
    BY <1>3 DEF Measures
  <2> HIDE DEF s
  <2> QED BY <1>1, <2>1, OrderedMore
<1> QED BY <1>2, <1>3

-----------------------------------------------------------------------------
(***************************************************************************)
(* Tracks without holes.                                                   *)
(***************************************************************************)
LEMMA PartStays ==
  ASSUME NEW s \in Seq(Nat), NEW n \in Nat, NEW j \in 0..Len(s), NEW t, Part(t, s, j)
  PROVE  Part(t, Append(s, n), j)
<1>1. ASSUME NEW i \in 1..j PROVE SubSeq(Append(s, n), i, j) = SubSeq(s, i, j)
  OBVIOUS
<1> QED BY <1>1 DEF Part

LEMMA PartGrows ==
  ASSUME NEW s \in Seq(Nat), Len(s) # 0, NEW t, Part(t, s, Len(s) - 1)
  PROVE  Part(Append(t, s[Len(s)]), s, Len(s))
<1>0. Len(s) \in 1..Len(s) /\ \A i \in 1..(Len(s) - 1) : i \in 1..Len(s)
  OBVIOUS
<1>1. CASE t = <<>>
  <2>1. SubSeq(s, Len(s), Len(s)) = <<s[Len(s)]>>
    <3>1. \A n \in 1..Len(s) : Len(SubSeq(s, n, n)) = 1 /\ SubSeq(s, n, n)[1] = s[n]
      OBVIOUS
    <3>2. \A n \in 1..Len(s) : SubSeq(s, n, n) \in Seq(Nat)
      OBVIOUS
    <3>3. \A t1 \in Seq(Nat) : Len(t1) = 1 => t1 = <<t1[1]>>
      OBVIOUS
    <3> QED BY <1>0, <3>1, <3>2, <3>3
  <2>2. \A x : Append(<<>>, x) = <<x>>
    OBVIOUS
  <2> QED BY <1>0, <1>1, <2>1, <2>2 DEF Part
<1>2. CASE t # <<>>
  <2>1. PICK i \in 1..(Len(s) - 1) : t = SubSeq(s, i, Len(s) - 1)
    BY <1>2 DEF Part
  <2>2. Append(SubSeq(s, i, Len(s) - 1), s[Len(s)]) = SubSeq(s, i, Len(s))
    OBVIOUS
  <2> QED BY <1>0, <2>1, <2>2 DEF Part
<1> QED BY <1>1, <1>2

\* A camera whose image is not there yet, or whose thread has not ended.
LEMMA CameraWaits ==
  ASSUME TrackersTyped, NEW M \in [Cams -> SUBSET Nat], Measures(M), NEW c \in Cams, CameraTracks(c),
         M[c] = {}, images'[c] = images[c], last'[c] = last[c], job'[c] = "idle" <=> job[c] = "idle",
         job[c] # "idle" => now' = now,
         \A f \in Ids(work[c].new)' : f \in Nat /\ (f \in Ids(work[c].new) \/ f \notin DOMAIN db)
  PROVE  CameraTracks(c)'
<1>1. \A f \in Nat : TrackOf(db', f, c) = TrackOf(db, f, c)
  BY DEF Measures
<1>2. \A f : f \notin DOMAIN db => TrackOf(db, f, c) = <<>>
  BY DEF TrackOf
<1>3. Newest(c)' = Newest(c) /\ \A f \in Ids(last[c]) : f \in Nat
  BY DEF Newest, TrackersTyped, Ids, Point
<1>4. Ids(last[c])' = Ids(last[c])
  BY DEF Ids
<1>5. (\A f \in Nat : \E j \in 0..Len(images[c]) : Part(TrackOf(db, f, c), images[c], j))'
  BY <1>1 DEF CameraTracks, Part
<1>6. (\A f \in Ids(last[c]) : Part(TrackOf(db, f, c), images[c], Newest(c)))'
  BY <1>1, <1>3, <1>4 DEF CameraTracks, Part
<1>7. (\A f \in Ids(work[c].new) : TrackOf(db, f, c) = <<>>)'
  BY <1>1, <1>2 DEF CameraTracks
<1> QED BY <1>5, <1>6, <1>7 DEF CameraTracks

\* A camera whose thread starts on a new image.
LEMMA CameraStarts ==
  ASSUME TrackersTyped, NEW M \in [Cams -> SUBSET Nat], Measures(M), NEW c \in Cams, CameraTracks(c),
         M[c] = {}, now' \in Nat, images'[c] = Append(images[c], now'), last'[c] = last[c],
         job[c] = "idle", job'[c] # "idle", work'[c] = work[c]
  PROVE  CameraTracks(c)'
<1> DEFINE s == images[c]
<1>1. \A f \in Nat : TrackOf(db', f, c) = TrackOf(db, f, c)
  BY DEF Measures
<1>2. s \in Seq(Nat)
  BY DEF TrackersTyped
<1>3. /\ Len(Append(s, now')) = Len(s) + 1 /\ Len(s) \in Nat
      /\ Append(s, now')[Len(s) + 1] = now'
  BY <1>2
<1>4. \A f \in Ids(last[c]) : f \in Nat
  BY DEF TrackersTyped, Ids, Point
<1>5. \A f \in Ids(work[c].new) : f \in Nat
  BY DEF TrackersTyped, Ids, Point
<1>6. Newest(c) = Len(s) /\ Newest(c)' = Len(s)
  BY <1>3 DEF Newest
<1>7. Ids(last[c])' = Ids(last[c]) /\ Ids(work[c].new)' = Ids(work[c].new)
  BY DEF Ids
<1>8. \A t : \A j \in 0..Len(s) : Part(t, s, j) => Part(t, Append(s, now'), j)
  BY <1>2, PartStays
<1>9. \A f \in Nat : \E j \in 0..Len(s) : Part(TrackOf(db, f, c), s, j)
  BY DEF CameraTracks
<1>10. \A f \in Ids(last[c]) : Part(TrackOf(db, f, c), s, Len(s))
  BY <1>6 DEF CameraTracks
<1> HIDE DEF s
<1>11. \A f \in Nat : \E j \in 0..(Len(s) + 1) : Part(TrackOf(db', f, c), Append(s, now'), j)
  <2>1. \A j \in 0..Len(s) : j \in 0..(Len(s) + 1)
    BY <1>3
  <2> QED BY <1>1, <1>8, <1>9, <2>1
<1>12. \A f \in Ids(last[c]) : Part(TrackOf(db', f, c), Append(s, now'), Len(s))
  BY <1>1, <1>3, <1>4, <1>8, <1>10
<1>13. \A f \in Ids(work[c].new) : TrackOf(db', f, c) = <<>>
  BY <1>1, <1>5 DEF CameraTracks
<1>14. images'[c] = Append(s, now')
  BY DEF s
<1>15. (\A f \in Ids(last[c]) : Part(TrackOf(db, f, c), images[c], Newest(c)))'
  BY <1>6, <1>7, <1>12, <1>14
<1>16. (\A f \in Nat : \E j \in 0..Len(images[c]) : Part(TrackOf(db, f, c), images[c], j))'
  BY <1>3, <1>11, <1>14
<1> QED BY <1>3, <1>7, <1>13, <1>14, <1>15, <1>16 DEF CameraTracks

\* A camera whose thread ends: it measures all the points it has then, or none in a first image.
LEMMA CameraDone ==
  ASSUME TrackersTyped, NEW M \in [Cams -> SUBSET Nat], Measures(M), NEW c \in Cams, CameraTracks(c),
         job[c] # "idle", job'[c] = "idle", now' = now, images'[c] = images[c],
         NEW P \in SUBSET Point, last'[c] = P, work'[c].new = {}, Ids(P) \subseteq Ids(Held(c)),
         M[c] = Ids(P) \/ (M[c] = {} /\ last[c] = {})
  PROVE  CameraTracks(c)'
<1> DEFINE s == images[c]
           n == Len(s)
<1>1. s \in Seq(Nat) /\ n \in Nat /\ n # 0 /\ s[n] = now
  BY DEF TrackersTyped, CameraTracks
<1>2. \A f \in Ids(P) : f \in Nat
  BY DEF Ids, Point
<1>3. \A f \in Ids(P) : Part(TrackOf(db, f, c), s, n - 1)
  BY DEF CameraTracks, Held, Ids, Newest, Part
<1>4. \A f \in Nat : TrackOf(db', f, c) = IF f \in M[c] THEN Append(TrackOf(db, f, c), now)
                                          ELSE TrackOf(db, f, c)
  BY DEF Measures
<1>5. M[c] = {} => \A f \in Ids(P) : TrackOf(db, f, c) = <<>>
  BY DEF CameraTracks, Held, Ids
<1>6. \A f \in Nat : \E j \in 0..n : Part(TrackOf(db, f, c), s, j)
  BY DEF CameraTracks
<1>7. Newest(c)' = n /\ Ids(last[c])' = Ids(P) /\ Ids(work[c].new)' = {}
  BY DEF Newest, Ids
<1>8. \A t : Part(t, s, n - 1) => Part(Append(t, now), s, n)
  BY <1>1, PartGrows
<1> HIDE DEF s, n
<1>9. \A f \in Ids(P) : Part(TrackOf(db', f, c), s, n)
  BY <1>2, <1>3, <1>4, <1>5, <1>8 DEF Part
<1>10. \A f \in Nat : \E j \in 0..n : Part(TrackOf(db', f, c), s, j)
  <2> SUFFICES ASSUME NEW f \in Nat PROVE \E j \in 0..n : Part(TrackOf(db', f, c), s, j)
    OBVIOUS
  <2>1. CASE f \in M[c]
    BY <1>1, <1>9, <2>1
  <2>2. CASE f \notin M[c]
    BY <1>4, <1>6, <2>2
  <2> QED BY <2>1, <2>2
<1> QED BY <1>7, <1>9, <1>10 DEF CameraTracks, s, n

\* A camera of a stereo pair: what it measures was measured in the image before, or is new,
\* and what it does not is new.
LEMMA CameraOfPair ==
  ASSUME TrackersTyped, NEW M \in [Cams -> SUBSET Nat], Measures(M), NEW c \in Cams, CameraTracks(c),
         job[c] = "idle", job'[c] = "idle", now' \in Nat, images'[c] = Append(images[c], now'),
         NEW P \in SUBSET Point, last'[c] = P, work'[c].new = {}, M[c] \subseteq Ids(P),
         \A f \in Ids(P) : f \notin DOMAIN db \/ (f \in M[c] /\ f \in Ids(last[c]))
  PROVE  CameraTracks(c)'
<1> DEFINE r == images[c]
           s == Append(r, now')
           n == Len(s)
<1>1. /\ r \in Seq(Nat) /\ s \in Seq(Nat) /\ n \in Nat /\ n # 0 /\ s[n] = now'
      /\ Len(r) = n - 1
  BY DEF TrackersTyped
<1>2. \A f \in Ids(P) : f \in Nat
  BY DEF Ids, Point
<1>3. \A f : f \notin DOMAIN db => TrackOf(db, f, c) = <<>>
  BY DEF TrackOf
<1>4. \A f \in Nat : TrackOf(db', f, c) = IF f \in M[c] THEN Append(TrackOf(db, f, c), now')
                                          ELSE TrackOf(db, f, c)
  BY DEF Measures
<1>5. \A f \in Ids(last[c]) : Part(TrackOf(db, f, c), r, Len(r))
  BY DEF CameraTracks, Newest
<1>6. \A f \in Nat : \E j \in 0..Len(r) : Part(TrackOf(db, f, c), r, j)
  BY DEF CameraTracks
<1>7. Newest(c)' = n /\ Ids(last[c])' = Ids(P) /\ Ids(work[c].new)' = {} /\ images'[c] = s
  BY DEF Newest, Ids
<1>8. \A t : \A j \in 0..(n - 1) : Part(t, r, j) => Part(t, s, j)
  BY <1>1, PartStays
<1> HIDE DEF r
<1>9. \A t : Part(t, s, n - 1) => Part(Append(t, now'), s, n)
  BY <1>1, PartGrows
<1> HIDE DEF s, n
<1>10. \A f \in Ids(P) : Part(TrackOf(db, f, c), s, n - 1) /\ (f \notin M[c] => TrackOf(db, f, c) = <<>>)
  <2>1. \A f \in Ids(last[c]) : Part(TrackOf(db, f, c), s, n - 1)
    BY <1>1, <1>5, <1>8
  <2>2. \A f : f \notin DOMAIN db => Part(TrackOf(db, f, c), s, n - 1)
    BY <1>3 DEF Part
  <2> QED BY <1>3, <2>1, <2>2
<1>11. \A f \in Ids(P) : Part(TrackOf(db', f, c), s, n)
  BY <1>2, <1>4, <1>9, <1>10 DEF Part
<1>12. \A f \in Nat : \E j \in 0..n : Part(TrackOf(db', f, c), s, j)
  <2> SUFFICES ASSUME NEW f \in Nat PROVE \E j \in 0..n : Part(TrackOf(db', f, c), s, j)
    OBVIOUS
  <2>1. CASE f \in M[c]
    BY <1>1, <1>11, <2>1
  <2>2. CASE f \notin M[c]
    BY <1>1, <1>4, <1>6, <1>8, <2>2
  <2> QED BY <2>1, <2>2
<1> QED BY <1>7, <1>11, <1>12 DEF CameraTracks, s, n

-----------------------------------------------------------------------------
(***************************************************************************)
(* Ids.                                                                    *)
(***************************************************************************)
\* A step that keeps the points of each camera apart, and those of the cameras, where G is
\* the new ids of each camera.
LEMMA IdsKeep ==
  ASSUME TrackersTyped, IdsInv, NEW M \in [Cams -> SUBSET Nat], Measures(M),
         NEW G \in [Cams -> SUBSET Nat], config' = config, currid' \in Nat, currid <= currid',
         \A c \in Cams :
           /\ UniqueIds(Held(c)') /\ Ids(last'[c]) \cap Ids(work'[c].new) = {}
           /\ work'[c].kept \subseteq last'[c]
           /\ Ids(Held(c)') \subseteq Ids(Held(c)) \cup G[c] /\ M[c] \subseteq Ids(Held(c)')
           /\ \A f \in G[c] : currid < f /\ f <= currid'
           /\ Pairing => job'[c] = "idle" /\ work'[c] = NoWork,
         ~use_stereo => \A c, d \in Cams : c # d => G[c] \cap G[d] = {}
  PROVE  IdsInv'
<1>1. currid \in Nat /\ 4 * NumAruco < currid /\ NumAruco \in Nat
  BY TrackAssumption DEF TrackersTyped, FirstId
<1>2. use_stereo' = use_stereo /\ Pairing' = Pairing
  BY DEF config, Pairing
<1>3. \A c \in Cams : \A f \in Ids(Held(c)) : f \in Nat /\ 4 * NumAruco < f /\ f <= currid
  BY DEF IdsInv, TrackersTyped, Held, Ids, Point
<1>4. \A f \in DOMAIN db : f \in Nat /\ 4 * NumAruco < f /\ f <= currid
  BY DEF IdsInv, TrackersTyped, DbTyped
<1>5. DOMAIN db' = DOMAIN db \cup UNION {M[c] : c \in Cams}
  BY DEF Measures
<1>6. \A c \in Cams : \A f \in Ids(Held(c)') : 4 * NumAruco < f /\ f <= currid'
  BY <1>1, <1>3
<1>7. \A f \in DOMAIN db' : 4 * NumAruco < f /\ f <= currid'
  BY <1>1, <1>4, <1>5, <1>6
<1>8. ASSUME ~use_stereo, NEW c \in Cams, NEW d \in Cams, c # d
      PROVE  Ids(Held(c)') \cap Ids(Held(d)') = {}
  <2>1. Ids(Held(c)) \cap Ids(Held(d)) = {} /\ G[c] \cap G[d] = {}
    BY <1>8 DEF IdsInv
  <2>2. \A f : ~(f \in Ids(Held(c)) /\ f \in G[d]) /\ ~(f \in G[c] /\ f \in Ids(Held(d)))
    BY <1>1, <1>3
  <2> QED BY <2>1, <2>2
<1>9. \A c \in Cams : Ids(Held(c))' = Ids(Held(c)') /\ UniqueIds(Held(c))' = UniqueIds(Held(c)')
  BY DEF Ids, UniqueIds
<1>10. (\A f \in DOMAIN db \cup UNION {Ids(Held(c)) : c \in Cams} : 4 * NumAruco < f /\ f <= currid)'
  BY <1>6, <1>7, <1>9
<1>11. (~use_stereo => \A c, d \in Cams : c # d => Ids(Held(c)) \cap Ids(Held(d)) = {})'
  BY <1>2, <1>8, <1>9
<1>12. (\A c \in Cams : /\ UniqueIds(Held(c)) /\ Ids(last[c]) \cap Ids(work[c].new) = {}
                       /\ work[c].kept \subseteq last[c])'
  <2>1. \A c \in Cams : Ids(last[c])' = Ids(last'[c]) /\ Ids(work[c].new)' = Ids(work'[c].new)
    BY DEF Ids
  <2> QED BY <1>9, <2>1
<1>13. (Pairing => \A c \in Cams : job[c] = "idle" /\ work[c] = NoWork)'
  BY <1>2 DEF NoWork
<1> QED BY <1>10, <1>11, <1>12, <1>13 DEF IdsInv

\* With ids of its own in P, a part of P and P at other places have too.
LEMMA FewerIds ==
  ASSUME NEW P, NEW Q, Q \subseteq P, UniqueIds(P)
  PROVE  UniqueIds(Q) /\ Ids(Q) \subseteq Ids(P)
  BY DEF UniqueIds, Ids

-----------------------------------------------------------------------------
(***************************************************************************)
(* The steps that trackers are made of.                                    *)
(***************************************************************************)
Good == TrackersInv /\ OrderInv

\* What they have in common: cameras that are not heard of keep their points.
LEMMA Nothing ==
  ASSUME Good, db' = db
  PROVE  LET M == [c \in Cams |-> {}]
         IN  M \in [Cams -> SUBSET Nat] /\ Measures(M) /\ DbTyped(db')
  BY NothingMeasured DEF Good, TrackersInv, TrackersTyped

LEMMA StartKeeps ==
  ASSUME Good, UNCHANGED kind, NEW C \in SUBSET Cams, Arrives(C),
         NEW start \in {"begin", "detect", "track"},
         job' = [c \in Cams |-> IF c \in C THEN start ELSE "idle"],
         UNCHANGED <<config, num_features, currid, last, db, work>>,
         Numbering => ~Pairing
  PROVE  Good'
<1> DEFINE M == [c \in Cams |-> {}]
<1>1. M \in [Cams -> SUBSET Nat] /\ Measures(M) /\ DbTyped(db')
  BY Nothing
<1>2. TrackersTyped
  BY DEF Good, TrackersInv
<1>3. /\ now \in Nat /\ now' = now + 1 /\ \A c \in Cams : job[c] = "idle"
      /\ \A c \in Cams : images'[c] = IF c \in C THEN Append(images[c], now') ELSE images[c]
      /\ images' \in [Cams -> Seq(Nat)]
  BY <1>2 DEF Arrives, TrackersTyped
<1>4. TrackersTyped'
  BY <1>1, <1>2, <1>3 DEF TrackersTyped, config, FirstId
<1>5. OrderInv'
  <2>1. \A c \in Cams : Until(c) <= Until(c)' /\ (M[c] # {} => Until(c) < now' /\ job'[c] = "idle")
    BY <1>3 DEF Until
  <2> HIDE DEF M
  <2> QED BY <1>1, <1>2, <1>3, <2>1, OrderKeeps DEF Good, TrackersTyped
<1>6. ASSUME Numbering PROVE IdsInv' /\ \A c \in Cams : CameraTracks(c)'
  <2>1. IdsInv /\ ~Pairing /\ \A c \in Cams : CameraTracks(c)
    BY <1>6 DEF Good, TrackersInv
  <2>2. ASSUME NEW c \in Cams PROVE CameraTracks(c)'
    <3>1. \A f \in Ids(work[c].new)' : f \in Nat /\ f \in Ids(work[c].new)
      BY <1>2 DEF TrackersTyped, Ids, Point
    <3>2. M[c] = {} /\ last'[c] = last[c] /\ work'[c] = work[c]
      OBVIOUS
    <3> HIDE DEF M
    <3>3. CASE c \in C
      <4>1. job[c] = "idle" /\ job'[c] # "idle" /\ images'[c] = Append(images[c], now') /\ now' \in Nat
        BY <1>3, <3>3
      <4> QED BY <1>1, <1>2, <2>1, <3>2, <4>1, CameraStarts
    <3>4. CASE c \notin C
      BY <1>1, <1>2, <1>3, <2>1, <3>1, <3>2, <3>4, CameraWaits
    <3> QED BY <3>3, <3>4
  <2>3. IdsInv'
    <3>1. \A c \in Cams : UniqueIds(Held(c)') /\ Ids(Held(c)') = Ids(Held(c)) /\ M[c] = {}
                          /\ work'[c].kept \subseteq last'[c]
                          /\ Ids(last'[c]) \cap Ids(work'[c].new) = {}
      BY <2>1 DEF IdsInv, Held
    <3>2. currid \in Nat /\ config' = config /\ currid' = currid
      BY <1>2 DEF TrackersTyped
    <3> HIDE DEF M
    <3> DEFINE G == [c \in Cams |-> {}]
    <3>3. G \in [Cams -> SUBSET Nat] /\ \A c \in Cams : G[c] = {}
      OBVIOUS
    <3> HIDE DEF G
    <3> QED BY <1>1, <1>2, <2>1, <3>1, <3>2, <3>3, IdsKeep
  <2> QED BY <2>2, <2>3
<1>7. Numbering' = Numbering
  BY DEF Numbering
<1> QED BY <1>4, <1>5, <1>6, <1>7 DEF Good, TrackersInv

\* A thread works on its image: its camera's new points are renewed or added to.
LEMMA WorkKeeps ==
  ASSUME Good, UNCHANGED kind, NEW c \in Cams, job[c] # "idle",
         NEW next \in {"begin", "detect", "track"}, job' = [job EXCEPT ![c] = next],
         NEW w \in [kept : SUBSET Point, new : SUBSET Point], work' = [work EXCEPT ![c] = w],
         w.kept \subseteq last[c], currid' \in Nat, currid <= currid',
         NEW g \in SUBSET Nat, \A f \in g : currid < f /\ f <= currid',
         UniqueIds(last[c] \cup w.new), Ids(last[c]) \cap Ids(w.new) = {}, Ids(w.new) \subseteq Ids(work[c].new) \cup g,
         UNCHANGED <<config, num_features, last, db, now, images>>
  PROVE  Good'
<1> DEFINE M == [k \in Cams |-> {}]
           G == [k \in Cams |-> IF k = c THEN g ELSE {}]
<1>1. M \in [Cams -> SUBSET Nat] /\ Measures(M) /\ DbTyped(db')
  BY Nothing
<1>2. TrackersTyped
  BY DEF Good, TrackersInv
<1>3. /\ work' \in [Cams -> [kept : SUBSET Point, new : SUBSET Point]] /\ work'[c] = w
      /\ \A k \in Cams : k # c => work'[k] = work[k]
      /\ job' \in [Cams -> {"idle", "begin", "detect", "track"}]
      /\ \A k \in Cams : job'[k] = "idle" <=> job[k] = "idle"
  BY <1>2 DEF TrackersTyped
<1>4. TrackersTyped'
  <2>1. FirstId \in Nat /\ currid \in Nat
    BY <1>2, TrackAssumption DEF TrackersTyped, FirstId
  <2>2. currid' \in Nat /\ FirstId <= currid'
    BY <1>2, <2>1 DEF TrackersTyped
  <2> QED BY <1>1, <1>2, <1>3, <2>2 DEF TrackersTyped, config, FirstId
<1>5. OrderInv'
  <2>1. \A k \in Cams : Until(k) <= Until(k)' /\ M[k] = {}
    BY <1>2, <1>3 DEF Until, TrackersTyped
  <2> HIDE DEF M
  <2> QED BY <1>1, <1>2, <2>1, OrderKeeps DEF Good, TrackersTyped
<1>6. ASSUME Numbering PROVE IdsInv' /\ \A k \in Cams : CameraTracks(k)'
  <2>1. IdsInv /\ \A k \in Cams : CameraTracks(k)
    BY <1>6 DEF Good, TrackersInv
  <2>2. ASSUME NEW k \in Cams PROVE CameraTracks(k)'
    <3>1. \A f \in g : f \notin DOMAIN db
      BY <1>2, <2>1 DEF IdsInv, TrackersTyped
    <3>2. \A f \in Ids(work'[k].new) : f \in Nat /\ (f \in Ids(work[k].new) \/ f \notin DOMAIN db)
      <4>1. \A f \in Ids(work'[k].new) : f \in Nat
        BY <1>3 DEF Ids, Point
      <4> QED BY <1>3, <3>1, <4>1
    <3>3. Ids(work[k].new)' = Ids(work'[k].new)
      BY DEF Ids
    <3>4. M[k] = {} /\ last'[k] = last[k] /\ images'[k] = images[k] /\ now' = now
      OBVIOUS
    <3> HIDE DEF M
    <3> QED BY <1>1, <1>2, <1>3, <2>1, <3>2, <3>3, <3>4, CameraWaits
  <2>3. IdsInv'
    <3>1. ASSUME NEW k \in Cams
          PROVE  /\ UniqueIds(Held(k)') /\ Ids(Held(k)') \subseteq Ids(Held(k)) \cup G[k] /\ M[k] = {}
                 /\ work'[k].kept \subseteq last'[k] /\ Ids(last'[k]) \cap Ids(work'[k].new) = {}
                 /\ \A f \in G[k] : currid < f /\ f <= currid'
                 /\ Pairing => job'[k] = "idle" /\ work'[k] = NoWork
      <4>1. ~Pairing
        BY <2>1 DEF IdsInv
      <4>2. CASE k = c
        <5>1. Held(k)' = last[c] \cup w.new
          BY <1>3, <4>2 DEF Held
        <5>2. Ids(Held(k)') \subseteq Ids(Held(k)) \cup g
          BY <4>2, <5>1 DEF Ids, Held
        <5>3. G[k] = g
          BY <4>2
        <5> HIDE DEF G
        <5> QED BY <1>3, <4>1, <4>2, <5>1, <5>2, <5>3
      <4>3. CASE k # c
        <5>1. Held(k)' = Held(k) /\ G[k] = {} /\ work'[k] = work[k]
          BY <1>3, <4>3 DEF Held
        <5> HIDE DEF G
        <5> QED BY <2>1, <4>1, <5>1 DEF IdsInv
      <4> QED BY <4>2, <4>3
    <3>2. currid \in Nat /\ config' = config
      BY <1>2 DEF TrackersTyped
    <3>3. G \in [Cams -> SUBSET Nat] /\ \A a, b \in Cams : a # b => G[a] \cap G[b] = {}
      OBVIOUS
    <3> HIDE DEF G, M
    <3> QED BY <1>1, <1>2, <2>1, <3>1, <3>2, <3>3, IdsKeep
  <2> QED BY <2>2, <2>3
<1>7. Numbering' = Numbering
  BY DEF Numbering
<1> QED BY <1>4, <1>5, <1>6, <1>7 DEF Good, TrackersInv

\* A thread ends with points P, measured unless they are a first image's.
LEMMA ForwardKeeps ==
  ASSUME Good, UNCHANGED kind, NEW c \in Cams, job[c] # "idle",
         NEW P \in SUBSET Point, UniqueIds(P), NEW Q, Q = P \/ (Q = {} /\ last[c] = {}),
         MoveForward(c, P, Q), Numbering => Ids(P) \subseteq Ids(Held(c))
  PROVE  Good'
<1> DEFINE M == [k \in Cams |-> IF k = c THEN Ids(Q) ELSE {}]
           G == [k \in Cams |-> {}]
<1>1. TrackersTyped
  BY DEF Good, TrackersInv
<1>2. /\ last' = [last EXCEPT ![c] = P] /\ now' = now /\ db' = Record(db, c, Q)
      /\ job' = [job EXCEPT ![c] = "idle"] /\ work' = [work EXCEPT ![c] = NoWork]
      /\ UNCHANGED <<config, num_features, currid, images>>
  BY DEF MoveForward, Replace
<1>3. /\ last' \in [Cams -> SUBSET Point] /\ last'[c] = P
      /\ \A k \in Cams : k # c => last'[k] = last[k]
      /\ work' \in [Cams -> [kept : SUBSET Point, new : SUBSET Point]]
      /\ work'[c].kept = {} /\ work'[c].new = {}
      /\ \A k \in Cams : k # c => work'[k] = work[k]
      /\ job' \in [Cams -> {"idle", "begin", "detect", "track"}] /\ job'[c] = "idle"
      /\ \A k \in Cams : k # c => job'[k] = job[k]
  BY <1>1, <1>2 DEF TrackersTyped, NoWork
<1>4. M \in [Cams -> SUBSET Nat] /\ Measures(M) /\ DbTyped(db')
  <2>1. Q \in SUBSET Point /\ UniqueIds(Q) /\ now' \in Nat /\ DbTyped(db)
    BY <1>1, <1>2 DEF TrackersTyped, UniqueIds
  <2>2. Measures(M)
    BY <1>2, <2>1, OneMeasured
  <2>3. Ids(Q) \subseteq Nat
    BY <2>1 DEF Ids, Point
  <2> QED BY <2>2, <2>3 DEF Measures
<1>5. M[c] = Ids(Q) /\ \A k \in Cams : k # c => M[k] = {}
  OBVIOUS
<1>6. Ids(Q) = Ids(P) \/ (Ids(Q) = {} /\ last[c] = {})
  BY DEF Ids
<1> HIDE DEF M
<1>7. TrackersTyped'
  BY <1>1, <1>2, <1>3, <1>4 DEF TrackersTyped, config, FirstId
<1>8. OrderInv'
  <2>1. \A k \in Cams : Until(k) <= Until(k)' /\ (M[k] # {} => Until(k) < now' /\ job'[k] = "idle")
    BY <1>1, <1>2, <1>3, <1>5 DEF Until, TrackersTyped
  <2> QED BY <1>1, <1>2, <1>4, <2>1, OrderKeeps DEF Good, TrackersTyped
<1>9. ASSUME Numbering PROVE IdsInv' /\ \A k \in Cams : CameraTracks(k)'
  <2>1. IdsInv /\ \A k \in Cams : CameraTracks(k)
    BY <1>9 DEF Good, TrackersInv
  <2>2. ASSUME NEW k \in Cams PROVE CameraTracks(k)'
    <3>1. \A f \in Ids(work[k].new) : f \in Nat
      BY <1>1 DEF TrackersTyped, Ids, Point
    <3>2. CASE k = c
      BY <1>1, <1>2, <1>3, <1>4, <1>5, <1>6, <1>9, <2>1, <3>2, CameraDone
    <3>3. CASE k # c
      <4>1. /\ M[k] = {} /\ images'[k] = images[k] /\ last'[k] = last[k] /\ job'[k] = job[k]
            /\ Ids(work[k].new)' = Ids(work[k].new)
        BY <1>2, <1>3, <1>5, <3>3 DEF Ids
      <4> QED BY <1>1, <1>2, <1>4, <2>1, <3>1, <4>1, CameraWaits
    <3> QED BY <3>2, <3>3
  <2>3. IdsInv'
    <3>1. ASSUME NEW k \in Cams
          PROVE  /\ UniqueIds(Held(k)') /\ Ids(Held(k)') \subseteq Ids(Held(k))
                 /\ M[k] \subseteq Ids(Held(k)') /\ work'[k].kept \subseteq last'[k]
                 /\ Ids(last'[k]) \cap Ids(work'[k].new) = {} /\ ~Pairing
      <4>1. ~Pairing
        BY <2>1 DEF IdsInv
      <4>2. CASE k = c
        <5>1. Held(k)' = P /\ Ids(work'[k].new) = {}
          BY <1>3, <4>2 DEF Held, Ids
        <5> QED BY <1>3, <1>5, <1>6, <1>9, <4>1, <4>2, <5>1
      <4>3. CASE k # c
        <5>1. Held(k)' = Held(k) /\ M[k] = {} /\ work'[k] = work[k] /\ last'[k] = last[k]
          BY <1>3, <1>5, <4>3 DEF Held
        <5> QED BY <2>1, <4>1, <5>1 DEF IdsInv
      <4> QED BY <4>2, <4>3
    <3>2. currid \in Nat /\ config' = config /\ currid' = currid
      BY <1>1, <1>2 DEF TrackersTyped
    <3>3. G \in [Cams -> SUBSET Nat] /\ \A a \in Cams : G[a] = {}
      OBVIOUS
    <3> HIDE DEF G
    <3> QED BY <1>1, <1>4, <2>1, <3>1, <3>2, <3>3, IdsKeep
  <2> QED BY <2>2, <2>3
<1>10. Numbering' = Numbering
  BY DEF Numbering
<1> QED BY <1>7, <1>8, <1>9, <1>10 DEF Good, TrackersInv

LEMMA PairIs == ASSUME TrackersTyped, Pairing PROVE cams = {0, 1} /\ Cams = {0, 1}
<1>1. cams \in Rigs /\ Rigs \subseteq {{0}, {0, 1}}
  BY TrackAssumption DEF TrackersTyped
<1>2. Cardinality({0}) = 1
  BY FS_Singleton
<1>3. cams # {0}
  BY <1>2 DEF Pairing
<1>4. \A g \in Rigs : g \subseteq {0, 1}
  BY <1>1
<1> QED BY <1>1, <1>3, <1>4 DEF Cams

\* A stereo pair is tracked: to left points L and right points R.
LEMMA PairKeeps ==
  ASSUME Good, UNCHANGED kind, Numbering, Pairing, Arrives(cams),
         UNCHANGED <<config, num_features, job, work>>,
         NEW L \in SUBSET Point, NEW R \in SUBSET Point, UniqueIds(L), UniqueIds(R),
         last' = [c \in Cams |-> IF c = 0 THEN L ELSE R],
         currid' \in Nat, currid <= currid',
         NEW M \in [Cams -> SUBSET Nat], Measures(M),
         \A c \in Cams : \A f \in Ids(last'[c]) :
           (currid < f /\ f <= currid') \/ (f \in M[c] /\ f \in Ids(last[c])),
         \A c \in Cams : M[c] \subseteq Ids(last'[c])
  PROVE  Good'
<1> DEFINE G == [c \in Cams |-> {f \in Nat : currid < f /\ f <= currid'}]
<1>1. TrackersTyped /\ IdsInv /\ \A c \in Cams : CameraTracks(c)
  BY DEF Good, TrackersInv
<1>2. /\ now \in Nat /\ now' = now + 1 /\ \A c \in Cams : job[c] = "idle" /\ job'[c] = "idle"
      /\ \A c \in Cams : work[c].new = {} /\ work'[c] = NoWork /\ work'[c].kept = {}
      /\ work' = work /\ job' = job
  BY <1>1 DEF Arrives, TrackersTyped, IdsInv, NoWork
<1>3. cams = Cams
  BY <1>1, PairIs
<1>4. /\ \A c \in Cams : images'[c] = Append(images[c], now')
      /\ images' \in [Cams -> Seq(Nat)]
  BY <1>1, <1>2, <1>3 DEF Arrives, TrackersTyped
<1>5. last' \in [Cams -> SUBSET Point] /\ \A c \in Cams : last'[c] = L \/ last'[c] = R
  OBVIOUS
<1>6. TrackersTyped'
  <2>1. FirstId \in Nat /\ currid \in Nat
    BY <1>1, TrackAssumption DEF TrackersTyped, FirstId
  <2>2. currid' \in Nat /\ FirstId <= currid'
    BY <1>1, <2>1 DEF TrackersTyped
  <2>3. DbTyped(db')
    BY DEF Measures
  <2> QED BY <1>1, <1>2, <1>4, <1>5, <2>2, <2>3 DEF TrackersTyped, config, FirstId
<1>7. OrderInv'
  <2>1. \A c \in Cams : Until(c) <= Until(c)' /\ (M[c] # {} => Until(c) < now' /\ job'[c] = "idle")
    BY <1>2 DEF Until
  <2> QED BY <1>1, <1>2, <2>1, OrderKeeps DEF Good, TrackersTyped
<1>8. ASSUME NEW c \in Cams PROVE CameraTracks(c)'
  <2>1. \A f \in Ids(last'[c]) : f \notin DOMAIN db \/ (f \in M[c] /\ f \in Ids(last[c]))
    <3>1. \A f \in DOMAIN db : f \in Nat /\ f <= currid
      BY <1>1 DEF IdsInv, TrackersTyped, DbTyped
    <3>2. \A f \in Ids(last'[c]) : f \in Nat
      BY <1>5 DEF Ids, Point
    <3>3. currid \in Nat
      BY <1>1 DEF TrackersTyped
    <3> QED BY <3>1, <3>2, <3>3
  <2>2. last'[c] \in SUBSET Point /\ work'[c].new = {} /\ M[c] \subseteq Ids(last'[c])
    BY <1>2, <1>5
  <2>3. job[c] = "idle" /\ job'[c] = "idle" /\ now' \in Nat /\ images'[c] = Append(images[c], now')
    BY <1>2, <1>4
  <2> QED BY <1>1, <2>1, <2>2, <2>3, CameraOfPair
<1>9. IdsInv'
  <2>1. \A c \in Cams : Held(c) = last[c] /\ Held(c)' = last'[c]
    BY <1>2 DEF Held
  <2>2. currid \in Nat /\ config' = config /\ use_stereo
    BY <1>1 DEF TrackersTyped, Pairing
  <2>3. G \in [Cams -> SUBSET Nat] /\ \A c \in Cams : G[c] = {f \in Nat : currid < f /\ f <= currid'}
    OBVIOUS
  <2> HIDE DEF G
  <2>4. ASSUME NEW c \in Cams
        PROVE  /\ UniqueIds(Held(c)') /\ work'[c].kept \subseteq last'[c]
               /\ Ids(last'[c]) \cap Ids(work'[c].new) = {}
               /\ Ids(Held(c)') \subseteq Ids(Held(c)) \cup G[c] /\ M[c] \subseteq Ids(Held(c)')
    <3>1. \A f \in Ids(last'[c]) : f \in Nat
      BY <1>5 DEF Ids, Point
    <3>2. UniqueIds(last'[c])
      BY <1>5
    <3>3. Ids(work'[c].new) = {}
      BY <1>2 DEF Ids, NoWork
    <3> QED BY <1>2, <2>1, <2>3, <3>1, <3>2, <3>3
  <2>5. \A c \in Cams : \A f \in G[c] : currid < f /\ f <= currid'
    BY <2>3
  <2> QED BY <1>1, <1>2, <2>2, <2>3, <2>4, <2>5, IdsKeep
<1>10. Numbering' = Numbering
  BY DEF Numbering
<1> QED BY <1>6, <1>7, <1>8, <1>9, <1>10 DEF Good, TrackersInv

LEMMA JoinedIds ==
  ASSUME NEW P, NEW Q, UniqueIds(P), UniqueIds(Q), Ids(P) \cap Ids(Q) = {}
  PROVE  UniqueIds(P \cup Q)
  BY DEF UniqueIds, Ids

LEMMA HeldIs ==
  ASSUME Good, Numbering, NEW c \in Cams
  PROVE  /\ last[c] \in SUBSET Point /\ work[c].new \in SUBSET Point /\ work[c].kept \in SUBSET Point
         /\ UniqueIds(Held(c)) /\ UniqueIds(last[c]) /\ work[c].kept \subseteq last[c]
         /\ Ids(last[c]) \cap Ids(work[c].new) = {}
         /\ Held(c) \in SUBSET Point /\ currid \in Nat
         /\ \A f \in Ids(Held(c)) : f \in Nat /\ f <= currid
<1>1. TrackersTyped /\ IdsInv
  BY DEF Good, TrackersInv
<1>2. last[c] \in SUBSET Point /\ work[c].new \in SUBSET Point /\ work[c].kept \in SUBSET Point
  BY <1>1 DEF TrackersTyped
<1>3. \A f \in Ids(Held(c)) : f \in Nat /\ f <= currid
  BY <1>1, <1>2 DEF IdsInv, Held, Ids, Point
<1>4. /\ UniqueIds(Held(c)) /\ work[c].kept \subseteq last[c] /\ last[c] \subseteq Held(c)
      /\ Ids(last[c]) \cap Ids(work[c].new) = {}
  BY <1>1 DEF IdsInv, Held
<1> QED BY <1>1, <1>2, <1>3, <1>4, FewerIds DEF Held, TrackersTyped

\* Detection of a feature, in a camera's thread.
LEMMA DetectKeeps ==
  ASSUME Good, Numbering, UNCHANGED kind, NEW c \in Cams, job[c] = "detect", NEW x \in Int,
         AddDetected(c, x)
  PROVE  Good'
<1> DEFINE p == [id |-> currid + 1, at |-> x]
           w == [kept |-> work[c].kept, new |-> work[c].new \cup {p}]
           g == {currid + 1}
<1>1. /\ last[c] \in SUBSET Point /\ work[c].new \in SUBSET Point /\ work[c].kept \in SUBSET Point
      /\ UniqueIds(Held(c)) /\ work[c].kept \subseteq last[c] /\ currid \in Nat
      /\ Ids(last[c]) \cap Ids(work[c].new) = {}
      /\ \A f \in Ids(Held(c)) : f \in Nat /\ f <= currid
  BY HeldIs
<1>2. work \in [Cams -> [kept : SUBSET Point, new : SUBSET Point]]
      /\ job \in [Cams -> {"idle", "begin", "detect", "track"}]
  BY DEF Good, TrackersInv, TrackersTyped
<1>3. work' = [work EXCEPT ![c] = w] /\ job' = [job EXCEPT ![c] = "detect"]
  <2>1. [work[c] EXCEPT !.new = @ \cup {p}] = w
    <3>1. work[c] \in [kept : SUBSET Point, new : SUBSET Point]
      BY <1>2
    <3> HIDE DEF p
    <3> QED BY <3>1
  <2>2. work' = [work EXCEPT ![c] = [work[c] EXCEPT !.new = @ \cup {p}]]
    BY <1>2 DEF AddDetected
  <2>3. job' = [job EXCEPT ![c] = "detect"]
    BY <1>2 DEF AddDetected
  <2> HIDE DEF w
  <2> QED BY <2>1, <2>2, <2>3
<1>4. /\ currid' = currid + 1 /\ UNCHANGED <<config, num_features, last, db, now, images>>
  BY DEF AddDetected, TakeId
<1>5. p \in Point /\ w \in [kept : SUBSET Point, new : SUBSET Point]
  BY <1>1 DEF Point
<1>6. UniqueIds(last[c] \cup w.new)
  <2>1. p.id = currid + 1 /\ last[c] \cup w.new = Held(c) \cup {p}
    BY DEF Held
  <2>2. ASSUME NEW q \in Held(c) PROVE q.id # currid + 1
    <3>1. q.id \in Ids(Held(c))
      BY DEF Ids
    <3> QED BY <1>1, <3>1
  <2> HIDE DEF p
  <2> QED BY <1>1, <2>1, <2>2 DEF UniqueIds
<1>7. Ids(w.new) \subseteq Ids(work[c].new) \cup g
  BY DEF Ids
<1>7a. Ids(last[c]) \cap Ids(w.new) = {}
  <2>1. \A f \in Ids(last[c]) : f \in Nat /\ f <= currid
    BY <1>1 DEF Ids, Held
  <2> HIDE DEF w
  <2> QED BY <1>1, <1>7, <2>1
<1>8. w.kept \subseteq last[c] /\ g \in SUBSET Nat /\ \A f \in g : currid < f /\ f <= currid'
  BY <1>1, <1>4
<1>9. currid' \in Nat /\ currid <= currid'
  BY <1>1, <1>4
<1> HIDE DEF w, g
<1> QED BY <1>3, <1>4, <1>5, <1>6, <1>7, <1>7a, <1>8, <1>9, WorkKeeps

LEMMA DetectionDoneKeeps ==
  ASSUME Good, Numbering, UNCHANGED kind, NEW c \in Cams, DetectionDone(c)
  PROVE  Good'
<1> DEFINE w == work[c]
           g == {}
<1>1. /\ last[c] \in SUBSET Point /\ UniqueIds(Held(c)) /\ w.kept \subseteq last[c] /\ currid \in Nat
      /\ Ids(last[c]) \cap Ids(w.new) = {}
  BY HeldIs
<1>2. w \in [kept : SUBSET Point, new : SUBSET Point] /\ work = [work EXCEPT ![c] = w]
  BY DEF Good, TrackersInv, TrackersTyped
<1>3. /\ job[c] # "idle" /\ job' = [job EXCEPT ![c] = "track"] /\ work' = work /\ currid' = currid
      /\ UNCHANGED <<config, num_features, last, db, now, images>>
  BY DEF DetectionDone
<1>4. /\ UniqueIds(last[c] \cup w.new) /\ Ids(w.new) \subseteq Ids(work[c].new) \cup g
      /\ g \in SUBSET Nat /\ \A f \in g : currid < f /\ f <= currid'
  BY <1>1 DEF Held
<1>5. work' = [work EXCEPT ![c] = w] /\ currid' \in Nat /\ currid <= currid'
  BY <1>1, <1>2, <1>3
<1> HIDE DEF w, g
<1> QED BY <1>1, <1>2, <1>3, <1>4, <1>5, WorkKeeps

LEMMA UnchangedKeeps ==
  ASSUME Good, UNCHANGED kind, num_features' \in Nat,
         UNCHANGED <<config, currid, last, db, now, images, job, work>>
  PROVE  Good'
<1>1. TrackersTyped => TrackersTyped'
  BY DEF TrackersTyped, config, DbTyped, FirstId
<1>2. OrderInv' <=> OrderInv
  BY DEF OrderInv, Until, Ordered, TrackOf
<1>3. IdsInv' <=> IdsInv
  BY DEF IdsInv, Held, Ids, UniqueIds, Pairing, config
<1>4. (\A c \in Cams : CameraTracks(c))' <=> \A c \in Cams : CameraTracks(c)
  BY DEF CameraTracks, Newest, TrackOf, Ids, Part
<1>5. Numbering' <=> Numbering
  BY DEF Numbering
<1> QED BY <1>1, <1>2, <1>3, <1>4, <1>5 DEF Good, TrackersInv

-----------------------------------------------------------------------------
(***************************************************************************)
(* Optical flow.                                                           *)
(***************************************************************************)
LEMMA KltIsTracker ==
  /\ KLT!Cams = Cams /\ KLT!Cells = Cells /\ \A P : KLT!Ids(P) = Ids(P)
  /\ \A S : KLT!Cardinality(S) = Cardinality(S)
  /\ \A d, c, P : KLT!Record(d, c, P) = Record(d, c, P)
  /\ \A C : (KLT!Arrives(C) <=> Arrives(C)) /\ (KLT!Monocular(C) <=> Monocular(C))
  /\ \A c, P, Q : KLT!MoveForward(c, P, Q) <=> MoveForward(c, P, Q)
  /\ \A c, x : KLT!AddDetected(c, x) <=> AddDetected(c, x)
  /\ \A c : KLT!DetectionDone(c) <=> DetectionDone(c)
<1>1. \A S : KLT!Cardinality(S) = Cardinality(S)
  BY DEF KLT!Cardinality, Cardinality
<1>2. KLT!Cams = Cams /\ KLT!Cells = Cells /\ \A P : KLT!Ids(P) = Ids(P)
  BY DEF KLT!Cams, Cams, KLT!Cells, Cells, KLT!Ids, Ids
<1>3. \A d, c, P : KLT!Record(d, c, P) = Record(d, c, P)
  BY DEF KLT!Record, Record, KLT!Ids, Ids, KLT!Cardinality, Cardinality
<1>4. \A C : (KLT!Arrives(C) <=> Arrives(C)) /\ (KLT!Monocular(C) <=> Monocular(C))
  BY <1>1, <1>2 DEF KLT!Arrives, Arrives, KLT!Monocular, Monocular
<1>5. \A c, P, Q : KLT!MoveForward(c, P, Q) <=> MoveForward(c, P, Q)
  BY <1>3 DEF KLT!MoveForward, MoveForward, KLT!Replace, Replace, KLT!NoWork, NoWork, KLT!config, config
<1>6. \A c, x : KLT!AddDetected(c, x) <=> AddDetected(c, x)
  BY DEF KLT!AddDetected, AddDetected, KLT!TakeId, TakeId, KLT!config, config
<1>7. \A c : KLT!DetectionDone(c) <=> DetectionDone(c)
  BY DEF KLT!DetectionDone, DetectionDone, KLT!config, config
<1> QED BY <1>1, <1>2, <1>3, <1>4, <1>5, <1>6, <1>7

\* Points found again are points of the last image, at other places.
LEMMA MovedIs ==
  ASSUME NEW P \in SUBSET Point, UniqueIds(P), NEW m, DOMAIN m \subseteq P,
         \A p \in DOMAIN m : m[p] \in Places
  PROVE  /\ KLT!Moved(m) \in SUBSET Point /\ UniqueIds(KLT!Moved(m))
         /\ Ids(KLT!Moved(m)) \subseteq Ids(P)
<1>1. Places \subseteq Int
  BY TrackAssumption DEF Edge, Border, Outside
<1>2. DOMAIN m \subseteq P /\ \A p \in DOMAIN m : m[p] \in Int
  BY <1>1
<1>3. \A q \in KLT!Moved(m) : \E p \in DOMAIN m : q = [id |-> p.id, at |-> m[p]]
  BY DEF KLT!Moved
<1>4. KLT!Moved(m) \in SUBSET Point
  BY <1>2, <1>3 DEF Point
<1>5. UniqueIds(KLT!Moved(m))
  <2> SUFFICES ASSUME NEW q \in KLT!Moved(m), NEW r \in KLT!Moved(m), q.id = r.id PROVE q = r
    BY DEF UniqueIds
  <2>1. PICK a \in DOMAIN m : q = [id |-> a.id, at |-> m[a]]
    BY <1>3
  <2>2. PICK b \in DOMAIN m : r = [id |-> b.id, at |-> m[b]]
    BY <1>3
  <2>3. a = b
    BY <1>2, <2>1, <2>2 DEF UniqueIds
  <2> QED BY <2>1, <2>2, <2>3
<1>6. Ids(KLT!Moved(m)) \subseteq Ids(P)
  BY <1>2, <1>3 DEF Ids
<1> QED BY <1>4, <1>5, <1>6

LEMMA MatchingIs ==
  ASSUME NEW P, NEW m \in KLT!perform_matching(P)
  PROVE  DOMAIN m \subseteq P /\ \A p \in DOMAIN m : m[p] \in Places
<1>1. CASE m = <<>>
  BY <1>1
<1>2. CASE m # <<>>
  <2>1. PICK S \in SUBSET P : m \in [S -> Places]
    BY <1>2 DEF KLT!perform_matching
  <2> QED BY <2>1
<1> QED BY <1>1, <1>2

LEMMA FreeIs == ASSUME NEW P, NEW m, NEW e PROVE KLT!Free(P, m, e) \subseteq Cells
<1>1. KLT!Extractable(P, m) \subseteq UNION Grid
  BY Zenon DEF KLT!Extractable
<1> QED BY <1>1 DEF KLT!Free, Cells

LEMMA ApartIs == ASSUME NEW C, Monocular(C) PROVE ~Pairing
  BY DEF Monocular, Pairing

LEMMA CamsOf == ASSUME TrackersTyped PROVE cams \subseteq Cams
  BY DEF TrackersTyped, Cams

LEMMA KltMonocularKeeps ==
  ASSUME Good, kind = "klt", UNCHANGED kind,
         \/ \E C \in SUBSET KLT!Cams : KLT!FeedMonocular(C)
         \/ \E c \in KLT!Cams : KLT!DropPoints(c) \/ KLT!Detect(c) \/ KLT!DetectionDone(c) \/ KLT!Track(c)
  PROVE  Good'
<1>1. Numbering /\ TrackersTyped /\ KLT!Cams = Cams
  BY KltIsTracker DEF Numbering, Good, TrackersInv
<1>2. ASSUME NEW C \in SUBSET KLT!Cams, KLT!FeedMonocular(C) PROVE Good'
  <2>1. C \in SUBSET Cams /\ Arrives(C) /\ Monocular(C)
    BY <1>1, <1>2, KltIsTracker DEF KLT!FeedMonocular
  <2>2. /\ job' = [c \in Cams |-> IF c \in C THEN "begin" ELSE "idle"]
        /\ UNCHANGED <<config, num_features, currid, last, db, work>>
    BY <1>1, <1>2 DEF KLT!FeedMonocular, KLT!config, config
  <2> QED BY <2>1, <2>2, ApartIs, StartKeeps
<1>3. ASSUME NEW c \in KLT!Cams, KLT!DropPoints(c) PROVE Good'
  <2>0. c \in Cams /\ job[c] = "begin"
    BY <1>1, <1>3 DEF KLT!DropPoints
  <2>1. /\ last[c] \in SUBSET Point /\ UniqueIds(last[c]) /\ currid \in Nat
    BY <1>1, <2>0, HeldIs
  <2>2. PICK K \in KLT!Keeps(last[c], masks[c]) :
          /\ work' = [work EXCEPT ![c] = [kept |-> K, new |-> {}]]
          /\ job' = [job EXCEPT ![c] = IF num_features - KLT!Cardinality(K) < KLT!Enough THEN "track" ELSE "detect"]
    BY <1>3 DEF KLT!DropPoints
  <2>3. K \subseteq last[c]
    BY <2>2 DEF KLT!Keeps
  <2> DEFINE w == [kept |-> K, new |-> {}]
             g == {}
             next == IF num_features - KLT!Cardinality(K) < KLT!Enough THEN "track" ELSE "detect"
  <2>4. w \in [kept : SUBSET Point, new : SUBSET Point] /\ w.kept \subseteq last[c] /\ w.new = {}
    BY <2>1, <2>3
  <2>5. /\ UniqueIds(last[c] \cup w.new) /\ Ids(w.new) \subseteq Ids(work[c].new) \cup g
        /\ Ids(last[c]) \cap Ids(w.new) = {}
    BY <2>1 DEF Ids
  <2>6. g \in SUBSET Nat /\ \A f \in g : currid < f /\ f <= currid'
    OBVIOUS
  <2>7. next \in {"begin", "detect", "track"} /\ job' = [job EXCEPT ![c] = next]
    BY <2>2
  <2>8. UNCHANGED <<config, num_features, currid, last, db, now, images>>
    BY <1>3 DEF KLT!DropPoints, KLT!config, config
  <2>9. work' = [work EXCEPT ![c] = w] /\ job[c] # "idle" /\ currid' \in Nat /\ currid <= currid'
    BY <2>0, <2>1, <2>2, <2>8
  <2> HIDE DEF w, g, next
  <2> QED BY <2>0, <2>4, <2>5, <2>6, <2>7, <2>8, <2>9, WorkKeeps
<1>4. ASSUME NEW c \in KLT!Cams, KLT!Detect(c) PROVE Good'
  <2>1. PICK x \in KLT!Free(work[c].kept, masks[c], masks[c]) : KLT!AddDetected(c, x)
    BY <1>4 DEF KLT!Detect
  <2>2. x \in Int
    <3>1. x \in Cells
      BY <2>1, FreeIs
    <3> QED BY <3>1, TrackAssumption
  <2>3. c \in Cams /\ job[c] = "detect" /\ AddDetected(c, x)
    BY <1>1, <1>4, <2>1, KltIsTracker DEF KLT!Detect
  <2> QED BY <1>1, <2>2, <2>3, DetectKeeps
<1>5. ASSUME NEW c \in KLT!Cams, KLT!DetectionDone(c) PROVE Good'
  BY <1>1, <1>5, KltIsTracker, DetectionDoneKeeps
<1>6. ASSUME NEW c \in KLT!Cams, KLT!Track(c) PROVE Good'
  <2> DEFINE P == work[c].kept \cup work[c].new
  <2>1. c \in Cams /\ job[c] # "idle"
    BY <1>1, <1>6 DEF KLT!Track
  <2>2. P \in SUBSET Point /\ P \subseteq Held(c) /\ UniqueIds(P) /\ Ids(P) \subseteq Ids(Held(c))
    <3>1. P \subseteq Held(c) /\ Held(c) \in SUBSET Point /\ UniqueIds(Held(c))
      BY <1>1, <2>1, HeldIs DEF Held
    <3> QED BY <3>1, FewerIds
  <2>3. CASE last[c] = {}
    <3>1. MoveForward(c, P, {})
      BY <1>6, <2>3, KltIsTracker DEF KLT!Track
    <3> HIDE DEF P
    <3> QED BY <2>1, <2>2, <2>3, <3>1, ForwardKeeps
  <2>4. CASE last[c] # {}
    <3>1. PICK m \in KLT!perform_matching(P) :
            LET good == {p \in KLT!Moved(m) : KLT!InImage(p.at) /\ p.at \notin masks[c]}
            IN  KLT!MoveForward(c, good, good)
      BY <1>6, <2>4 DEF KLT!Track
    <3> DEFINE good == {p \in KLT!Moved(m) : KLT!InImage(p.at) /\ p.at \notin masks[c]}
    <3>2. MoveForward(c, good, good)
      BY <3>1, KltIsTracker
    <3>3. good \subseteq KLT!Moved(m)
      OBVIOUS
    <3> HIDE DEF P, good
    <3>4. KLT!Moved(m) \in SUBSET Point /\ UniqueIds(KLT!Moved(m)) /\ Ids(KLT!Moved(m)) \subseteq Ids(P)
      <4>1. DOMAIN m \subseteq P /\ \A p \in DOMAIN m : m[p] \in Places
        BY MatchingIs
      <4> QED BY <2>2, <4>1, MovedIs
    <3>5. good \in SUBSET Point /\ UniqueIds(good) /\ Ids(good) \subseteq Ids(Held(c))
      BY <2>2, <3>3, <3>4, FewerIds
    <3> QED BY <2>1, <3>2, <3>5, ForwardKeeps
  <2> QED BY <2>3, <2>4
<1> QED BY <1>2, <1>3, <1>4, <1>5, <1>6

\* Features are numbered one after the other.
LEMMA NumberedIs ==
  ASSUME NEW N \in SUBSET Cells, NEW from \in Nat
  PROVE  /\ KLT!Numbered(N, from) \in SUBSET Point /\ UniqueIds(KLT!Numbered(N, from))
         /\ Cardinality(N) \in Nat /\ Cardinality(KLT!Numbered(N, from)) = Cardinality(N)
         /\ \A f \in Ids(KLT!Numbered(N, from)) : from < f /\ f <= from + Cardinality(N)
<1> DEFINE Below(x) == {y \in N : y <= x}
           n == [x \in N |-> Cardinality(Below(x))]
           P == KLT!Numbered(N, from)
<1>1. IsFiniteSet(N) /\ N \subseteq Nat /\ Cardinality(N) \in Nat
  BY TrackAssumption, FS_Subset, FS_CardinalityType
<1>2. ASSUME NEW x \in N PROVE IsFiniteSet(Below(x)) /\ n[x] \in Nat /\ 0 < n[x] /\ n[x] <= Cardinality(N)
  <2>1. Below(x) \subseteq N /\ x \in Below(x)
    BY <1>1
  <2>2. IsFiniteSet(Below(x)) /\ Cardinality(Below(x)) \in Nat /\ Cardinality(Below(x)) <= Cardinality(N)
    BY <1>1, <2>1, FS_Subset, FS_CardinalityType
  <2>3. Cardinality(Below(x)) # 0
    BY <2>1, <2>2, FS_EmptySet
  <2> HIDE DEF Below
  <2> QED BY <2>2, <2>3
<1>3. ASSUME NEW x \in N, NEW y \in N, x < y PROVE n[x] < n[y]
  <2>1. Below(x) \subseteq Below(y) /\ y \in Below(y) /\ y \notin Below(x)
    <3>1. x \in Nat /\ y \in Nat /\ \A z \in N : z \in Nat
      BY <1>1
    <3>2. \A z \in N : z <= x => z <= y
      BY <1>3, <3>1
    <3>3. ~(y <= x) /\ y <= y
      BY <1>3, <3>1
    <3> QED BY <3>2, <3>3
  <2>2. IsFiniteSet(Below(y)) /\ IsFiniteSet(Below(x))
    BY <1>2
  <2>3. Cardinality(Below(x)) < Cardinality(Below(y))
    <3>1. /\ Cardinality(Below(x)) <= Cardinality(Below(y))
          /\ Cardinality(Below(x)) = Cardinality(Below(y)) => Below(x) = Below(y)
      BY <2>1, <2>2, FS_Subset
    <3>2. Cardinality(Below(x)) \in Nat /\ Cardinality(Below(y)) \in Nat
      BY <2>2, FS_CardinalityType
    <3>3. Below(x) # Below(y)
      BY <2>1
    <3> HIDE DEF Below
    <3> QED BY <3>1, <3>2, <3>3
  <2> HIDE DEF Below
  <2> QED BY <2>3
<1>4. P = {[id |-> from + n[x], at |-> x] : x \in N}
  <2>1. \A x \in N : KLT!Cardinality({y \in N : y <= x}) = n[x]
    BY KltIsTracker
  <2> HIDE DEF n
  <2> QED BY <2>1 DEF KLT!Numbered
<1> HIDE DEF n, P, Below
<1>5. P \in SUBSET Point
  BY <1>1, <1>2, <1>4 DEF Point
<1>6. UniqueIds(P)
  <2> SUFFICES ASSUME NEW p \in P, NEW q \in P, p.id = q.id PROVE p = q
    BY DEF UniqueIds
  <2>1. PICK x \in N : p = [id |-> from + n[x], at |-> x]
    BY <1>4
  <2>2. PICK y \in N : q = [id |-> from + n[y], at |-> y]
    BY <1>4
  <2>3. n[x] = n[y]
    BY <1>2, <2>1, <2>2
  <2>4. x = y
    BY <1>1, <1>2, <1>3, <2>3
  <2> QED BY <2>1, <2>2, <2>4
<1>7. \A f \in Ids(P) : from < f /\ f <= from + Cardinality(N)
  <2> SUFFICES ASSUME NEW p \in P PROVE from < p.id /\ p.id <= from + Cardinality(N)
    BY DEF Ids
  <2>1. PICK x \in N : p = [id |-> from + n[x], at |-> x]
    BY <1>4
  <2> QED BY <1>1, <1>2, <2>1
<1>8. Cardinality(P) = Cardinality(N)
  <2> DEFINE b == [x \in N |-> [id |-> from + n[x], at |-> x]]
  <2>1. b \in Bijection(N, P)
    <3>1. b \in [N -> P] /\ \A p \in P : \E x \in N : b[x] = p
      BY <1>4
    <3>2. \A x, y \in N : b[x] = b[y] => x = y
      OBVIOUS
    <3> HIDE DEF b
    <3> QED BY <3>1, <3>2 DEF Bijection, Injection, Surjection, IsInjective
  <2> QED BY <1>1, <2>1, FS_Bijection DEF ExistsBijection
<1> QED BY <1>1, <1>5, <1>6, <1>7, <1>8 DEF P

\* What a point of camera c may be called when a stereo pair is detected up to id n.
OldOrNew(P, c, n) == \A f \in Ids(P) : f \in Ids(last[c]) \/ (currid < f /\ f <= n)

\* Where it is kept, and what else the left detection adds.
LEMMA DetectLeftIs ==
  ASSUME Good, Numbering, Pairing, NEW l \in KLT!DetectLeft
  PROVE  /\ l.kept \in SUBSET Point /\ l.kept \subseteq last[0]
         /\ l.new \in SUBSET Point /\ UniqueIds(l.new) /\ Cardinality(l.new) \in Nat
         /\ \A f \in Ids(l.new) : currid < f /\ f <= currid + Cardinality(l.new)
         /\ UniqueIds(l.kept \cup l.new)
<1>1. TrackersTyped /\ 0 \in Cams
  BY PairIs DEF Good, TrackersInv
<1>2. PICK K \in KLT!Keeps(last[0], masks[0]) :
        l \in {[kept |-> K, new |-> KLT!Numbered(N, currid)] :
                 N \in IF num_features - KLT!Cardinality(K) > KLT!Enough
                       THEN SUBSET KLT!Free(K, masks[0], masks[0]) ELSE {{}}}
  BY Zenon DEF KLT!DetectLeft, KLT!LeftCam
<1>2a. PICK N \in SUBSET Cells : l = [kept |-> K, new |-> KLT!Numbered(N, currid)]
  <2>1. KLT!Free(K, masks[0], masks[0]) \subseteq Cells
    BY FreeIs
  <2> QED BY <1>2, <2>1
<1>3. K \subseteq last[0]
  BY DEF KLT!Keeps
<1>4. /\ last[0] \in SUBSET Point /\ UniqueIds(last[0]) /\ currid \in Nat
      /\ \A f \in Ids(last[0]) : f \in Nat /\ f <= currid
  BY <1>1, HeldIs DEF Held, Ids
<1>5. /\ l.new \in SUBSET Point /\ UniqueIds(l.new)
      /\ Cardinality(N) \in Nat /\ Cardinality(l.new) = Cardinality(N)
      /\ \A f \in Ids(l.new) : currid < f /\ f <= currid + Cardinality(N)
  BY <1>2a, <1>4, NumberedIs
<1>6. UniqueIds(K) /\ Ids(K) \subseteq Ids(last[0])
  BY <1>3, <1>4, FewerIds
<1>7. Ids(K) \cap Ids(l.new) = {}
  BY <1>4, <1>5, <1>6
<1>8. UniqueIds(K \cup l.new) /\ l.kept = K
  BY <1>2a, <1>5, <1>6, <1>7, JoinedIds
<1> QED BY <1>3, <1>4, <1>5, <1>8

LEMMA KltDetection ==
  ASSUME Good, Numbering, Pairing, NEW d \in KLT!perform_detection_stereo
  PROVE  /\ d.left \in SUBSET Point /\ UniqueIds(d.left) /\ OldOrNew(d.left, 0, d.currid)
         /\ d.right \in SUBSET Point /\ UniqueIds(d.right) /\ OldOrNew(d.right, 1, d.currid)
         /\ d.currid \in Nat /\ currid <= d.currid
<1>1. TrackersTyped /\ 0 \in Cams /\ 1 \in Cams
  BY PairIs DEF Good, TrackersInv
<1> DEFINE Found(l, r) ==
             UNION {{[left |-> l.kept \cup l.new,
                      right |-> K \cup KLT!Numbered(N, currid + KLT!Cardinality(l.new)),
                      currid |-> currid + KLT!Cardinality(l.new) + KLT!Cardinality(N)] :
                       N \in IF num_features - KLT!Cardinality(K) > KLT!Enough
                             THEN SUBSET KLT!Free(K, masks[1], KLT!mask1_updated) ELSE {{}}} :
                     K \in KLT!KeepsRight(last[1] \cup KLT!Moved(r), KLT!Ids(l.kept \cup l.new))}
<1>2. PICK l \in KLT!DetectLeft : d \in UNION {Found(l, r) : r \in KLT!TrackRight(l.new)}
  BY Zenon DEF KLT!perform_detection_stereo, KLT!RightCam
<1>2a. PICK r \in KLT!TrackRight(l.new) : d \in Found(l, r)
  BY <1>2, Zenon
<1>2b. \E K \in KLT!KeepsRight(last[1] \cup KLT!Moved(r), KLT!Ids(l.kept \cup l.new)) :
         \E N \in IF num_features - KLT!Cardinality(K) > KLT!Enough
                  THEN SUBSET KLT!Free(K, masks[1], KLT!mask1_updated) ELSE {{}} :
           d = [left |-> l.kept \cup l.new,
                right |-> K \cup KLT!Numbered(N, currid + KLT!Cardinality(l.new)),
                currid |-> currid + KLT!Cardinality(l.new) + KLT!Cardinality(N)]
  BY <1>2a, Zenon
<1>3. \E K \in KLT!KeepsRight(last[1] \cup KLT!Moved(r), KLT!Ids(l.kept \cup l.new)) :
        \E N \in IF num_features - KLT!Cardinality(K) > KLT!Enough
                 THEN SUBSET KLT!Free(K, masks[1], KLT!mask1_updated) ELSE {{}} :
          d = [left |-> l.kept \cup l.new,
               right |-> K \cup KLT!Numbered(N, currid + Cardinality(l.new)),
               currid |-> currid + Cardinality(l.new) + Cardinality(N)]
  <2>1. \A S : KLT!Cardinality(S) = Cardinality(S)
    BY KltIsTracker
  <2> QED BY <1>2b, <2>1
<1>3a. PICK K \in SUBSET (last[1] \cup KLT!Moved(r)) : \E N \in SUBSET Cells :
         d = [left |-> l.kept \cup l.new,
              right |-> K \cup KLT!Numbered(N, currid + Cardinality(l.new)),
              currid |-> currid + Cardinality(l.new) + Cardinality(N)]
  <2>1. \A P, e, f : KLT!Free(P, e, f) \subseteq Cells
    BY FreeIs
  <2>2. \A P, s : \A P1 \in KLT!KeepsRight(P, s) : P1 \subseteq P
    BY DEF KLT!KeepsRight
  <2> QED BY <1>3, <2>1, <2>2
<1>3b. PICK N \in SUBSET Cells :
         d = [left |-> l.kept \cup l.new,
              right |-> K \cup KLT!Numbered(N, currid + Cardinality(l.new)),
              currid |-> currid + Cardinality(l.new) + Cardinality(N)]
  BY <1>3a
<1> DEFINE from == currid + Cardinality(l.new)
           moved == KLT!Moved(r)
           added == KLT!Numbered(N, from)
<1>4. /\ l.kept \in SUBSET Point /\ l.kept \subseteq last[0]
      /\ l.new \in SUBSET Point /\ UniqueIds(l.new) /\ Cardinality(l.new) \in Nat
      /\ \A f \in Ids(l.new) : currid < f /\ f <= from
      /\ UniqueIds(l.kept \cup l.new)
  BY DetectLeftIs
<1>5. /\ last[1] \in SUBSET Point /\ UniqueIds(last[1]) /\ currid \in Nat
      /\ \A f \in Ids(last[1]) : f \in Nat /\ f <= currid
  BY <1>1, HeldIs DEF Held, Ids
<1>6. from \in Nat /\ currid <= from
  BY <1>4, <1>5
<1>7. moved \in SUBSET Point /\ UniqueIds(moved) /\ Ids(moved) \subseteq Ids(l.new)
  <2>1. PICK S \in SUBSET l.new : r \in [S -> {x \in Places : KLT!InImage(x)}]
    BY DEF KLT!TrackRight
  <2>2. DOMAIN r \subseteq l.new /\ \A p \in DOMAIN r : r[p] \in Places
    BY <2>1
  <2> QED BY <1>4, <2>2, MovedIs
<1>8. /\ added \in SUBSET Point /\ UniqueIds(added) /\ Cardinality(N) \in Nat
      /\ \A f \in Ids(added) : from < f /\ f <= from + Cardinality(N)
  BY <1>6, NumberedIs
<1>9. d.left = l.kept \cup l.new /\ d.right = K \cup added /\ d.currid = from + Cardinality(N)
  BY <1>3b
<1> HIDE DEF from, moved, added
<1>10. UniqueIds(last[1] \cup moved)
  <2>1. Ids(last[1]) \cap Ids(moved) = {}
    BY <1>4, <1>5, <1>7
  <2> QED BY <1>5, <1>7, <2>1, JoinedIds
<1>11. UniqueIds(K) /\ \A f \in Ids(K) : f \in Ids(last[1]) \/ f \in Ids(moved)
  BY <1>10, FewerIds DEF Ids, moved
<1>12. UniqueIds(K \cup added)
  <2>1. \A f \in Ids(K) : f \in Nat /\ f <= from
    <3>1. \A f \in Ids(moved) : f \in Nat
      BY <1>7 DEF Ids, Point
    <3> QED BY <1>4, <1>5, <1>6, <1>7, <1>11, <3>1
  <2>2. Ids(K) \cap Ids(added) = {}
    BY <1>6, <1>8, <2>1
  <2> QED BY <1>8, <1>11, <2>2, JoinedIds
<1>13. d.currid \in Nat /\ currid <= d.currid /\ from <= d.currid
  BY <1>5, <1>6, <1>8, <1>9
<1>14. OldOrNew(d.left, 0, d.currid)
  <2>1. \A f \in Ids(d.left) : f \in Ids(last[0]) \/ f \in Ids(l.new)
    BY <1>4, <1>9 DEF Ids
  <2>2. \A f \in Ids(l.new) : f \in Nat
    BY <1>4 DEF Ids, Point
  <2> QED BY <1>4, <1>6, <1>13, <2>1, <2>2 DEF OldOrNew
<1>15. OldOrNew(d.right, 1, d.currid)
  <2>1. \A f \in Ids(d.right) : f \in Ids(K) \/ f \in Ids(added)
    BY <1>9 DEF Ids
  <2>2. \A f \in Ids(moved) \cup Ids(added) : f \in Nat
    BY <1>7, <1>8 DEF Ids, Point
  <2>3. \A f \in Ids(moved) : currid < f /\ f <= d.currid
    BY <1>4, <1>6, <1>7, <1>13, <2>2
  <2>4. \A f \in Ids(added) : currid < f /\ f <= d.currid
    BY <1>5, <1>6, <1>8, <1>9, <2>2
  <2> QED BY <1>11, <2>1, <2>3, <2>4 DEF OldOrNew
<1>16. d.left \in SUBSET Point /\ d.right \in SUBSET Point
  <2>1. K \subseteq Point
    BY <1>5, <1>7 DEF moved
  <2> QED BY <1>4, <1>8, <1>9, <2>1
<1> QED BY <1>4, <1>9, <1>12, <1>13, <1>14, <1>15, <1>16

\* What is found of a detection.
LEMMA GoodTracksIs ==
  ASSUME NEW d, d.left \in SUBSET Point, UniqueIds(d.left), d.right \in SUBSET Point, UniqueIds(d.right),
         NEW good \in KLT!GoodTracks(d)
  PROVE  /\ good.left \in SUBSET Point /\ UniqueIds(good.left) /\ Ids(good.left) \subseteq Ids(d.left)
         /\ good.stereo \in SUBSET Point /\ UniqueIds(good.stereo)
         /\ good.mono \in SUBSET Point /\ UniqueIds(good.mono)
         /\ Ids(good.stereo) \cap Ids(good.mono) = {}
         /\ UniqueIds(good.stereo \cup good.mono)
         /\ Ids(good.stereo \cup good.mono) \subseteq Ids(d.right)
         /\ good.currid = d.currid
<1>1. PICK f \in {{p \in KLT!Moved(m) : KLT!InLeftBounds(p.at)} : m \in KLT!perform_matching(d.left)}
                \X {KLT!Moved(m) : m \in KLT!perform_matching(d.right)} :
        good = [left |-> KLT!StereoLeft(f[1], f[2]) \cup KLT!MonoLeft(f[1], f[2]),
                stereo |-> KLT!StereoRight(f[1], f[2]), mono |-> KLT!MonoRight(f[1], f[2]),
                currid |-> d.currid]
  BY DEF KLT!GoodTracks
<1> DEFINE l == f[1]
           r == f[2]
<1>2. good = [left |-> KLT!StereoLeft(l, r) \cup KLT!MonoLeft(l, r),
              stereo |-> KLT!StereoRight(l, r), mono |-> KLT!MonoRight(l, r), currid |-> d.currid]
  BY <1>1
<1>3. l \in SUBSET Point /\ UniqueIds(l) /\ Ids(l) \subseteq Ids(d.left)
  <2>0. PICK m \in KLT!perform_matching(d.left) : l = {p \in KLT!Moved(m) : KLT!InLeftBounds(p.at)}
    OBVIOUS
  <2> HIDE DEF l
  <2>1. DOMAIN m \subseteq d.left /\ \A p \in DOMAIN m : m[p] \in Places
    BY MatchingIs
  <2>2. /\ KLT!Moved(m) \in SUBSET Point /\ UniqueIds(KLT!Moved(m))
        /\ Ids(KLT!Moved(m)) \subseteq Ids(d.left)
    BY <2>1, MovedIs
  <2>3. l \subseteq KLT!Moved(m)
    BY <2>0
  <2> QED BY <2>2, <2>3, FewerIds
<1>4. r \in SUBSET Point /\ UniqueIds(r) /\ Ids(r) \subseteq Ids(d.right)
  <2>0. PICK m \in KLT!perform_matching(d.right) : r = KLT!Moved(m)
    OBVIOUS
  <2> HIDE DEF r
  <2>1. DOMAIN m \subseteq d.right /\ \A p \in DOMAIN m : m[p] \in Places
    BY MatchingIs
  <2> QED BY <2>0, <2>1, MovedIs
<1> HIDE DEF l, r
<1>5. KLT!StereoLeft(l, r) \subseteq l /\ KLT!MonoLeft(l, r) \subseteq l
  BY DEF KLT!StereoLeft, KLT!MonoLeft
<1>6. KLT!StereoRight(l, r) \subseteq r /\ KLT!MonoRight(l, r) \subseteq r
  BY DEF KLT!StereoRight, KLT!MonoRight
<1>7. Ids(KLT!StereoRight(l, r)) \cap Ids(KLT!MonoRight(l, r)) = {}
  <2>1. \A q \in KLT!MonoRight(l, r) : q.id \notin Ids(KLT!StereoRight(l, r))
    BY KltIsTracker DEF KLT!MonoRight
  <2> QED BY <2>1 DEF Ids
<1>8. /\ good.left \subseteq l /\ good.stereo \subseteq r /\ good.mono \subseteq r
      /\ Ids(good.stereo) \cap Ids(good.mono) = {} /\ good.currid = d.currid
  BY <1>2, <1>5, <1>6, <1>7
<1>9. good.left \in SUBSET Point /\ UniqueIds(good.left) /\ Ids(good.left) \subseteq Ids(d.left)
  BY <1>3, <1>8, FewerIds
<1>10. /\ good.stereo \in SUBSET Point /\ UniqueIds(good.stereo)
       /\ good.mono \in SUBSET Point /\ UniqueIds(good.mono)
  BY <1>4, <1>8, FewerIds
<1>11. good.stereo \cup good.mono \subseteq r
  BY <1>8
<1>12. UniqueIds(good.stereo \cup good.mono) /\ Ids(good.stereo \cup good.mono) \subseteq Ids(d.right)
  BY <1>4, <1>11, FewerIds
<1> QED BY <1>8, <1>9, <1>10, <1>12

LEMMA KltStereoKeeps == ASSUME Good, kind = "klt", UNCHANGED kind, KLT!FeedStereo PROVE Good'
<1>1. Numbering /\ TrackersTyped /\ KLT!Cams = Cams
  BY KltIsTracker DEF Numbering, Good, TrackersInv
<1>2. Pairing /\ Arrives(cams) /\ UNCHANGED <<config, num_features, job, work>>
  BY KltIsTracker DEF KLT!FeedStereo, Pairing, KLT!config, config
<1>3. cams = {0, 1} /\ Cams = {0, 1}
  BY <1>1, <1>2, PairIs
<1>4. now' \in Nat
  BY <1>1, <1>2 DEF Arrives, TrackersTyped
<1>5. CASE last[0] = {} /\ last[1] = {}
  <2>1. PICK d \in KLT!perform_detection_stereo :
          currid' = d.currid /\ KLT!SetLast(d.left, d.right) /\ UNCHANGED db
    BY <1>5 DEF KLT!FeedStereo, KLT!LeftCam, KLT!RightCam
  <2> DEFINE L == d.left
             R == d.right
             M == [c \in Cams |-> {}]
  <2>2. last' = [c \in Cams |-> IF c = 0 THEN L ELSE R]
    BY <1>1, <2>1 DEF KLT!SetLast, KLT!LeftCam
  <2>3. /\ L \in SUBSET Point /\ UniqueIds(L) /\ OldOrNew(L, 0, currid')
        /\ R \in SUBSET Point /\ UniqueIds(R) /\ OldOrNew(R, 1, currid')
        /\ currid' \in Nat /\ currid <= currid'
    BY <1>1, <1>2, <2>1, KltDetection
  <2>4. M \in [Cams -> SUBSET Nat] /\ Measures(M) /\ \A c \in Cams : M[c] = {}
    BY <2>1, Nothing
  <2> HIDE DEF L, R, M
  <2>5. \A c \in Cams : \A f \in Ids(last'[c]) : currid < f /\ f <= currid'
    BY <1>3, <1>5, <2>2, <2>3 DEF OldOrNew, Ids
  <2> QED BY <1>1, <1>2, <2>2, <2>3, <2>4, <2>5, PairKeeps
<1>6. CASE ~(last[0] = {} /\ last[1] = {})
  <2>1. PICK d \in KLT!perform_detection_stereo : \E good \in KLT!GoodTracks(d) :
          /\ currid' = good.currid
          /\ KLT!SetLast(good.left, good.stereo \cup good.mono)
          /\ db' = KLT!Record(KLT!Record(KLT!Record(db, 0, good.left), 1, good.stereo), 1, good.mono)
    BY <1>6, Zenon DEF KLT!FeedStereo, KLT!LeftCam, KLT!RightCam
  <2>2. PICK good \in KLT!GoodTracks(d) :
          /\ currid' = good.currid
          /\ KLT!SetLast(good.left, good.stereo \cup good.mono)
          /\ db' = Record(Record(Record(db, 0, good.left), 1, good.stereo), 1, good.mono)
    BY <2>1, KltIsTracker
  <2> DEFINE L == good.left
             S == good.stereo
             T == good.mono
             R == S \cup T
             M == [c \in Cams |-> (IF c = 0 THEN Ids(L) ELSE {})
                                  \cup (IF c = 1 THEN Ids(S) \cup Ids(T) ELSE {})]
  <2>3. last' = [c \in Cams |-> IF c = 0 THEN L ELSE R]
    BY <1>1, <2>2 DEF KLT!SetLast, KLT!LeftCam
  <2>4. /\ d.left \in SUBSET Point /\ UniqueIds(d.left) /\ OldOrNew(d.left, 0, d.currid)
        /\ d.right \in SUBSET Point /\ UniqueIds(d.right) /\ OldOrNew(d.right, 1, d.currid)
        /\ d.currid \in Nat /\ currid <= d.currid
    BY <1>1, <1>2, KltDetection
  <2>5. /\ L \in SUBSET Point /\ UniqueIds(L) /\ Ids(L) \subseteq Ids(d.left)
        /\ S \in SUBSET Point /\ UniqueIds(S) /\ T \in SUBSET Point /\ UniqueIds(T)
        /\ Ids(S) \cap Ids(T) = {} /\ UniqueIds(R) /\ Ids(R) \subseteq Ids(d.right)
        /\ good.currid = d.currid
    BY <2>4, GoodTracksIs
  <2>6. db' = Record(Record(Record(db, 0, L), 1, S), 1, T)
    BY <2>2
  <2>7. M[0] = Ids(L) /\ M[1] = Ids(S) \cup Ids(T)
    BY <1>3
  <2>8. Ids(R) = Ids(S) \cup Ids(T)
    BY DEF Ids
  <2> HIDE DEF L, S, T, R
  <2>9. M \in [Cams -> SUBSET Nat]
    <3>1. \A P \in SUBSET Point : Ids(P) \in SUBSET Nat
      BY DEF Ids, Point
    <3> QED BY <2>5, <3>1
  <2>10. Measures(M)
    <3>1. DbTyped(db) /\ 0 \in Cams /\ 1 \in Cams
      BY <1>1, <1>3 DEF TrackersTyped
    <3> QED BY <1>4, <2>5, <2>6, <3>1, ThreeMeasured
  <2> HIDE DEF M
  <2>11. \A c \in Cams : M[c] = Ids(last'[c])
    <3>1. last'[0] = L /\ last'[1] = R
      BY <1>3, <2>3
    <3> QED BY <1>3, <2>7, <2>8, <3>1
  <2>12. currid' \in Nat /\ currid <= currid' /\ currid' = d.currid
    BY <2>2, <2>4, <2>5
  <2>13. \A c \in Cams : \A f \in Ids(last'[c]) :
           (currid < f /\ f <= currid') \/ (f \in M[c] /\ f \in Ids(last[c]))
    <3>1. last'[0] = L /\ last'[1] = R
      BY <1>3, <2>3
    <3>2. \A f \in Ids(L) : f \in Ids(last[0]) \/ (currid < f /\ f <= currid')
      BY <2>4, <2>5, <2>12 DEF OldOrNew
    <3>3. \A f \in Ids(R) : f \in Ids(last[1]) \/ (currid < f /\ f <= currid')
      BY <2>4, <2>5, <2>12 DEF OldOrNew
    <3> QED BY <1>3, <2>11, <3>1, <3>2, <3>3
  <2>14. R \in SUBSET Point
    BY <2>5 DEF R
  <2> QED BY <1>1, <1>2, <2>3, <2>5, <2>9, <2>10, <2>11, <2>12, <2>13, <2>14, PairKeeps
<1> QED BY <1>5, <1>6

-----------------------------------------------------------------------------
(***************************************************************************)
(* Descriptors.                                                            *)
(***************************************************************************)
LEMMA DescIsTracker ==
  /\ Desc!Cams = Cams /\ Desc!Cells = Cells /\ \A P : Desc!Ids(P) = Ids(P)
  /\ \A S : Desc!Cardinality(S) = Cardinality(S) /\ Desc!Min(S) = Min(S)
  /\ \A d, c, P : Desc!Record(d, c, P) = Record(d, c, P)
  /\ \A C : (Desc!Arrives(C) <=> Arrives(C)) /\ (Desc!Monocular(C) <=> Monocular(C))
  /\ \A c, P, Q : Desc!MoveForward(c, P, Q) <=> MoveForward(c, P, Q)
  /\ \A c, x : Desc!AddDetected(c, x) <=> AddDetected(c, x)
  /\ \A c : Desc!DetectionDone(c) <=> DetectionDone(c)
<1>1. \A S : Desc!Cardinality(S) = Cardinality(S) /\ Desc!Min(S) = Min(S)
  BY DEF Desc!Cardinality, Cardinality, Desc!Min, Min
<1>2. Desc!Cams = Cams /\ Desc!Cells = Cells /\ \A P : Desc!Ids(P) = Ids(P)
  BY DEF Desc!Cams, Cams, Desc!Cells, Cells, Desc!Ids, Ids
<1>3. \A d, c, P : Desc!Record(d, c, P) = Record(d, c, P)
  BY DEF Desc!Record, Record, Desc!Ids, Ids, Desc!Cardinality, Cardinality
<1>4. \A C : (Desc!Arrives(C) <=> Arrives(C)) /\ (Desc!Monocular(C) <=> Monocular(C))
  BY <1>1, <1>2 DEF Desc!Arrives, Arrives, Desc!Monocular, Monocular
<1>5. \A c, P, Q : Desc!MoveForward(c, P, Q) <=> MoveForward(c, P, Q)
  BY <1>3 DEF Desc!MoveForward, MoveForward, Desc!Replace, Replace, Desc!NoWork, NoWork,
              Desc!config, config
<1>6. \A c, x : Desc!AddDetected(c, x) <=> AddDetected(c, x)
  BY DEF Desc!AddDetected, AddDetected, Desc!TakeId, TakeId, Desc!config, config
<1>7. \A c : Desc!DetectionDone(c) <=> DetectionDone(c)
  BY DEF Desc!DetectionDone, DetectionDone, Desc!config, config
<1> QED BY <1>1, <1>2, <1>3, <1>4, <1>5, <1>6, <1>7

\* Matches go from some new points to old ones, each to another.
Matches(m, A, B) ==
  /\ DOMAIN m \subseteq B /\ \A p \in DOMAIN m : m[p] \in A
  /\ \A p, q \in DOMAIN m : m[p] = m[q] => p = q

LEMMA MatchIs == ASSUME NEW A, NEW B, NEW m \in Desc!robust_match(A, B) PROVE Matches(m, A, B)
<1>1. CASE m = <<>>
  BY <1>1 DEF Matches
<1>2. CASE m # <<>>
  <2>1. PICK S \in SUBSET B : m \in {f \in [S -> A] : Desc!IsInjective(f)}
    BY <1>2, Zenon DEF Desc!robust_match
  <2>2. m \in [S -> A] /\ \A p, q \in DOMAIN m : m[p] = m[q] => p = q
    BY <2>1 DEF Desc!IsInjective
  <2> QED BY <2>1, <2>2 DEF Matches
<1> QED BY <1>1, <1>2

LEMMA WithOldIs ==
  ASSUME NEW A \in SUBSET Point, NEW B \in SUBSET Point, UniqueIds(A), UniqueIds(B),
         Ids(A) \cap Ids(B) = {}, NEW m, Matches(m, A, B)
  PROVE  LET G == Desc!WithOldIds(B, m)
         IN  G \in SUBSET Point /\ UniqueIds(G) /\ Ids(G) \subseteq Ids(A) \cup Ids(B)
<1> DEFINE G == Desc!WithOldIds(B, m)
           New(p) == IF p \in DOMAIN m THEN m[p].id ELSE p.id
<1>1. \A p \in B : p = [id |-> p.id, at |-> p.at] /\ p.id \in Nat /\ p.at \in Int
  BY DEF Point
<1>2. \A p \in DOMAIN m : p \in B /\ m[p] \in A /\ m[p].id \in Nat
  BY DEF Matches, Point
<1>3. \A q \in G : \E p \in B : q = [id |-> New(p), at |-> p.at]
  <2>1. ASSUME NEW p \in B
        PROVE  (IF p \in DOMAIN m THEN [p EXCEPT !.id = m[p].id] ELSE p) = [id |-> New(p), at |-> p.at]
    BY <1>1
  <2> HIDE DEF New
  <2> QED BY <2>1 DEF Desc!WithOldIds
<1>4. \A p \in B : New(p) \in Nat /\ (New(p) \in Ids(A) \/ New(p) \in Ids(B))
  BY <1>1, <1>2 DEF Ids
<1>5. ASSUME NEW p \in B, NEW q \in B, New(p) = New(q) PROVE p = q
  <2>1. CASE p \in DOMAIN m /\ q \in DOMAIN m
    <3>1. m[p] = m[q]
      BY <1>2, <1>5, <2>1 DEF UniqueIds
    <3> QED BY <2>1, <3>1 DEF Matches
  <2>2. CASE p \notin DOMAIN m /\ q \notin DOMAIN m
    BY <1>5, <2>2 DEF UniqueIds
  <2>3. CASE (p \in DOMAIN m) # (q \in DOMAIN m)
    <3>1. \A a \in A, b \in B : a.id # b.id
      BY DEF Ids
    <3> QED BY <1>2, <1>5, <2>3, <3>1
  <2> QED BY <2>1, <2>2, <2>3
<1> HIDE DEF G, New
<1>6. G \in SUBSET Point
  BY <1>1, <1>3, <1>4 DEF Point
<1>7. UniqueIds(G)
  <2> SUFFICES ASSUME NEW p \in G, NEW q \in G, p.id = q.id PROVE p = q
    BY DEF UniqueIds
  <2>1. PICK a \in B : p = [id |-> New(a), at |-> a.at]
    BY <1>3
  <2>2. PICK b \in B : q = [id |-> New(b), at |-> b.at]
    BY <1>3
  <2>3. a = b
    BY <1>5, <2>1, <2>2
  <2> QED BY <2>1, <2>2, <2>3
<1>8. Ids(G) \subseteq Ids(A) \cup Ids(B)
  BY <1>3, <1>4 DEF Ids
<1> QED BY <1>6, <1>7, <1>8 DEF G

LEMMA DescMonocularKeeps ==
  ASSUME Good, kind = "descriptor", UNCHANGED kind,
         \/ \E C \in SUBSET Desc!Cams : Desc!FeedMonocular(C)
         \/ \E c \in Desc!Cams : Desc!Detect(c) \/ Desc!DetectionDone(c) \/ Desc!Track(c)
  PROVE  Good'
<1>1. Numbering /\ TrackersTyped /\ Desc!Cams = Cams /\ Desc!Cells = Cells
  BY DescIsTracker DEF Numbering, Good, TrackersInv
<1>2. ASSUME NEW C \in SUBSET Desc!Cams, Desc!FeedMonocular(C) PROVE Good'
  <2>1. C \in SUBSET Cams /\ Arrives(C) /\ Monocular(C)
    BY <1>1, <1>2, DescIsTracker DEF Desc!FeedMonocular
  <2>2. /\ job' = [c \in Cams |-> IF c \in C THEN "detect" ELSE "idle"]
        /\ UNCHANGED <<config, num_features, currid, last, db, work>>
    BY <1>1, <1>2 DEF Desc!FeedMonocular, Desc!config, config
  <2> QED BY <2>1, <2>2, ApartIs, StartKeeps
<1>3. ASSUME NEW c \in Desc!Cams, Desc!Detect(c) PROVE Good'
  <2>1. PICK x \in Desc!Cells \ masks[c] : Desc!AddDetected(c, x)
    BY <1>3 DEF Desc!Detect
  <2>2. x \in Int
    <3>1. x \in Cells
      BY <1>1, <2>1
    <3> QED BY <3>1, TrackAssumption
  <2>3. c \in Cams /\ job[c] = "detect" /\ AddDetected(c, x)
    BY <1>1, <1>3, <2>1, DescIsTracker DEF Desc!Detect
  <2> QED BY <1>1, <2>2, <2>3, DetectKeeps
<1>4. ASSUME NEW c \in Desc!Cams, Desc!DetectionDone(c) PROVE Good'
  BY <1>1, <1>4, DescIsTracker, DetectionDoneKeeps
<1>5. ASSUME NEW c \in Desc!Cams, Desc!Track(c) PROVE Good'
  <2> DEFINE P == work[c].new
  <2>1. c \in Cams /\ job[c] # "idle"
    BY <1>1, <1>5 DEF Desc!Track
  <2>2. /\ P \in SUBSET Point /\ UniqueIds(P) /\ last[c] \in SUBSET Point /\ UniqueIds(last[c])
        /\ Ids(last[c]) \cap Ids(P) = {} /\ Ids(Held(c)) = Ids(last[c]) \cup Ids(P)
    <3>1. /\ P \subseteq Held(c) /\ UniqueIds(Held(c)) /\ P \in SUBSET Point /\ last[c] \in SUBSET Point
          /\ UniqueIds(last[c]) /\ Ids(last[c]) \cap Ids(P) = {}
      BY <1>1, <2>1, HeldIs DEF Held
    <3>2. Ids(Held(c)) = Ids(last[c]) \cup Ids(P)
      BY DEF Held, Ids
    <3> QED BY <3>1, <3>2, FewerIds
  <2>3. CASE last[c] = {}
    <3>1. MoveForward(c, P, {})
      BY <1>5, <2>3, DescIsTracker DEF Desc!Track
    <3> HIDE DEF P
    <3> QED BY <2>1, <2>2, <2>3, <3>1, ForwardKeeps
  <2>4. CASE last[c] # {}
    <3>1. PICK m \in Desc!robust_match(last[c], P) :
            Desc!MoveForward(c, Desc!WithOldIds(P, m), Desc!WithOldIds(P, m))
      BY <1>5, <2>4 DEF Desc!Track
    <3> DEFINE good == Desc!WithOldIds(P, m)
    <3>2. MoveForward(c, good, good)
      BY <3>1, DescIsTracker
    <3>3. Matches(m, last[c], P)
      BY MatchIs
    <3> HIDE DEF P
    <3>4. good \in SUBSET Point /\ UniqueIds(good) /\ Ids(good) \subseteq Ids(Held(c))
      BY <2>2, <3>3, WithOldIs
    <3> HIDE DEF good
    <3> QED BY <2>1, <3>2, <3>4, ForwardKeeps
  <2> QED BY <2>3, <2>4
<1> QED BY <1>2, <1>3, <1>4, <1>5

\* Points P are n with ids in order, at the places h.
InOrder(P, n, from, h) ==
  (\A i \in 1..n : h[i] \in Int) /\ P = {[id |-> from + i, at |-> h[i]] : i \in 1..n}

LEMMA InOrderIs ==
  ASSUME NEW n \in Nat, NEW from \in Nat, NEW h, NEW P, InOrder(P, n, from, h)
  PROVE  /\ P \in SUBSET Point /\ UniqueIds(P) /\ Cardinality(P) = n
         /\ \A f \in Ids(P) : from < f /\ f <= from + n
<1>1. \A p \in P : \E i \in 1..n : p = [id |-> from + i, at |-> h[i]]
  BY DEF InOrder
<1>2. P \in SUBSET Point
  BY <1>1 DEF Point, InOrder
<1>3. UniqueIds(P)
  <2> SUFFICES ASSUME NEW p \in P, NEW q \in P, p.id = q.id PROVE p = q
    BY DEF UniqueIds
  <2>1. PICK i \in 1..n : p = [id |-> from + i, at |-> h[i]]
    BY <1>1
  <2>2. PICK j \in 1..n : q = [id |-> from + j, at |-> h[j]]
    BY <1>1
  <2>3. i = j
    BY <2>1, <2>2
  <2> QED BY <2>1, <2>2, <2>3
<1>4. Cardinality(P) = n
  <2> DEFINE b == [i \in 1..n |-> [id |-> from + i, at |-> h[i]]]
  <2>1. b \in Bijection(1..n, P)
    <3>1. b \in [1..n -> P] /\ \A p \in P : \E i \in 1..n : b[i] = p
      BY DEF InOrder
    <3>2. ASSUME NEW i \in 1..n, NEW j \in 1..n, b[i] = b[j] PROVE i = j
      <4>1. b[i].id = from + i /\ b[j].id = from + j
        OBVIOUS
      <4> QED BY <3>2, <4>1
    <3> HIDE DEF b
    <3> QED BY <3>1, <3>2 DEF Bijection, Injection, Surjection, IsInjective
  <2>2. IsFiniteSet(1..n) /\ Cardinality(1..n) = n
    BY FS_Interval
  <2> QED BY <2>1, <2>2, FS_Bijection DEF ExistsBijection
<1>5. \A f \in Ids(P) : from < f /\ f <= from + n
  <2> SUFFICES ASSUME NEW p \in P PROVE from < p.id /\ p.id <= from + n
    BY DEF Ids
  <2>1. PICK i \in 1..n : p = [id |-> from + i, at |-> h[i]]
    BY <1>1
  <2> QED BY <2>1
<1> QED BY <1>2, <1>3, <1>4, <1>5

LEMMA DescDetection ==
  ASSUME Good, Numbering, NEW d \in Desc!perform_detection_stereo
  PROVE  /\ d.left \in SUBSET Point /\ UniqueIds(d.left) /\ Cardinality(d.left) \in Nat
         /\ d.right \in SUBSET Point /\ UniqueIds(d.right)
         /\ \A f \in Ids(d.left) \cup Ids(d.right) :
              f \in Nat /\ currid < f /\ f <= currid + Cardinality(d.left)
<1>1. currid \in Nat /\ num_features \in Nat /\ MinRansac \in Nat /\ Desc!Cells = Cells
  BY TrackAssumption, DescIsTracker DEF Good, TrackersInv, TrackersTyped
<1> DEFINE Pairs(n) == [1..n -> (Cells \ masks[0]) \X (Cells \ masks[1])]
           Points(f, n) == [left  |-> {[id |-> currid + i, at |-> f[i][1]] : i \in 1..n},
                            right |-> {[id |-> currid + i, at |-> f[i][2]] : i \in 1..n}]
<1>2. PICK n \in IF num_features < MinRansac THEN {0} ELSE 0..num_features : d \in {Points(f, n) : f \in Pairs(n)}
  BY <1>1, Zenon DEF Desc!perform_detection_stereo, Desc!LeftCam, Desc!RightCam
<1>3. n \in Nat
  BY <1>1
<1>4. PICK f \in Pairs(n) : d = Points(f, n)
  BY <1>2
<1> DEFINE l == [i \in 1..n |-> f[i][1]]
           r == [i \in 1..n |-> f[i][2]]
<1>5. \A i \in 1..n : l[i] \in Int /\ r[i] \in Int
  <2>1. Cells \subseteq Int
    BY TrackAssumption
  <2>2. \A i \in 1..n : f[i][1] \in Cells /\ f[i][2] \in Cells
    OBVIOUS
  <2> QED BY <2>1, <2>2
<1>6. InOrder(d.left, n, currid, l) /\ InOrder(d.right, n, currid, r)
  BY <1>4, <1>5 DEF InOrder
<1> HIDE DEF l, r
<1>7. /\ d.left \in SUBSET Point /\ UniqueIds(d.left) /\ Cardinality(d.left) = n
      /\ \A g \in Ids(d.left) : currid < g /\ g <= currid + n
  BY <1>1, <1>3, <1>6, InOrderIs
<1>8. /\ d.right \in SUBSET Point /\ UniqueIds(d.right)
      /\ \A g \in Ids(d.right) : currid < g /\ g <= currid + n
  BY <1>1, <1>3, <1>6, InOrderIs
<1>9. \A g \in Ids(d.left) \cup Ids(d.right) : g \in Nat
  BY <1>7, <1>8 DEF Ids, Point
<1> QED BY <1>3, <1>7, <1>8, <1>9

\* The points B of one side of a pair, with the ids of those that both sides match.
LEMMA OldPairIs ==
  ASSUME NEW A \in SUBSET Point, UniqueIds(A), NEW ml, NEW D, Matches(ml, A, D),
         NEW C \in SUBSET Point, NEW mr, NEW E, Matches(mr, C, E),
         NEW B \in SUBSET Point, UniqueIds(B), Ids(A) \cap Ids(B) = {}
  PROVE  LET G == Desc!WithOldPair(B, ml, mr)
         IN  /\ G \in SUBSET Point /\ UniqueIds(G)
             /\ \A f \in Ids(G) : f \in Ids(B) \/ (f \in Ids(A) /\ f \in Ids(C))
<1> DEFINE G == Desc!WithOldPair(B, ml, mr)
           O(i) == Desc!OldId(i, ml, mr)
           New(p) == IF O(p.id) = {} THEN p.id ELSE Min(O(p.id))
<1>1. \A p \in B : p = [id |-> p.id, at |-> p.at] /\ p.id \in Nat /\ p.at \in Int
  BY DEF Point
<1>2. ASSUME NEW i, NEW o \in O(i)
      PROVE  o \in Nat /\ o \in Ids(A) /\ o \in Ids(C) /\ \E p \in DOMAIN ml : p.id = i /\ ml[p].id = o
  <2>1. PICK p \in DOMAIN ml : p.id = i /\ o = ml[p].id
    BY <1>2, Zenon DEF Desc!OldId
  <2>2. PICK q \in DOMAIN mr : q.id = i /\ o = mr[q].id
    BY <1>2, Zenon DEF Desc!OldId
  <2>3. ml[p] \in A /\ mr[q] \in C
    BY DEF Matches
  <2> QED BY <2>1, <2>2, <2>3 DEF Ids, Point
<1>3. ASSUME NEW i, NEW j, NEW o \in O(i), o \in O(j) PROVE i = j
  <2>1. PICK p \in DOMAIN ml : p.id = i /\ ml[p].id = o
    BY <1>2
  <2>2. PICK q \in DOMAIN ml : q.id = j /\ ml[q].id = o
    BY <1>2, <1>3
  <2>3. ml[p] = ml[q]
    BY <2>1, <2>2 DEF Matches, UniqueIds
  <2>4. p = q
    BY <2>3 DEF Matches
  <2> QED BY <2>1, <2>2, <2>4
<1>4. \A q \in G : \E p \in B : q = [id |-> New(p), at |-> p.at]
  <2>1. ASSUME NEW p \in B
        PROVE  [p EXCEPT !.id = IF O(p.id) = {} THEN @ ELSE Desc!Min(O(p.id))] = [id |-> New(p), at |-> p.at]
    <3>1. Desc!Min(O(p.id)) = Min(O(p.id))
      BY DescIsTracker
    <3> HIDE DEF O
    <3> QED BY <1>1, <3>1
  <2> HIDE DEF New
  <2> QED BY <2>1, Zenon DEF Desc!WithOldPair
<1> HIDE DEF O
<1>5. \A i : O(i) # {} => Min(O(i)) \in O(i)
  <2>1. \A i : O(i) \in SUBSET Nat
    BY <1>2
  <2> QED BY <2>1, MinOfNaturals
<1>6. ASSUME NEW p \in B
      PROVE  New(p) \in Nat /\ (New(p) \in Ids(B) \/ (New(p) \in Ids(A) /\ New(p) \in Ids(C)))
  <2>1. CASE O(p.id) = {}
    BY <1>1, <2>1 DEF Ids
  <2>2. CASE O(p.id) # {}
    BY <1>2, <1>5, <2>2
  <2> QED BY <2>1, <2>2
<1>7. ASSUME NEW p \in B, NEW q \in B, New(p) = New(q) PROVE p = q
  <2>0. \A b \in B : O(b.id) = {} => New(b) = b.id /\ b.id \in Ids(B)
    BY DEF Ids
  <2>1. \A b \in B : O(b.id) # {} => New(b) \in O(b.id) /\ New(b) \in Ids(A)
    BY <1>2, <1>5
  <2> HIDE DEF New
  <2>2. CASE O(p.id) # {} /\ O(q.id) # {}
    <3>1. p.id = q.id
      BY <1>3, <1>7, <2>1, <2>2
    <3> QED BY <3>1 DEF UniqueIds
  <2>3. CASE O(p.id) = {} /\ O(q.id) = {}
    BY <1>7, <2>0, <2>3 DEF UniqueIds
  <2>4. CASE O(p.id) = {} /\ O(q.id) # {}
    BY <1>7, <2>0, <2>1, <2>4
  <2>5. CASE O(p.id) # {} /\ O(q.id) = {}
    BY <1>7, <2>0, <2>1, <2>5
  <2> QED BY <2>2, <2>3, <2>4, <2>5
<1> HIDE DEF G, New
<1>8. G \in SUBSET Point
  BY <1>1, <1>4, <1>6 DEF Point
<1>9. UniqueIds(G)
  <2> SUFFICES ASSUME NEW p \in G, NEW q \in G, p.id = q.id PROVE p = q
    BY DEF UniqueIds
  <2>1. PICK a \in B : p = [id |-> New(a), at |-> a.at]
    BY <1>4
  <2>2. PICK b \in B : q = [id |-> New(b), at |-> b.at]
    BY <1>4
  <2>3. a = b
    BY <1>7, <2>1, <2>2
  <2> QED BY <2>1, <2>2, <2>3
<1>10. \A f \in Ids(G) : f \in Ids(B) \/ (f \in Ids(A) /\ f \in Ids(C))
  BY <1>4, <1>6 DEF Ids
<1> QED BY <1>8, <1>9, <1>10 DEF G

LEMMA DescStereoKeeps == ASSUME Good, kind = "descriptor", UNCHANGED kind, Desc!FeedStereo PROVE Good'
<1>1. Numbering /\ TrackersTyped /\ Desc!Cams = Cams
  BY DescIsTracker DEF Numbering, Good, TrackersInv
<1>2. Pairing /\ Arrives(cams) /\ UNCHANGED <<config, num_features, job, work>>
  BY DescIsTracker DEF Desc!FeedStereo, Pairing, Desc!config, config
<1>3. cams = {0, 1} /\ Cams = {0, 1}
  BY <1>1, <1>2, PairIs
<1>4. now' \in Nat /\ currid \in Nat
  BY <1>1, <1>2 DEF Arrives, TrackersTyped
<1>5. PICK d \in Desc!perform_detection_stereo :
        /\ currid' = currid + Desc!Cardinality(d.left)
        /\ IF last[0] = {} \/ last[1] = {}
           THEN last' = [c \in Desc!Cams |-> IF c = 0 THEN d.left ELSE d.right] /\ UNCHANGED db
           ELSE \E ml \in Desc!robust_match(last[0], d.left), mr \in Desc!robust_match(last[1], d.right) :
                  /\ last' = [c \in Desc!Cams |-> IF c = 0 THEN Desc!WithOldPair(d.left, ml, mr)
                                                  ELSE Desc!WithOldPair(d.right, ml, mr)]
                  /\ db' = Desc!Record(Desc!Record(db, 0, Desc!WithOldPair(d.left, ml, mr)), 1,
                                       Desc!WithOldPair(d.right, ml, mr))
  BY Zenon DEF Desc!FeedStereo, Desc!LeftCam, Desc!RightCam
<1>6. /\ d.left \in SUBSET Point /\ UniqueIds(d.left) /\ Cardinality(d.left) \in Nat
      /\ d.right \in SUBSET Point /\ UniqueIds(d.right)
      /\ \A f \in Ids(d.left) \cup Ids(d.right) :
           f \in Nat /\ currid < f /\ f <= currid + Cardinality(d.left)
  BY <1>1, DescDetection
<1>7. currid' = currid + Cardinality(d.left) /\ currid' \in Nat /\ currid <= currid'
  <2>1. currid' = currid + Cardinality(d.left)
    BY <1>5, DescIsTracker
  <2> QED BY <1>4, <1>6, <2>1
<1>8. \A f \in Ids(d.left) \cup Ids(d.right) : f \in Nat /\ currid < f /\ f <= currid'
  BY <1>6, <1>7
<1>9. CASE last[0] = {} \/ last[1] = {}
  <2> DEFINE L == d.left
             R == d.right
             M == [c \in Cams |-> {}]
  <2>1. last' = [c \in Cams |-> IF c = 0 THEN L ELSE R] /\ db' = db
    BY <1>1, <1>5, <1>9
  <2>2. M \in [Cams -> SUBSET Nat] /\ Measures(M) /\ \A c \in Cams : M[c] = {}
    BY <2>1, Nothing
  <2>3. \A c \in Cams : \A f \in Ids(last'[c]) : currid < f /\ f <= currid'
    BY <1>3, <1>8, <2>1
  <2> HIDE DEF M
  <2> QED BY <1>1, <1>2, <1>6, <1>7, <2>1, <2>2, <2>3, PairKeeps
<1>10. CASE ~(last[0] = {} \/ last[1] = {})
  <2>1. PICK ml \in Desc!robust_match(last[0], d.left) :
          \E mr \in Desc!robust_match(last[1], d.right) :
            /\ last' = [c \in Desc!Cams |-> IF c = 0 THEN Desc!WithOldPair(d.left, ml, mr)
                                            ELSE Desc!WithOldPair(d.right, ml, mr)]
            /\ db' = Desc!Record(Desc!Record(db, 0, Desc!WithOldPair(d.left, ml, mr)), 1,
                                 Desc!WithOldPair(d.right, ml, mr))
    BY <1>5, <1>10
  <2>2. PICK mr \in Desc!robust_match(last[1], d.right) :
          /\ last' = [c \in Desc!Cams |-> IF c = 0 THEN Desc!WithOldPair(d.left, ml, mr)
                                          ELSE Desc!WithOldPair(d.right, ml, mr)]
          /\ db' = Desc!Record(Desc!Record(db, 0, Desc!WithOldPair(d.left, ml, mr)), 1,
                               Desc!WithOldPair(d.right, ml, mr))
    BY <2>1
  <2> DEFINE L == Desc!WithOldPair(d.left, ml, mr)
             R == Desc!WithOldPair(d.right, ml, mr)
             M == [c \in Cams |-> (IF c = 0 THEN Ids(L) ELSE {}) \cup (IF c = 1 THEN Ids(R) ELSE {})]
  <2>3. last' = [c \in Cams |-> IF c = 0 THEN L ELSE R] /\ db' = Record(Record(db, 0, L), 1, R)
    BY <1>1, <2>2, DescIsTracker
  <2>4. Matches(ml, last[0], d.left) /\ Matches(mr, last[1], d.right)
    BY MatchIs
  <2>5. /\ last[0] \in SUBSET Point /\ UniqueIds(last[0]) /\ last[1] \in SUBSET Point
        /\ \A f \in Ids(last[0]) : f \in Nat /\ f <= currid
    BY <1>1, <1>3, HeldIs DEF Held, Ids
  <2>6. Ids(last[0]) \cap Ids(d.left) = {} /\ Ids(last[0]) \cap Ids(d.right) = {}
    BY <1>4, <1>8, <2>5
  <2>7. /\ L \in SUBSET Point /\ UniqueIds(L)
        /\ \A f \in Ids(L) : f \in Ids(d.left) \/ (f \in Ids(last[0]) /\ f \in Ids(last[1]))
    BY <1>6, <2>4, <2>5, <2>6, OldPairIs
  <2>8. /\ R \in SUBSET Point /\ UniqueIds(R)
        /\ \A f \in Ids(R) : f \in Ids(d.right) \/ (f \in Ids(last[0]) /\ f \in Ids(last[1]))
    BY <1>6, <2>4, <2>5, <2>6, OldPairIs
  <2> HIDE DEF L, R
  <2>9. M[0] = Ids(L) /\ M[1] = Ids(R) /\ last'[0] = L /\ last'[1] = R
    BY <1>3, <2>3
  <2>10. M \in [Cams -> SUBSET Nat]
    <3>1. \A P \in SUBSET Point : Ids(P) \in SUBSET Nat
      BY DEF Ids, Point
    <3> QED BY <2>7, <2>8, <3>1
  <2>11. Measures(M)
    <3>1. DbTyped(db) /\ 0 \in Cams /\ 1 \in Cams
      BY <1>1, <1>3 DEF TrackersTyped
    <3> QED BY <1>4, <2>3, <2>7, <2>8, <3>1, TwoMeasured
  <2> HIDE DEF M
  <2>12. \A c \in Cams : M[c] = Ids(last'[c])
    BY <1>3, <2>9
  <2>13. \A c \in Cams : \A f \in Ids(last'[c]) :
           (currid < f /\ f <= currid') \/ (f \in M[c] /\ f \in Ids(last[c]))
    BY <1>3, <1>8, <2>7, <2>8, <2>9
  <2> QED BY <1>1, <1>2, <1>7, <2>3, <2>7, <2>8, <2>10, <2>11, <2>12, <2>13, PairKeeps
<1> QED BY <1>9, <1>10

\* The number of features is raised while images are tracked.
LEMMA MoreFeaturesKeeps ==
  ASSUME Good, UNCHANGED kind, KLT!set_num_features \/ Desc!set_num_features PROVE Good'
<1>1. num_features' \in NumFeatures /\ UNCHANGED <<config, currid, last, db, now, images, job, work>>
  BY DEF KLT!set_num_features, Desc!set_num_features, KLT!config, Desc!config, config
<1>2. num_features' \in Nat
  BY <1>1, TrackAssumption
<1> QED BY <1>1, <1>2, UnchangedKeeps

-----------------------------------------------------------------------------
(***************************************************************************)
(* Ids that are given.  No corner of a tag is called like another if the   *)
(* dictionary has no more tags than max_aruco_features, or no tag 0.       *)
(***************************************************************************)
CornersApart == ~(0 \in Given /\ NumAruco \in Given)

LEMMA CornersIs ==
  ASSUME CornersApart, NEW seen \in SUBSET {t \in Given : t <= max_tag_id}, NEW N \in SUBSET (0..3)
  PROVE  LET P == {[id |-> CornerId(k[1], k[2]), at |-> 4 * k[1] + k[2]] : k \in seen \X N}
         IN  P \in SUBSET Point /\ UniqueIds(P)
<1> DEFINE P == {[id |-> CornerId(k[1], k[2]), at |-> 4 * k[1] + k[2]] : k \in seen \X N}
<1>1. NumAruco \in Nat /\ \A t \in seen : t \in Nat /\ t \in Given /\ t <= NumAruco
  BY TrackAssumption, GivenAssumption DEF max_tag_id
<1>2. \A p \in P : \E t \in seen, n \in N : p = [id |-> t + n * NumAruco, at |-> 4 * t + n]
  BY DEF CornerId, max_tag_id
<1>3. P \in SUBSET Point
  <2>1. \A t \in Nat, n \in 0..3 : t + n * NumAruco \in Nat /\ 4 * t + n \in Int
    BY <1>1
  <2> QED BY <1>1, <1>2, <2>1 DEF Point
<1>4. ASSUME NEW t \in seen, NEW n \in N, NEW u \in seen, NEW m \in N,
             t + n * NumAruco = u + m * NumAruco
      PROVE  t = u /\ n = m
  <2>1. t \in Nat /\ u \in Nat /\ t <= NumAruco /\ u <= NumAruco /\ ~(t = 0 /\ u = NumAruco)
        /\ ~(u = 0 /\ t = NumAruco)
    BY <1>1 DEF CornersApart
  <2>2. n \in {0, 1, 2, 3} /\ m \in {0, 1, 2, 3}
    OBVIOUS
  <2>3. CASE n = m
    BY <1>1, <1>4, <2>1, <2>3
  <2>4. CASE n < m
    <3>1. m = n + 1 \/ m = n + 2 \/ m = n + 3
      BY <2>2, <2>4
    <3> QED BY <1>1, <1>4, <2>1, <2>2, <3>1
  <2>5. CASE m < n
    <3>1. n = m + 1 \/ n = m + 2 \/ n = m + 3
      BY <2>2, <2>5
    <3> QED BY <1>1, <1>4, <2>1, <2>2, <3>1
  <2> QED BY <2>2, <2>3, <2>4, <2>5
<1> HIDE DEF P
<1>5. UniqueIds(P)
  <2> SUFFICES ASSUME NEW p \in P, NEW q \in P, p.id = q.id PROVE p = q
    BY DEF UniqueIds
  <2>1. PICK t \in seen : \E n \in N : p = [id |-> t + n * NumAruco, at |-> 4 * t + n]
    BY <1>2
  <2>2. PICK n \in N : p = [id |-> t + n * NumAruco, at |-> 4 * t + n]
    BY <2>1
  <2>3. PICK u \in seen : \E m \in N : q = [id |-> u + m * NumAruco, at |-> 4 * u + m]
    BY <1>2
  <2>4. PICK m \in N : q = [id |-> u + m * NumAruco, at |-> 4 * u + m]
    BY <2>3
  <2>5. t = u /\ n = m
    BY <1>4, <2>2, <2>4
  <2> QED BY <2>2, <2>4, <2>5
<1> QED BY <1>3, <1>5 DEF P

LEMMA TagsKeep == ASSUME CornersApart, Good, kind = "aruco", UNCHANGED kind, NextTags PROVE Good'
<1>1. ~Numbering
  BY DEF Numbering
<1>2. ASSUME NEW C \in SUBSET Cams, FeedTags(C) PROVE Good'
  <2>1. /\ Arrives(C) /\ job' = [c \in Cams |-> IF c \in C THEN "track" ELSE "idle"]
        /\ UNCHANGED <<config, num_features, currid, last, db, work>>
    BY <1>2 DEF FeedTags
  <2> QED BY <1>1, <2>1, StartKeeps
<1>3. ASSUME NEW c \in Cams, perform_tracking(c) PROVE Good'
  <2>1. job[c] = "track" /\ \E seen \in SUBSET {t \in Given : t <= max_tag_id}, masked \in Hidden :
          LET P == {[id |-> CornerId(k[1], k[2]), at |-> 4 * k[1] + k[2]] : k \in seen \X ((0..3) \ masked)}
          IN  MoveForward(c, P, P)
    BY <1>3, Zenon DEF perform_tracking
  <2>2. PICK seen \in SUBSET {t \in Given : t <= max_tag_id} : \E masked \in Hidden :
          LET P == {[id |-> CornerId(k[1], k[2]), at |-> 4 * k[1] + k[2]] : k \in seen \X ((0..3) \ masked)}
          IN  MoveForward(c, P, P)
    BY <2>1, Zenon
  <2>3. PICK masked \in Hidden :
          LET P == {[id |-> CornerId(k[1], k[2]), at |-> 4 * k[1] + k[2]] : k \in seen \X ((0..3) \ masked)}
          IN  MoveForward(c, P, P)
    BY <2>2, Zenon
  <2> DEFINE N == (0..3) \ masked
             P == {[id |-> CornerId(k[1], k[2]), at |-> 4 * k[1] + k[2]] : k \in seen \X N}
  <2>4. MoveForward(c, P, P)
    BY <2>3
  <2>5. P \in SUBSET Point /\ UniqueIds(P)
    <3>1. N \in SUBSET (0..3)
      OBVIOUS
    <3> HIDE DEF N
    <3> QED BY <3>1, CornersIs
  <2> HIDE DEF P
  <2> QED BY <1>1, <2>1, <2>4, <2>5, ForwardKeeps
<1> QED BY <1>2, <1>3, Zenon DEF NextTags

\* What a simulated image adds.
LEMMA SimulatedMeasures ==
  ASSUME TrackersTyped, now' \in Nat, 0 \in Cams, Cams \subseteq {0, 1},
         NEW P \in SUBSET Point, UniqueIds(P), NEW Q \in SUBSET Point, UniqueIds(Q),
         1 \notin Cams => Q = {}, db' = Record(Record(db, 0, P), 1, Q)
  PROVE  \E M \in [Cams -> SUBSET Nat] : Measures(M)
<1>0. DbTyped(db) /\ \A S \in SUBSET Point : Ids(S) \in SUBSET Nat
  BY DEF TrackersTyped, Ids, Point
<1>1. CASE 1 \in Cams
  <2> DEFINE M == [k \in Cams |-> (IF k = 0 THEN Ids(P) ELSE {}) \cup (IF k = 1 THEN Ids(Q) ELSE {})]
  <2>1. Measures(M)
    BY <1>0, <1>1, TwoMeasured
  <2>2. M \in [Cams -> SUBSET Nat]
    BY <1>0
  <2> QED BY <2>1, <2>2
<1>2. CASE 1 \notin Cams
  <2> DEFINE M == [k \in Cams |-> IF k = 0 THEN Ids(P) ELSE {}]
             d == Record(db, 0, P)
  <2>1. Recorded(d, db, 0, P)
    BY <1>0, RecordIs
  <2>2. db' = Record(d, 1, {})
    BY <1>2
  <2> HIDE DEF d
  <2>3. DbTyped(db') /\ DOMAIN db' = DOMAIN d /\ \A f, k : TrackOf(db', f, k) = TrackOf(d, f, k)
    BY <2>1, <2>2, NoneRecorded DEF Recorded
  <2>4. UNION {M[k] : k \in Cams} = Ids(P)
    OBVIOUS
  <2>5. Measures(M)
    BY <2>1, <2>3, <2>4 DEF Measures, Recorded
  <2>6. M \in [Cams -> SUBSET Nat]
    BY <1>0
  <2> QED BY <2>5, <2>6
<1> QED BY <1>1, <1>2

LEMMA SimulatedKeeps == ASSUME Good, kind = "sim", UNCHANGED kind, FeedSimulated PROVE Good'
<1>1. ~Numbering /\ ~Numbering' /\ TrackersTyped
  BY DEF Numbering, Good, TrackersInv
<1>2. PICK seen \in [cams -> SUBSET Given] :
        LET points(c) == IF c \in cams THEN {[id |-> f + currid, at |-> f] : f \in seen[c]} ELSE {}
        IN  /\ last' = [c \in Cams |-> points(c)]
            /\ db' = Record(Record(db, 0, points(0)), 1, points(1))
  BY Zenon DEF FeedSimulated
<1> DEFINE points(c) == IF c \in cams THEN {[id |-> f + currid, at |-> f] : f \in seen[c]} ELSE {}
<1>3. last' = [c \in Cams |-> points(c)] /\ db' = Record(Record(db, 0, points(0)), 1, points(1))
  BY <1>2
<1>4. ASSUME NEW c PROVE points(c) \in SUBSET Point /\ UniqueIds(points(c))
  <2>1. currid \in Nat /\ Given \subseteq Nat
    BY <1>1, GivenAssumption DEF TrackersTyped
  <2>2. CASE c \in cams
    <3>1. \A f \in seen[c] : f \in Nat
      BY <2>1, <2>2
    <3>2. points(c) = {[id |-> f + currid, at |-> f] : f \in seen[c]}
      BY <2>2
    <3> HIDE DEF points
    <3>3. \A p \in points(c) : \E f \in seen[c] : p = [id |-> f + currid, at |-> f]
      BY <3>2
    <3>4. points(c) \in SUBSET Point
      BY <2>1, <3>1, <3>3 DEF Point
    <3>5. ASSUME NEW p \in points(c), NEW q \in points(c), p.id = q.id PROVE p = q
      <4>1. PICK f \in seen[c] : p = [id |-> f + currid, at |-> f]
        BY <3>3
      <4>2. PICK g \in seen[c] : q = [id |-> g + currid, at |-> g]
        BY <3>3
      <4>3. f = g
        BY <2>1, <3>1, <3>5, <4>1, <4>2
      <4> QED BY <4>1, <4>2, <4>3
    <3> QED BY <3>4, <3>5 DEF UniqueIds
  <2>3. CASE c \notin cams
    BY <2>3 DEF UniqueIds
  <2> QED BY <2>2, <2>3
<1>5. 0 \in Cams /\ Cams \subseteq {0, 1} /\ (1 \notin Cams => points(1) = {})
  <2>1. cams \in Rigs /\ \A g \in Rigs : g = {0} \/ g = {0, 1}
    BY <1>1, TrackAssumption DEF TrackersTyped
  <2> QED BY <2>1 DEF Cams
<1> HIDE DEF points
<1>6. /\ now \in Nat /\ now' = now + 1 /\ now' \in Nat /\ \A c \in Cams : job[c] = "idle"
      /\ images' \in [Cams -> Seq(Nat)] /\ UNCHANGED <<config, num_features, currid, job, work>>
  <2>1. images \in [Cams -> Seq(Nat)] /\ now \in Nat
    BY <1>1 DEF TrackersTyped
  <2>2. /\ now' = now + 1 /\ \A c \in Cams : job[c] = "idle"
        /\ images' = [c \in Cams |-> IF c \in cams THEN Append(images[c], now') ELSE images[c]]
        /\ UNCHANGED <<config, num_features, currid, job, work>>
    BY DEF FeedSimulated, Arrives
  <2>3. \A s \in Seq(Nat), n \in Nat : Append(s, n) \in Seq(Nat)
    OBVIOUS
  <2> QED BY <2>1, <2>2, <2>3
<1>7. \E M \in [Cams -> SUBSET Nat] : Measures(M)
  BY <1>1, <1>3, <1>4, <1>5, <1>6, SimulatedMeasures
<1>8. PICK M \in [Cams -> SUBSET Nat] : Measures(M)
  BY <1>7
<1>9. TrackersTyped'
  <2>1. last' \in [Cams -> SUBSET Point]
    BY <1>3, <1>4
  <2>2. DbTyped(db)'
    BY <1>8 DEF Measures, DbTyped
  <2> QED BY <1>1, <1>6, <2>1, <2>2 DEF TrackersTyped, config, FirstId
<1>10. OrderInv'
  <2>1. \A c \in Cams : Until(c) = now /\ Until(c)' = now' /\ job'[c] = "idle"
    BY <1>6 DEF Until
  <2>2. DbTyped(db) /\ OrderInv
    BY <1>1 DEF TrackersTyped, Good
  <2> QED BY <1>6, <1>8, <2>1, <2>2, OrderKeeps
<1> QED BY <1>1, <1>9, <1>10 DEF Good, TrackersInv

-----------------------------------------------------------------------------
(***************************************************************************)
(* Every state of a tracker.                                               *)
(***************************************************************************)
LEMMA TrackersStart == TrackersInit => Good
<1> SUFFICES ASSUME TrackersInit PROVE Good
  OBVIOUS
<1>1. /\ cams \in Rigs /\ num_features \in NumFeatures /\ currid = FirstId
      /\ last = [c \in Cams |-> {}] /\ db = <<>> /\ now = 0 /\ images = [c \in Cams |-> <<>>]
      /\ job = [c \in Cams |-> "idle"] /\ work = [c \in Cams |-> NoWork]
  BY DEF TrackersInit, Init, EmptyDatabase
<1>2. NumAruco \in Nat /\ NumFeatures \subseteq Nat
  BY TrackAssumption
<1>3. DbTyped(db) /\ \A f, c : TrackOf(db, f, c) = <<>>
  BY <1>1 DEF DbTyped, TrackOf
<1>4. TrackersTyped
  <2>1. NoWork \in [kept : SUBSET Point, new : SUBSET Point]
    BY DEF NoWork
  <2>2. <<>> \in Seq(Nat)
    OBVIOUS
  <2> QED BY <1>1, <1>2, <1>3, <2>1, <2>2 DEF TrackersTyped, FirstId
<1>5. OrderInv
  BY <1>3 DEF OrderInv, Ordered
<1>6. IdsInv
  <2>1. \A c \in Cams : last[c] = {} /\ Held(c) = {} /\ work[c] = NoWork /\ job[c] = "idle"
    BY <1>1 DEF Held, NoWork
  <2>2. Ids({}) = {} /\ UniqueIds({})
    BY DEF Ids, UniqueIds
  <2>3. \A f : f \notin DOMAIN db \cup UNION {Ids(Held(c)) : c \in Cams}
    <3>1. \A f : f \notin DOMAIN db
      BY <1>1
    <3>2. \A c \in Cams : Ids(Held(c)) = {}
      BY <2>1, <2>2
    <3>3. \A f : f \notin UNION {Ids(Held(c)) : c \in Cams}
      BY <3>2, Zenon
    <3> QED BY <3>1, <3>3, Zenon
  <2> QED BY <2>1, <2>2, <2>3 DEF IdsInv, NoWork
<1>7. ASSUME NEW c \in Cams PROVE CameraTracks(c)
  <2>1. last[c] = {} /\ work[c].new = {} /\ job[c] = "idle" /\ images[c] = <<>>
    BY <1>1 DEF NoWork
  <2>2. Ids({}) = {}
    BY DEF Ids
  <2> QED BY <1>3, <2>1, <2>2 DEF CameraTracks, Part
<1> QED BY <1>4, <1>5, <1>6, <1>7 DEF Good, TrackersInv

LEMMA TrackersStep ==
  ASSUME kind = "aruco" => CornersApart, Good, [TrackersNext]_vars PROVE Good'
<1>1. CASE UNCHANGED vars
  <2>1. num_features' \in Nat
    BY <1>1 DEF vars, baseVars, Good, TrackersInv, TrackersTyped
  <2> QED BY <1>1, <2>1, UnchangedKeeps DEF vars, baseVars
<1>2. CASE UNCHANGED kind /\ kind = "klt" /\ KLT!Next
  <2>1. CASE \E C \in SUBSET KLT!Cams : KLT!FeedMonocular(C)
    BY <1>2, <2>1, KltMonocularKeeps
  <2>2. CASE \E c \in KLT!Cams : KLT!DropPoints(c) \/ KLT!Detect(c) \/ KLT!DetectionDone(c) \/ KLT!Track(c)
    BY <1>2, <2>2, KltMonocularKeeps
  <2>3. CASE KLT!FeedStereo
    BY <1>2, <2>3, KltStereoKeeps
  <2>4. CASE KLT!set_num_features
    BY <1>2, <2>4, MoreFeaturesKeeps
  <2> QED BY <1>2, <2>1, <2>2, <2>3, <2>4, Zenon DEF KLT!Next
<1>3. CASE UNCHANGED kind /\ kind = "descriptor" /\ Desc!Next
  <2>1. CASE \E C \in SUBSET Desc!Cams : Desc!FeedMonocular(C)
    BY <1>3, <2>1, DescMonocularKeeps
  <2>2. CASE \E c \in Desc!Cams : Desc!Detect(c) \/ Desc!DetectionDone(c) \/ Desc!Track(c)
    BY <1>3, <2>2, DescMonocularKeeps
  <2>3. CASE Desc!FeedStereo
    BY <1>3, <2>3, DescStereoKeeps
  <2>4. CASE Desc!set_num_features
    BY <1>3, <2>4, MoreFeaturesKeeps
  <2> QED BY <1>3, <2>1, <2>2, <2>3, <2>4, Zenon DEF Desc!Next
<1>4. CASE UNCHANGED kind /\ kind = "aruco" /\ NextTags
  BY <1>4, TagsKeep
<1>5. CASE UNCHANGED kind /\ kind = "sim" /\ FeedSimulated
  BY <1>5, SimulatedKeeps
<1> QED BY <1>1, <1>2, <1>3, <1>4, <1>5 DEF TrackersNext

\* Only for tags is it asked that their corners have ids of their own.
TrackersIInv == kind \in Kinds /\ ((kind = "aruco" => CornersApart) => Good)

LEMMA TrackersGood == Spec => []TrackersIInv
<1>1. TrackersInit => TrackersIInv
  BY TrackersStart DEF TrackersIInv, TrackersInit
<1>2. TrackersIInv /\ [TrackersNext]_vars => TrackersIInv'
  <2> SUFFICES ASSUME TrackersIInv, [TrackersNext]_vars PROVE TrackersIInv'
    OBVIOUS
  <2>1. kind' = kind
    BY DEF TrackersNext, vars
  <2> QED BY <2>1, TrackersStep DEF TrackersIInv
<1> QED BY <1>1, <1>2, PTL DEF Spec

-----------------------------------------------------------------------------
(***************************************************************************)
(* The properties.                                                         *)
(***************************************************************************)

\* However the threads of the cameras interleave: an id in the last points is one point.
THEOREM IdsAreUnique == Spec => []IdsNameOnePoint
<1>1. TrackersIInv => IdsNameOnePoint
  <2> SUFFICES ASSUME TrackersIInv, kind \in {"klt", "descriptor"}, NEW c \in Cams, NEW d \in Cams,
                      NEW p \in last[c], NEW q \in last[d], p.id = q.id, c = d \/ ~use_stereo
               PROVE  c = d /\ p = q
    BY DEF IdsNameOnePoint
  <2>1. Good /\ Numbering
    BY DEF TrackersIInv, Numbering
  <2>2. IdsInv
    BY <2>1 DEF Good, TrackersInv
  <2>3. p \in Held(c) /\ q \in Held(d)
    BY DEF Held
  <2>4. p.id \in Ids(Held(c)) /\ p.id \in Ids(Held(d))
    BY <2>3 DEF Ids
  <2>5. c = d
    BY <2>2, <2>4 DEF IdsInv
  <2> QED BY <2>2, <2>3, <2>5 DEF IdsInv, UniqueIds
<1> QED BY <1>1, TrackersGood, PTL

\* However many images, from one of which a thread may be lagging: a feature that was lost
\* is not measured again.
THEOREM LostStaysLost == Spec => []TracksUnbroken
<1>1. TrackersIInv => TracksUnbroken
  <2> SUFFICES ASSUME TrackersIInv, kind \in {"klt", "descriptor"}, NEW f \in DOMAIN db, NEW c \in DOMAIN db[f]
               PROVE  \E i, j \in DOMAIN images[c] : db[f][c] = SubSeq(images[c], i, j)
    BY DEF TracksUnbroken
  <2>1. TrackersTyped /\ \A k \in Cams : CameraTracks(k)
    BY DEF TrackersIInv, Numbering, Good, TrackersInv
  <2>2. f \in Nat /\ c \in Cams /\ db[f][c] # <<>> /\ TrackOf(db, f, c) = db[f][c]
    BY <2>1 DEF TrackersTyped, DbTyped, TrackOf
  <2>3. images[c] \in Seq(Nat)
    BY <2>1, <2>2 DEF TrackersTyped
  <2>4. PICK j \in 0..Len(images[c]) : Part(db[f][c], images[c], j)
    BY <2>1, <2>2 DEF CameraTracks
  <2>5. PICK i \in 1..j : db[f][c] = SubSeq(images[c], i, j)
    BY <2>2, <2>4 DEF Part
  <2>6. i \in DOMAIN images[c] /\ j \in DOMAIN images[c]
    BY <2>3
  <2> QED BY <2>5, <2>6
<1> QED BY <1>1, TrackersGood, PTL

\* Every tracker adds a measurement of an image once: if the dictionary is such that the
\* tags' corners have ids of their own.
THEOREM OneMeasurementPerImage ==
  ASSUME "aruco" \in Kinds => CornersApart PROVE Spec => []OncePerImage
<1>1. TrackersIInv => OncePerImage
  <2> SUFFICES ASSUME TrackersIInv, NEW f \in DOMAIN db, NEW c \in DOMAIN db[f],
                      NEW i \in DOMAIN db[f][c], NEW j \in DOMAIN db[f][c], i < j
               PROVE  db[f][c][i] < db[f][c][j]
    BY DEF OncePerImage
  <2>1. Good
    BY DEF TrackersIInv
  <2>2. f \in Nat /\ c \in Cams /\ TrackOf(db, f, c) = db[f][c]
    BY <2>1 DEF Good, TrackersInv, TrackersTyped, DbTyped, TrackOf
  <2>3. Ordered(db[f][c], Until(c))
    BY <2>1, <2>2 DEF Good, OrderInv
  <2> QED BY <2>3 DEF Ordered
<1> QED BY <1>1, TrackersGood, PTL

-----------------------------------------------------------------------------
(***************************************************************************)
(* Tags are known by their ids.                                            *)
(***************************************************************************)
Known == DOMAIN db \cup UNION {Ids(last[c]) : c \in Cams}

TagsInv ==
  /\ ~Numbering => DOMAIN last = Cams
  /\ kind = "aruco" => \A f \in Known : f <= 4 * NumAruco
  /\ kind # "aruco" /\ ~Numbering =>
       currid \in Nat /\ FirstId <= currid /\ \A f \in Known : f \in Nat /\ 4 * NumAruco < f

\* What becomes known are the ids of the points measured.
LEMMA KnownGrows ==
  ASSUME DOMAIN last = Cams, NEW c \in Cams, NEW P, MoveForward(c, P, P)
  PROVE  Known' \subseteq Known \cup Ids(P) /\ DOMAIN last' = Cams
<1>1. last' = [last EXCEPT ![c] = P] /\ db' = Record(db, c, P)
  BY DEF MoveForward, Replace
<1>2. DOMAIN db' = DOMAIN db \cup Ids(P)
  BY <1>1 DEF Record
<1>3. \A k \in Cams : last'[k] = last[k] \/ last'[k] = P
  BY <1>1
<1>4. \A k \in Cams : Ids(last'[k]) = Ids(last[k]) \/ Ids(last'[k]) = Ids(P)
  BY <1>3
<1>5. Known' = DOMAIN db' \cup UNION {Ids(last'[k]) : k \in Cams}
  BY DEF Known, Ids
<1> QED BY <1>1, <1>2, <1>4, <1>5 DEF Known

LEMMA TagsKnown == Spec => [](TrackersIInv /\ TagsInv)
<1>1. TrackersInit => TagsInv
  <2> SUFFICES ASSUME TrackersInit PROVE TagsInv
    OBVIOUS
  <2>1. last = [c \in Cams |-> {}] /\ db = <<>> /\ currid = FirstId
    BY DEF TrackersInit, Init, EmptyDatabase
  <2>2. \A f : f \notin Known
    BY <2>1 DEF Known, Ids
  <2>3. FirstId \in Nat
    BY TrackAssumption DEF FirstId
  <2> QED BY <2>1, <2>2, <2>3 DEF TagsInv
<1>2. TrackersIInv /\ TagsInv /\ [TrackersNext]_vars => TagsInv'
  <2> SUFFICES ASSUME TagsInv, [TrackersNext]_vars PROVE TagsInv'
    OBVIOUS
  <2>0. kind' = kind /\ NumAruco \in Nat
    BY TrackAssumption DEF TrackersNext, vars
  <2>1. ASSUME UNCHANGED <<currid, last, db>> PROVE TagsInv'
    <3>1. Known' = Known
      BY <2>1 DEF Known, Ids
    <3>2. Numbering' = Numbering /\ FirstId' = FirstId
      BY <2>0 DEF Numbering, FirstId
    <3> QED BY <2>0, <2>1, <3>1, <3>2 DEF TagsInv
  <2>2. CASE Numbering
    BY <2>0, <2>2 DEF TagsInv, Numbering
  <2>3. CASE kind = "aruco" /\ NextTags
    <3>1. ASSUME NEW C \in SUBSET Cams, FeedTags(C) PROVE TagsInv'
      BY <2>1, <3>1 DEF FeedTags
    <3>2. ASSUME NEW c \in Cams, perform_tracking(c) PROVE TagsInv'
      <4>1. PICK seen \in SUBSET {t \in Given : t <= max_tag_id} : \E masked \in Hidden :
              LET P == {[id |-> CornerId(k[1], k[2]), at |-> 4 * k[1] + k[2]] :
                          k \in seen \X ((0..3) \ masked)}
              IN  MoveForward(c, P, P)
        BY <3>2, Zenon DEF perform_tracking
      <4>2. PICK masked \in Hidden :
              LET P == {[id |-> CornerId(k[1], k[2]), at |-> 4 * k[1] + k[2]] :
                          k \in seen \X ((0..3) \ masked)}
              IN  MoveForward(c, P, P)
        BY <4>1, Zenon
      <4> DEFINE P == {[id |-> CornerId(k[1], k[2]), at |-> 4 * k[1] + k[2]] :
                         k \in seen \X ((0..3) \ masked)}
      <4>3. MoveForward(c, P, P)
        BY <4>2
      <4>4. \A f \in Ids(P) : f <= 4 * NumAruco
        <5>1. \A f \in Ids(P) : \E t \in seen, n \in 0..3 : f = t + n * NumAruco
          BY DEF Ids, CornerId, max_tag_id
        <5>2. \A t \in seen : t \in Nat /\ t <= NumAruco
          BY GivenAssumption DEF max_tag_id
        <5>3. \A t \in seen, n \in {0, 1, 2, 3} : t + n * NumAruco <= 4 * NumAruco
          BY <2>0, <5>2
        <5>4. 0..3 = {0, 1, 2, 3}
          OBVIOUS
        <5> HIDE DEF P
        <5> QED BY <5>1, <5>3, <5>4
      <4> HIDE DEF P
      <4>5. ~Numbering /\ ~Numbering' /\ DOMAIN last = Cams
        BY <2>0, <2>3 DEF Numbering, TagsInv
      <4>6. Known' \subseteq Known \cup Ids(P) /\ DOMAIN last' = Cams
        BY <4>3, <4>5, KnownGrows
      <4> QED BY <2>0, <2>3, <4>4, <4>5, <4>6 DEF TagsInv
    <3> QED BY <2>3, <3>1, <3>2, Zenon DEF NextTags
  <2>4. CASE kind = "sim" /\ FeedSimulated
    <3>1. PICK seen \in [cams -> SUBSET Given] :
            LET points(c) == IF c \in cams THEN {[id |-> f + currid, at |-> f] : f \in seen[c]} ELSE {}
            IN  /\ last' = [c \in Cams |-> points(c)]
                /\ db' = Record(Record(db, 0, points(0)), 1, points(1))
      BY <2>4, Zenon DEF FeedSimulated
    <3> DEFINE points(c) == IF c \in cams THEN {[id |-> f + currid, at |-> f] : f \in seen[c]} ELSE {}
    <3>2. last' = [c \in Cams |-> points(c)] /\ db' = Record(Record(db, 0, points(0)), 1, points(1))
      BY <3>1
    <3>3. ~Numbering /\ ~Numbering' /\ kind # "aruco" /\ currid' = currid
      BY <2>0, <2>4 DEF Numbering, FeedSimulated
    <3>4. currid \in Nat /\ FirstId <= currid /\ \A f \in Known : f \in Nat /\ 4 * NumAruco < f
      BY <3>3 DEF TagsInv
    <3>5. \A c : \A f \in Ids(points(c)) : f \in Nat /\ 4 * NumAruco < f
      <4>1. \A c \in cams : \A f \in seen[c] : f \in Nat
        BY GivenAssumption
      <4>2. \A n \in Nat : n + currid \in Nat /\ 4 * NumAruco < n + currid
        BY <2>0, <3>4 DEF FirstId
      <4>3. \A c : \A f \in Ids(points(c)) : c \in cams /\ \E n \in seen[c] : f = n + currid
        BY DEF Ids
      <4> HIDE DEF points
      <4> QED BY <4>1, <4>2, <4>3
    <3> HIDE DEF points
    <3>6. DOMAIN db' = DOMAIN db \cup Ids(points(0)) \cup Ids(points(1))
      BY <3>2 DEF Record
    <3>7. Known' = DOMAIN db' \cup UNION {Ids(last'[c]) : c \in Cams}
      BY DEF Known, Ids
    <3>8. ASSUME NEW f \in Known' PROVE f \in Nat /\ 4 * NumAruco < f
      <4>1. CASE f \in DOMAIN db'
        BY <3>4, <3>5, <3>6, <4>1 DEF Known
      <4>2. CASE \E c \in Cams : f \in Ids(points(c))
        BY <3>5, <4>2
      <4>3. f \in DOMAIN db' \/ \E c \in Cams : f \in Ids(points(c))
        BY <3>2, <3>7, <3>8
      <4> QED BY <4>1, <4>2, <4>3
    <3>9. FirstId' = FirstId /\ DOMAIN last' = Cams
      BY <3>2 DEF FirstId
    <3> QED BY <2>0, <3>3, <3>4, <3>8, <3>9 DEF TagsInv
  <2> QED BY <2>1, <2>2, <2>3, <2>4 DEF TrackersNext, Numbering, vars, baseVars
<1> QED BY <1>1, <1>2, TrackersGood, PTL DEF Spec

\* The counter stays past the corners of all tags, and all corners below: whatever the
\* tags of an image.
THEOREM TagsAreTold == Spec => []TagsKnownByTheirId
<1>1. TrackersIInv /\ TagsInv => TagsKnownByTheirId
  <2> SUFFICES ASSUME TrackersIInv, TagsInv, NEW f \in Known PROVE kind = "aruco" <=> f <= 4 * NumAruco
    BY DEF TagsKnownByTheirId, Known
  <2>0. NumAruco \in Nat
    BY TrackAssumption
  <2>1. CASE kind = "aruco"
    BY <2>1 DEF TagsInv
  <2>2. CASE Numbering
    <3>1. IdsInv /\ TrackersTyped
      BY <2>2 DEF TrackersIInv, Good, TrackersInv, Numbering
    <3>2. f \in DOMAIN db \cup UNION {Ids(Held(c)) : c \in Cams}
      BY DEF Known, Held, Ids
    <3>3. f \in Nat
      BY <3>1 DEF Known, TrackersTyped, DbTyped, Ids, Point
    <3>4. 4 * NumAruco < f /\ kind # "aruco"
      BY <2>2, <3>1, <3>2 DEF IdsInv, Numbering
    <3> QED BY <2>0, <3>3, <3>4
  <2>3. CASE kind # "aruco" /\ ~Numbering
    BY <2>0, <2>3 DEF TagsInv
  <2> QED BY <2>1, <2>2, <2>3
<1> QED BY <1>1, TagsKnown, PTL
=============================================================================
