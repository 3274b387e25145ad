-------------------------- MODULE VioManagerProofs --------------------------
(***************************************************************************)
(* Proofs about VioManager, for any cameras, features, stamps and options. *)
(* Finite sets are counted with the facts of FiniteSetTheorems.            *)
(***************************************************************************)
EXTENDS VioManager, DataFacts, FiniteSetTheorems, TLAPS

-----------------------------------------------------------------------------
(***************************************************************************)
(* The database only loses features, except when an image is fed.          *)
(***************************************************************************)
LEMMA PrunedDomain ==
  ASSUME NEW d, NEW stamp, NEW marked
  PROVE  /\ DOMAIN CleanupMeasurements(d, stamp) \subseteq DOMAIN d
         /\ DOMAIN CleanupMeasurementsExact(d, stamp) \subseteq DOMAIN d
         /\ DOMAIN Cleanup(d, marked) \subseteq DOMAIN d
         /\ FeaturesContaining(d, stamp) \subseteq DOMAIN d
  BY DEF CleanupMeasurements, CleanupMeasurementsExact, Cleanup, FeaturesContaining, NonEmpty,
         RestrictValues, Restrict

LEMMA ObservedDomain ==
  ASSUME NEW C, NEW seen \in [C -> SUBSET Feats], NEW t, NEW d, DOMAIN d \subseteq Feats
  PROVE  DOMAIN Observed(d, seen, t) \subseteq Feats
  BY DEF Observed, Range

LEMMA MinOfTwo ==
  ASSUME NEW a \in Int, NEW b \in Int
  PROVE  Min({a, b}) \in {a, b} /\ Min({a, b}) <= a /\ Min({a, b}) <= b
<1>1. \E x \in {a, b} : \A y \in {a, b} : x <= y
  BY SMT
<1> QED BY <1>1 DEF Min

-----------------------------------------------------------------------------
(***************************************************************************)
(* The landmark budget.                                                    *)
(***************************************************************************)
KnownFeats == DOMAIN db \subseteq Feats

\* What delayed_init may still turn into landmarks is counted with those there are.
Promised == Landmarks \cup feats.delayed

BudgetInv ==
  /\ KnownFeats
  /\ Promised \subseteq Feats
  /\ Cardinality(Promised) <= max_slam_features

LEMMA BudgetInit == Init => BudgetInv
<1> SUFFICES ASSUME Init PROVE BudgetInv
  OBVIOUS
<1>1. DOMAIN db = {} /\ Promised = {}
  BY DEF Init, EmptyDatabase, Promised, Landmarks, NoFeats
<1> QED BY <1>1, FS_EmptySet, VioAssumption DEF BudgetInv, KnownFeats

\* Fewer features promised than before.
LEMMA FewerKept ==
  ASSUME BudgetInv, KnownFeats', Promised' \subseteq Promised
  PROVE  BudgetInv'
<1>1. IsFiniteSet(Promised)
  BY FS_Subset, VioAssumption DEF BudgetInv
<1>2. /\ Cardinality(Promised') <= Cardinality(Promised)
      /\ Cardinality(Promised') \in Nat /\ Cardinality(Promised) \in Nat
  BY <1>1, FS_Subset, FS_CardinalityType
<1> QED BY <1>2, VioAssumption DEF BudgetInv

\* The features that become landmarks fit in.
LEMMA AmountFits ==
  ASSUME BudgetInv, NEW new \in SUBSET FeatsMaxtracks, Cardinality(new) = ValidAmount
  PROVE  /\ new \subseteq Feats
         /\ Cardinality(new \cup Landmarks) <= max_slam_features
<1>1. FeatsMaxtracks \subseteq Feats
  BY PrunedDomain DEF FeatsMaxtracks, FeatsMarg, BudgetInv, KnownFeats
<1>2. new \subseteq Feats /\ Landmarks \subseteq Feats
  BY <1>1 DEF BudgetInv, Promised
<1>3. IsFiniteSet(FeatsMaxtracks) /\ IsFiniteSet(new) /\ IsFiniteSet(Landmarks)
  BY <1>1, <1>2, FS_Subset, VioAssumption
<1>4. /\ Cardinality(FeatsMaxtracks) \in Nat /\ Cardinality(new) \in Nat
      /\ Cardinality(Landmarks) \in Nat /\ Cardinality(new \cap Landmarks) \in Nat
      /\ Cardinality(new \cup Landmarks)
           = Cardinality(new) + Cardinality(Landmarks) - Cardinality(new \cap Landmarks)
  BY <1>3, FS_CardinalityType, FS_Union, FS_Intersection
<1>5. Cardinality(Landmarks) <= max_slam_features
  <2>1. IsFiniteSet(Promised) /\ Landmarks \subseteq Promised
    BY FS_Subset, VioAssumption DEF BudgetInv, Promised
  <2>2. Cardinality(Landmarks) <= Cardinality(Promised) /\ Cardinality(Promised) \in Nat
    BY <2>1, FS_Subset, FS_CardinalityType
  <2> QED BY <2>2, <1>4, VioAssumption DEF BudgetInv
<1>6. ValidAmount <= max_slam_features - Cardinality(Landmarks)
  <2>1. CASE msg.stamp >= SlamFrom /\ Cardinality(Landmarks) < max_slam_features
    <3>1. max_slam_features - Cardinality(Landmarks) \in Int
      BY <1>4, VioAssumption
    <3>2. Min({max_slam_features - Cardinality(Landmarks), Cardinality(FeatsMaxtracks)})
            <= max_slam_features - Cardinality(Landmarks)
      BY <3>1, <1>4, MinOfTwo
    <3> QED BY <2>1, <3>2 DEF ValidAmount
  <2>2. CASE ~(msg.stamp >= SlamFrom /\ Cardinality(Landmarks) < max_slam_features)
    BY <2>2, <1>4, <1>5, VioAssumption DEF ValidAmount
  <2> QED BY <2>1, <2>2
<1> QED BY <1>2, <1>4, <1>6, VioAssumption

LEMMA SelectKeepsBudget == ASSUME BudgetInv, SelectFeatures PROVE BudgetInv'
<1>1. PICK new \in SUBSET FeatsMaxtracks :
        LET slam == new \cup (Landmarks \cap DOMAIN db)
            kept == {f \in Landmarks : ~ShouldMarg(f)}
        IN  /\ Cardinality(new) = ValidAmount
            /\ landmarks' = Restrict(landmarks, kept)
            /\ feats'.delayed = slam \ kept
  BY DEF SelectFeatures
<1>2. Landmarks' \subseteq Landmarks /\ feats'.delayed \subseteq new \cup Landmarks
  BY <1>1 DEF Landmarks, Restrict
<1>3. Promised' \subseteq new \cup Landmarks
  BY <1>2 DEF Promised
<1>4. new \cup Landmarks \subseteq Feats /\ Cardinality(new \cup Landmarks) <= max_slam_features
  BY <1>1, AmountFits DEF BudgetInv, Promised
<1>5. IsFiniteSet(new \cup Landmarks)
  BY <1>4, FS_Subset, VioAssumption
<1>6. /\ Cardinality(Promised') <= Cardinality(new \cup Landmarks)
      /\ Cardinality(Promised') \in Nat /\ Cardinality(new \cup Landmarks) \in Nat
  BY <1>3, <1>5, FS_Subset, FS_CardinalityType
<1>7. KnownFeats'
  BY DEF SelectFeatures, database, BudgetInv, KnownFeats
<1> QED BY <1>3, <1>4, <1>6, <1>7, VioAssumption DEF BudgetInv

\* No other step adds to what is promised.
LEMMA DelayedKeepsBudget == ASSUME BudgetInv, DelayedInit PROVE BudgetInv'
<1>1. PICK ok \in SUBSET feats.delayed : Landmarks' = Landmarks \cup ok
  BY DEF DelayedInit, Landmarks
<1>2. Promised' \subseteq Promised
  BY <1>1 DEF DelayedInit, Promised
<1>3. KnownFeats'
  BY DEF DelayedInit, OnlyClones, BudgetInv, KnownFeats
<1> QED BY <1>2, <1>3, FewerKept

LEMMA OthersKeepBudget ==
  ASSUME BudgetInv, \/ TryToInitialize \/ InitializationDone
                    \/ AcceptZupt \/ RejectZupt \/ RepeatZupt \/ SkipZupt
                    \/ DropOutOfOrder \/ Propagate \/ UpdateMSCKF \/ UpdateSLAM
                    \/ CleanupAndChangeAnchors \/ MarginalizeOldClone
  PROVE  BudgetInv'
<1>1. Landmarks' = Landmarks
  BY DEF TryToInitialize, InitializationDone, AcceptZupt, RejectZupt, RepeatZupt, SkipZupt,
         DropOutOfOrder, Propagate, UpdateMSCKF, UpdateSLAM, CleanupAndChangeAnchors,
         MarginalizeOldClone, Landmarks, state
<1>2. feats' = feats \/ feats' = NoFeats
  BY DEF TryToInitialize, InitializationDone, AcceptZupt, RejectZupt, RepeatZupt, SkipZupt,
         DropOutOfOrder, Propagate, UpdateMSCKF, UpdateSLAM, CleanupAndChangeAnchors,
         MarginalizeOldClone, Finish
<1>3. DOMAIN db' \subseteq DOMAIN db
  BY PrunedDomain
     DEF TryToInitialize, InitializationDone, AcceptZupt, RejectZupt, RepeatZupt, SkipZupt,
         DropOutOfOrder, Propagate, UpdateMSCKF, UpdateSLAM, CleanupAndChangeAnchors,
         MarginalizeOldClone, database, DropStillImages, OnlyClones
<1>4. KnownFeats' /\ Promised' \subseteq Promised
  BY <1>1, <1>2, <1>3 DEF BudgetInv, KnownFeats, Promised, NoFeats
<1> QED BY <1>4, FewerKept

LEMMA FeedKeepsBudget ==
  ASSUME BudgetInv, NEW C, NEW t, FeedImage(C, t)
  PROVE  BudgetInv'
<1>1. KnownFeats'
  BY ObservedDomain DEF FeedImage, BudgetInv, KnownFeats
<1>2. Promised' = Promised
  BY DEF FeedImage, state, Promised, Landmarks
<1> QED BY <1>1, <1>2, FewerKept

LEMMA StepKeepsBudget == BudgetInv /\ [Next]_vars => BudgetInv'
<1> SUFFICES ASSUME BudgetInv, [Next]_vars PROVE BudgetInv'
  OBVIOUS
<1>1. CASE UNCHANGED vars
  BY <1>1 DEF vars, state, database, BudgetInv, KnownFeats, Promised, Landmarks
<1>2. CASE Next
  BY <1>2, FeedKeepsBudget, OthersKeepBudget, SelectKeepsBudget, DelayedKeepsBudget DEF Next
<1> QED BY <1>1, <1>2

\* Landmarks given up after failed updates are initialized anew within the same image,
\* beside the new ones: together they stay within max_slam_features, since the new ones
\* are counted against the landmarks there were before any was given up.
THEOREM LandmarksWithinBudget == Spec => []SlamBudget
<1>1. BudgetInv => SlamBudget
  <2> SUFFICES ASSUME BudgetInv PROVE SlamBudget
    OBVIOUS
  <2>1. IsFiniteSet(Promised) /\ Landmarks \subseteq Promised
    BY FS_Subset, VioAssumption DEF BudgetInv, Promised
  <2>2. /\ Cardinality(Landmarks) <= Cardinality(Promised)
        /\ Cardinality(Landmarks) \in Nat /\ Cardinality(Promised) \in Nat
    BY <2>1, FS_Subset, FS_CardinalityType
  <2> QED BY <2>2, VioAssumption DEF BudgetInv, SlamBudget
<1> QED BY <1>1, BudgetInit, StepKeepsBudget, PTL DEF Spec

-----------------------------------------------------------------------------
(***************************************************************************)
(* The clone of the image being processed.                                 *)
(***************************************************************************)
\* Images come in order, or zero velocity updates are disabled.
OrderedOrMoving == setting.ordered \/ ~setting.try_zupt

Using == {"select", "msckf", "slam", "delayed", "cleanup", "marginalize"}

StampsTyped ==
  /\ setting \in Settings
  /\ timestamp \in Stamps \cup {-1}
  /\ pc # "idle" => msg.stamp \in Stamps

\* Only an initialized filter clones, and only what is past.
ClonesArePast ==
  /\ clones \subseteq Stamps
  /\ clones # {} \/ pc = "moving" => is_initialized_vio
  /\ \A c \in clones : c <= timestamp

SentStamps == {s[2] : s \in sent}

\* What ordered images mean for the state: it is at one of them.
InOrder ==
  setting.ordered =>
    /\ clones # {} => timestamp \in SentStamps
    /\ pc # "idle" => /\ msg.stamp \in SentStamps
                      /\ \A t \in SentStamps : t <= msg.stamp

Cloned == clones = {} \/ timestamp \in clones

\* The state has left its clones behind only by a zero velocity update, and then its
\* decision, for another camera's image, is still the one taken at that stamp.
LeftByZupt ==
  /\ ~Cloned => setting.try_zupt
  /\ ~Cloned /\ pc \in {"idle", "tracked"} =>
       did_zupt_update /\ (zupt_only_at_beginning => ~has_moved_since_zupt)
  /\ pc = "moving" /\ timestamp = msg.stamp => Cloned

\* The image is being used, and has its clone.
ImageCloned == pc \in Using => msg.stamp = timestamp /\ timestamp \in clones

Running == pc \in Using \cup {"idle", "tracked", "moving", "anchor assert"}

CloneInv ==
  StampsTyped /\
  (OrderedOrMoving => ClonesArePast /\ InOrder /\ LeftByZupt /\ ImageCloned /\ Running)

LEMMA StampsAreNatural == -1 \notin Stamps /\ -1 \in Int /\ \A s \in Stamps : s \in Nat /\ s \in Int
  BY VioAssumption

LEMMA CloneInit == Init => CloneInv
  BY DEF Init, CloneInv, StampsTyped, ClonesArePast, InOrder, LeftByZupt, ImageCloned, Running,
         Using, Cloned, NoMessage

\* A still image leaves the clones behind, but not out of order.
LEMMA ZuptKeepsClones ==
  ASSUME CloneInv, AcceptZupt
  PROVE  CloneInv'
<1>0. StampsTyped' /\ msg.stamp \in Stamps /\ timestamp \in Stamps \cup {-1}
  BY DEF AcceptZupt, Finish, CloneInv, StampsTyped
<1>1. timestamp \in Int /\ StampsTyped' /\ msg.stamp \in Stamps
  BY <1>0, StampsAreNatural
<1>2. SUFFICES ASSUME OrderedOrMoving'
               PROVE  ClonesArePast' /\ InOrder' /\ LeftByZupt' /\ ImageCloned' /\ Running'
  BY <1>1 DEF CloneInv
<1>3. /\ setting.try_zupt /\ setting.ordered /\ OrderedOrMoving
      /\ zupt_only_at_beginning => ~has_moved_since_zupt
  BY <1>2 DEF AcceptZupt, ZuptEnabled, OrderedOrMoving
<1>4. /\ ClonesArePast /\ InOrder
      /\ clones # {} => timestamp <= msg.stamp
  BY <1>3 DEF AcceptZupt, CloneInv, InOrder
<1>5. ClonesArePast'
  <2>1. ASSUME NEW c \in clones PROVE c <= msg.stamp
    <3>1. c \in Stamps /\ c <= timestamp /\ timestamp <= msg.stamp
      BY <1>4 DEF ClonesArePast
    <3>2. c \in Int /\ msg.stamp \in Int
      BY <1>1, <3>1, StampsAreNatural
    <3> QED BY <3>1, <3>2, <1>1
  <2>2. /\ clones' = clones /\ timestamp' = msg.stamp /\ pc' = "idle"
        /\ is_initialized_vio' = is_initialized_vio
    BY DEF AcceptZupt, Finish
  <2> QED BY <1>4, <2>1, <2>2 DEF ClonesArePast
<1>6. InOrder'
  BY <1>3, <1>4 DEF AcceptZupt, Finish, InOrder, SentStamps
<1>7. LeftByZupt' /\ ImageCloned' /\ Running'
  BY <1>3 DEF AcceptZupt, Finish, LeftByZupt, ImageCloned, Running, Using
<1> QED BY <1>5, <1>6, <1>7

\* Whether a clone is added or there already, the image has one when it is used.
LEMMA PropagateKeepsClones ==
  ASSUME CloneInv, Propagate
  PROVE  CloneInv'
<1>0. msg.stamp \in Stamps /\ timestamp \in Stamps \cup {-1}
  BY DEF Propagate, CloneInv, StampsTyped
<1>1. msg.stamp \in Stamps /\ timestamp \in Int /\ msg.stamp \in Int
  BY <1>0, StampsAreNatural
<1>0a. timestamp <= msg.stamp
  BY <1>1 DEF Propagate, OutOfOrder
<1>0b. StampsTyped'
  BY <1>1 DEF Propagate, Finish, CloneInv, StampsTyped
<1>2. SUFFICES ASSUME OrderedOrMoving'
               PROVE  ClonesArePast' /\ InOrder' /\ LeftByZupt' /\ ImageCloned' /\ Running'
  BY <1>0b DEF CloneInv
<1>3. /\ ClonesArePast /\ InOrder /\ LeftByZupt /\ ImageCloned /\ Running
      /\ timestamp' = msg.stamp /\ is_initialized_vio
  BY <1>2 DEF Propagate, OrderedOrMoving, CloneInv, ClonesArePast
<1>4. \A c \in clones : c \in Int /\ c <= timestamp
  BY <1>3, StampsAreNatural DEF ClonesArePast
<1>5. ~(NeedsClone /\ msg.stamp \in clones)
  BY <1>1, <1>0a, <1>4 DEF NeedsClone
<1>6. clones' = {} \/ msg.stamp \in clones'
  BY <1>3 DEF Propagate, NeedsClone, LeftByZupt, Cloned
<1>7. /\ clones' \subseteq clones \cup {msg.stamp}
      /\ (pc' = "idle" /\ msg' = NoMessage) \/ (pc' = "select" /\ msg' = msg /\ ~(Cardinality(clones') < MinToUpdate))
  BY <1>5 DEF Propagate, Finish
<1>8. ClonesArePast'
  <2>1. ASSUME NEW c \in clones' PROVE c <= msg.stamp
    <3>1. c \in Int /\ (c = msg.stamp \/ c <= timestamp)
      BY <1>1, <1>4, <1>7
    <3> QED BY <3>1, <1>1, <1>0a
  <2> QED BY <1>1, <1>3, <1>7, <2>1 DEF Propagate, ClonesArePast
<1>9. InOrder'
  BY <1>3, <1>7 DEF Propagate, InOrder, SentStamps
<1>10. Cloned'
  BY <1>3, <1>6 DEF Cloned
<1>11. LeftByZupt' /\ Running'
  BY <1>7, <1>10 DEF LeftByZupt, Running, Using
<1>12. clones' # {} \/ pc' # "select"
  <2>1. MinToUpdate \in {max_clone_size, MinClones}
    <3>1. max_clone_size \in Nat /\ MinClones \in Nat
      BY VioAssumption
    <3> QED BY <3>1, MinOfTwo DEF MinToUpdate
  <2>2. Cardinality({}) = 0 /\ 0 < MinToUpdate
    BY <2>1, FS_EmptySet, VioAssumption
  <2> QED BY <2>2, <1>7
<1>13. ImageCloned'
  BY <1>3, <1>6, <1>7, <1>12 DEF ImageCloned, Using
<1> QED BY <1>8, <1>9, <1>11, <1>13

\* The oldest of more clones than fit in the window is not that of the image.
LEMMA OldestOfSeveral ==
  ASSUME ClonesArePast, timestamp \in clones,
         Cardinality(clones) > max_clone_size \/ Cardinality(clones) > MinClones
  PROVE  /\ margtimestep \in clones /\ \A c \in clones : margtimestep <= c /\ c \in Nat
         /\ timestamp # margtimestep
<1>1. clones \in SUBSET Nat /\ clones # {}
  BY StampsAreNatural DEF ClonesArePast
<1>2. margtimestep \in clones /\ \A c \in clones : margtimestep <= c
  BY <1>1, MinOfNaturals DEF margtimestep
<1>3. ASSUME timestamp = margtimestep PROVE FALSE
  <2>1. \A c \in clones : c <= timestamp /\ timestamp <= c /\ c \in Nat /\ timestamp \in Nat
    BY <1>1, <1>2, <1>3 DEF ClonesArePast
  <2>2. clones = {timestamp}
    BY <2>1
  <2>3. Cardinality(clones) = 1
    BY <2>2, FS_Singleton
  <2> QED BY <2>3, VioAssumption
<1> QED BY <1>1, <1>2, <1>3

\* The clone removed is the oldest of several, so not that of the image.
LEMMA MarginalizeKeepsClones ==
  ASSUME CloneInv, MarginalizeOldClone
  PROVE  CloneInv'
<1>1. StampsTyped' /\ clones' \subseteq clones /\ timestamp' = timestamp
  BY DEF MarginalizeOldClone, Finish, CloneInv, StampsTyped
<1>2. SUFFICES ASSUME OrderedOrMoving'
               PROVE  ClonesArePast' /\ InOrder' /\ LeftByZupt' /\ ImageCloned' /\ Running'
  BY <1>1 DEF CloneInv
<1>3. /\ ClonesArePast /\ InOrder /\ LeftByZupt /\ ImageCloned /\ timestamp \in clones
  BY <1>2 DEF MarginalizeOldClone, OrderedOrMoving, CloneInv, ImageCloned, Using
<1>4. ClonesArePast'
  BY <1>1, <1>3 DEF MarginalizeOldClone, Finish, ClonesArePast
<1>5. InOrder'
  BY <1>1, <1>3 DEF MarginalizeOldClone, Finish, InOrder, SentStamps
<1>6. timestamp \in clones'
  <2>1. CASE WindowExceeded
    BY <2>1, <1>3, OldestOfSeveral DEF MarginalizeOldClone, WindowExceeded
  <2>2. CASE ~WindowExceeded
    BY <2>2, <1>3 DEF MarginalizeOldClone
  <2> QED BY <2>1, <2>2
<1>7. LeftByZupt' /\ ImageCloned' /\ Running'
  BY <1>1, <1>6 DEF MarginalizeOldClone, Finish, LeftByZupt, Cloned, ImageCloned, Running, Using
<1> QED BY <1>4, <1>5, <1>7

\* Feeding, in whatever order the setting allows.
LEMMA FeedKeepsClones ==
  ASSUME CloneInv, NEW C \in (SUBSET Cams) \ {{}}, NEW t \in Stamps, FeedImage(C, t)
  PROVE  CloneInv'
<1>1. /\ msg'.stamp = t /\ pc = "idle" /\ pc' = "tracked" /\ sent' = sent \cup (C \X {t})
      /\ setting.ordered => \A s \in sent : s[2] <= t
  BY DEF FeedImage
<1>2. UNCHANGED <<setting, is_initialized_vio, timestamp, clones, did_zupt_update,
                  has_moved_since_zupt>>
  BY DEF FeedImage, state, zupt
<1>3. StampsTyped' /\ t \in Int /\ OrderedOrMoving' = OrderedOrMoving
  BY <1>1, <1>2, StampsAreNatural DEF CloneInv, StampsTyped, OrderedOrMoving
<1>4. InOrder => InOrder'
  <2>1. SentStamps' = SentStamps \cup {t}
    <3>1. PICK c : c \in C
      OBVIOUS
    <3>2. <<c, t>> \in sent' /\ <<c, t>>[2] = t
      BY <1>1, <3>1
    <3>3. SentStamps \subseteq SentStamps' /\ t \in SentStamps'
      BY <1>1, <3>2 DEF SentStamps
    <3>4. \A s \in C \X {t} : s[2] = t
      OBVIOUS
    <3>5. SentStamps' \subseteq SentStamps \cup {t}
      BY <1>1, <3>4 DEF SentStamps
    <3> QED BY <3>3, <3>5
  <2>2. setting.ordered => \A u \in SentStamps : u <= t
    BY <1>1 DEF SentStamps
  <2> QED BY <1>1, <1>2, <1>3, <2>1, <2>2 DEF InOrder
<1>5. ClonesArePast /\ LeftByZupt => ClonesArePast' /\ LeftByZupt'
  BY <1>1, <1>2 DEF ClonesArePast, LeftByZupt, Cloned
<1>6. ImageCloned' /\ Running'
  BY <1>1 DEF ImageCloned, Running, Using
<1> QED BY <1>3, <1>4, <1>5, <1>6 DEF CloneInv

\* A failed attempt to initialize, or one that gives the state its first time.
LEMMA InitializeKeepsClones ==
  ASSUME CloneInv, TryToInitialize
  PROVE  CloneInv'
<1>1. /\ ~is_initialized_vio /\ pc' = "idle"
      /\ UNCHANGED <<setting, is_initialized_vio, clones, sent>>
      /\ timestamp' = timestamp \/ timestamp' \in Stamps
  BY DEF TryToInitialize, Finish
<1>2. StampsTyped'
  BY <1>1 DEF CloneInv, StampsTyped
<1>3. OrderedOrMoving' => ClonesArePast' /\ clones' = {}
  BY <1>1 DEF CloneInv, OrderedOrMoving, ClonesArePast
<1>4. OrderedOrMoving' => InOrder' /\ LeftByZupt' /\ ImageCloned' /\ Running'
  BY <1>1, <1>3 DEF InOrder, LeftByZupt, Cloned, ImageCloned, Running, Using
<1> QED BY <1>2, <1>3, <1>4 DEF CloneInv

\* From tracking on, an image of the state's time finds the state at a clone.
LEMMA MovingKeepsClones ==
  ASSUME CloneInv, InitializationDone \/ RejectZupt \/ RepeatZupt \/ SkipZupt
  PROVE  CloneInv'
<1>1. /\ pc = "tracked"
      /\ UNCHANGED <<setting, timestamp, clones, sent, has_moved_since_zupt>>
      /\ pc' = "moving" => msg' = msg /\ is_initialized_vio'
      /\ pc' = "moving" \/ (pc' = "idle" /\ did_zupt_update' = did_zupt_update)
      /\ is_initialized_vio => is_initialized_vio'
  BY DEF InitializationDone, RejectZupt, RepeatZupt, SkipZupt, state, zupt, Finish, ZuptEnabled
<1>2. StampsTyped' /\ OrderedOrMoving' = OrderedOrMoving
  BY <1>1 DEF CloneInv, StampsTyped, OrderedOrMoving
<1>3. SUFFICES ASSUME ClonesArePast, InOrder, LeftByZupt
               PROVE  ClonesArePast' /\ InOrder' /\ LeftByZupt' /\ ImageCloned' /\ Running'
  BY <1>2 DEF CloneInv
<1>4. ClonesArePast' /\ InOrder' /\ ImageCloned' /\ Running'
  BY <1>1, <1>3 DEF ClonesArePast, InOrder, SentStamps, ImageCloned, Running, Using
<1>5. pc' = "moving" /\ timestamp = msg.stamp => Cloned
  <2>1. CASE InitializationDone
    BY <2>1, <1>3 DEF InitializationDone, ClonesArePast, Cloned
  <2>2. CASE RejectZupt
    BY <2>2 DEF RejectZupt
  <2>3. CASE RepeatZupt
    BY <2>3, <1>3 DEF RepeatZupt, SharedDecision, LeftByZupt, Finish
  <2>4. CASE SkipZupt
    BY <2>4, <1>3 DEF SkipZupt, ZuptEnabled, LeftByZupt
  <2> QED BY <2>1, <2>2, <2>3, <2>4
<1>6. LeftByZupt'
  BY <1>1, <1>3, <1>5 DEF LeftByZupt, Cloned
<1> QED BY <1>4, <1>6

\* Ordered images are not dropped, and the others are not still.
LEMMA DropKeepsClones ==
  ASSUME CloneInv, DropOutOfOrder
  PROVE  CloneInv'
<1>1. /\ pc = "moving" /\ pc' = "idle" /\ timestamp > msg.stamp
      /\ UNCHANGED <<setting, is_initialized_vio, timestamp, clones, sent>>
  BY DEF DropOutOfOrder, Finish, OutOfOrder, state
<1>0. msg.stamp \in Stamps /\ timestamp \in Stamps \cup {-1}
  BY <1>1 DEF CloneInv, StampsTyped
<1>2. StampsTyped' /\ OrderedOrMoving' = OrderedOrMoving
  BY <1>1 DEF CloneInv, StampsTyped, OrderedOrMoving
<1>3. SUFFICES ASSUME ClonesArePast, InOrder, LeftByZupt, OrderedOrMoving
               PROVE  ClonesArePast' /\ InOrder' /\ LeftByZupt' /\ ImageCloned' /\ Running'
  BY <1>2 DEF CloneInv
<1>4. ClonesArePast' /\ InOrder' /\ ImageCloned' /\ Running'
  BY <1>1, <1>3 DEF ClonesArePast, InOrder, SentStamps, ImageCloned, Running, Using
<1>5. ASSUME ~Cloned PROVE FALSE
  <2>1. setting.ordered /\ clones # {}
    BY <1>3, <1>5 DEF OrderedOrMoving, LeftByZupt, Cloned
  <2>2. timestamp <= msg.stamp
    BY <1>1, <1>3, <2>1 DEF InOrder
  <2>3. timestamp \in Int /\ msg.stamp \in Int
    BY <1>0, StampsAreNatural
  <2> QED BY <1>1, <2>2, <2>3
<1>6. LeftByZupt'
  BY <1>1, <1>5 DEF LeftByZupt, Cloned
<1> QED BY <1>4, <1>6

\* The updates touch neither time nor clones; the assertion finds the clone.
LEMMA UpdatesKeepClones ==
  ASSUME CloneInv, \/ SelectFeatures \/ UpdateMSCKF \/ UpdateSLAM \/ DelayedInit
                   \/ CleanupAndChangeAnchors
  PROVE  CloneInv'
<1>1. /\ pc \in Using
      /\ UNCHANGED <<setting, is_initialized_vio, timestamp, clones, sent, msg>>
  BY DEF SelectFeatures, UpdateMSCKF, UpdateSLAM, DelayedInit, CleanupAndChangeAnchors, state,
         Using
<1>2. ImageCloned => pc' \in Using \cup {"anchor assert"}
  BY DEF SelectFeatures, UpdateMSCKF, UpdateSLAM, DelayedInit, CleanupAndChangeAnchors, Using,
         ImageCloned, RetriangulateAsserts
<1>3. StampsTyped' /\ OrderedOrMoving' = OrderedOrMoving
  BY <1>1 DEF CloneInv, StampsTyped, OrderedOrMoving, Using
<1>4. SUFFICES ASSUME ClonesArePast, InOrder, LeftByZupt, ImageCloned
               PROVE  ClonesArePast' /\ InOrder' /\ LeftByZupt' /\ ImageCloned' /\ Running'
  BY <1>3 DEF CloneInv
<1>5. pc' \in Using \cup {"anchor assert"}
  BY <1>2, <1>4
<1>6. ClonesArePast' /\ InOrder' /\ Running'
  BY <1>1, <1>4, <1>5 DEF ClonesArePast, InOrder, SentStamps, Running, Using
<1>7. ImageCloned' /\ Cloned'
  BY <1>1, <1>4 DEF ImageCloned, Cloned
<1>8. LeftByZupt'
  BY <1>5, <1>7 DEF LeftByZupt, Using
<1> QED BY <1>6, <1>7, <1>8

LEMMA StepKeepsClones == CloneInv /\ [Next]_vars => CloneInv'
<1> SUFFICES ASSUME CloneInv, [Next]_vars PROVE CloneInv'
  OBVIOUS
<1>1. CASE UNCHANGED vars
  BY <1>1 DEF vars, state, zupt, CloneInv, StampsTyped, OrderedOrMoving, ClonesArePast, InOrder,
              SentStamps, LeftByZupt, Cloned, ImageCloned, Running
<1>2. CASE Next
  BY <1>2, FeedKeepsClones, InitializeKeepsClones, ZuptKeepsClones, MovingKeepsClones,
     DropKeepsClones, PropagateKeepsClones, UpdatesKeepClones, MarginalizeKeepsClones DEF Next
<1> QED BY <1>1, <1>2

\* When only ordered images or no zero velocity updates come, the clone that camera 0's
\* tracks are triangulated with is there, and no image is cloned twice: the assertion
\* fails only where both are given up.
THEOREM ClonesOfOrderedImages ==
  Spec => [](OrderedOrMoving => CloneOfImageExists /\ pc # "exit")
<1>1. CloneInv => (OrderedOrMoving => CloneOfImageExists /\ pc # "exit")
  BY DEF CloneInv, Running, Using, CloneOfImageExists
<1> QED BY <1>1, CloneInit, StepKeepsClones, PTL DEF Spec

-----------------------------------------------------------------------------
(***************************************************************************)
(* What the database and the landmarks hold.                               *)
(***************************************************************************)
Distinct == {p \in Stamps \X Stamps : p[1] # p[2]}

\* What camera c's measurements of a feature look like.
Track(s, c, delivered) ==
  /\ s \in Seq(Stamps) /\ Chained(s, Distinct)
  /\ \A t \in ToSet(s) : <<c, t>> \in delivered

TracksOf(d, delivered) ==
  \A f \in DOMAIN d : /\ DOMAIN d[f] \subseteq Cams
                      /\ \A c \in DOMAIN d[f] : Track(d[f][c], c, delivered)

Entry == [anchor : Stamps, cam : Cams, update_fail_count : Nat, row : Nat]

Dividing == {"msckf", "slam", "delayed"}

DataInv ==
  /\ TracksOf(db, sent)
  /\ \A f \in Landmarks : landmarks[f] \in Entry
  /\ pc \in Dividing => feats.msckf \cup feats.update \cup feats.delayed \subseteq DOMAIN db
  /\ pc \in Dividing \cup {"select", "cleanup"} => timestamp \in Stamps

\* Pruning takes features, and measurements from those that stay.
Thins(new, old) ==
  /\ DOMAIN new \subseteq DOMAIN old
  /\ \A f \in DOMAIN new : /\ DOMAIN new[f] = DOMAIN old[f]
                           /\ \A c \in DOMAIN new[f] :
                                \A t \in ToSet(new[f][c]) : t \in ToSet(old[f][c])

LEMMA KeepingTracks ==
  ASSUME NEW e, NEW S, DOMAIN e \subseteq Cams, \A c \in DOMAIN e : Track(e[c], c, sent)
  PROVE  /\ DOMAIN Keeping(e, S) = DOMAIN e
         /\ \A c \in DOMAIN e :
              /\ Track(Keeping(e, S)[c], c, sent)
              /\ \A t : t \in ToSet(Keeping(e, S)[c]) <=> t \in ToSet(e[c]) /\ t \in S
<1>1. DOMAIN Keeping(e, S) = DOMAIN e /\ \A c \in DOMAIN e : Keeping(e, S)[c] = Kept(e[c], S)
  BY DEF Keeping
<1>2. ASSUME NEW c \in DOMAIN e
      PROVE  /\ Track(Kept(e[c], S), c, sent)
             /\ \A t : t \in ToSet(Kept(e[c], S)) <=> t \in ToSet(e[c]) /\ t \in S
  <2>1. e[c] \in Seq(Stamps) /\ Chained(e[c], Distinct) /\ \A t \in ToSet(e[c]) : <<c, t>> \in sent
    BY DEF Track
  <2>2. /\ Kept(e[c], S) \in Seq(Stamps)
        /\ \A t : t \in ToSet(Kept(e[c], S)) <=> t \in ToSet(e[c]) /\ t \in S
    BY <2>1, KeptIs
  <2>3. Chained(Kept(e[c], S), Distinct)
    BY <2>1, KeptChained
  <2> QED BY <2>1, <2>2, <2>3 DEF Track
<1> QED BY <1>1, <1>2

LEMMA NonEmptyIs == ASSUME NEW d PROVE \E D \in SUBSET DOMAIN d : NonEmpty(d) = [f \in D |-> d[f]]
<1> DEFINE D == {f \in DOMAIN d : NumMeasurements(d[f]) >= 1}
<1>1. NonEmpty(d) = [f \in D |-> d[f]]
  BY DEF NonEmpty, RestrictValues, Restrict
<1> QED BY <1>1

\* All the pruning there is, of a whole database.
LEMMA PruningThins ==
  ASSUME NEW d, TracksOf(d, sent), NEW stamp, NEW marked, NEW F, NEW S,
         NEW e, e \in {CleanupMeasurements(d, stamp), CleanupMeasurementsExact(d, stamp),
                       Cleanup(d, marked), d,
                       [f \in DOMAIN d |-> IF f \in F THEN CleanOldMeasurements(d[f], S) ELSE d[f]]}
  PROVE  TracksOf(e, sent) /\ Thins(e, d)
<1>1. ASSUME NEW f \in DOMAIN d, NEW K
      PROVE  /\ DOMAIN Keeping(d[f], K) = DOMAIN d[f]
             /\ \A c \in DOMAIN d[f] : /\ Track(Keeping(d[f], K)[c], c, sent)
                                       /\ \A t \in ToSet(Keeping(d[f], K)[c]) : t \in ToSet(d[f][c])
  BY KeepingTracks DEF TracksOf
<1>2. ASSUME NEW K, NEW D \in SUBSET DOMAIN d,
             e = [f \in D |-> Keeping(d[f], K)]
      PROVE  TracksOf(e, sent) /\ Thins(e, d)
  BY <1>1, <1>2 DEF TracksOf, Thins
<1>3. CASE e = CleanupMeasurements(d, stamp)
  <2>1. \E D \in SUBSET DOMAIN d : e = [f \in D |-> Keeping(d[f], Nat \ 0..stamp)]
    <3> DEFINE thin == [f \in DOMAIN d |-> Keeping(d[f], Nat \ 0..stamp)]
    <3>1. PICK D \in SUBSET DOMAIN d : NonEmpty(thin) = [f \in D |-> thin[f]]
      BY NonEmptyIs
    <3>2. [f \in D |-> thin[f]] = [f \in D |-> Keeping(d[f], Nat \ 0..stamp)]
      OBVIOUS
    <3> QED BY <1>3, <3>1, <3>2 DEF CleanupMeasurements
  <2> QED BY <1>2, <2>1
<1>4. CASE e = CleanupMeasurementsExact(d, stamp)
  <2>1. \E D \in SUBSET DOMAIN d : e = [f \in D |-> Keeping(d[f], Nat \ {stamp})]
    <3> DEFINE thin == [f \in DOMAIN d |-> Keeping(d[f], Nat \ {stamp})]
    <3>1. PICK D \in SUBSET DOMAIN d : NonEmpty(thin) = [f \in D |-> thin[f]]
      BY NonEmptyIs
    <3>2. [f \in D |-> thin[f]] = [f \in D |-> Keeping(d[f], Nat \ {stamp})]
      OBVIOUS
    <3> QED BY <1>4, <3>1, <3>2 DEF CleanupMeasurementsExact
  <2> QED BY <1>2, <2>1
<1>5. CASE e = Cleanup(d, marked)
  BY <1>5 DEF Cleanup, Restrict, TracksOf, Thins
<1>6. CASE e = d
  BY <1>6 DEF TracksOf, Thins
<1>7. CASE e = [f \in DOMAIN d |-> IF f \in F THEN CleanOldMeasurements(d[f], S) ELSE d[f]]
  BY <1>1, <1>7 DEF TracksOf, Thins, CleanOldMeasurements
<1> QED BY <1>3, <1>4, <1>5, <1>6, <1>7

\* A camera that sees a feature has not delivered an image of that stamp before.
LEMMA FeedKeepsData ==
  ASSUME DataInv, StampsTyped, NEW C \in (SUBSET Cams) \ {{}}, NEW t \in Stamps, FeedImage(C, t)
  PROVE  DataInv'
<1>1. PICK seen \in [C -> SUBSET Feats] : db' = Observed(db, seen, t)
  BY DEF FeedImage
<1>2. sent' = sent \cup (C \X {t}) /\ \A c \in C : <<c, t>> \notin sent
  BY DEF FeedImage
<1>3. ASSUME NEW c \in C, NEW s, Track(s, c, sent)
      PROVE  Track(Append(s, t), c, sent')
  <2>1. /\ s \in Seq(Stamps) /\ Chained(s, Distinct) /\ \A u \in ToSet(s) : <<c, u>> \in sent
        /\ Append(s, t) \in Seq(Stamps) /\ Len(s) \in Nat /\ DOMAIN s = 1..Len(s)
        /\ Len(Append(s, t)) = Len(s) + 1 /\ Append(s, t)[Len(s) + 1] = t
        /\ \A i \in 1..Len(s) : Append(s, t)[i] = s[i]
        /\ DOMAIN Append(s, t) = 1..(Len(s) + 1)
    BY <1>3 DEF Track
  <2>2. \A i \in 1..Len(s) : s[i] \in ToSet(s) /\ s[i] \in Stamps
    BY <2>1 DEF ToSet
  <2>3. \A i \in 1..Len(s) : s[i] # t
    BY <1>2, <2>1, <2>2
  <2>4. \A i \in 1..Len(s) : <<s[i], t>> \in Distinct
    BY <2>2, <2>3 DEF Distinct
  <2>5. Chained(Append(s, t), Distinct)
    BY <2>1, <2>4 DEF Chained
  <2>6. \A u \in ToSet(Append(s, t)) : u = t \/ u \in ToSet(s)
    BY <2>1 DEF ToSet
  <2>7. \A u \in ToSet(Append(s, t)) : <<c, u>> \in sent'
    BY <1>2, <2>1, <2>6
  <2> QED BY <2>1, <2>5, <2>7 DEF Track
<1>4. Track(<<>>, 0, sent) /\ \A c : Track(<<>>, c, sent)
  BY DEF Track, Chained, ToSet
<1>5. \A s, c : Track(s, c, sent) => Track(s, c, sent')
  BY <1>2 DEF Track
<1>6. TracksOf(db', sent')
  <2> DEFINE Seers(f) == {c \in DOMAIN seen : f \in seen[c]}
             Known(f) == IF f \in DOMAIN db THEN DOMAIN db[f] ELSE {}
             Old(f, c) == IF c \in Known(f) THEN db[f][c] ELSE <<>>
  <2> SUFFICES ASSUME NEW f \in DOMAIN db'
               PROVE  DOMAIN db'[f] \subseteq Cams /\ \A c \in DOMAIN db'[f] : Track(db'[f][c], c, sent')
    BY DEF TracksOf
  <2>1. db'[f] = [c \in Known(f) \cup Seers(f) |->
                    IF c \in Seers(f) THEN Append(Old(f, c), t) ELSE Old(f, c)]
    BY <1>1 DEF Observed
  <2>2. Known(f) \subseteq Cams /\ \A c : Track(Old(f, c), c, sent)
    BY <1>4 DEF DataInv, TracksOf
  <2>3. Seers(f) \subseteq C /\ C \subseteq Cams
    OBVIOUS
  <2> HIDE DEF Seers, Known, Old
  <2>4. DOMAIN db'[f] \subseteq Cams
    BY <2>1, <2>2, <2>3
  <2>5. ASSUME NEW c \in DOMAIN db'[f] PROVE Track(db'[f][c], c, sent')
    <3>1. CASE c \in Seers(f)
      <4>1. Track(Append(Old(f, c), t), c, sent')
        BY <1>3, <2>2, <2>3, <3>1
      <4>2. db'[f][c] = Append(Old(f, c), t)
        BY <2>1, <3>1
      <4> QED BY <4>1, <4>2
    <3>2. CASE c \notin Seers(f)
      <4>1. Track(Old(f, c), c, sent')
        BY <1>5, <2>2
      <4>2. db'[f][c] = Old(f, c)
        BY <2>1, <3>2
      <4> QED BY <4>1, <4>2
    <3> QED BY <3>1, <3>2
  <2> QED BY <2>4, <2>5
<1>7. pc' = "tracked" /\ landmarks' = landmarks
  BY DEF FeedImage, state
<1> QED BY <1>6, <1>7 DEF DataInv, Landmarks, Dividing

\* The measurements of a feature can be counted.
LEMMA MeasurementsCounted ==
  ASSUME NEW d, DOMAIN d \subseteq Cams, \A c \in DOMAIN d : Track(d[c], c, sent)
  PROVE  /\ NumMeasurements(d) \in Nat
         /\ NumMeasurements(d) = 0 <=> \A c \in DOMAIN d : d[c] = <<>>
<1> DEFINE P == {{c} \X DOMAIN d[c] : c \in DOMAIN d}
<1>1. IsFiniteSet(P)
  <2> DEFINE h == [c \in DOMAIN d |-> {c} \X DOMAIN d[c]]
  <2>1. IsFiniteSet(DOMAIN d)
    BY FS_Subset, VioAssumption
  <2>2. h \in [DOMAIN d -> P] /\ \A y \in P : \E c \in DOMAIN d : h[c] = y
    OBVIOUS
  <2> HIDE DEF h, P
  <2>3. h \in Surjection(DOMAIN d, P)
    BY <2>2 DEF Surjection
  <2> QED BY <2>1, <2>3, FS_Surjection
<1>2. ASSUME NEW c \in DOMAIN d
      PROVE  IsFiniteSet({c} \X DOMAIN d[c]) /\ (DOMAIN d[c] = {} <=> d[c] = <<>>)
  <2>1. DOMAIN d[c] = 1..Len(d[c]) /\ Len(d[c]) \in Nat /\ d[c] \in Seq(Stamps)
    BY DEF Track
  <2> DEFINE n == Len(d[c])
  <2> HIDE DEF n
  <2>2. IsFiniteSet(1..n) /\ IsFiniteSet({c})
    <3>1. n \in Int /\ 1 \in Int
      BY <2>1 DEF n
    <3>2. IsFiniteSet(1..n)
      BY <3>1, FS_Interval
    <3> QED BY <3>2, FS_Singleton
  <2>3. IsFiniteSet({c} \X DOMAIN d[c])
    BY <2>1, <2>2, FS_Product DEF n
  <2>4. Len(d[c]) = 0 <=> d[c] = <<>>
    BY <2>1
  <2>5. 1..n = {} <=> n = 0
    <3>1. n \in Nat
      BY <2>1 DEF n
    <3>2. n # 0 => 1 \in 1..n
      BY <3>1
    <3> QED BY <3>1, <3>2
  <2> QED BY <2>1, <2>3, <2>4, <2>5 DEF n
<1>3. IsFiniteSet(UNION P)
  <2>1. \A x \in P : IsFiniteSet(x)
    BY <1>2
  <2> QED BY <1>1, <2>1, FS_UNION
<1>4. UNION P = {} <=> \A c \in DOMAIN d : DOMAIN d[c] = {}
  <2>1. ASSUME NEW c \in DOMAIN d, NEW i \in DOMAIN d[c] PROVE <<c, i>> \in UNION P
    OBVIOUS
  <2>2. ASSUME \A c \in DOMAIN d : DOMAIN d[c] = {} PROVE UNION P = {}
    BY <2>2
  <2> QED BY <2>1, <2>2
<1>5. NumMeasurements(d) = Cardinality(UNION P)
  BY DEF NumMeasurements
<1> HIDE DEF P
<1>6. Cardinality(UNION P) \in Nat /\ (Cardinality(UNION P) = 0 <=> UNION P = {})
  BY <1>3, FS_CardinalityType, FS_EmptySet
<1> QED BY <1>2, <1>4, <1>5, <1>6

\* Where there is a measurement, the last one of the longest track is one, too.
LEMMA AnchorsAreMeasurements ==
  ASSUME NEW d, DOMAIN d \subseteq Cams, \A c \in DOMAIN d : d[c] \in Seq(Stamps),
         ~(NumMeasurements(d) < 1), NEW a \in Anchors(d)
  PROVE  a \in Entry /\ a.cam \in DOMAIN d /\ a.anchor \in ToSet(d[a.cam])
<1>1. PICK c \in DOMAIN d : /\ a = [anchor |-> Last(d[c]), cam |-> c, update_fail_count |-> 0, row |-> 0]
                            /\ \A j \in DOMAIN d : Len(d[c]) >= Len(d[j])
  BY DEF Anchors
<1>2. \A j \in DOMAIN d : Len(d[j]) \in Nat /\ DOMAIN d[j] = 1..Len(d[j])
  OBVIOUS
<1>3. ASSUME Len(d[c]) = 0 PROVE FALSE
  <2>1. \A j \in DOMAIN d : DOMAIN d[j] = {}
    BY <1>1, <1>2, <1>3
  <2>2. UNION {{j} \X DOMAIN d[j] : j \in DOMAIN d} = {}
    BY <2>1
  <2>3. NumMeasurements(d) = Cardinality({})
    BY <2>2 DEF NumMeasurements
  <2> QED BY <2>3, FS_EmptySet
<1>4. Len(d[c]) \in DOMAIN d[c] /\ d[c][Len(d[c])] \in Stamps
  BY <1>2, <1>3
<1>5. Last(d[c]) \in ToSet(d[c]) /\ Last(d[c]) \in Stamps
  BY <1>4 DEF ToSet, Last
<1> QED BY <1>1, <1>5 DEF Entry

\* The division only takes features of the database.
LEMMA SelectKeepsData == ASSUME DataInv, SelectFeatures PROVE DataInv'
<1>1. PICK new \in SUBSET FeatsMaxtracks :
        LET slam == new \cup (Landmarks \cap DOMAIN db)
            kept == {f \in Landmarks : ~ShouldMarg(f)}
        IN  /\ landmarks' = Restrict(landmarks, kept)
            /\ \E S \in LongestTracks(FeatsupMsckf(new)) :
                 feats' = [msckf |-> S, update |-> slam \cap kept, delayed |-> slam \ kept]
  BY DEF SelectFeatures
<1>2. new \subseteq DOMAIN db /\ FeatsupMsckf(new) \subseteq DOMAIN db
  BY PrunedDomain DEF FeatsMaxtracks, FeatsMarg, FeatsLost, FeatsupMsckf,
                      FeaturesNotContainingNewer
<1>3. feats'.msckf \cup feats'.update \cup feats'.delayed \subseteq DOMAIN db
  BY <1>1, <1>2 DEF LongestTracks
<1>4. \A f \in Landmarks' : f \in Landmarks /\ landmarks'[f] = landmarks[f]
  BY <1>1 DEF Landmarks, Restrict
<1>5. db' = db /\ sent' = sent /\ timestamp' = timestamp /\ pc = "select"
  BY DEF SelectFeatures, database
<1> QED BY <1>3, <1>4, <1>5 DEF DataInv

LEMMA MSCKFKeepsData == ASSUME DataInv, UpdateMSCKF PROVE DataInv'
<1>1. /\ db' = OnlyClones(feats.msckf) /\ DOMAIN db' = DOMAIN db /\ pc = "msckf"
      /\ feats' = feats /\ landmarks' = landmarks /\ sent' = sent /\ timestamp' = timestamp
  BY DEF UpdateMSCKF, OnlyClones, state
<1>2. TracksOf(db', sent')
  BY <1>1, PruningThins DEF DataInv, OnlyClones
<1> QED BY <1>1, <1>2 DEF DataInv, Landmarks, Dividing

\* A landmark's entry is only counted up or reset.
LEMMA SLAMKeepsEntries ==
  ASSUME DataInv, UpdateSLAM
  PROVE  /\ Landmarks' = Landmarks
         /\ \A f \in Landmarks : landmarks'[f] \in Entry /\ landmarks'[f].anchor = landmarks[f].anchor
<1>1. \A f \in Landmarks : landmarks[f] \in Entry
  BY DEF DataInv
<1>2. ASSUME NEW e \in Entry, NEW g \in {e, [e EXCEPT !.row = 0],
                                         [e EXCEPT !.update_fail_count = @ + 1, !.row = @ + 1]}
      PROVE  g \in Entry /\ g.anchor = e.anchor
  <2>1. /\ e = [anchor |-> e.anchor, cam |-> e.cam, update_fail_count |-> e.update_fail_count,
                row |-> e.row]
        /\ e.anchor \in Stamps /\ e.cam \in Cams /\ e.update_fail_count \in Nat /\ e.row \in Nat
    BY DEF Entry
  <2>2. CASE g = e
    BY <2>2
  <2>3. CASE g = [e EXCEPT !.row = 0]
    BY <2>1, <2>3 DEF Entry
  <2>4. CASE g = [e EXCEPT !.update_fail_count = @ + 1, !.row = @ + 1]
    <3>1. g = [anchor |-> e.anchor, cam |-> e.cam, row |-> e.row + 1,
               update_fail_count |-> e.update_fail_count + 1]
      BY <2>1, <2>4
    <3> QED BY <2>1, <3>1 DEF Entry
  <2> QED BY <2>2, <2>3, <2>4
<1>3. /\ Landmarks' = Landmarks
      /\ \A f \in Landmarks :
           landmarks'[f] \in {landmarks[f], [landmarks[f] EXCEPT !.row = 0],
                              [landmarks[f] EXCEPT !.update_fail_count = @ + 1, !.row = @ + 1]}
  BY DEF UpdateSLAM, Landmarks
<1> QED BY <1>1, <1>2, <1>3

LEMMA SLAMKeepsData == ASSUME DataInv, UpdateSLAM PROVE DataInv'
<1>1. /\ db' = OnlyClones(feats.update) /\ DOMAIN db' = DOMAIN db /\ pc = "slam"
      /\ feats' = feats /\ sent' = sent /\ timestamp' = timestamp
  BY DEF UpdateSLAM, OnlyClones
<1>2. TracksOf(db', sent')
  BY <1>1, PruningThins DEF DataInv, OnlyClones
<1> QED BY <1>1, <1>2, SLAMKeepsEntries DEF DataInv, Dividing

\* New landmarks are anchored in a clone.
LEMMA NewLandmarks ==
  ASSUME DataInv, DelayedInit
  PROVE  /\ Landmarks \subseteq Landmarks'
         /\ \A f \in Landmarks' :
              \/ f \in Landmarks /\ landmarks'[f] = landmarks[f]
              \/ f \in feats.delayed /\ landmarks'[f] \in Entry /\ landmarks'[f].anchor \in clones
<1>1. PICK ok \in SUBSET {f \in feats.delayed : NumMeasurements(db'[f]) >= 2} :
        \E a \in [ok -> UNION {Anchors(db'[f]) : f \in ok}] :
            /\ \A f \in ok : a[f] \in Anchors(db'[f])
            /\ landmarks' = [f \in Landmarks \cup ok |-> IF f \in ok THEN a[f] ELSE landmarks[f]]
  BY DEF DelayedInit
<1>2. /\ Landmarks' = Landmarks \cup ok
      /\ \A f \in Landmarks' : IF f \in ok THEN landmarks'[f] \in Anchors(db'[f])
                                           ELSE landmarks'[f] = landmarks[f]
  BY <1>1 DEF Landmarks
<1>3. ASSUME NEW f \in ok
      PROVE  f \in feats.delayed /\ landmarks'[f] \in Entry /\ landmarks'[f].anchor \in clones
  <2>1. f \in feats.delayed /\ f \in DOMAIN db
    BY DEF DelayedInit, DataInv, Dividing
  <2> DEFINE d == CleanOldMeasurements(db[f], clones)
             a == landmarks'[f]
  <2>2. db'[f] = d
    BY <2>1 DEF DelayedInit, OnlyClones
  <2>3. DOMAIN db[f] \subseteq Cams /\ \A c \in DOMAIN db[f] : Track(db[f][c], c, sent)
    BY <2>1 DEF DataInv, TracksOf
  <2>4. /\ DOMAIN d = DOMAIN db[f]
        /\ \A c \in DOMAIN d : Track(d[c], c, sent) /\ \A t : t \in ToSet(d[c]) => t \in clones
    BY <2>3, KeepingTracks DEF CleanOldMeasurements
  <2>5. ~(NumMeasurements(d) < 1)
    <3>1. NumMeasurements(d) >= 2
      BY <2>2
    <3>2. NumMeasurements(d) \in Nat
      BY <2>3, <2>4, MeasurementsCounted
    <3> QED BY <3>1, <3>2
  <2>6. a \in Anchors(d)
    BY <1>2, <2>2
  <2> HIDE DEF d, a
  <2>7. a \in Entry /\ a.cam \in DOMAIN d /\ a.anchor \in ToSet(d[a.cam])
    BY <2>3, <2>4, <2>5, <2>6, AnchorsAreMeasurements DEF Track
  <2>8. a.anchor \in clones
    BY <2>4, <2>7
  <2> QED BY <2>1, <2>7, <2>8 DEF a
<1> QED BY <1>2, <1>3

LEMMA DelayedKeepsData == ASSUME DataInv, DelayedInit PROVE DataInv'
<1>1. /\ db' = OnlyClones(feats.delayed) /\ pc = "delayed" /\ pc' = "cleanup"
      /\ sent' = sent /\ timestamp' = timestamp
  BY DEF DelayedInit
<1>2. TracksOf(db', sent')
  BY <1>1, PruningThins DEF DataInv, OnlyClones
<1>3. \A f \in Landmarks' : landmarks'[f] \in Entry
  BY NewLandmarks DEF DataInv
<1> QED BY <1>1, <1>2, <1>3 DEF DataInv, Dividing

\* Landmarks at the oldest clone move to the newest.
LEMMA ReanchoredEntries ==
  ASSUME DataInv, CleanupAndChangeAnchors
  PROVE  /\ Landmarks' = Landmarks
         /\ \A f \in Landmarks :
              /\ landmarks'[f] \in Entry
              /\ landmarks'[f].anchor
                   = IF WindowExceeded /\ f \in Oldest THEN timestamp ELSE landmarks[f].anchor
<1>1. ASSUME NEW e \in Entry PROVE [e EXCEPT !.anchor = timestamp] \in Entry /\ [e EXCEPT !.anchor = timestamp].anchor = timestamp
  <2>1. timestamp \in Stamps
    BY DEF CleanupAndChangeAnchors, DataInv
  <2> QED BY <2>1 DEF Entry
<1>2. /\ Landmarks' = Landmarks
      /\ \A f \in Landmarks :
           landmarks'[f] = IF WindowExceeded /\ f \in Oldest
                           THEN [landmarks[f] EXCEPT !.anchor = timestamp] ELSE landmarks[f]
  BY DEF CleanupAndChangeAnchors, Landmarks
<1>3. \A f \in Landmarks : landmarks[f] \in Entry
  BY DEF DataInv
<1> QED BY <1>1, <1>2, <1>3

LEMMA CleanupKeepsData == ASSUME DataInv, CleanupAndChangeAnchors PROVE DataInv'
<1>1. db' = Cleanup(db, to_delete) /\ sent' = sent /\ pc' \notin Dividing \cup {"select", "cleanup"}
  BY DEF CleanupAndChangeAnchors, Dividing
<1>2. TracksOf(db', sent')
  BY <1>1, PruningThins DEF DataInv
<1> QED BY <1>1, <1>2, ReanchoredEntries DEF DataInv

LEMMA OthersKeepData ==
  ASSUME DataInv, StampsTyped,
         \/ TryToInitialize \/ InitializationDone
         \/ AcceptZupt \/ RejectZupt \/ RepeatZupt \/ SkipZupt
         \/ DropOutOfOrder \/ Propagate \/ MarginalizeOldClone
  PROVE  DataInv' /\ Thins(db', db)
<1>1. /\ landmarks' = landmarks /\ sent' = sent
      /\ pc' \in {"idle", "moving", "select", "exit"}
      /\ pc' = "select" => timestamp' \in Stamps
  BY DEF TryToInitialize, InitializationDone, AcceptZupt, RejectZupt, RepeatZupt, SkipZupt,
         DropOutOfOrder, Propagate, MarginalizeOldClone, state, Finish, StampsTyped
<1>2. \E stamp : db' \in {CleanupMeasurements(db, stamp), CleanupMeasurementsExact(db, stamp), db}
  BY DEF TryToInitialize, InitializationDone, AcceptZupt, RejectZupt, RepeatZupt, SkipZupt,
         DropOutOfOrder, Propagate, MarginalizeOldClone, database, DropStillImages
<1>3. TracksOf(db', sent) /\ Thins(db', db)
  BY <1>2, PruningThins DEF DataInv
<1> QED BY <1>1, <1>3 DEF DataInv, Landmarks, Dividing

LEMMA DataInit == Init => DataInv
  BY DEF Init, DataInv, TracksOf, EmptyDatabase, Landmarks, Dividing

LEMMA StepKeepsData == CloneInv /\ DataInv /\ [Next]_vars => DataInv'
<1> SUFFICES ASSUME CloneInv, DataInv, [Next]_vars PROVE DataInv'
  OBVIOUS
<1>0. StampsTyped
  BY DEF CloneInv
<1>1. CASE UNCHANGED vars
  BY <1>1 DEF vars, state, database, DataInv, Landmarks
<1>2. CASE Next
  BY <1>0, <1>2, FeedKeepsData, OthersKeepData, SelectKeepsData, MSCKFKeepsData, SLAMKeepsData,
     DelayedKeepsData, CleanupKeepsData DEF Next
<1> QED BY <1>1, <1>2

-----------------------------------------------------------------------------
(***************************************************************************)
(* The clones that landmarks are anchored in.                              *)
(***************************************************************************)
AnchorsCloned ==
  /\ \A f \in Landmarks : landmarks[f].anchor \in clones
  /\ pc = "marginalize" /\ WindowExceeded =>
       \A f \in Landmarks : landmarks[f].anchor # margtimestep
  /\ pc # "anchor assert"

AnchorInv == OrderedOrMoving => AnchorsCloned

\* change_anchors finds both clones, and leaves none at the oldest.
LEMMA CleanupKeepsAnchors ==
  ASSUME CloneInv, DataInv, OrderedOrMoving, AnchorsCloned, CleanupAndChangeAnchors
  PROVE  AnchorsCloned'
<1>1. ClonesArePast /\ timestamp \in clones
  BY DEF CloneInv, ImageCloned, Using, CleanupAndChangeAnchors
<1>2. clones' = clones /\ WindowExceeded' = WindowExceeded /\ margtimestep' = margtimestep
  BY DEF CleanupAndChangeAnchors, WindowExceeded, margtimestep
<1>3. \A f \in Landmarks' : landmarks'[f].anchor \in clones
  BY <1>1, ReanchoredEntries DEF AnchorsCloned
<1>4. ASSUME WindowExceeded
      PROVE  ChangeAnchorsAsserts /\ \A f \in Landmarks' : landmarks'[f].anchor # margtimestep
  <2>1. timestamp # margtimestep /\ \A c \in clones : margtimestep <= c
    BY <1>1, <1>4, OldestOfSeveral DEF WindowExceeded
  <2>2. ChangeAnchorsAsserts
    BY <1>1, <2>1 DEF ChangeAnchorsAsserts, AnchorsCloned
  <2>3. \A f \in Landmarks' : landmarks'[f].anchor # margtimestep
    BY <1>4, <2>1, ReanchoredEntries DEF Oldest
  <2> QED BY <2>2, <2>3
<1>5. pc' # "anchor assert"
  BY <1>4 DEF CleanupAndChangeAnchors
<1> QED BY <1>2, <1>3, <1>4, <1>5 DEF AnchorsCloned

LEMMA StepKeepsAnchors == CloneInv /\ DataInv /\ AnchorInv /\ [Next]_vars => AnchorInv'
<1> SUFFICES ASSUME CloneInv, DataInv, AnchorInv, [Next]_vars, OrderedOrMoving'
             PROVE  AnchorsCloned'
  BY DEF AnchorInv
<1>0. OrderedOrMoving /\ AnchorsCloned
  <2>1. setting' = setting
    BY DEF Next, vars, FeedImage, TryToInitialize, InitializationDone, AcceptZupt, RejectZupt,
           RepeatZupt, SkipZupt, DropOutOfOrder, Propagate, SelectFeatures, UpdateMSCKF,
           UpdateSLAM, DelayedInit, CleanupAndChangeAnchors, MarginalizeOldClone
  <2> QED BY <2>1 DEF OrderedOrMoving, AnchorInv
<1>1. CASE UNCHANGED vars
  BY <1>0, <1>1 DEF vars, state, AnchorsCloned, Landmarks, WindowExceeded, margtimestep
<1>2. CASE \/ \E C \in (SUBSET Cams) \ {{}}, t \in Stamps : FeedImage(C, t)
           \/ TryToInitialize \/ InitializationDone
           \/ AcceptZupt \/ RejectZupt \/ RepeatZupt \/ SkipZupt
           \/ DropOutOfOrder \/ Propagate \/ UpdateMSCKF
  <2>1. /\ landmarks' = landmarks /\ clones \subseteq clones'
        /\ pc' \notin {"marginalize", "anchor assert"}
    BY <1>2 DEF FeedImage, TryToInitialize, InitializationDone, AcceptZupt, RejectZupt,
           RepeatZupt, SkipZupt, DropOutOfOrder, Propagate, UpdateMSCKF, state, Finish
  <2> QED BY <1>0, <2>1 DEF AnchorsCloned, Landmarks
<1>3. CASE SelectFeatures
  <2>1. /\ \A f \in Landmarks' : f \in Landmarks /\ landmarks'[f] = landmarks[f]
        /\ clones' = clones /\ pc' = "msckf"
    BY <1>3 DEF SelectFeatures, Landmarks, Restrict
  <2> QED BY <1>0, <2>1 DEF AnchorsCloned
<1>4. CASE UpdateSLAM
  <2>1. clones' = clones /\ pc' = "delayed"
    BY <1>4 DEF UpdateSLAM
  <2> QED BY <1>0, <1>4, <2>1, SLAMKeepsEntries DEF AnchorsCloned
<1>5. CASE DelayedInit
  <2>1. clones' = clones /\ pc' = "cleanup"
    BY <1>5 DEF DelayedInit
  <2> QED BY <1>0, <1>5, <2>1, NewLandmarks DEF AnchorsCloned
<1>6. CASE CleanupAndChangeAnchors
  BY <1>0, <1>6, CleanupKeepsAnchors
<1>7. CASE MarginalizeOldClone
  <2>1. /\ landmarks' = landmarks /\ pc = "marginalize" /\ pc' = "idle"
        /\ clones' = IF WindowExceeded THEN clones \ {margtimestep} ELSE clones
    BY <1>7 DEF MarginalizeOldClone, Finish
  <2> QED BY <1>0, <2>1 DEF AnchorsCloned, Landmarks
<1> QED BY <1>1, <1>2, <1>3, <1>4, <1>5, <1>6, <1>7 DEF Next

LEMMA AnchorInit == Init => AnchorInv
  BY DEF Init, AnchorInv, AnchorsCloned, Landmarks, EmptyDatabase

\* When only ordered images or no zero velocity updates come, no assertion fails and no
\* clone exists already: landmarks are initialized in a clone of the window, and leave
\* the oldest before it goes.
THEOREM NeverStopsInOrder == Spec => [](OrderedOrMoving => NeverStops)
<1>1. CloneInv /\ AnchorInv => (OrderedOrMoving => NeverStops)
  BY DEF CloneInv, Running, Using, AnchorInv, AnchorsCloned, NeverStops
<1> QED BY <1>1, CloneInit, DataInit, AnchorInit, StepKeepsClones, StepKeepsData,
           StepKeepsAnchors, PTL DEF Spec

-----------------------------------------------------------------------------
(***************************************************************************)
(* What happens to the measurements when every image after initialization  *)
(* is used, and one measurement is enough for a SLAM update.               *)
(***************************************************************************)
EveryImageUsed == setting.ordered /\ ~setting.try_zupt /\ RequiredMeas = 1

\* There are enough clones once there are landmarks: images are used from then on.
WindowInv ==
  /\ IsFiniteSet(clones)
  /\ Landmarks # {} \/ pc \in Using => Cardinality(clones) >= MinToUpdate

Seen(f) == \E c \in msg.cams : f \in msg.seen[c]

\* All that is stored of a feature is from the image being processed.
JustSeen(f) ==
  /\ Seen(f) /\ DOMAIN db[f] # {}
  /\ \A c \in DOMAIN db[f] : db[f][c] = <<msg.stamp>>

\* Each feature is given to one update, tracked landmarks to the SLAM update, and
\* measurements are consumed of features of updates that are done.
Divided ==
  /\ feats.msckf \cap feats.update = {} /\ feats.msckf \cap feats.delayed = {}
  /\ feats.update \cap feats.delayed = {}
  /\ Landmarks \cap DOMAIN db \subseteq feats.update
  /\ \A f \in Landmarks : landmarks[f].cam \in msg.cams => Seen(f)
  /\ pc = "slam" => feats.msckf \subseteq to_delete /\ \A m \in used : m[1] \in feats.msckf
  /\ pc = "delayed" => /\ feats.msckf \cup feats.update \subseteq to_delete
                       /\ \A m \in used : m[1] \in feats.msckf \cup feats.update

UsedOnce ==
  /\ reused = {}
  /\ pc \in {"idle", "tracked", "moving", "select", "msckf"} => used = {}
  /\ pc = "idle" => Landmarks \cap DOMAIN db = {}
  /\ pc \in {"tracked", "moving", "select"} => \A f \in Landmarks \cap DOMAIN db : JustSeen(f)
  /\ pc \in Dividing => Divided
  /\ pc = "cleanup" => /\ \A m \in used : m[1] \in to_delete
                       /\ Landmarks \cap DOMAIN db \subseteq to_delete
  /\ pc = "marginalize" => /\ \A m \in used : m[1] \notin DOMAIN db
                           /\ Landmarks \cap DOMAIN db = {}

OnceInv == EveryImageUsed => UsedOnce

LEMMA WindowInit == Init => WindowInv
  BY FS_EmptySet DEF Init, WindowInv, Landmarks, EmptyDatabase, Using

LEMMA MinToUpdateFits == MinToUpdate \in Nat \ {0} /\ MinToUpdate <= max_clone_size
<1>1. max_clone_size \in Nat \ {0} /\ MinClones \in Nat \ {0}
  BY VioAssumption
<1> QED BY <1>1, MinOfTwo DEF MinToUpdate

LEMMA StepKeepsWindow == WindowInv /\ [Next]_vars => WindowInv'
<1> SUFFICES ASSUME WindowInv, [Next]_vars PROVE WindowInv'
  OBVIOUS
<1>1. CASE UNCHANGED vars
  BY <1>1 DEF vars, state, WindowInv, Landmarks
<1>2. CASE \/ \E C \in (SUBSET Cams) \ {{}}, t \in Stamps : FeedImage(C, t)
           \/ TryToInitialize \/ InitializationDone
           \/ AcceptZupt \/ RejectZupt \/ RepeatZupt \/ SkipZupt \/ DropOutOfOrder
  <2>1. landmarks' = landmarks /\ clones' = clones /\ pc' \notin Using
    BY <1>2 DEF FeedImage, TryToInitialize, InitializationDone, AcceptZupt, RejectZupt,
           RepeatZupt, SkipZupt, DropOutOfOrder, state, Finish, Using
  <2> QED BY <2>1 DEF WindowInv, Landmarks
<1>3. CASE SelectFeatures \/ UpdateMSCKF \/ UpdateSLAM \/ DelayedInit \/ CleanupAndChangeAnchors
  <2>1. clones' = clones /\ pc \in Using
    BY <1>3 DEF SelectFeatures, UpdateMSCKF, UpdateSLAM, DelayedInit, CleanupAndChangeAnchors,
           state, Using
  <2> QED BY <2>1 DEF WindowInv
<1>4. CASE Propagate
  <2>1. /\ landmarks' = landmarks /\ clones' \in {clones, clones \cup {msg.stamp}}
        /\ pc' \in Using => ~(Cardinality(clones') < MinToUpdate)
    BY <1>4 DEF Propagate, Finish, Using
  <2>2. /\ IsFiniteSet(clones') /\ Cardinality(clones) <= Cardinality(clones')
        /\ Cardinality(clones) \in Nat /\ Cardinality(clones') \in Nat
    <3>1. IsFiniteSet(clones')
      BY <2>1, FS_AddElement DEF WindowInv
    <3>2. clones \subseteq clones'
      BY <2>1
    <3> QED BY <3>1, <3>2, FS_Subset, FS_CardinalityType DEF WindowInv
  <2> QED BY <2>1, <2>2, MinToUpdateFits DEF WindowInv, Landmarks
<1>5. CASE MarginalizeOldClone
  <2>1. /\ landmarks' = landmarks /\ pc' \notin Using
        /\ clones' = IF WindowExceeded THEN clones \ {margtimestep} ELSE clones
        /\ Cardinality(clones) >= MinToUpdate
    BY <1>5 DEF MarginalizeOldClone, Finish, Using, WindowInv
  <2>2. CASE WindowExceeded
    <3>1. /\ IsFiniteSet(clones') /\ Cardinality(clones') \in Nat /\ Cardinality(clones) \in Nat
          /\ Cardinality(clones') >= Cardinality(clones) - 1
      BY <2>1, <2>2, FS_RemoveElement, FS_CardinalityType DEF WindowInv
    <3>2. Cardinality(clones') >= max_clone_size
      BY <2>2, <3>1, VioAssumption DEF WindowExceeded
    <3> QED BY <2>1, <3>1, <3>2, MinToUpdateFits, VioAssumption DEF WindowInv
  <2>3. CASE ~WindowExceeded
    BY <2>1, <2>3 DEF WindowInv
  <2> QED BY <2>2, <2>3
<1> QED BY <1>1, <1>2, <1>3, <1>4, <1>5 DEF Next

\* When a feature enters the database, it is only what the image has seen.
LEMMA FeedKeepsUsedOnce ==
  ASSUME UsedOnce, NEW C, NEW t, FeedImage(C, t)
  PROVE  UsedOnce'
<1>1. PICK seen \in [C -> SUBSET Feats] :
        msg' = [cams |-> C, stamp |-> t, seen |-> seen] /\ db' = Observed(db, seen, t)
  BY DEF FeedImage
<1>2. /\ pc = "idle" /\ pc' = "tracked" /\ landmarks' = landmarks
      /\ used' = used /\ reused' = reused
  BY DEF FeedImage, state, history
<1>3. ASSUME NEW f \in Landmarks \cap DOMAIN db' PROVE JustSeen(f)'
  <2>1. f \notin DOMAIN db
    BY <1>2 DEF UsedOnce
  <2> DEFINE Seers == {c \in DOMAIN seen : f \in seen[c]}
  <2>2. PICK c \in C : f \in seen[c]
    BY <1>1, <2>1 DEF Observed, Range
  <2>3. db'[f] = [k \in Seers |-> Append(<<>>, t)]
    BY <1>1, <2>1 DEF Observed
  <2>4. Append(<<>>, t) = <<t>>
    OBVIOUS
  <2>5. c \in Seers /\ DOMAIN db'[f] = Seers /\ \A k \in DOMAIN db'[f] : db'[f][k] = <<t>>
    BY <2>2, <2>3, <2>4
  <2>6. msg'.cams = C /\ msg'.stamp = t /\ msg'.seen = seen
    BY <1>1
  <2> QED BY <2>2, <2>5, <2>6 DEF JustSeen, Seen
<1> QED BY <1>2, <1>3 DEF UsedOnce, Landmarks, Dividing

\* An image that is not used comes before there are landmarks.
LEMMA UnusedKeepsUsedOnce ==
  ASSUME UsedOnce, EveryImageUsed, CloneInv, AnchorInv, WindowInv,
         \/ TryToInitialize \/ InitializationDone
         \/ AcceptZupt \/ RejectZupt \/ RepeatZupt \/ SkipZupt
         \/ DropOutOfOrder \/ Propagate
  PROVE  UsedOnce'
<1>0. ClonesArePast /\ InOrder /\ AnchorsCloned
  BY DEF EveryImageUsed, OrderedOrMoving, CloneInv, AnchorInv
<1>1. ~(AcceptZupt \/ RejectZupt \/ RepeatZupt)
  BY DEF AcceptZupt, RejectZupt, RepeatZupt, ZuptEnabled, EveryImageUsed
<1>2. /\ used' = used /\ reused' = reused /\ landmarks' = landmarks
      /\ pc \in {"tracked", "moving"}
  BY <1>1 DEF TryToInitialize, InitializationDone, SkipZupt, DropOutOfOrder, Propagate,
              history, state
<1>3. CASE pc' = "idle"
  <2>1. ASSUME Landmarks # {} PROVE FALSE
    <3>1. clones # {} /\ is_initialized_vio
      BY <1>0, <2>1 DEF AnchorsCloned, ClonesArePast
    <3>2. CASE TryToInitialize \/ InitializationDone \/ SkipZupt
      BY <1>3, <3>1, <3>2 DEF TryToInitialize, InitializationDone, SkipZupt
    <3>3. CASE DropOutOfOrder
      <4>1. /\ timestamp <= msg.stamp /\ timestamp > msg.stamp
            /\ msg.stamp \in Stamps /\ timestamp \in Stamps \cup {-1}
        BY <1>0, <3>1, <3>3 DEF DropOutOfOrder, OutOfOrder, InOrder, EveryImageUsed, CloneInv,
                                StampsTyped
      <4>2. msg.stamp \in Int /\ timestamp \in Int
        BY <4>1, StampsAreNatural
      <4> QED BY <4>1, <4>2
    <3>4. CASE Propagate
      <4>1. Cardinality(clones') < MinToUpdate /\ clones' \in {clones, clones \cup {msg.stamp}}
        BY <1>3, <3>4 DEF Propagate
      <4>2. Landmarks' # {} /\ Cardinality(clones) >= MinToUpdate /\ IsFiniteSet(clones)
        BY <1>2, <2>1 DEF WindowInv, Landmarks
      <4>3. IsFiniteSet(clones') /\ clones \subseteq clones'
        BY <4>1, <4>2, FS_AddElement
      <4>4. /\ Cardinality(clones) <= Cardinality(clones')
            /\ Cardinality(clones) \in Nat /\ Cardinality(clones') \in Nat
        BY <4>2, <4>3, FS_Subset, FS_CardinalityType
      <4> QED BY <4>1, <4>2, <4>4, MinToUpdateFits
    <3> QED BY <1>1, <3>2, <3>3, <3>4
  <2> QED BY <1>2, <1>3, <2>1 DEF UsedOnce, Landmarks, Dividing
<1>4. CASE pc' # "idle"
  <2>1. db' = db /\ msg' = msg /\ pc' \in {"moving", "select", "exit"}
    BY <1>1, <1>4 DEF TryToInitialize, InitializationDone, SkipZupt, DropOutOfOrder, Propagate,
              database, Finish
  <2> QED BY <1>2, <2>1 DEF UsedOnce, Landmarks, Dividing, JustSeen, Seen
<1> QED BY <1>3, <1>4

\* A landmark's track is neither old enough nor long enough to be taken for another
\* update than its own.
LEMMA LandmarksApart ==
  ASSUME UsedOnce, EveryImageUsed, CloneInv, pc = "select"
  PROVE  /\ FeatsMarg \cap Landmarks = {} /\ FeatsLost \cap Landmarks = {}
<1>0. ClonesArePast /\ timestamp \in clones /\ msg.stamp = timestamp
  BY DEF EveryImageUsed, OrderedOrMoving, CloneInv, ImageCloned, Using
<1>1. ASSUME NEW f \in Landmarks \cap DOMAIN db
      PROVE  DOMAIN db[f] # {} /\ \A c \in DOMAIN db[f] : db[f][c] = <<timestamp>>
  BY <1>0 DEF UsedOnce, JustSeen
<1>2. timestamp \in Nat
  BY <1>0, StampsAreNatural DEF ClonesArePast
<1>3. <<timestamp>> # <<>> /\ Last(<<timestamp>>) = timestamp /\ ~(timestamp < timestamp)
  BY <1>2 DEF Last
<1>4. ASSUME NEW f \in Landmarks, f \in FeatsLost PROVE FALSE
  <2>1. /\ f \in DOMAIN db
        /\ \A c \in DOMAIN db[f] : db[f][c] = <<>> \/ Last(db[f][c]) < timestamp
    BY <1>4 DEF FeatsLost, FeaturesNotContainingNewer
  <2> QED BY <1>1, <1>3, <2>1
<1>5. ASSUME NEW f \in Landmarks, f \in FeatsMarg PROVE FALSE
  <2>1. /\ f \in DOMAIN db /\ \E c \in DOMAIN db[f] : Contains(db[f][c], margtimestep)
        /\ Cardinality(clones) > max_clone_size \/ Cardinality(clones) > MinClones
    BY <1>5 DEF FeatsMarg, FeaturesContaining
  <2>2. timestamp # margtimestep
    BY <1>0, <2>1, OldestOfSeveral
  <2>3. ~Contains(<<timestamp>>, margtimestep)
    BY <2>2 DEF Contains
  <2> QED BY <1>1, <2>1, <2>3
<1> QED BY <1>4, <1>5

\* The features of the three updates are different ones.
LEMMA SelectKeepsUsedOnce ==
  ASSUME UsedOnce, EveryImageUsed, CloneInv, SelectFeatures
  PROVE  UsedOnce'
<1>1. PICK new \in SUBSET FeatsMaxtracks :
        LET slam == new \cup (Landmarks \cap DOMAIN db)
            kept == {f \in Landmarks : ~ShouldMarg(f)}
        IN  /\ landmarks' = Restrict(landmarks, kept)
            /\ reused' = reused \cup UNION {Measurements(db, f) : f \in new \cap Landmarks}
            /\ \E S \in LongestTracks(FeatsupMsckf(new)) :
                 feats' = [msckf |-> S, update |-> slam \cap kept, delayed |-> slam \ kept]
  BY DEF SelectFeatures
<1> DEFINE kept == {f \in Landmarks : ~ShouldMarg(f)}
           slam == new \cup (Landmarks \cap DOMAIN db)
<1>2. /\ pc = "select" /\ pc' = "msckf" /\ used' = used /\ db' = db /\ msg' = msg
      /\ Landmarks' = kept /\ \A f \in kept : landmarks'[f] = landmarks[f]
  BY <1>1 DEF SelectFeatures, database, Landmarks, Restrict
<1>3. FeatsMarg \cap Landmarks = {} /\ FeatsLost \cap Landmarks = {}
  BY <1>2, LandmarksApart
<1>4. new \subseteq FeatsMarg /\ FeatsLost \cap FeatsMarg = {} /\ new \cap Landmarks = {}
  BY <1>3 DEF FeatsMaxtracks, FeatsLost
<1>5. reused' = {}
  BY <1>1, <1>4 DEF UsedOnce
<1>6. /\ feats'.msckf \subseteq FeatsLost \cup (FeatsMarg \ new)
      /\ feats'.update = slam \cap kept /\ feats'.delayed = slam \ kept
  BY <1>1 DEF LongestTracks, FeatsupMsckf
<1>7. feats'.msckf \cap slam = {}
  BY <1>3, <1>4, <1>6
<1>8. ASSUME NEW f \in kept, landmarks[f].cam \in msg.cams PROVE Seen(f)
  <2>1. f \in DOMAIN db
    BY <1>8 DEF ShouldMarg
  <2> QED BY <1>2, <2>1 DEF UsedOnce, JustSeen
<1>9. \A f \in Landmarks' : landmarks'[f].cam \in msg'.cams => Seen(f)'
  BY <1>2, <1>8 DEF Seen
<1>10. Landmarks' \cap DOMAIN db' \subseteq feats'.update
  BY <1>2, <1>6
<1>11. Divided'
  BY <1>2, <1>6, <1>7, <1>9, <1>10 DEF Divided
<1> QED BY <1>2, <1>5, <1>11 DEF UsedOnce

\* What an update consumes is of other features than what was consumed before.
LEMMA ConsumeOnce ==
  ASSUME UsedOnce, NEW d, NEW F, Consume(d, F), \A m \in used : m[1] \notin F
  PROVE  /\ reused' = {}
         /\ \A m \in used' : m \in used \/ m[1] \in F
<1>1. \A f \in F : \A m \in Measurements(d, f) : m[1] = f
  BY DEF Measurements
<1>2. \A m \in UNION {Measurements(d, f) : f \in F} : m[1] \in F
  BY <1>1
<1> QED BY <1>2 DEF Consume, UsedOnce

LEMMA MSCKFKeepsUsedOnce == ASSUME UsedOnce, UpdateMSCKF PROVE UsedOnce'
<1>1. PICK ok \in SUBSET feats.msckf : Consume(db', ok)
  BY DEF UpdateMSCKF
<1>2. /\ pc = "msckf" /\ pc' = "slam" /\ UNCHANGED <<landmarks, msg, feats>>
      /\ to_delete' = to_delete \cup feats.msckf /\ DOMAIN db' = DOMAIN db
  BY DEF UpdateMSCKF, state, OnlyClones
<1>3. used = {} /\ Divided
  BY <1>2 DEF UsedOnce, Dividing
<1>4. reused' = {} /\ \A m \in used' : m[1] \in feats.msckf
  BY <1>1, <1>3, ConsumeOnce
<1>5. Divided'
  BY <1>2, <1>3, <1>4 DEF Divided, Landmarks, Seen
<1> QED BY <1>2, <1>4, <1>5 DEF UsedOnce

\* With one measurement a tracked landmark is updated, with none it is let go of.
LEMMA SLAMKeepsUsedOnce ==
  ASSUME UsedOnce, EveryImageUsed, DataInv, UpdateSLAM
  PROVE  UsedOnce'
<1> DEFINE Enough == {f \in feats.update : NumMeasurements(db'[f]) >= RequiredMeas}
           Empty  == {f \in feats.update : NumMeasurements(db'[f]) < 1}
<1>1. PICK ok \in SUBSET Enough : Consume(db', ok)
  BY DEF UpdateSLAM
<1>2. /\ pc = "slam" /\ pc' = "delayed" /\ UNCHANGED <<msg, feats, sent>> /\ DOMAIN db' = DOMAIN db
      /\ to_delete' = to_delete \cup Enough \cup Empty
      /\ Landmarks' = Landmarks /\ \A f \in Landmarks : landmarks'[f].cam = landmarks[f].cam
  <2>1. \A f \in Landmarks : landmarks[f] \in Entry
    BY DEF DataInv
  <2>2. ASSUME NEW e \in Entry
        PROVE  /\ [e EXCEPT !.row = 0].cam = e.cam
               /\ [e EXCEPT !.update_fail_count = @ + 1, !.row = @ + 1].cam = e.cam
    BY DEF Entry
  <2> QED BY <2>1, <2>2 DEF UpdateSLAM, OnlyClones, Landmarks
<1>3. Divided /\ DataInv'
  BY <1>2, SLAMKeepsData DEF UsedOnce, Dividing
<1>4. feats.update \subseteq Enough \cup Empty
  <2> SUFFICES ASSUME NEW f \in feats.update PROVE f \in Enough \cup Empty
    OBVIOUS
  <2>1. f \in DOMAIN db'
    BY <1>2 DEF DataInv, Dividing
  <2>2. /\ DOMAIN db'[f] \subseteq Cams
        /\ \A c \in DOMAIN db'[f] : Track(db'[f][c], c, sent)
    BY <1>2, <1>3, <2>1 DEF DataInv, TracksOf
  <2>3. NumMeasurements(db'[f]) \in Nat
    BY <2>2, MeasurementsCounted
  <2>4. NumMeasurements(db'[f]) >= RequiredMeas \/ NumMeasurements(db'[f]) < 1
    BY <2>3 DEF EveryImageUsed
  <2> QED BY <2>4
<1>5. reused' = {} /\ \A m \in used' : m[1] \in feats.msckf \cup feats.update
  <2>1. \A m \in used : m[1] \notin ok
    BY <1>2, <1>3 DEF Divided
  <2> QED BY <1>1, <1>2, <1>3, <2>1, ConsumeOnce DEF Divided
<1> HIDE DEF Enough, Empty
<1>6. Divided'
  BY <1>2, <1>3, <1>4, <1>5 DEF Divided, Seen
<1> QED BY <1>2, <1>5, <1>6 DEF UsedOnce, Dividing

LEMMA DelayedKeepsUsedOnce == ASSUME UsedOnce, DataInv, DelayedInit PROVE UsedOnce'
<1>1. PICK ok \in SUBSET feats.delayed : Consume(db', ok)
  BY DEF DelayedInit
<1>2. /\ pc = "delayed" /\ pc' = "cleanup" /\ DOMAIN db' = DOMAIN db
      /\ to_delete' = to_delete \cup feats.delayed
      /\ Landmarks' \subseteq Landmarks \cup feats.delayed
  BY NewLandmarks DEF DelayedInit, OnlyClones
<1>3. Divided
  BY <1>2 DEF UsedOnce, Dividing
<1>4. reused' = {} /\ \A m \in used' : m \in used \/ m[1] \in feats.delayed
  <2>1. \A m \in used : m[1] \notin ok
    BY <1>2, <1>3 DEF Divided
  <2> QED BY <1>1, <2>1, ConsumeOnce
<1>5. \A m \in used' : m[1] \in to_delete'
  BY <1>2, <1>3, <1>4 DEF Divided
<1>6. Landmarks' \cap DOMAIN db' \subseteq to_delete'
  BY <1>2, <1>3 DEF Divided
<1> QED BY <1>2, <1>4, <1>5, <1>6 DEF UsedOnce, Dividing

\* The features of all updates leave the database before the next image.
LEMMA CleaningKeepsUsedOnce ==
  ASSUME UsedOnce, DataInv, CleanupAndChangeAnchors \/ MarginalizeOldClone
  PROVE  UsedOnce'
<1>1. CASE CleanupAndChangeAnchors
  <2>1. /\ DOMAIN db' = DOMAIN db \ to_delete /\ used' = used /\ reused' = reused /\ pc = "cleanup"
        /\ pc' \in {"assert", "anchor assert", "marginalize"} /\ Landmarks' = Landmarks
    BY <1>1, ReanchoredEntries DEF CleanupAndChangeAnchors, Cleanup, Restrict, history
  <2> QED BY <2>1 DEF UsedOnce, Dividing
<1>2. CASE MarginalizeOldClone
  <2>1. /\ DOMAIN db' \subseteq DOMAIN db /\ reused' = reused /\ pc = "marginalize" /\ pc' = "idle"
        /\ Landmarks' = Landmarks
        /\ used' = used \cap UNION {Measurements(db', f) : f \in DOMAIN db'}
    BY <1>2, PrunedDomain DEF MarginalizeOldClone, Finish, Landmarks
  <2>2. \A f \in DOMAIN db' : \A m \in Measurements(db', f) : m[1] \in DOMAIN db
    BY <2>1 DEF Measurements
  <2>3. \A m \in used' : m[1] \in DOMAIN db /\ m \in used
    BY <2>1, <2>2
  <2>4. used' = {}
    BY <2>1, <2>3 DEF UsedOnce
  <2> QED BY <2>1, <2>4 DEF UsedOnce, Dividing
<1> QED BY <1>1, <1>2

LEMMA StepKeepsUsedOnce ==
  CloneInv /\ DataInv /\ AnchorInv /\ WindowInv /\ OnceInv /\ [Next]_vars => OnceInv'
<1> SUFFICES ASSUME CloneInv, DataInv, AnchorInv, WindowInv, OnceInv, [Next]_vars, EveryImageUsed'
             PROVE  UsedOnce'
  BY DEF OnceInv
<1>0. EveryImageUsed /\ UsedOnce
  <2>1. setting' = setting
    BY DEF Next, vars, FeedImage, TryToInitialize, InitializationDone, AcceptZupt, RejectZupt,
           RepeatZupt, SkipZupt, DropOutOfOrder, Propagate, SelectFeatures, UpdateMSCKF,
           UpdateSLAM, DelayedInit, CleanupAndChangeAnchors, MarginalizeOldClone
  <2> QED BY <2>1 DEF EveryImageUsed, OnceInv
<1>1. CASE UNCHANGED vars
  BY <1>0, <1>1 DEF vars, state, database, history, UsedOnce, Divided, JustSeen, Seen, Landmarks
<1>2. CASE Next
  BY <1>0, <1>2, FeedKeepsUsedOnce, UnusedKeepsUsedOnce, SelectKeepsUsedOnce, MSCKFKeepsUsedOnce,
     SLAMKeepsUsedOnce, DelayedKeepsUsedOnce, CleaningKeepsUsedOnce DEF Next
<1> QED BY <1>1, <1>2

LEMMA OnceInit == Init => OnceInv
  BY DEF Init, OnceInv, UsedOnce, Dividing, Landmarks, EmptyDatabase

LEMMA OnceHolds == Spec => []OnceInv
  BY CloneInit, DataInit, AnchorInit, WindowInit, OnceInit, StepKeepsClones, StepKeepsData,
     StepKeepsAnchors, StepKeepsWindow, StepKeepsUsedOnce, PTL DEF Spec

\* No measurement enters two updates, when images come in order, none is still, and one
\* measurement is enough to update a landmark: the updates share no feature, and all
\* features given to one are gone from the database when the image is done.
THEOREM EachMeasurementOnce == Spec => [](EveryImageUsed => MeasurementsUsedOnce)
<1>1. OnceInv => (EveryImageUsed => MeasurementsUsedOnce)
  BY DEF OnceInv, UsedOnce, MeasurementsUsedOnce
<1> QED BY <1>1, OnceHolds, PTL

\* A landmark that no camera of the image sees is given up on its own camera's image:
\* nothing is left of what was seen of a landmark before.  One measurement must be enough
\* for an update, else a single one may be left over.
THEOREM LostLandmarksGo == RequiredMeas = 1 => (Spec => []LostLandmarksMarginalized)
<1> SUFFICES ASSUME RequiredMeas = 1 PROVE Spec => []LostLandmarksMarginalized
  OBVIOUS
<1>1. OnceInv => LostLandmarksMarginalized
  BY DEF OnceInv, EveryImageUsed, UsedOnce, Divided, Dividing, Seen, LostLandmarksMarginalized
<1> QED BY <1>1, OnceHolds, PTL

-----------------------------------------------------------------------------
(***************************************************************************)
(* What the tracks hold of the images after the newest clone.              *)
(***************************************************************************)
\* The stamps stored in the database that are after all clones.
StillStamps ==
  {t \in Stamps : /\ \E f \in DOMAIN db : \E c \in DOMAIN db[f] : t \in ToSet(db[f][c])
                  /\ \A c \in clones : c < t}

\* The still images that may be left of a row: the last, and from the second on another.
RowOfStills(first) ==
  (IF last_zupt_count >= 1 THEN {last_zupt_state_timestamp} ELSE {})
    \cup (IF last_zupt_count >= 2 THEN {first} ELSE {})

\* did_zupt_update may still be asked for.
Deciding == did_zupt_update /\ (zupt_only_at_beginning => ~has_moved_since_zupt)

StillBounded ==
  /\ last_zupt_count \in 0..ZuptBound
  /\ Deciding => /\ is_initialized_vio /\ setting.try_zupt /\ pc \in {"idle", "tracked"}
                 /\ last_zupt_state_timestamp = timestamp /\ last_zupt_count >= 1
  /\ clones # {} /\ pc = "idle" => \E first \in Stamps : StillStamps \subseteq RowOfStills(first)
  /\ clones # {} /\ pc = "tracked" =>
       \E first \in Stamps : StillStamps \subseteq RowOfStills(first) \cup {msg.stamp}

StillInv == setting.ordered => StillBounded

\* Pruning leaves fewer of them.
LEMMA FewerStills ==
  ASSUME Thins(db', db), clones' = clones
  PROVE  StillStamps' \subseteq StillStamps
  BY DEF Thins, StillStamps

LEMMA ExactGone ==
  ASSUME NEW d, TracksOf(d, sent), NEW stamp,
         NEW f \in DOMAIN CleanupMeasurementsExact(d, stamp),
         NEW c \in DOMAIN CleanupMeasurementsExact(d, stamp)[f]
  PROVE  stamp \notin ToSet(CleanupMeasurementsExact(d, stamp)[f][c])
<1> DEFINE thin == [g \in DOMAIN d |-> Keeping(d[g], Nat \ {stamp})]
<1>1. PICK D \in SUBSET DOMAIN d : NonEmpty(thin) = [g \in D |-> thin[g]]
  BY NonEmptyIs
<1>2. CleanupMeasurementsExact(d, stamp) = [g \in D |-> thin[g]]
  BY <1>1 DEF CleanupMeasurementsExact
<1>3. f \in DOMAIN d /\ CleanupMeasurementsExact(d, stamp)[f] = Keeping(d[f], Nat \ {stamp})
  BY <1>2
<1>4. DOMAIN d[f] \subseteq Cams /\ \A k \in DOMAIN d[f] : Track(d[f][k], k, sent)
  BY <1>3 DEF TracksOf
<1>5. c \in DOMAIN d[f]
  BY <1>3 DEF Keeping
<1> QED BY <1>3, <1>4, <1>5, KeepingTracks

LEMMA FeedKeepsStills ==
  ASSUME StillBounded, NEW C, NEW t \in Stamps, FeedImage(C, t)
  PROVE  StillBounded'
<1>1. PICK seen \in [C -> SUBSET Feats] : db' = Observed(db, seen, t)
  BY DEF FeedImage
<1>2. /\ pc = "idle" /\ pc' = "tracked" /\ msg'.stamp = t
      /\ UNCHANGED <<setting, is_initialized_vio, state, zupt>>
  BY DEF FeedImage
<1>3. ASSUME NEW f \in DOMAIN db', NEW c \in DOMAIN db'[f], NEW u \in ToSet(db'[f][c])
      PROVE  u = t \/ (f \in DOMAIN db /\ c \in DOMAIN db[f] /\ u \in ToSet(db[f][c]))
  <2> DEFINE Known == IF f \in DOMAIN db THEN DOMAIN db[f] ELSE {}
             Old == IF c \in Known THEN db[f][c] ELSE <<>>
  <2>1. db'[f][c] \in {Append(Old, t), Old}
    BY <1>1 DEF Observed
  <2>2. u \in ToSet(Old) \/ u = t
    BY <2>1 DEF ToSet
  <2>3. ToSet(<<>>) = {}
    BY DEF ToSet
  <2> QED BY <2>2, <2>3
<1>4. StillStamps' \subseteq StillStamps \cup {t}
  BY <1>2, <1>3 DEF StillStamps, state
<1> QED BY <1>2, <1>4 DEF StillBounded, Deciding, RowOfStills, state, zupt

\* A still image takes the place of the one before, from the third in a row on.
LEMMA AcceptKeepsStills ==
  ASSUME StillBounded, DataInv, CloneInv, AcceptZupt
  PROVE  StillBounded'
<1>1. /\ pc = "tracked" /\ pc' = "idle" /\ clones' = clones /\ db' = DropStillImages
      /\ last_zupt_state_timestamp' = msg.stamp /\ timestamp' = msg.stamp
      /\ last_zupt_count' = Min({last_zupt_count + 1, ZuptBound})
      /\ is_initialized_vio' /\ setting' = setting /\ setting.try_zupt
  BY DEF AcceptZupt, Finish, ZuptEnabled
<1>2. /\ last_zupt_count \in {0, 1, 2} /\ last_zupt_count' \in 1..2
      /\ last_zupt_count >= 1 => last_zupt_count' = 2
  <2>1. last_zupt_count \in 0..2
    BY DEF StillBounded, ZuptBound
  <2> DEFINE n == last_zupt_count + 1
  <2>2. n \in 1..3 /\ last_zupt_count' = Min({n, 2})
    BY <1>1, <2>1 DEF ZuptBound
  <2> HIDE DEF n
  <2>3. Min({n, 2}) \in {n, 2} /\ Min({n, 2}) <= n /\ Min({n, 2}) <= 2 /\ n \in Int
    BY <2>2, MinOfTwo
  <2> QED BY <2>1, <2>2, <2>3 DEF n
<1>3. StillStamps' \subseteq StillStamps
  <2>1. Thins(db', db)
    BY <1>1, PruningThins DEF DropStillImages, DataInv
  <2> QED BY <1>1, <2>1, FewerStills
<1>4. last_zupt_count >= 2 => last_zupt_state_timestamp \notin StillStamps'
  <2> SUFFICES ASSUME last_zupt_count >= 2, NEW f \in DOMAIN db', NEW c \in DOMAIN db'[f]
               PROVE  last_zupt_state_timestamp \notin ToSet(db'[f][c])
    BY DEF StillStamps
  <2>1. db' = CleanupMeasurementsExact(db, last_zupt_state_timestamp)
    BY <1>1 DEF DropStillImages
  <2> QED BY <2>1, ExactGone DEF DataInv
<1>5. ASSUME clones # {}
      PROVE  \E first \in Stamps : StillStamps' \subseteq {msg.stamp}
               \cup (IF last_zupt_count' >= 2 THEN {first} ELSE {})
  <2>1. PICK first \in Stamps : StillStamps \subseteq RowOfStills(first) \cup {msg.stamp}
    BY <1>1, <1>5 DEF StillBounded
  <2>2. CASE last_zupt_count = 0
    BY <1>3, <2>1, <2>2 DEF RowOfStills
  <2>3. CASE last_zupt_count = 1
    <3>1. StillStamps' \subseteq {last_zupt_state_timestamp, msg.stamp} /\ last_zupt_count' = 2
      BY <1>2, <1>3, <2>1, <2>3 DEF RowOfStills
    <3>2. CASE last_zupt_state_timestamp \in Stamps
      BY <3>1, <3>2
    <3>3. CASE last_zupt_state_timestamp \notin Stamps
      <4>1. StillStamps' \subseteq Stamps
        BY DEF StillStamps
      <4>2. StillStamps' \subseteq {msg.stamp}
        BY <3>1, <3>3, <4>1
      <4> QED BY <4>2
    <3> QED BY <3>2, <3>3
  <2>4. CASE last_zupt_count = 2
    <3>1. StillStamps' \subseteq {first, msg.stamp} /\ last_zupt_count' = 2
      BY <1>2, <1>3, <1>4, <2>1, <2>4 DEF RowOfStills
    <3> QED BY <3>1
  <2> QED BY <1>2, <2>2, <2>3, <2>4
<1>6. \A first : RowOfStills(first)' = {msg.stamp} \cup (IF last_zupt_count' >= 2 THEN {first} ELSE {})
  BY <1>1, <1>2 DEF RowOfStills
<1> QED BY <1>1, <1>2, <1>5, <1>6 DEF StillBounded, ZuptBound

\* The image is used, dropped before there is a clone, or shares a decision already made.
LEMMA OthersKeepStills ==
  ASSUME StillBounded, setting.ordered, CloneInv, DataInv, CloneInv', DataInv',
         \/ TryToInitialize \/ InitializationDone \/ RejectZupt \/ RepeatZupt \/ SkipZupt
         \/ DropOutOfOrder \/ Propagate \/ SelectFeatures
         \/ UpdateMSCKF \/ UpdateSLAM \/ DelayedInit
         \/ CleanupAndChangeAnchors \/ MarginalizeOldClone
  PROVE  StillBounded'
<1>0. /\ ClonesArePast /\ InOrder /\ ImageCloned /\ LeftByZupt /\ ClonesArePast' /\ InOrder'
      /\ setting' = setting
  BY DEF CloneInv, OrderedOrMoving, TryToInitialize, InitializationDone, RejectZupt, RepeatZupt,
         SkipZupt, DropOutOfOrder, Propagate, SelectFeatures, UpdateMSCKF, UpdateSLAM,
         DelayedInit, CleanupAndChangeAnchors, MarginalizeOldClone
<1>1. CASE TryToInitialize
  <2>1. clones = {} /\ clones' = clones /\ pc' = "idle" /\ ~Deciding
    BY <1>0, <1>1 DEF TryToInitialize, Finish, ClonesArePast, StillBounded
  <2>2. did_zupt_update' = did_zupt_update /\ last_zupt_count' = last_zupt_count
    BY <1>1 DEF TryToInitialize
  <2>3. has_moved_since_zupt' \in {has_moved_since_zupt, TRUE}
    BY <1>1 DEF TryToInitialize
  <2>4. ~Deciding'
    <3>1. has_moved_since_zupt' => (has_moved_since_zupt' = TRUE)
      BY <2>3
    <3>2. CASE did_zupt_update
      BY <2>1, <2>2, <2>3, <3>2, Zenon DEF Deciding
    <3>3. CASE ~did_zupt_update
      BY <2>2, <3>3 DEF Deciding
    <3> QED BY <3>2, <3>3
  <2> QED BY <2>1, <2>2, <2>4 DEF StillBounded
<1>2. CASE InitializationDone \/ RejectZupt \/ SkipZupt
  <2>1. pc' = "moving" /\ last_zupt_count' \in {0, last_zupt_count} /\ ~Deciding'
    BY <1>2 DEF InitializationDone, RejectZupt, SkipZupt, zupt, StillBounded, Deciding,
                ZuptEnabled
  <2> QED BY <2>1 DEF StillBounded, ZuptBound
<1>3. CASE RepeatZupt
  <2>1. /\ pc = "tracked" /\ timestamp = msg.stamp /\ ZuptEnabled
        /\ UNCHANGED <<setting, is_initialized_vio, state, database, zupt>>
    BY <1>3 DEF RepeatZupt
  <2>2. CASE did_zupt_update
    <3>1. Deciding /\ last_zupt_state_timestamp = msg.stamp /\ pc' = "idle"
      BY <1>3, <2>1, <2>2 DEF Deciding, ZuptEnabled, StillBounded, RepeatZupt, SharedDecision,
                              Finish
    <3>2. ASSUME clones # {} PROVE \E first \in Stamps : StillStamps \subseteq RowOfStills(first)
      <4>1. PICK first \in Stamps : StillStamps \subseteq RowOfStills(first) \cup {msg.stamp}
        BY <2>1, <3>2 DEF StillBounded
      <4>2. last_zupt_count >= 1
        BY <3>1 DEF StillBounded
      <4> QED BY <3>1, <4>1, <4>2 DEF RowOfStills
    <3> QED BY <2>1, <3>1, <3>2 DEF StillBounded, Deciding, StillStamps, RowOfStills, state,
                                    database, zupt
  <2>3. CASE ~did_zupt_update
    <3>1. pc' = "moving" /\ ~Deciding'
      BY <1>3, <2>1, <2>3 DEF RepeatZupt, SharedDecision, Deciding, zupt
    <3> QED BY <2>1, <3>1 DEF StillBounded, zupt
  <2> QED BY <2>2, <2>3
<1>4. CASE DropOutOfOrder
  <2>1. clones = {}
    <3>1. SUFFICES ASSUME clones # {} PROVE FALSE
      OBVIOUS
    <3>2. /\ timestamp <= msg.stamp /\ timestamp > msg.stamp
          /\ msg.stamp \in Stamps /\ timestamp \in Stamps \cup {-1}
      BY <1>0, <1>4, <3>1 DEF DropOutOfOrder, OutOfOrder, InOrder, CloneInv, StampsTyped
    <3>3. msg.stamp \in Int /\ timestamp \in Int
      BY <3>2, StampsAreNatural
    <3> QED BY <3>2, <3>3
  <2>2. UNCHANGED <<zupt, clones>> /\ pc = "moving" /\ pc' = "idle"
    BY <1>4 DEF DropOutOfOrder, Finish, state
  <2> QED BY <2>1, <2>2 DEF StillBounded, Deciding, zupt
<1>5. CASE SelectFeatures \/ UpdateMSCKF \/ UpdateSLAM \/ DelayedInit \/ CleanupAndChangeAnchors
  <2>1. UNCHANGED zupt /\ pc \notin {"idle", "tracked"} /\ pc' \notin {"idle", "tracked"}
    BY <1>5 DEF SelectFeatures, UpdateMSCKF, UpdateSLAM, DelayedInit, CleanupAndChangeAnchors
  <2> QED BY <2>1 DEF StillBounded, Deciding, zupt
<1>6. CASE Propagate \/ MarginalizeOldClone
  <2>1. /\ pc \notin {"idle", "tracked"} /\ pc' # "tracked" /\ sent' = sent
        /\ UNCHANGED <<did_zupt_update, last_zupt_count>>
        /\ has_moved_since_zupt => has_moved_since_zupt'
    BY <1>6 DEF Propagate, MarginalizeOldClone, Finish, zupt
  <2>2. ~Deciding'
    BY <2>1 DEF StillBounded, Deciding
  <2>3. ASSUME clones' # {}, pc' = "idle" PROVE StillStamps' = {}
    <3>1. msg.stamp \in clones' /\ msg.stamp \in Stamps
      <4>1. CASE Propagate
        BY <1>0, <2>3, <4>1 DEF Propagate, NeedsClone, LeftByZupt, Cloned, CloneInv, StampsTyped
      <4>2. CASE MarginalizeOldClone
        <5>1. msg.stamp = timestamp /\ timestamp \in clones /\ msg.stamp \in Stamps
          BY <1>0, <4>2 DEF MarginalizeOldClone, ImageCloned, Using, CloneInv, StampsTyped
        <5>2. WindowExceeded => timestamp # margtimestep
          BY <1>0, <5>1, OldestOfSeveral DEF WindowExceeded
        <5> QED BY <4>2, <5>1, <5>2 DEF MarginalizeOldClone
      <4> QED BY <1>6, <4>1, <4>2
    <3>2. SUFFICES ASSUME NEW t \in StillStamps' PROVE FALSE
      OBVIOUS
    <3>3. PICK f \in DOMAIN db' : \E c \in DOMAIN db'[f] : t \in ToSet(db'[f][c])
      BY DEF StillStamps
    <3>4. PICK c \in DOMAIN db'[f] : t \in ToSet(db'[f][c])
      BY <3>3
    <3>5. <<c, t>> \in sent /\ <<c, t>>[2] = t
      BY <2>1, <3>4 DEF DataInv, TracksOf, Track
    <3>6. t \in SentStamps /\ t \in Stamps /\ msg.stamp < t
      BY <3>1, <3>5 DEF SentStamps, StillStamps
    <3>7. t <= msg.stamp
      BY <1>0, <2>1, <3>6 DEF InOrder
    <3>8. t \in Nat /\ msg.stamp \in Nat
      BY <3>1, <3>6, StampsAreNatural
    <3> QED BY <3>6, <3>7, <3>8
  <2>4. clones' # {} => \E first \in Stamps : TRUE
    BY <1>0 DEF ClonesArePast
  <2> QED BY <2>1, <2>2, <2>3, <2>4 DEF StillBounded
<1> QED BY <1>1, <1>2, <1>3, <1>4, <1>5, <1>6

LEMMA StillInit == Init => StillInv
  BY DEF Init, StillInv, StillBounded, Deciding, ZuptBound

LEMMA StepKeepsStills == CloneInv /\ DataInv /\ StillInv /\ [Next]_vars => StillInv'
<1> SUFFICES ASSUME CloneInv, DataInv, StillInv, [Next]_vars PROVE StillInv'
  OBVIOUS
<1>1. CloneInv' /\ DataInv'
  BY StepKeepsClones, StepKeepsData
<1>2. CASE UNCHANGED vars
  <2>1. StillBounded => StillBounded'
    BY <1>2 DEF vars, state, database, zupt, StillBounded, Deciding, StillStamps, RowOfStills
  <2> QED BY <1>2, <2>1 DEF vars, StillInv
<1>3. CASE Next
  <2>1. setting' = setting
    BY <1>3 DEF Next, FeedImage, TryToInitialize, InitializationDone, AcceptZupt, RejectZupt,
                RepeatZupt, SkipZupt, DropOutOfOrder, Propagate, SelectFeatures, UpdateMSCKF,
                UpdateSLAM, DelayedInit, CleanupAndChangeAnchors, MarginalizeOldClone
  <2> SUFFICES ASSUME setting.ordered, StillBounded PROVE StillBounded'
    BY <2>1 DEF StillInv
  <2>2. CASE \E C \in (SUBSET Cams) \ {{}}, t \in Stamps : FeedImage(C, t)
    BY <2>2, FeedKeepsStills
  <2>3. CASE AcceptZupt
    BY <2>3, AcceptKeepsStills
  <2> QED BY <1>1, <1>3, <2>2, <2>3, OthersKeepStills DEF Next
<1> QED BY <1>2, <1>3

\* No stamp is stored twice for a feature of one camera, so two stamps are two entries.
LEMMA TwoEntries ==
  ASSUME NEW s \in Seq(Stamps), Chained(s, Distinct), NEW a, NEW b, ToSet(s) \subseteq {a, b}
  PROVE  Len(s) <= 2
<1> SUFFICES ASSUME Len(s) > 2 PROVE FALSE
  OBVIOUS
<1>1. 1 \in 1..Len(s) /\ 2 \in 1..Len(s) /\ 3 \in 1..Len(s) /\ DOMAIN s = 1..Len(s)
  OBVIOUS
<1>2. <<s[1], s[2]>> \in Distinct /\ <<s[2], s[3]>> \in Distinct /\ <<s[1], s[3]>> \in Distinct
  BY <1>1 DEF Chained
<1>3. s[1] # s[2] /\ s[2] # s[3] /\ s[1] # s[3]
  BY <1>2 DEF Distinct
<1>4. s[1] \in ToSet(s) /\ s[2] \in ToSet(s) /\ s[3] \in ToSet(s)
  BY <1>1 DEF ToSet
<1> QED BY <1>3, <1>4

\* Standing still, at most two measurements of a feature and a camera are newer than all
\* clones, the first and the last of the row, when images come in order: cleaning the
\* database of the still images in between (cleanup_measurements_exact) keeps up with them.
THEOREM StillTracksBounded == Spec => [](setting.ordered => UnclonedBounded)
<1>1. CloneInv /\ DataInv /\ StillInv => (setting.ordered => UnclonedBounded)
  <2> SUFFICES ASSUME CloneInv, DataInv, StillInv, setting.ordered, pc = "idle", clones # {},
                      NEW f \in DOMAIN db, NEW c \in DOMAIN db[f]
               PROVE  Len(Kept(db[f][c], Nat \ 0..Max(clones))) <= 2
    BY DEF UnclonedBounded
  <2> DEFINE newest == Max(clones)
             k == Kept(db[f][c], Nat \ 0..newest)
  <2>1. newest \in clones /\ \A y \in clones : y <= newest /\ y \in Nat
    <3>1. timestamp \in Nat /\ clones \subseteq 0..timestamp
      <4>1. /\ timestamp \in Stamps \cup {-1}
            /\ \A t \in clones : t \in Stamps /\ t <= timestamp
        BY DEF CloneInv, OrderedOrMoving, ClonesArePast, StampsTyped
      <4>2. PICK t : t \in clones
        OBVIOUS
      <4>3. timestamp \in Nat
        BY <4>1, <4>2, StampsAreNatural
      <4>4. \A y \in clones : y \in Nat /\ y <= timestamp
        BY <4>1, StampsAreNatural
      <4>5. \A y \in clones : y \in 0..timestamp
        BY <4>3, <4>4
      <4> QED BY <4>3, <4>5
    <3>2. \A b \in Nat : clones \subseteq 0..b =>
             Max(clones) \in clones /\ \A y \in clones : y <= Max(clones)
      BY MaxOfBounded
    <3> QED BY <3>1, <3>2
  <2>2. db[f][c] \in Seq(Stamps) /\ Chained(db[f][c], Distinct)
    BY DEF DataInv, TracksOf, Track
  <2>3. k \in Seq(Stamps) /\ \A x : x \in ToSet(k) <=> x \in ToSet(db[f][c]) /\ x \in Nat \ 0..newest
    BY <2>2, KeptIs
  <2>4. Chained(k, Distinct)
    BY <2>2, KeptChained
  <2>5. PICK first \in Stamps : StillStamps \subseteq RowOfStills(first)
    BY DEF StillInv, StillBounded
  <2> HIDE DEF newest, k
  <2>6. ToSet(k) \subseteq StillStamps
    <3> SUFFICES ASSUME NEW t \in ToSet(k) PROVE t \in StillStamps
      OBVIOUS
    <3>1. t \in ToSet(db[f][c]) /\ t \in Nat \ 0..newest /\ t \in Stamps
      BY <2>2, <2>3 DEF ToSet
    <3>2. newest < t /\ newest \in Nat
      BY <2>1, <3>1
    <3>3. \A y \in clones : y < t
      BY <2>1, <3>1, <3>2
    <3> QED BY <3>1, <3>3 DEF StillStamps
  <2>7. ToSet(k) \subseteq {last_zupt_state_timestamp, first}
    BY <2>5, <2>6 DEF RowOfStills
  <2>8. Len(k) <= 2
    BY <2>3, <2>4, <2>7, TwoEntries
  <2> QED BY <2>8 DEF k, newest
<1>2. Spec => []CloneInv
  BY CloneInit, StepKeepsClones, PTL DEF Spec
<1>3. Spec => []DataInv
  BY <1>2, DataInit, StepKeepsData, PTL DEF Spec
<1>4. Spec => []StillInv
  BY <1>2, <1>3, StillInit, StepKeepsStills, PTL DEF Spec
<1> QED BY <1>1, <1>2, <1>3, <1>4, PTL

-----------------------------------------------------------------------------
(***************************************************************************)
(* The manager's containers are a sliding window.                          *)
(***************************************************************************)
\* Time goes forward: still images are the only ones the state would follow back to, when
\* it was initialized past them, and of two cameras only one has an image there.
Forward == \/ ~setting.try_zupt
           \/ setting.ordered /\ \E a, b \in Cams : setting.cams \subseteq {a, b}

AllSent(t) == \A c \in setting.cams : <<c, t>> \in sent

\* The state is at most one reading past an image; and only the images of the stamp at
\* which it was initialized may be behind it.
NotAhead ==
  /\ timestamp # -1 => \E u \in SentStamps : timestamp <= u + 1
  /\ timestamp # -1 /\ pc \in {"tracked", "moving"} =>
       \/ timestamp <= msg.stamp
       \/ ~is_initialized_vio /\ timestamp <= msg.stamp + 1 /\ AllSent(msg.stamp)
       \/ pc = "moving" /\ timestamp <= msg.stamp + 1 /\ AllSent(msg.stamp)
  /\ is_initialized_vio => timestamp # -1
  /\ is_initialized_vio /\ pc = "idle" =>
       \E u \in SentStamps : timestamp <= u \/ (timestamp <= u + 1 /\ AllSent(u))

\* Before initialization every feature of the database has a measurement.
Measured ==
  ~is_initialized_vio =>
    /\ pc \in {"idle", "tracked"}
    /\ \A f \in DOMAIN db : \E c \in DOMAIN db[f] : db[f][c] # <<>>

SentTyped == sent \subseteq setting.cams \X Stamps

AheadInv == SentTyped /\ Measured /\ (setting.try_zupt /\ Forward => NotAhead)

LEMMA AheadInit == Init => AheadInv
<1> SUFFICES ASSUME Init PROVE AheadInv
  OBVIOUS
<1>1. sent = {} /\ timestamp = -1 /\ ~is_initialized_vio /\ DOMAIN db = {} /\ pc = "idle"
  BY DEF Init, EmptyDatabase
<1> QED BY <1>1 DEF AheadInv, SentTyped, Measured, NotAhead

\* The newest measurement the initializer sees is not newer than the image.
LEMMA NewestIsPast ==
  ASSUME DataInv, CloneInv, Measured, setting.ordered, TryToInitialize, DOMAIN db # {}
  PROVE  NewestCamTime \in Nat /\ NewestCamTime <= msg.stamp
<1>1. pc = "tracked" /\ ~is_initialized_vio /\ msg.stamp \in Stamps /\ msg.stamp \in Nat
  BY StampsAreNatural DEF TryToInitialize, CloneInv, StampsTyped
<1> DEFINE S == {m[3] : m \in UNION {Measurements(db, f) : f \in DOMAIN db}}
<1>2. ASSUME NEW n \in S PROVE n \in 0..msg.stamp
  <2>1. PICK f \in DOMAIN db : \E m \in Measurements(db, f) : n = m[3]
    OBVIOUS
  <2>2. PICK c \in DOMAIN db[f] : n \in ToSet(db[f][c])
    BY <2>1 DEF Measurements
  <2>3. <<c, n>> \in sent /\ <<c, n>>[2] = n /\ db[f][c] \in Seq(Stamps)
    BY <2>2 DEF DataInv, TracksOf, Track
  <2>4. n \in SentStamps /\ n \in Stamps
    BY <2>2, <2>3 DEF SentStamps, ToSet
  <2>5. n <= msg.stamp /\ n \in Nat
    BY <1>1, <2>4, StampsAreNatural DEF CloneInv, OrderedOrMoving, InOrder
  <2> QED BY <1>1, <2>5
<1>3. S # {}
  <2>1. PICK f \in DOMAIN db : \E c \in DOMAIN db[f] : db[f][c] # <<>>
    BY <1>1 DEF Measured
  <2>2. PICK c \in DOMAIN db[f] : db[f][c] # <<>>
    BY <2>1
  <2>3. db[f][c] \in Seq(Stamps)
    BY DEF DataInv, TracksOf, Track
  <2>4. 1 \in DOMAIN db[f][c]
    BY <2>2, <2>3
  <2>5. db[f][c][1] \in ToSet(db[f][c])
    BY <2>4 DEF ToSet
  <2>6. <<f, c, db[f][c][1]>> \in Measurements(db, f)
    BY <2>5 DEF Measurements
  <2> QED BY <2>6
<1>4. NewestCamTime = Max(S)
  BY DEF NewestCamTime
<1> HIDE DEF S
<1>5. \A b \in Nat : S \subseteq 0..b /\ S # {} => Max(S) \in S
  BY MaxOfBounded
<1> QED BY <1>1, <1>2, <1>3, <1>4, <1>5

LEMMA StepKeepsMeasured == DataInv /\ Measured /\ [Next]_vars => Measured'
<1> SUFFICES ASSUME DataInv, Measured, [Next]_vars, ~is_initialized_vio' PROVE Measured'
  BY DEF Measured
<1>1. CASE UNCHANGED vars
  BY <1>1 DEF vars, database, Measured
<1>2. ASSUME NEW C \in SUBSET Cams, NEW t \in Stamps, FeedImage(C, t) PROVE Measured'
  <2>1. PICK seen \in [C -> SUBSET Feats] : db' = Observed(db, seen, t)
    BY <1>2 DEF FeedImage
  <2>2. ~is_initialized_vio /\ pc' = "tracked"
    BY <1>2 DEF FeedImage
  <2> SUFFICES ASSUME NEW f \in DOMAIN db' PROVE \E c \in DOMAIN db'[f] : db'[f][c] # <<>>
    BY <2>2 DEF Measured
  <2>3. CASE f \in DOMAIN db
    <3>1. PICK c \in DOMAIN db[f] : db[f][c] # <<>> /\ db[f][c] \in Seq(Stamps)
      BY <2>2, <2>3 DEF Measured, DataInv, TracksOf, Track
    <3>2. c \in DOMAIN db'[f] /\ db'[f][c] \in {Append(db[f][c], t), db[f][c]}
      BY <2>1, <2>3 DEF Observed
    <3>3. Append(db[f][c], t) # <<>>
      BY <3>1
    <3> QED BY <3>1, <3>2, <3>3
  <2>4. CASE f \notin DOMAIN db
    <3>1. f \in UNION Range(seen)
      BY <2>1, <2>4 DEF Observed
    <3>2. PICK c \in DOMAIN seen : f \in seen[c]
      BY <3>1 DEF Range
    <3>3. c \in DOMAIN db'[f] /\ db'[f][c] = Append(<<>>, t)
      BY <2>1, <2>4, <3>2 DEF Observed
    <3> QED BY <3>3
  <2> QED BY <2>3, <2>4
<1>3. CASE TryToInitialize
  <2>1. pc' = "idle" /\ ~is_initialized_vio
    BY <1>3 DEF TryToInitialize, Finish
  <2>2. ASSUME NEW stamp, db' = CleanupMeasurements(db, stamp), NEW f \in DOMAIN db'
        PROVE  \E c \in DOMAIN db'[f] : db'[f][c] # <<>>
    <3> DEFINE thin == [g \in DOMAIN db |-> Keeping(db[g], Nat \ 0..stamp)]
    <3>1. /\ f \in DOMAIN db /\ db'[f] = Keeping(db[f], Nat \ 0..stamp)
          /\ NumMeasurements(db'[f]) >= 1
      BY <2>2 DEF CleanupMeasurements, NonEmpty, RestrictValues, Restrict
    <3>2. DOMAIN db[f] \subseteq Cams /\ \A c \in DOMAIN db[f] : Track(db[f][c], c, sent)
      BY <3>1 DEF DataInv, TracksOf
    <3> DEFINE d == db'[f]
    <3>3. DOMAIN d \subseteq Cams /\ \A c \in DOMAIN d : Track(d[c], c, sent)
      BY <3>1, <3>2, KeepingTracks
    <3> HIDE DEF d
    <3>4. NumMeasurements(d) # 0
      BY <3>1, <3>3, MeasurementsCounted DEF d
    <3>5. \E c \in DOMAIN d : d[c] # <<>>
      BY <3>3, <3>4, MeasurementsCounted
    <3> QED BY <3>5 DEF d
  <2>3. db' = db \/ \E stamp : db' = CleanupMeasurements(db, stamp)
    BY <1>3 DEF TryToInitialize
  <2> QED BY <2>1, <2>2, <2>3 DEF Measured
<1>4. CASE \/ InitializationDone \/ AcceptZupt \/ RejectZupt \/ RepeatZupt \/ SkipZupt
           \/ DropOutOfOrder \/ Propagate \/ SelectFeatures
           \/ UpdateMSCKF \/ UpdateSLAM \/ DelayedInit
           \/ CleanupAndChangeAnchors \/ MarginalizeOldClone
  <2>1. CASE InitializationDone
    BY <2>1 DEF InitializationDone
  <2>2. CASE AcceptZupt \/ RejectZupt \/ RepeatZupt \/ SkipZupt
    BY <2>2 DEF AcceptZupt, RejectZupt, RepeatZupt, SkipZupt, ZuptEnabled
  <2>3. CASE \/ DropOutOfOrder \/ Propagate \/ SelectFeatures \/ UpdateMSCKF \/ UpdateSLAM
             \/ DelayedInit \/ CleanupAndChangeAnchors \/ MarginalizeOldClone
    <3>1. pc \notin {"idle", "tracked"} /\ is_initialized_vio' = is_initialized_vio
      BY <2>3 DEF DropOutOfOrder, Propagate, SelectFeatures, UpdateMSCKF, UpdateSLAM,
                  DelayedInit, CleanupAndChangeAnchors, MarginalizeOldClone
    <3> QED BY <3>1 DEF Measured
  <2> QED BY <1>4, <2>1, <2>2, <2>3
<1> QED BY <1>1, <1>2, <1>3, <1>4 DEF Next

\* An image of the stamp the state was initialized at is the other camera's.
LEMMA FeedNotAhead ==
  ASSUME StampsTyped, SentTyped, CloneInv, NotAhead, setting.ordered,
         \E a, b \in Cams : setting.cams \subseteq {a, b},
         NEW C \in (SUBSET Cams) \ {{}}, NEW t \in Stamps, FeedImage(C, t)
  PROVE  NotAhead'
<1>1. /\ pc' = "tracked" /\ msg'.stamp = t /\ sent' = sent \cup (C \X {t})
      /\ C \subseteq setting.cams /\ \A c \in C : <<c, t>> \notin sent
      /\ \A s \in sent : s[2] <= t
      /\ UNCHANGED <<setting, is_initialized_vio, timestamp>> /\ pc = "idle"
  BY DEF FeedImage, state
<1>2. SentStamps \subseteq SentStamps' /\ SentStamps \subseteq Stamps
  <2>1. \A s \in sent : s \in sent' /\ s[2] \in Stamps
    BY <1>1 DEF SentTyped
  <2> QED BY <2>1 DEF SentStamps
<1>3. \A u \in SentStamps : u <= t /\ u \in Int
  BY <1>1, <1>2, StampsAreNatural DEF SentStamps
<1>4. t \in Int /\ timestamp \in Int
  BY StampsAreNatural DEF StampsTyped
<1>5. ASSUME is_initialized_vio PROVE timestamp <= t
  <2>1. PICK u \in SentStamps : timestamp <= u \/ (timestamp <= u + 1 /\ AllSent(u))
    BY <1>1, <1>5 DEF NotAhead
  <2>2. u <= t /\ u \in Int
    BY <1>3
  <2>3. CASE timestamp <= u
    BY <1>4, <2>2, <2>3
  <2>4. CASE timestamp <= u + 1 /\ AllSent(u)
    <3>1. PICK c \in C : TRUE
      OBVIOUS
    <3>2. u # t
      BY <1>1, <2>4, <3>1 DEF AllSent
    <3> QED BY <1>4, <2>2, <2>4, <3>2
  <2> QED BY <2>1, <2>3, <2>4
<1>6. ASSUME timestamp # -1
      PROVE  timestamp <= t \/ (timestamp <= t + 1 /\ AllSent(t)')
  <2>1. PICK u \in SentStamps : timestamp <= u + 1
    BY <1>6 DEF NotAhead
  <2>2. u <= t /\ u \in Int
    BY <1>3
  <2>3. CASE u # t
    BY <1>4, <2>1, <2>2, <2>3
  <2>4. CASE u = t
    <3>1. PICK s \in sent : s[2] = t
      BY <2>4 DEF SentStamps
    <3>2. s[1] \in setting.cams /\ s = <<s[1], t>>
      BY <3>1 DEF SentTyped
    <3>3. PICK c \in C : c # s[1] /\ c \in setting.cams
      BY <1>1, <3>1, <3>2
    <3>4. \A k \in setting.cams : k \in {c, s[1]}
      BY <3>2, <3>3
    <3>5. <<c, t>> \in sent' /\ <<s[1], t>> \in sent'
      BY <1>1, <3>1, <3>2, <3>3
    <3>6. AllSent(t)'
      BY <1>1, <3>4, <3>5 DEF AllSent
    <3> QED BY <2>1, <2>4, <3>6
  <2> QED BY <2>3, <2>4
<1>7. timestamp # -1 => \E u \in SentStamps' : timestamp <= u + 1
  BY <1>2 DEF NotAhead
<1> QED BY <1>1, <1>5, <1>6, <1>7 DEF NotAhead

LEMMA OthersNotAhead ==
  ASSUME CloneInv, DataInv, Measured, NotAhead, setting.ordered, [Next]_vars,
         ~\E C \in (SUBSET Cams) \ {{}}, t \in Stamps : FeedImage(C, t)
  PROVE  NotAhead'
<1>0. /\ InOrder /\ ImageCloned /\ timestamp \in Stamps \cup {-1} /\ timestamp \in Int
      /\ pc # "idle" => msg.stamp \in SentStamps /\ msg.stamp \in Int /\ msg.stamp # -1
  BY StampsAreNatural DEF CloneInv, OrderedOrMoving, StampsTyped, InOrder
<1>1. CASE UNCHANGED vars
  BY <1>1 DEF vars, state, NotAhead, SentStamps, AllSent
<1>2. CASE TryToInitialize
  <2>1. /\ pc = "tracked" /\ pc' = "idle" /\ ~is_initialized_vio' /\ sent' = sent
    BY <1>2 DEF TryToInitialize, Finish
  <2>2. timestamp' = -1 \/ timestamp' <= msg.stamp + 1
    <3>1. CASE timestamp' = timestamp
      BY <1>2, <3>1 DEF TryToInitialize
    <3>2. CASE DOMAIN db # {} /\ timestamp' # timestamp
      <4>1. NewestCamTime \in Nat /\ NewestCamTime <= msg.stamp
        BY <1>2, <3>2, NewestIsPast
      <4>2. \E s \in Stamps \cap (NewestCamTime - InitWindow + 1)..(NewestCamTime + 1) :
               timestamp' = s
        BY <1>2, <3>2 DEF TryToInitialize
      <4>3. timestamp' <= NewestCamTime + 1 /\ timestamp' \in Int
        BY <4>1, <4>2, VioAssumption
      <4> QED BY <1>0, <2>1, <4>1, <4>3
    <3> QED BY <1>2, <3>1, <3>2 DEF TryToInitialize
  <2>3. SentStamps' = SentStamps
    BY <2>1 DEF SentStamps
  <2> QED BY <1>0, <2>1, <2>2, <2>3 DEF NotAhead
<1>3. CASE InitializationDone
  BY <1>3 DEF InitializationDone, NotAhead, state, SentStamps, AllSent
<1>4. CASE RejectZupt \/ SkipZupt
  BY <1>4 DEF RejectZupt, SkipZupt, NotAhead, state, SentStamps, AllSent, ZuptEnabled
<1>5. CASE AcceptZupt \/ RepeatZupt \/ Propagate
  <2>1. /\ timestamp' = msg.stamp /\ sent' = sent /\ pc # "idle"
        /\ pc' = "moving" => msg' = msg
        /\ pc' # "tracked"
    BY <1>5 DEF AcceptZupt, RepeatZupt, Propagate, Finish, state
  <2>2. SentStamps' = SentStamps
    BY <2>1 DEF SentStamps
  <2>3. msg.stamp <= msg.stamp /\ msg.stamp <= msg.stamp + 1
    BY <1>0, <2>1
  <2> QED BY <1>0, <2>1, <2>2, <2>3 DEF NotAhead
<1>6. CASE DropOutOfOrder
  <2>1. /\ pc = "moving" /\ pc' = "idle" /\ timestamp > msg.stamp
        /\ UNCHANGED <<timestamp, sent, setting, is_initialized_vio>>
    BY <1>6 DEF DropOutOfOrder, Finish, OutOfOrder, state
  <2>2. timestamp # -1 => timestamp <= msg.stamp + 1 /\ AllSent(msg.stamp)
    BY <1>0, <2>1 DEF NotAhead
  <2>3. SentStamps' = SentStamps /\ \A u : AllSent(u)' = AllSent(u)
    BY <2>1 DEF SentStamps, AllSent
  <2> QED BY <1>0, <2>1, <2>2, <2>3 DEF NotAhead
<1>7. CASE \/ SelectFeatures \/ UpdateMSCKF \/ UpdateSLAM \/ DelayedInit
           \/ CleanupAndChangeAnchors \/ MarginalizeOldClone
  <2>1. /\ pc \in Using /\ pc' \notin {"tracked", "moving"}
        /\ UNCHANGED <<timestamp, sent, setting, is_initialized_vio>>
    BY <1>7 DEF SelectFeatures, UpdateMSCKF, UpdateSLAM, DelayedInit, CleanupAndChangeAnchors,
                MarginalizeOldClone, Finish, Using, state
  <2>2. timestamp = msg.stamp /\ SentStamps' = SentStamps /\ pc # "idle"
    BY <1>0, <2>1 DEF ImageCloned, SentStamps, Using
  <2>3. timestamp <= msg.stamp
    BY <1>0, <2>2
  <2> QED BY <1>0, <2>1, <2>2, <2>3 DEF NotAhead
<1> QED BY <1>1, <1>2, <1>3, <1>4, <1>5, <1>6, <1>7 DEF Next

LEMMA StepKeepsAhead == CloneInv /\ DataInv /\ AheadInv /\ [Next]_vars => AheadInv'
<1> SUFFICES ASSUME CloneInv, DataInv, AheadInv, [Next]_vars PROVE AheadInv'
  OBVIOUS
<1>1. Measured'
  BY StepKeepsMeasured DEF AheadInv
<1>2. setting' = setting
  BY DEF Next, vars, FeedImage, TryToInitialize, InitializationDone, AcceptZupt, RejectZupt,
         RepeatZupt, SkipZupt, DropOutOfOrder, Propagate, SelectFeatures, UpdateMSCKF,
         UpdateSLAM, DelayedInit, CleanupAndChangeAnchors, MarginalizeOldClone
<1>3. SentTyped'
  <2>1. ASSUME NEW C \in SUBSET Cams, NEW t \in Stamps, FeedImage(C, t) PROVE SentTyped'
    BY <1>2, <2>1 DEF FeedImage, AheadInv, SentTyped
  <2>2. CASE sent' = sent
    BY <1>2, <2>2 DEF AheadInv, SentTyped
  <2> QED BY <2>1, <2>2 DEF Next, vars, TryToInitialize, InitializationDone, AcceptZupt,
         RejectZupt, RepeatZupt, SkipZupt, DropOutOfOrder, Propagate, SelectFeatures,
         UpdateMSCKF, UpdateSLAM, DelayedInit, CleanupAndChangeAnchors, MarginalizeOldClone
<1>4. ASSUME setting.try_zupt, Forward PROVE NotAhead'
  <2>1. NotAhead /\ setting.ordered /\ (\E a, b \in Cams : setting.cams \subseteq {a, b})
    BY <1>4, Zenon DEF AheadInv, Forward
  <2> QED BY <2>1, FeedNotAhead, OthersNotAhead DEF CloneInv, AheadInv
<1> QED BY <1>1, <1>2, <1>3, <1>4 DEF AheadInv, Forward

\* The window has room for the clone of the next image, and new landmarks are new.
FitsInv ==
  /\ pc \in Dividing => Landmarks \cap feats.delayed = {}
  /\ OrderedOrMoving => /\ Cardinality(clones) <= max_clone_size + 1
                        /\ pc \in {"idle", "tracked", "moving"} =>
                             Cardinality(clones) <= max_clone_size

LEMMA FitsInit == Init => FitsInv
  BY FS_EmptySet, VioAssumption DEF Init, FitsInv, Dividing

LEMMA StepFits == CloneInv /\ DataInv /\ WindowInv /\ FitsInv /\ [Next]_vars => FitsInv'
<1> SUFFICES ASSUME CloneInv, DataInv, WindowInv, FitsInv, [Next]_vars PROVE FitsInv'
  OBVIOUS
<1>0. OrderedOrMoving' = OrderedOrMoving
  BY DEF OrderedOrMoving, Next, vars, FeedImage, TryToInitialize, InitializationDone, AcceptZupt,
         RejectZupt, RepeatZupt, SkipZupt, DropOutOfOrder, Propagate, SelectFeatures, UpdateMSCKF,
         UpdateSLAM, DelayedInit, CleanupAndChangeAnchors, MarginalizeOldClone
<1>1. /\ IsFiniteSet(clones) /\ Cardinality(clones) \in Nat
      /\ max_clone_size \in Nat
  BY FS_CardinalityType, VioAssumption DEF WindowInv
<1>2. CASE \/ \E C \in (SUBSET Cams) \ {{}}, t \in Stamps : FeedImage(C, t)
           \/ TryToInitialize \/ InitializationDone
           \/ AcceptZupt \/ RejectZupt \/ RepeatZupt \/ SkipZupt \/ DropOutOfOrder
  <2>1. clones' = clones /\ pc' \notin Dividing /\ pc \in {"idle", "tracked", "moving"}
    BY <1>2 DEF FeedImage, TryToInitialize, InitializationDone, AcceptZupt, RejectZupt,
           RepeatZupt, SkipZupt, DropOutOfOrder, state, Finish, Dividing
  <2> QED BY <1>0, <2>1 DEF FitsInv
<1>3. CASE SelectFeatures
  <2>1. clones' = clones /\ pc' = "msckf" /\ Landmarks' \cap feats'.delayed = {}
    BY <1>3 DEF SelectFeatures, Landmarks, Restrict
  <2> QED BY <1>0, <2>1 DEF FitsInv
<1>4. CASE UpdateMSCKF \/ UpdateSLAM \/ DelayedInit \/ CleanupAndChangeAnchors
  <2>1. /\ clones' = clones /\ feats' = feats /\ pc' \notin {"idle", "tracked", "moving"}
        /\ pc' \in Dividing => pc \in Dividing /\ Landmarks' = Landmarks
    BY <1>4, SLAMKeepsEntries DEF UpdateMSCKF, UpdateSLAM, DelayedInit, CleanupAndChangeAnchors,
           state, Landmarks, Dividing
  <2> QED BY <1>0, <2>1 DEF FitsInv
<1>5. CASE Propagate
  <2>1. /\ pc = "moving" /\ pc' \notin Dividing
        /\ clones' = clones \/ clones' = clones \cup {msg.stamp}
        /\ pc' = "idle" => Cardinality(clones') < MinToUpdate
        /\ pc' \notin {"tracked", "moving"}
    BY <1>5 DEF Propagate, Finish, Dividing
  <2>2. Cardinality(clones') \in Nat /\ Cardinality(clones') <= Cardinality(clones) + 1
    BY <1>1, <2>1, FS_AddElement, FS_CardinalityType
  <2>3. MinToUpdate \in Nat /\ MinToUpdate <= max_clone_size
    BY MinToUpdateFits
  <2>4. OrderedOrMoving => Cardinality(clones) <= max_clone_size
    BY <2>1 DEF FitsInv
  <2> QED BY <1>0, <1>1, <2>1, <2>2, <2>3, <2>4 DEF FitsInv
<1>6. CASE MarginalizeOldClone
  <2>1. /\ pc = "marginalize" /\ pc' = "idle"
        /\ clones' = IF WindowExceeded THEN clones \ {margtimestep} ELSE clones
    BY <1>6 DEF MarginalizeOldClone, Finish
  <2>2. ASSUME OrderedOrMoving PROVE Cardinality(clones') <= max_clone_size
    <3>1. Cardinality(clones) <= max_clone_size + 1
      BY <2>2 DEF FitsInv
    <3>2. CASE WindowExceeded
      <4>1. margtimestep \in clones
        BY <2>1, <2>2, <3>2, OldestOfSeveral DEF CloneInv, ImageCloned, Using, WindowExceeded
      <4>2. Cardinality(clones') = Cardinality(clones) - 1
        BY <1>1, <2>1, <3>2, <4>1, FS_RemoveElement
      <4> QED BY <1>1, <3>1, <4>2
    <3>3. CASE ~WindowExceeded
      BY <1>1, <2>1, <3>3 DEF WindowExceeded
    <3> QED BY <3>2, <3>3
  <2>3. Cardinality(clones') \in Nat
    BY <1>1, <2>1, FS_RemoveElement, FS_CardinalityType
  <2>4. Cardinality(clones') <= max_clone_size => Cardinality(clones') <= max_clone_size + 1
    BY <1>1, <2>3
  <2> QED BY <1>0, <2>1, <2>2, <2>4 DEF FitsInv, Dividing
<1>7. CASE UNCHANGED vars
  BY <1>0, <1>7 DEF vars, state, FitsInv, Landmarks
<1> QED BY <1>2, <1>3, <1>4, <1>5, <1>6, <1>7 DEF Next

-----------------------------------------------------------------------------
\* What a step needs to be one of SlidingWindow's.
Sliding == /\ CloneInv /\ DataInv /\ BudgetInv /\ AnchorInv /\ WindowInv /\ AheadInv /\ FitsInv
           /\ Forward

LEMMA SameCardinality == \A S : SW!Cardinality(S) = Cardinality(S)
  BY DEF Cardinality, SW!Cardinality

LEMMA SlidingIs ==
  ASSUME Sliding
  PROVE  /\ OrderedOrMoving /\ ClonesArePast /\ ImageCloned /\ AnchorsCloned
         /\ timestamp \in Stamps \cup {-1} /\ timestamp \in Int
         /\ pc # "idle" => msg.stamp \in Stamps /\ msg.stamp \in Nat
         /\ Landmarks \subseteq Feats /\ feats.delayed \subseteq Feats
  BY StampsAreNatural DEF Sliding, Forward, OrderedOrMoving, CloneInv, StampsTyped, AnchorInv,
     BudgetInv, Promised

\* The frame of an unchanged state.
LEMMA SameFrame ==
  ASSUME Landmarks' = Landmarks,
         \A f \in Landmarks : landmarks'[f].anchor = landmarks[f].anchor
  PROVE  [f \in Landmarks' |-> landmarks'[f].anchor] = [f \in Landmarks |-> landmarks[f].anchor]
  OBVIOUS

\* Images that are propagated to, still ones and the initialization advance time.
LEMMA AdvanceStep ==
  ASSUME Sliding, TryToInitialize \/ AcceptZupt \/ Propagate
  PROVE  (\E t \in Stamps : SW!Advance(t)) \/ UNCHANGED SW!svars
<1>0. landmarks' = landmarks /\ Landmarks' = Landmarks
  BY DEF TryToInitialize, AcceptZupt, Propagate, Landmarks
<1>1. CASE timestamp' = timestamp
  <2>1. clones' = clones
    BY <1>1 DEF TryToInitialize, AcceptZupt, Propagate, NeedsClone
  <2> QED BY <1>0, <1>1, <2>1 DEF SW!svars
<1>2. CASE timestamp' # timestamp
  <2>1. timestamp' \in Stamps /\ timestamp' > timestamp
    <3>1. CASE TryToInitialize
      <4>1. timestamp' \in Stamps /\ timestamp = -1
        BY <1>2, <3>1 DEF TryToInitialize
      <4>2. timestamp' \in Nat
        BY <4>1, StampsAreNatural
      <4> QED BY <4>1, <4>2
    <3>2. CASE AcceptZupt
      <4>1. pc = "tracked" /\ timestamp' = msg.stamp /\ setting.try_zupt /\ is_initialized_vio
        BY <3>2 DEF AcceptZupt, ZuptEnabled
      <4>2. timestamp <= msg.stamp
        BY <4>1 DEF Sliding, AheadInv, NotAhead
      <4> QED BY <1>2, <4>1, <4>2, SlidingIs
    <3>3. CASE Propagate
      <4>1. pc = "moving" /\ timestamp' = msg.stamp /\ ~(timestamp > msg.stamp)
        BY <3>3 DEF Propagate, OutOfOrder
      <4> QED BY <1>2, <4>1, SlidingIs
    <3> QED BY <3>1, <3>2, <3>3
  <2>2. \/ Cardinality(clones) <= max_clone_size /\ clones' = clones \cup {timestamp'}
        \/ clones' = clones
    <3>1. Propagate => pc = "moving" /\ clones' \in {clones, clones \cup {timestamp'}}
      BY DEF Propagate
    <3>2. pc = "moving" => Cardinality(clones) <= max_clone_size
      BY SlidingIs DEF Sliding, FitsInv
    <3>3. TryToInitialize \/ AcceptZupt => clones' = clones
      BY DEF TryToInitialize, AcceptZupt
    <3> QED BY <3>1, <3>2, <3>3
  <2>3. PICK t \in Stamps : t = timestamp'
    BY <2>1
  <2>4. SW!Advance(t)
    BY <1>0, <2>1, <2>2, <2>3, SameCardinality DEF SW!Advance
  <2> QED BY <2>4
<1> QED BY <1>1, <1>2

LEMMA ForgetStep ==
  ASSUME Sliding, SelectFeatures
  PROVE  \E F \in SUBSET Feats : SW!Forget(F)
<1>1. PICK kept \in SUBSET Landmarks :
        /\ landmarks' = Restrict(landmarks, kept)
        /\ timestamp' = timestamp /\ clones' = clones
  BY DEF SelectFeatures
<1>2. Landmarks' = kept /\ \A f \in kept : landmarks'[f] = landmarks[f]
  BY <1>1 DEF Restrict, Landmarks
<1>3. PICK F \in SUBSET Feats : F \subseteq Landmarks /\ Landmarks \ F = kept
  <2>1. Landmarks \ (Landmarks \ kept) = kept /\ (Landmarks \ kept) \in SUBSET Feats
    BY SlidingIs
  <2> QED BY <2>1
<1>4. [f \in Landmarks' |-> landmarks'[f].anchor] = [f \in Landmarks \ F |-> landmarks[f].anchor]
  BY <1>2, <1>3
<1>5. SW!Forget(F)
  BY <1>1, <1>3, <1>4 DEF SW!Forget, SW!Points
<1> QED BY <1>5

LEMMA LearnStep ==
  ASSUME Sliding, DelayedInit
  PROVE  \E F \in SUBSET Feats : \E a \in [F -> clones] : SW!Learn(F, a)
<1>1. /\ Landmarks \subseteq Landmarks' /\ timestamp' = timestamp /\ clones' = clones
      /\ feats.delayed \cap Landmarks = {}
      /\ \A f \in Landmarks' :
           \/ f \in Landmarks /\ landmarks'[f] = landmarks[f]
           \/ f \in feats.delayed /\ landmarks'[f].anchor \in clones
  BY NewLandmarks DEF DelayedInit, Sliding, FitsInv, Dividing
<1>2. PICK F \in SUBSET Feats : F = Landmarks' \ Landmarks
  BY <1>1, SlidingIs
<1>3. PICK a \in [F -> clones] : \A f \in F : a[f] = landmarks'[f].anchor
  <2>1. [f \in F |-> landmarks'[f].anchor] \in [F -> clones]
    BY <1>1, <1>2
  <2> QED BY <2>1
<1>4. [f \in Landmarks' |-> landmarks'[f].anchor]
        = [f \in Landmarks \cup F |-> IF f \in F THEN a[f] ELSE landmarks[f].anchor]
  <2>1. Landmarks' = Landmarks \cup F
    BY <1>1, <1>2
  <2>2. \A f \in Landmarks' :
           landmarks'[f].anchor = IF f \in F THEN a[f] ELSE landmarks[f].anchor
    BY <1>1, <1>2, <1>3
  <2> QED BY <2>1, <2>2
<1>5. SW!Learn(F, a)
  BY <1>1, <1>2, <1>3, <1>4 DEF SW!Learn, SW!Points
<1> QED BY <1>5

LEMMA ReanchorStep ==
  ASSUME Sliding, CleanupAndChangeAnchors
  PROVE  (\E F \in SUBSET Feats : SW!Reanchor(F)) \/ UNCHANGED SW!svars
<1>1. /\ timestamp' = timestamp /\ clones' = clones /\ Landmarks' = Landmarks
      /\ \A f \in Landmarks :
           landmarks'[f].anchor
             = IF WindowExceeded /\ f \in Oldest THEN timestamp ELSE landmarks[f].anchor
  BY ReanchoredEntries DEF CleanupAndChangeAnchors, Sliding
<1>2. CASE ~WindowExceeded
  <2>1. [f \in Landmarks' |-> landmarks'[f].anchor] = [f \in Landmarks |-> landmarks[f].anchor]
    BY <1>1, <1>2
  <2> QED BY <1>1, <2>1 DEF SW!svars
<1>3. CASE WindowExceeded
  <2>1. timestamp \in clones
    BY SlidingIs DEF CleanupAndChangeAnchors, ImageCloned, Using
  <2>2. margtimestep \in clones /\ \A c \in clones : margtimestep <= c
    BY <1>3, <2>1, SlidingIs, OldestOfSeveral DEF WindowExceeded
  <2>3. PICK F \in SUBSET Feats : /\ F = Oldest /\ F \subseteq Landmarks
                                  /\ \A f \in F : landmarks[f].anchor = margtimestep
    <3>1. /\ Oldest \in SUBSET Feats /\ Oldest \subseteq Landmarks
          /\ \A f \in Oldest : landmarks[f].anchor = margtimestep
      BY SlidingIs DEF Oldest
    <3> QED BY <3>1
  <2>4. [f \in Landmarks' |-> landmarks'[f].anchor]
          = [f \in Landmarks |-> IF f \in F THEN timestamp ELSE landmarks[f].anchor]
    BY <1>1, <1>3, <2>3
  <2>5. [f \in Landmarks |-> IF f \in F THEN timestamp ELSE landmarks[f].anchor]
          = [f \in Landmarks |-> IF f \in F THEN timestamp
                                 ELSE [g \in Landmarks |-> landmarks[g].anchor][f]]
    OBVIOUS
  <2>6. SW!Reanchor(F)
    BY <1>1, <1>3, <2>1, <2>2, <2>3, <2>4, <2>5, SameCardinality
       DEF SW!Reanchor, SW!Points, SW!IsOldest, WindowExceeded
  <2> QED BY <2>6
<1> QED BY <1>2, <1>3

LEMMA SlideStep ==
  ASSUME Sliding, MarginalizeOldClone
  PROVE  (\E t \in Stamps : SW!Slide(t)) \/ UNCHANGED SW!svars
<1>1. /\ timestamp' = timestamp /\ landmarks' = landmarks /\ Landmarks' = Landmarks
      /\ pc = "marginalize"
      /\ clones' = IF WindowExceeded THEN clones \ {margtimestep} ELSE clones
  BY DEF MarginalizeOldClone, Landmarks
<1>2. CASE ~WindowExceeded
  BY <1>1, <1>2 DEF SW!svars
<1>3. CASE WindowExceeded
  <2>1. timestamp \in clones
    BY <1>1, SlidingIs DEF ImageCloned, Using
  <2>2. margtimestep \in clones /\ \A c \in clones : margtimestep <= c
    BY <1>3, <2>1, SlidingIs, OldestOfSeveral DEF WindowExceeded
  <2>3. margtimestep \in Stamps
    BY <2>2, SlidingIs DEF ClonesArePast
  <2>4. \A f \in Landmarks : landmarks[f].anchor # margtimestep
    BY <1>1, <1>3, SlidingIs DEF AnchorsCloned
  <2>5. SW!Slide(margtimestep)
    BY <1>1, <1>3, <2>2, <2>4, SameCardinality DEF SW!Slide, SW!Points, SW!IsOldest, WindowExceeded
  <2> QED BY <2>3, <2>5
<1> QED BY <1>2, <1>3

LEMMA StepRefines == Sliding /\ [Next]_vars => [SW!Next]_(SW!svars)
<1> SUFFICES ASSUME Sliding, [Next]_vars PROVE SW!Next \/ UNCHANGED SW!svars
  OBVIOUS
<1>1. CASE TryToInitialize \/ AcceptZupt \/ Propagate
  BY <1>1, AdvanceStep DEF SW!Next
<1>2. CASE SelectFeatures
  BY <1>2, ForgetStep DEF SW!Next
<1>3. CASE DelayedInit
  BY <1>3, LearnStep DEF SW!Next
<1>4. CASE CleanupAndChangeAnchors
  BY <1>4, ReanchorStep DEF SW!Next
<1>5. CASE MarginalizeOldClone
  BY <1>5, SlideStep DEF SW!Next
<1>6. CASE UpdateSLAM
  <2>1. /\ timestamp' = timestamp /\ clones' = clones
        /\ [f \in Landmarks' |-> landmarks'[f].anchor] = [f \in Landmarks |-> landmarks[f].anchor]
    BY <1>6, SLAMKeepsEntries, SameFrame DEF UpdateSLAM, Sliding
  <2> QED BY <2>1 DEF SW!svars
<1>7. CASE \/ \E C \in (SUBSET Cams) \ {{}}, t \in Stamps : FeedImage(C, t)
           \/ InitializationDone \/ RejectZupt \/ RepeatZupt \/ SkipZupt \/ DropOutOfOrder
           \/ UpdateMSCKF \/ UNCHANGED vars
  <2>1. UNCHANGED state
    BY <1>7 DEF FeedImage, InitializationDone, RejectZupt, RepeatZupt, SkipZupt, DropOutOfOrder,
                UpdateMSCKF, vars
  <2> QED BY <2>1 DEF state, Landmarks, SW!svars
<1> QED BY <1>1, <1>2, <1>3, <1>4, <1>5, <1>6, <1>7 DEF Next

LEMMA InitRefines == Init => SW!Init
  BY DEF Init, SW!Init, Landmarks, EmptyDatabase

LEMMA SettingStays == [Next]_vars => setting' = setting
  BY DEF Next, vars, FeedImage, TryToInitialize, InitializationDone, AcceptZupt,
         RejectZupt, RepeatZupt, SkipZupt, DropOutOfOrder, Propagate, SelectFeatures, UpdateMSCKF,
         UpdateSLAM, DelayedInit, CleanupAndChangeAnchors, MarginalizeOldClone

\* The manager's containers go through the steps of a sliding window, whatever the images
\* show, when they come in order from at most two cameras, or zero velocity updates are
\* off: time never goes back, and no clone goes that a landmark is anchored in.
THEOREM ManagerSlidesWindow == Spec /\ Forward => ImplementsSlidingWindow
<1>1. Forward /\ [Next]_vars => Forward'
  BY SettingStays DEF Forward
<1>2. Spec => [](CloneInv /\ DataInv /\ BudgetInv /\ AnchorInv)
  BY CloneInit, DataInit, AnchorInit, BudgetInit, StepKeepsClones, StepKeepsData,
     StepKeepsAnchors, StepKeepsBudget, PTL DEF Spec
<1>3. Spec => [](CloneInv /\ DataInv /\ WindowInv /\ AheadInv /\ FitsInv)
  BY CloneInit, DataInit, WindowInit, AheadInit, FitsInit, StepKeepsClones, StepKeepsData,
     StepKeepsWindow, StepKeepsAhead, StepFits, PTL DEF Spec
<1>4. Spec /\ Forward => []Forward
  BY <1>1, PTL DEF Spec
<1>5. Spec /\ Forward => []Sliding
  BY <1>2, <1>3, <1>4, PTL DEF Sliding
<1> QED BY <1>5, InitRefines, StepRefines, PTL DEF Spec, ImplementsSlidingWindow, SW!Spec
=============================================================================
