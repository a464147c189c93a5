--------------------------- MODULE Rotation_proofs ---------------------------
(***************************************************************************)
(* What holds of the rotation for any number of photos, any budget and any *)
(* number of edits, wiped blobs, abandoned requests and kills.             *)
(***************************************************************************)
EXTENDS Rotation, FiniteSetTheorems, TLAPS

USE RotationAssumption

-----------------------------------------------------------------------------
(* Save. *)

\* The flag is down only when the file has every entry, or the copy that is about
\* to replace the file has.
SaveInv ==
  /\ dirty \in BOOLEAN
  /\ failed \in BOOLEAN
  /\ ~dirty => IF pc = "marshal" THEN tmp = Photo ELSE failed \/ saved = Photo
  /\ next \in {"render", "wait"}

\* What a change under the lock does to the flag and the copies.
LEMMA TouchKeeps ==
  ASSUME NEW P, Touch(P), dirty \in BOOLEAN
  PROVE  /\ dirty' \in BOOLEAN /\ failed' = failed
         /\ ~dirty' => ~dirty /\ saved' = saved /\ tmp' = tmp
<1>1. dirty' \in BOOLEAN
  BY Zenon DEF Touch
<1>3. failed' = failed
  BY DEF Touch
<1>2. ASSUME ~dirty' PROVE ~dirty /\ saved' = saved /\ tmp' = tmp
  <2>1. ~dirty /\ P = {}
    BY <1>2, Zenon DEF Touch
  <2> QED
    BY <2>1 DEF Touch
<1> QED
  BY <1>1, <1>2, <1>3

LEMMA SaveNext == SaveInv /\ [Next]_vars => SaveInv'
<1> SUFFICES ASSUME SaveInv, [Next]_vars PROVE SaveInv'
  OBVIOUS
<1> USE DEF SaveInv, Worker, store, worker, file, request
<1>1. CASE Verify
  BY <1>1, TouchKeeps DEF Verify
<1>2. ASSUME NEW p \in Photo, SyncEdited(p) PROVE SaveInv'
  BY <1>2, TouchKeeps DEF SyncEdited
<1>3. CASE SyncSame \/ Snapshot \/ EndRender \/ TimerFires
  BY <1>3 DEF SyncSame, Snapshot, EndRender, TimerFires
<1>4. ASSUME NEW p \in Photo, Render(p) PROVE SaveInv'
  BY <1>4 DEF Render
<1>5. CASE PutRendered
  BY <1>5, TouchKeeps DEF PutRendered
<1>6. ASSUME NEW V, Evict(V) PROVE SaveInv'
  BY <1>6, TouchKeeps DEF Evict
<1>7. CASE SaveNothing
  BY <1>7 DEF SaveNothing
<1>8. CASE Collect
  BY <1>8 DEF Collect
<1>9. CASE Rename
  BY <1>9 DEF Rename, DirtyAfterRename
<1>15. CASE SaveFails
  BY <1>15 DEF SaveFails
<1>10. CASE MarkShown \/ ClearBlob
  BY <1>10, TouchKeeps DEF MarkShown, ClearBlob
<1>11. CASE Ask \/ NoneReady \/ Deliver \/ GiveUp
  BY <1>11 DEF Ask, NoneReady, Deliver, GiveUp
<1>12. ASSUME NEW p \in Photo, Pick(p) \/ Wipe(p) PROVE SaveInv'
  BY <1>12 DEF Pick, Wipe
<1>13. CASE Crash
  BY <1>13 DEF Crash
<1>14. CASE UNCHANGED vars
  BY <1>14 DEF vars
<1> QED
  BY <1>1, <1>2, <1>3, <1>4, <1>5, <1>6, <1>7, <1>8, <1>9, <1>10, <1>11, <1>12, <1>13,
     <1>14, <1>15
  DEF Next, WorkerStep, Answer

\* Save marshals entries that handlers are changing, and loses none of the changes:
\* whoever changes an entry after the collection raises the flag again.
THEOREM NoChangeLost == Spec => []CleanMeansSaved
<1>1. Init => SaveInv
  BY DEF Init, SaveInv
<1>2. SaveInv => CleanMeansSaved
  BY DEF SaveInv, CleanMeansSaved
<1> QED
  BY <1>1, <1>2, SaveNext, PTL DEF Spec

-----------------------------------------------------------------------------
(* Type correctness; 2N ranks are enough for the clock. *)

LEMMA PhotosFinite == IsFiniteSet(Photo) /\ Cardinality(Photo) = N
BY FS_Interval DEF Photo

LEMMA TimesFinite ==
  ASSUME NEW f \in [Photo -> Stamp]
  PROVE  LET T == {f[q] : q \in Photo} IN IsFiniteSet(T) /\ Cardinality(T) =< N
<1> DEFINE T == {f[q] : q \in Photo}
<1>1. f \in Surjection(Photo, T)
  BY DEF Surjection
<1> HIDE DEF T
<1>2. IsFiniteSet(T) /\ Cardinality(T) =< Cardinality(Photo)
  BY <1>1, FS_Surjection, PhotosFinite
<1> QED
  BY <1>2, PhotosFinite DEF T

LEMMA InUseFinite ==
  ASSUME lastShown \in [Photo -> Stamp], copied \in [Photo -> Stamp]
  PROVE  IsFiniteSet(InUse) /\ Cardinality(InUse) \in 0 .. 2 * N
<1> DEFINE A == {lastShown[q] : q \in Photo}
           B == {copied[q] : q \in Photo}
<1>1. IsFiniteSet(A) /\ Cardinality(A) =< N /\ IsFiniteSet(B) /\ Cardinality(B) =< N
  BY TimesFinite
<1>2. InUse = (A \cup B) \ {0}
  BY DEF InUse
<1> HIDE DEF A, B
<1>3. /\ Cardinality(A) \in Nat /\ Cardinality(B) \in Nat
      /\ IsFiniteSet(A \cup B) /\ Cardinality(A \cup B) \in Nat
      /\ Cardinality(A \cap B) \in Nat
      /\ Cardinality(A \cup B) = Cardinality(A) + Cardinality(B) - Cardinality(A \cap B)
  <2>1. IsFiniteSet(A \cap B)
    BY <1>1, FS_Subset
  <2>2. IsFiniteSet(A \cup B)
    BY <1>1, FS_Union
  <2> QED
    BY <1>1, <2>1, <2>2, FS_Union, FS_CardinalityType
<1>4. IsFiniteSet(InUse) /\ Cardinality(InUse) =< Cardinality(A \cup B)
  BY <1>2, <1>3, FS_Subset
<1>5. Cardinality(InUse) \in Nat
  BY <1>4, FS_CardinalityType
<1>6. N \in Nat
  BY RotationAssumption
<1> QED
  BY <1>1, <1>3, <1>4, <1>5, <1>6

LEMMA RankType ==
  ASSUME lastShown \in [Photo -> Stamp], copied \in [Photo -> Stamp], NEW t
  PROVE  Rank(t) \in Stamp
<1>1. /\ IsFiniteSet({s \in InUse : s =< t})
      /\ Cardinality({s \in InUse : s =< t}) =< Cardinality(InUse)
  BY InUseFinite, FS_Subset
<1>2. Cardinality({s \in InUse : s =< t}) \in Nat
  BY <1>1, FS_CardinalityType
<1>3. N \in Nat
  BY RotationAssumption
<1> QED
  BY <1>1, <1>2, <1>3, InUseFinite DEF Rank, Stamp

LEMMA NowType ==
  ASSUME lastShown \in [Photo -> Stamp], copied \in [Photo -> Stamp], NEW p
  PROVE  Now(p) \in Stamp
<1>1. N \in Nat
  BY RotationAssumption
<1> QED
  BY <1>1, InUseFinite DEF Now, Stamp

LEMMA ZeroStamp == 0 \in Stamp
<1>1. N \in Nat
  BY RotationAssumption
<1> QED
  BY <1>1 DEF Stamp

LEMMA CountUp ==
  ASSUME NEW e, events \in 0 .. MaxEvents, Happens(e) PROVE events' \in 0 .. MaxEvents
<1>1. MaxEvents \in Nat
  BY RotationAssumption
<1> QED
  BY <1>1 DEF Happens

\* TypeOK but for the flags.
Typed ==
  /\ blob \subseteq Photo /\ disk \subseteq Photo /\ todo \subseteq Photo
  /\ lastShown \in [Photo -> Stamp] /\ copied \in [Photo -> Stamp]
  /\ pc \in {"verify", "sync", "snapshot", "render", "put", "evict",
             "save", "marshal", "wait"}
  /\ cur \in Photo \cup {None} /\ next \in {"render", "wait"}
  /\ pc = "put" => cur \in Photo
  /\ tmp \subseteq Photo /\ saved \subseteq Photo
  /\ call \in {"resting", "asked", "picked", "served"}
  /\ picked \in Photo \cup {None} /\ (picked # None <=> call \in {"picked", "served"})
  /\ screen \in Photo \cup {None} /\ outdated \subseteq {"picked", "screen"}
  /\ events \in 0 .. MaxEvents

LEMMA TypedNext == Typed /\ [Next]_vars => Typed'
<1> SUFFICES ASSUME Typed, [Next]_vars PROVE Typed'
  OBVIOUS
<1>0. None \notin Photo
  BY RotationAssumption
<1> USE <1>0, ZeroStamp, CountUp
    DEF Typed, Worker, Touch, store, worker, file, request
<1>1. CASE Verify
  BY <1>1 DEF Verify
<1>2. ASSUME NEW p \in Photo, SyncEdited(p) PROVE Typed'
  BY <1>2 DEF SyncEdited
<1>3. CASE SyncSame \/ EndRender \/ TimerFires
  BY <1>3 DEF SyncSame, EndRender, TimerFires
<1>4. CASE Snapshot
  BY <1>4 DEF Snapshot
<1>5. ASSUME NEW p \in Photo, Render(p) PROVE Typed'
  BY <1>5 DEF Render
<1>6. CASE PutRendered
  BY <1>6 DEF PutRendered
<1>7. ASSUME NEW V, Evict(V) PROVE Typed'
  BY <1>7 DEF Evict
<1>8. CASE SaveNothing \/ Collect \/ Rename \/ SaveFails
  BY <1>8 DEF SaveNothing, Collect, Rename, SaveFails
<1>9. CASE MarkShown
  <2>1. /\ \A q \in Photo : Now(q) \in Stamp
        /\ \A q \in Photo : Rank(lastShown[q]) \in Stamp /\ Rank(copied[q]) \in Stamp
    BY NowType, RankType
  <2>2. lastShown' \in [Photo -> Stamp] /\ copied' \in [Photo -> Stamp]
    BY <1>9, <2>1 DEF MarkShown
  <2> QED
    BY <1>9, <2>2 DEF MarkShown
<1>10. CASE ClearBlob
  BY <1>10 DEF ClearBlob
<1>11. CASE Ask \/ NoneReady \/ Deliver \/ GiveUp
  BY <1>11 DEF Ask, NoneReady, Deliver, GiveUp
<1>12. ASSUME NEW p \in Photo, Pick(p) \/ Wipe(p) PROVE Typed'
  BY <1>12 DEF Pick, Wipe, Draw, Candidates
<1>13. CASE Crash
  BY <1>13 DEF Crash
<1>14. CASE UNCHANGED vars
  BY <1>14 DEF vars
<1> QED
  BY <1>1, <1>2, <1>3, <1>4, <1>5, <1>6, <1>7, <1>8, <1>9, <1>10, <1>11, <1>12, <1>13,
     <1>14
  DEF Next, WorkerStep, Answer

\* Every variable has its type; in particular a clock reading never needs a rank
\* beyond those of the times the worker and the store hold.
THEOREM RotationTyped == Spec => []TypeOK
<1>1. Init => Typed
  <2>1. MaxEvents \in Nat
    BY RotationAssumption
  <2> QED
    BY <2>1, ZeroStamp DEF Init, Typed
<1>2. Init => SaveInv
  BY DEF Init, SaveInv
<1>3. Typed /\ SaveInv => TypeOK
  BY DEF Typed, SaveInv, TypeOK
<1> QED
  BY <1>1, <1>2, <1>3, TypedNext, SaveNext, PTL DEF Spec
=============================================================================
