---------------------------- MODULE Frame_proofs ----------------------------
(***************************************************************************)
(* Frame's types and its safety properties, for every set of photos,       *)
(* geometries and handlers, and what the store's operators return.         *)
(***************************************************************************)
EXTENDS FrameInv, FiniteSetTheorems, TLAPS

USE StoreAssumption, FrameAssumption

-----------------------------------------------------------------------------
(* Store: what its operators return. *)

\* BlobID names a file of the render directory.
LEMMA BlobIDType ==
  ASSUME NEW e \in ETag, NEW g \in Geometry PROVE BlobID(e, g) \in Blob
BY DEF BlobID, Blob

\* Every operator on the entries yields a manifest.
LEMMA PutType ==
  ASSUME NEW m \in Manifest, NEW p \in Photo, NEW e \in Entry \cup {NoEntry}
  PROVE  Put(m, p, e) \in Manifest
BY DEF Put, Manifest

LEMMA ClearedType ==
  ASSUME NEW e \in Entry PROVE Cleared(e) \in Entry
BY DEF Cleared, Entry

LEMMA TrackedEntry ==
  ASSUME NEW m \in Manifest, NEW p \in Tracked(m) PROVE p \in Photo /\ m[p] \in Entry
BY DEF Tracked, Manifest

LEMMA OwnedBlob ==
  ASSUME NEW m \in Manifest, NEW p \in Owners(m)
  PROVE  p \in Tracked(m) /\ m[p] \in Entry /\ m[p].blob \in Blob
<1>1. p \in Tracked(m) /\ m[p].blob # NoBlob
  BY DEF Owners
<1>2. m[p] \in Entry
  BY <1>1, TrackedEntry
<1>3. m[p].blob \in Blob \cup {NoBlob}
  BY <1>2 DEF Entry
<1> QED
  BY <1>1, <1>2, <1>3

LEMMA ClearBlobType ==
  ASSUME NEW m \in Manifest, NEW p \in Photo PROVE ClearBlob(m, p) \in Manifest
<1>1. CASE p \in Owners(m)
  BY <1>1, OwnedBlob, ClearedType, PutType DEF ClearBlob
<1>2. CASE p \notin Owners(m)
  BY <1>2 DEF ClearBlob
<1> QED
  BY <1>1, <1>2

LEMMA VerifyType ==
  ASSUME NEW m \in Manifest, NEW present PROVE Verify(m, present) \in Manifest
<1>1. \A p \in Missing(m, present) : Cleared(m[p]) \in Entry
  BY OwnedBlob, ClearedType DEF Missing
<1> QED
  BY <1>1 DEF Verify, Manifest

LEMMA RetainOnlyType ==
  ASSUME NEW m \in Manifest, NEW keep PROVE RetainOnly(m, keep) \in Manifest
BY DEF RetainOnly, Manifest

LEMMA EvictedType ==
  ASSUME NEW m \in Manifest, NEW V \in SUBSET Owners(m)
  PROVE  Evicted(m, V) \in Manifest
<1>1. \A p \in V : [m[p] EXCEPT !.blob = NoBlob] \in Entry
  <2> TAKE p \in V
  <2>1. m[p] \in Entry
    BY OwnedBlob
  <2> QED
    BY <2>1 DEF Entry
<1> QED
  BY <1>1 DEF Evicted, Manifest

LEMMA VictimsOwn ==
  ASSUME NEW m, NEW V \in Victims(m) PROVE V \in SUBSET Owners(m)
BY DEF Victims

-----------------------------------------------------------------------------
(* Type correctness. *)

LEMMA WithoutType ==
  ASSUME disk \in [Blob -> ETag \cup {NoETag}], NEW B
  PROVE  Without(B) \in [Blob -> ETag \cup {NoETag}]
BY DEF Without

LEMMA NothingType ==
  NothingTracked \in Manifest /\ NoListing \in [Photo -> ETag \cup {NoETag}]
BY DEF NothingTracked, NoListing, Manifest

LEMMA RestingType == Resting \in Call
BY DEF Resting, Call

LEMMA InitType == Init => TypeOK
<1> SUFFICES ASSUME Init PROVE TypeOK
  OBVIOUS
<1>1. etag \in [Photo -> ETag] /\ disk \in [Blob -> ETag \cup {NoETag}]
  BY DEF Init
<1>2. call \in [Handler -> Call]
  BY RestingType DEF Init
<1>3. entries \in Manifest /\ manifest \in Manifest /\ pending \in Manifest
  BY NothingType DEF Init
<1>4. listing \in [Photo -> ETag \cup {NoETag}]
  BY NothingType DEF Init
<1>5. /\ selected \in SUBSET Photo /\ deleted \in SUBSET Photo
      /\ used \in SUBSET ETag /\ moved \in SUBSET ETag
      /\ events \in 0 .. MaxEvents /\ pc \in Steps /\ cur \in Photo \cup {NoPhoto}
      /\ geometry \in Geometry \cup {NoGeometry}
      /\ target \in Geometry \cup {NoGeometry}
  BY DEF Init, Steps
<1>6. /\ revoked \in BOOLEAN /\ online \in BOOLEAN /\ dirty \in BOOLEAN
      /\ paired \in BOOLEAN /\ wake \in BOOLEAN /\ stopping \in BOOLEAN
  BY Zenon DEF Init
<1> QED
  BY <1>1, <1>2, <1>3, <1>4, <1>5, <1>6 DEF TypeOK

LEMMA InitTyped == Init => Typed
BY InitType DEF Init, Typed, CurOK, CallOK, Resting

\* Both outcomes of an environment choice keep the event count in bounds.
LEMMA QuietOK == events \in 0 .. MaxEvents /\ Quiet => events' \in 0 .. MaxEvents
BY DEF Quiet

LEMMA HappensOK ==
  ASSUME NEW e, events \in 0 .. MaxEvents, Happens(e)
  PROVE  events' \in 0 .. MaxEvents
BY DEF Happens

USE QuietOK, HappensOK

LEMMA SyncTyped == Typed /\ Sync => Typed'
<1> SUFFICES ASSUME Typed, Sync PROVE Typed'
  OBVIOUS
<1> USE DEF Typed, TypeOK, CurOK, CallOK, server, files, storeV, fields, worker
<1>1. CASE VerifyBlobs
  <2>1. entries' \in Manifest
    BY <1>1, VerifyType DEF VerifyBlobs
  <2> QED
    BY <1>1, <2>1 DEF VerifyBlobs, Steps
<1>2. CASE ListFails
  BY <1>2 DEF ListFails, Steps
<1>3. CASE ListUnauthorized
  BY <1>3 DEF ListUnauthorized, Unpair, Steps
<1>4. CASE ListSucceeds
  BY <1>4 DEF ListSucceeds, Steps
<1>5. ASSUME NEW p \in Photo, DropStale(p) PROVE Typed'
  <2>1. disk' \in [Blob -> ETag \cup {NoETag}]
    BY <1>5, WithoutType DEF DropStale
  <2> QED
    BY <1>5, <2>1 DEF DropStale, Changed, Listed, Steps
<1>6. CASE PutListed
  <2>1. Unrendered(listing[cur]) \in Entry
    BY <1>6 DEF PutListed, Unrendered, Entry
  <2>2. entries' \in Manifest
    BY <1>6, <2>1, PutType DEF PutListed, PutEntry
  <2> QED
    BY <1>6, <2>2 DEF PutListed, PutEntry, Steps
<1>7. CASE Retain
  <2>1. /\ entries' \in Manifest
        /\ disk' \in [Blob -> ETag \cup {NoETag}]
        /\ listing' \in [Photo -> ETag \cup {NoETag}]
    BY <1>7, RetainOnlyType, WithoutType, NothingType DEF Retain
  <2> QED
    BY <1>7, <2>1 DEF Retain, Steps
<1>8. ASSUME NEW p \in Photo, NEW q \in Photo, ListSeesBoth(p, q) PROVE Typed'
  BY <1>8 DEF ListSeesBoth, MoveFile, Steps
<1> QED
  BY <1>1, <1>2, <1>3, <1>4, <1>5, <1>6, <1>7, <1>8 DEF Sync

\* The path renderOne writes is a file of the render directory.
LEMMA OutputType ==
  ASSUME TypeOK, CurOK, pc \in {"fetch", "unlink", "commit"}
  PROVE  /\ cur \in Photo /\ pending[cur] \in Entry /\ target \in Geometry
         /\ Output \in Blob
<1>1. cur \in Photo /\ pending[cur] \in Entry /\ target \in Geometry
  BY TrackedEntry DEF TypeOK, CurOK
<1>2. pending[cur].etag \in ETag
  BY <1>1 DEF Entry
<1> QED
  BY <1>1, <1>2, BlobIDType DEF Output

LEMMA RenderTyped == Typed /\ Render => Typed'
<1> SUFFICES ASSUME Typed, Render PROVE Typed'
  OBVIOUS
<1> USE DEF Typed, TypeOK, CurOK, CallOK, server, files, storeV, fields, worker
<1>1. CASE ReadGeometry
  BY <1>1 DEF ReadGeometry, Steps
<1>2. CASE Snapshot
  <2>1. pending' \in Manifest
    BY <1>2 DEF Snapshot, Manifest
  <2> QED
    BY <1>2, <2>1 DEF Snapshot, Steps
<1>3. ASSUME NEW p \in Photo, StartRender(p) PROVE Typed'
  BY <1>3 DEF StartRender, Steps
<1>4. CASE EndRender
  BY <1>4, NothingType DEF EndRender, Steps
<1>5. CASE DownloadUnauthorized
  BY <1>5, NothingType DEF DownloadUnauthorized, Unpair, Steps
<1>6. CASE RenderFails
  <2>1. cur \in Photo /\ pending[cur] \in Entry
    BY <1>6, OutputType DEF RenderFails
  <2>2. [pending[cur] EXCEPT !.skip = TRUE] \in Entry
    BY <2>1 DEF Entry
  <2>3. entries' \in Manifest /\ pending' \in Manifest
    BY <1>6, <2>1, <2>2, PutType DEF RenderFails, PutEntry
  <2>4. events' \in 0 .. MaxEvents
    BY <1>6 DEF RenderFails
  <2> QED
    BY <1>6, <2>3, <2>4 DEF RenderFails, PutEntry, Steps
<1>7. CASE RenderSucceeds
  <2>1. disk' \in [Blob -> ETag \cup {NoETag}]
    BY <1>7 DEF RenderSucceeds
  <2> QED
    BY <1>7, <2>1 DEF RenderSucceeds, Steps
<1>8. CASE RemoveOld
  BY <1>8, WithoutType DEF RemoveOld, Steps
<1>9. CASE CommitRender
  <2>1. Rendered \in Entry
    BY <1>9, OutputType DEF CommitRender, Rendered, Entry
  <2>2. entries' \in Manifest /\ pending' \in Manifest
    BY <1>9, <2>1, OutputType, PutType DEF CommitRender, PutEntry
  <2> QED
    BY <1>9, <2>2 DEF CommitRender, PutEntry, Steps
<1>10. CASE SaveRender
  BY <1>10 DEF SaveRender, SaveManifest, Steps
<1> QED
  BY <1>1, <1>2, <1>3, <1>4, <1>5, <1>6, <1>7, <1>8, <1>9, <1>10 DEF Render

LEMMA RestartTyped ==
  ASSUME Typed, NEW m \in Manifest, Restart(m),
         dirty' \in BOOLEAN, manifest' \in Manifest, events' \in 0 .. MaxEvents
  PROVE  Typed'
<1>1. /\ pending' \in Manifest /\ call' \in [Handler -> Call]
      /\ listing' \in [Photo -> ETag \cup {NoETag}]
  BY NothingType, RestingType DEF Restart
<1> QED
  BY <1>1 DEF Typed, TypeOK, CurOK, CallOK, Restart, Resting, server, files, Steps

LEMMA CycleTyped == Typed /\ (Finish \/ Evict \/ SaveCycle \/ Exit \/ Idle) => Typed'
<1> SUFFICES ASSUME Typed, Finish \/ Evict \/ SaveCycle \/ Exit \/ Idle PROVE Typed'
  OBVIOUS
<1> USE DEF Typed, TypeOK, CurOK, CallOK, server, files, storeV, fields, worker
<1>1. CASE Finish
  BY <1>1 DEF Finish, Steps
<1>2. CASE Evict
  <2>1. entries' \in Manifest /\ disk' \in [Blob -> ETag \cup {NoETag}]
    BY <1>2, VictimsOwn, EvictedType, WithoutType DEF Evict
  <2> QED
    BY <1>2, <2>1 DEF Evict, Steps
<1>3. CASE SaveCycle
  BY <1>3 DEF SaveCycle, SaveManifest, Steps
<1>4. CASE Exit
  <2>1. dirty' \in BOOLEAN /\ manifest' \in Manifest /\ events' \in 0 .. MaxEvents
    BY <1>4 DEF Exit, SaveManifest
  <2> QED
    BY <1>4, <2>1, RestartTyped DEF Exit
<1>5. CASE TimerFires
  BY <1>5 DEF TimerFires, Steps
<1>6. CASE WakeUp
  BY <1>6 DEF WakeUp, Steps
<1> QED
  BY <1>1, <1>2, <1>3, <1>4, <1>5, <1>6 DEF Idle

LEMMA HandlerTyped ==
  ASSUME Typed, NEW x \in Handler, Ask(x) \/ Serve(x) PROVE Typed'
<1> USE DEF Typed, TypeOK, CurOK, CallOK, server, files, storeV, fields, worker
<1>1. \A p \in Photo \cup {NoPhoto}, b \in Blob \cup {NoBlob} :
        [Resting EXCEPT !.photo = p, !.blob = b] \in Call
  BY DEF Resting, Call
<1>2. CASE Ask(x)
  <2>1. \A o \in BOOLEAN : [Resting EXCEPT !.at = "ready", !.owes = o] \in Call
    BY DEF Resting, Call
  <2>2. events' \in 0 .. MaxEvents
    BY <1>2 DEF Ask, NewGeometry
  <2> DEFINE owes == geometry # Asks[x]
             asked == [Resting EXCEPT !.at = "ready", !.owes = owes]
  <2>3. asked \in Call /\ asked.at = "ready" /\ Resting.at = "rest" /\ ~Resting.owes
    BY <2>1 DEF Resting
  <2>4. call' = [call EXCEPT ![x] = asked] \/ call' = [call EXCEPT ![x] = Resting]
    BY <1>2 DEF Ask, NewGeometry
  <2>5. wake' \in BOOLEAN
    BY <1>2 DEF Ask, NewGeometry
  <2>6. geometry' \in Geometry
    BY <1>2 DEF Ask, NewGeometry
  <2> HIDE DEF asked
  <2>7. call' \in [Handler -> Call]
    BY <2>3, <2>4, RestingType
  <2>8. CallOK'
    BY <2>3, <2>4
  <2> QED
    BY <1>2, <2>2, <2>5, <2>6, <2>7, <2>8 DEF Ask
<1>3. CASE NoneReady(x)
  <2>1. call' \in [Handler -> Call] /\ wake' \in BOOLEAN
    BY <1>1, <1>3 DEF NoneReady, Reply, Call
  <2>2. CallOK'
    BY <1>3 DEF NoneReady, Reply, Resting
  <2> QED
    BY <1>3, <2>1, <2>2 DEF NoneReady
<1>4. ASSUME NEW p \in Photo, Pick(x, p) PROVE Typed'
  <2>1. p \in Photo /\ entries[p].blob \in Blob
    BY <1>4, OwnedBlob DEF Pick, Ready
  <2> DEFINE picked == [call[x] EXCEPT !.at = "stat", !.photo = p,
                                       !.blob = entries[p].blob]
  <2>4. call' = [call EXCEPT ![x] = picked]
    BY <1>4 DEF Pick
  <2>6. call[x] \in Call
    OBVIOUS
  <2> HIDE DEF TypeOK, CurOK, CallOK, Typed
  <2>5. /\ picked \in Call /\ picked.at = "stat"
        /\ picked.photo = p /\ picked.blob = entries[p].blob
    BY <2>1, <2>6 DEF Call
  <2> HIDE DEF picked
  <2> USE DEF TypeOK, CurOK, CallOK, Typed
  <2>2. call' \in [Handler -> Call]
    BY <2>4, <2>5
  <2>3. CallOK'
    BY <2>1, <2>4, <2>5
  <2> QED
    BY <1>4, <2>2, <2>3 DEF Pick
<1>5. CASE Stat(x)
  <2>1. call' \in [Handler -> Call]
    BY <1>5 DEF Stat, Call
  <2>2. CallOK'
    BY <1>5 DEF Stat, Call
  <2> QED
    BY <1>5, <2>1, <2>2 DEF Stat
<1>6. CASE ServeImage(x)
  <2>1. call' \in [Handler -> Call] /\ wake' \in BOOLEAN /\ dirty' \in BOOLEAN
    BY <1>1, <1>6 DEF ServeImage, Reply, Call
  <2>2. CallOK'
    BY <1>6 DEF ServeImage, Reply, Resting
  <2> QED
    BY <1>6, <2>1, <2>2 DEF ServeImage
<1>7. CASE ForgetBlob(x)
  <2>1. entries' \in Manifest
    BY <1>7, ClearBlobType DEF ForgetBlob
  <2>2. call' \in [Handler -> Call] /\ CallOK'
    BY <1>7, RestingType DEF ForgetBlob, Resting
  <2> QED
    BY <1>7, <2>1, <2>2 DEF ForgetBlob
<1> QED
  BY <1>2, <1>3, <1>4, <1>5, <1>6, <1>7 DEF Serve

LEMMA OutsideTyped == Typed /\ (PairStep \/ Environment) => Typed'
<1> SUFFICES ASSUME Typed, PairStep \/ Environment PROVE Typed'
  OBVIOUS
<1>1. CASE Crash
  <2>1. Restart(manifest) /\ manifest' \in Manifest /\ manifest \in Manifest
    BY <1>1 DEF Crash, Typed, TypeOK
  <2>2. dirty' \in BOOLEAN /\ events' \in 0 .. MaxEvents
    BY <1>1 DEF Crash, Typed, TypeOK
  <2> QED
    BY <2>1, <2>2, RestartTyped
<1> USE DEF Typed, TypeOK, CurOK, CallOK, server, files, storeV, fields, worker
<1>2. CASE PairStep
  BY <1>2 DEF PairStep
<1>3. ASSUME NEW p \in Photo, Select(p) PROVE Typed'
  BY <1>3 DEF Select
<1>4. ASSUME NEW p \in Photo, Edit(p) PROVE Typed'
  BY <1>4 DEF Edit
<1>5. ASSUME NEW p \in Photo, Delete(p) PROVE Typed'
  BY <1>5 DEF Delete
<1>6. CASE Revoke
  BY <1>6 DEF Revoke
<1>7. CASE Network
  BY <1>7 DEF Network
<1>8. CASE Stop
  BY <1>8 DEF Stop
<1>9. ASSUME NEW b \in Blob, Wipe(b) PROVE Typed'
  BY <1>9, WithoutType DEF Wipe
<1>10. ASSUME NEW p \in Photo, NEW q \in Photo, Move(p, q) PROVE Typed'
  BY <1>10 DEF Move, MoveFile
<1> QED
  BY <1>1, <1>2, <1>3, <1>4, <1>5, <1>6, <1>7, <1>8, <1>9, <1>10 DEF Environment

LEMMA StutterTyped == Typed /\ UNCHANGED vars => Typed'
BY DEF Typed, TypeOK, CurOK, CallOK, vars, server, files, storeV, fields, worker, Listed

\* Type correctness, with what a worker and a handler in the middle of their work
\* hold: the ground every other proof stands on.
THEOREM TypedAlways == Spec => []Typed
<1>1. Typed /\ [Next]_vars => Typed'
  BY SyncTyped, RenderTyped, CycleTyped, HandlerTyped, OutsideTyped, StutterTyped
     DEF Next, Cycle
<1> QED
  BY InitTyped, <1>1, PTL DEF Spec

\* Every variable keeps its type: frame.go's worker and handlers, the store and the
\* environment, from any state they reach.
THEOREM TypeCorrect == Spec => []TypeOK
<1>1. Typed => TypeOK
  BY DEF Typed
<1> QED
  BY <1>1, TypedAlways, PTL

-----------------------------------------------------------------------------
(* A record names the render of its own photo. *)

LEMMA OwnPut ==
  ASSUME NEW m \in Manifest, NEW p \in Photo, NEW e \in Entry \cup {NoEntry},
         OwnRenders(m),
         e # NoEntry /\ e.blob # NoBlob =>
           e.geom # NoGeometry /\ e.blob = BlobID(e.etag, e.geom)
  PROVE  OwnRenders(Put(m, p, e))
BY DEF OwnRenders, Owners, Tracked, Put, Manifest

LEMMA OwnClearBlob ==
  ASSUME NEW m \in Manifest, NEW p \in Photo, OwnRenders(m)
  PROVE  OwnRenders(ClearBlob(m, p))
<1>1. CASE p \in Owners(m)
  <2>1. m[p] \in Entry
    BY <1>1, OwnedBlob
  <2>2. Cleared(m[p]).blob = NoBlob
    BY <2>1 DEF Cleared, Entry
  <2> QED
    BY <1>1, <2>1, <2>2, ClearedType, OwnPut DEF ClearBlob
<1>2. CASE p \notin Owners(m)
  BY <1>2 DEF ClearBlob
<1> QED
  BY <1>1, <1>2

\* An operator that leaves each entry as it is, or without a blob, or out, keeps
\* every record its own.
LEMMA OwnShrink ==
  ASSUME NEW m \in Manifest, NEW n \in Manifest, OwnRenders(m),
         \A p \in Photo : n[p] = m[p] \/ n[p] = NoEntry \/ n[p].blob = NoBlob
  PROVE  OwnRenders(n) /\ Owners(n) \subseteq Owners(m)
                       /\ \A p \in Owners(n) : n[p] = m[p]
BY DEF OwnRenders, Owners, Tracked

LEMMA VerifyShrinks ==
  ASSUME NEW m \in Manifest, NEW present, NEW p \in Photo
  PROVE  LET n == Verify(m, present) IN
           n[p] = m[p] \/ n[p] = NoEntry \/ n[p].blob = NoBlob
<1>1. CASE p \in Missing(m, present)
  <2>1. m[p] \in Entry
    BY <1>1, OwnedBlob DEF Missing
  <2>2. Cleared(m[p]).blob = NoBlob
    BY <2>1 DEF Cleared, Entry
  <2> QED
    BY <1>1, <2>2 DEF Verify
<1>2. CASE p \notin Missing(m, present)
  BY <1>2 DEF Verify
<1> QED
  BY <1>1, <1>2

LEMMA EvictedShrinks ==
  ASSUME NEW m \in Manifest, NEW V \in SUBSET Owners(m), NEW p \in Photo
  PROVE  LET n == Evicted(m, V) IN
           n[p] = m[p] \/ n[p] = NoEntry \/ n[p].blob = NoBlob
<1>1. CASE p \in V
  <2>1. m[p] \in Entry
    BY <1>1, OwnedBlob
  <2>2. [m[p] EXCEPT !.blob = NoBlob].blob = NoBlob
    BY <2>1 DEF Entry
  <2> QED
    BY <1>1, <2>2 DEF Evicted
<1>2. CASE p \notin V
  BY <1>2 DEF Evicted
<1> QED
  BY <1>1, <1>2

LEMMA NothingOwned == OwnRenders(NothingTracked) /\ Owners(NothingTracked) = {}
                                                 /\ Tracked(NothingTracked) = {}
BY DEF OwnRenders, Owners, Tracked, NothingTracked

\* One file, one ETag: the name is a function of the ETag and the geometry alone.
LEMMA SharedBlob ==
  ASSUME NEW m \in Manifest, NEW n \in Manifest, OwnRenders(m), OwnRenders(n),
         NEW p \in Owners(m), NEW q \in Owners(n), m[p].blob = n[q].blob
  PROVE  m[p].etag = n[q].etag /\ m[p].etag \in ETag
<1>1. m[p].etag \in ETag
  BY OwnedBlob DEF Entry
<1>2. BlobID(m[p].etag, m[p].geom) = BlobID(n[q].etag, n[q].geom)
  BY DEF OwnRenders
<1> QED
  BY <1>1, <1>2 DEF BlobID

\* What a render commits is a record of its own photo.
LEMMA RenderedOwn ==
  ASSUME TypeOK, CurOK, pc = "commit"
  PROVE  /\ Rendered \in Entry /\ Rendered.geom = target /\ ~Rendered.skip
         /\ Rendered.blob = Output /\ target # NoGeometry
         /\ Rendered.blob = BlobID(Rendered.etag, Rendered.geom)
<1>1. /\ cur \in Photo /\ pending[cur] \in Entry /\ target \in Geometry
      /\ Output \in Blob
  BY OutputType
<1>2. pending[cur].etag \in ETag
  BY <1>1 DEF Entry
<1>3. /\ Rendered.etag = pending[cur].etag /\ Rendered.blob = Output
      /\ Rendered.geom = target
  BY DEF Rendered
<1>4. Rendered \in Entry
  BY <1>1, <1>2 DEF Rendered, Entry
<1>5. Rendered.blob = BlobID(Rendered.etag, Rendered.geom)
  BY <1>3 DEF Output
<1>6. ~Rendered.skip /\ target # NoGeometry
  BY <1>1 DEF Rendered
<1> QED
  BY <1>3, <1>4, <1>5, <1>6

LEMMA SkippedOwn ==
  ASSUME TypeOK, CurOK, pc = "fetch"
  PROVE  LET e == [pending[cur] EXCEPT !.skip = TRUE] IN
           /\ e \in Entry /\ e.skip
           /\ e.blob = pending[cur].blob /\ e.geom = pending[cur].geom
           /\ e.etag = pending[cur].etag
<1>1. pending[cur] \in Entry
  BY OutputType
<1> QED
  BY <1>1 DEF Entry

LEMMA RecordsRestart ==
  ASSUME OwnRenders(manifest'), entries' = manifest', pending' = NothingTracked
  PROVE  Records'
BY NothingOwned DEF Records, OwnRenders, Owners, Tracked

LEMMA RecordsNext == Typed /\ Records /\ [Next]_vars => Records'
<1> SUFFICES ASSUME Typed, Records, [Next]_vars PROVE Records'
  OBVIOUS
<1> USE DEF Typed
<1>0. /\ entries \in Manifest /\ manifest \in Manifest /\ pending \in Manifest
      /\ OwnRenders(entries) /\ OwnRenders(manifest) /\ OwnRenders(pending)
  BY DEF TypeOK, Records
<1>1. ASSUME OwnRenders(entries'), manifest' \in {manifest, entries},
             OwnRenders(pending')
      PROVE  Records'
  BY <1>0, <1>1 DEF Records, OwnRenders, Owners, Tracked
<1>2. ASSUME UNCHANGED <<entries, manifest, pending>> PROVE Records'
  BY <1>0, <1>1, <1>2
<1>3. CASE VerifyBlobs
  <2>1. OwnRenders(entries')
    BY <1>0, <1>3, VerifyType, VerifyShrinks, OwnShrink DEF VerifyBlobs
  <2> QED
    BY <1>0, <1>1, <1>3, <2>1 DEF VerifyBlobs, worker
<1>4. CASE PutListed
  <2>1. cur \in Photo /\ Unrendered(listing[cur]) \in Entry
    BY <1>4 DEF PutListed, TypeOK, CurOK, Unrendered, Entry
  <2>2. Unrendered(listing[cur]).blob = NoBlob
    BY DEF Unrendered
  <2>3. OwnRenders(entries')
    BY <1>0, <1>4, <2>1, <2>2, OwnPut DEF PutListed, PutEntry
  <2> QED
    BY <1>0, <1>1, <1>4, <2>3 DEF PutListed
<1>5. CASE Retain
  <2>1. \A p \in Photo : entries'[p] \in {entries[p], NoEntry}
    BY <1>5 DEF Retain, RetainOnly
  <2>2. entries' \in Manifest
    BY <1>0, <1>5, RetainOnlyType DEF Retain
  <2>3. OwnRenders(entries')
    BY <1>0, <2>1, <2>2, OwnShrink
  <2> QED
    BY <1>0, <1>1, <1>5, <2>3 DEF Retain
<1>6. CASE Snapshot
  <2>1. pending' \in Manifest /\ \A p \in Photo : pending'[p] \in {entries[p], NoEntry}
    BY <1>0, <1>6 DEF Snapshot, Manifest
  <2>2. OwnRenders(pending')
    BY <1>0, <2>1, OwnShrink
  <2> QED
    BY <1>0, <1>1, <1>6, <2>2 DEF Snapshot, storeV
<1>7. CASE EndRender \/ DownloadUnauthorized
  BY <1>0, <1>1, <1>7, NothingOwned DEF EndRender, DownloadUnauthorized, storeV
<1>8. CASE RenderFails
  <2> DEFINE e == [pending[cur] EXCEPT !.skip = TRUE]
  <2>1. /\ cur \in Photo /\ e \in Entry /\ e.blob = pending[cur].blob
        /\ e.geom = pending[cur].geom /\ e.etag = pending[cur].etag
    BY <1>8, OutputType, SkippedOwn DEF RenderFails
  <2>2. e.blob # NoBlob => e.geom # NoGeometry /\ e.blob = BlobID(e.etag, e.geom)
    BY <1>0, <1>8, <2>1 DEF RenderFails, CurOK, OwnRenders, Owners
  <2> HIDE DEF e
  <2>3. entries' = Put(entries, cur, e) /\ pending' = Put(pending, cur, NoEntry)
    BY <1>8 DEF RenderFails, PutEntry, e
  <2>4. OwnRenders(entries') /\ OwnRenders(pending')
    BY <1>0, <2>1, <2>2, <2>3, OwnPut
  <2> QED
    BY <1>0, <1>1, <1>8, <2>4 DEF RenderFails
<1>9. CASE CommitRender
  <2>1. /\ entries' = Put(entries, cur, Rendered)
        /\ pending' = Put(pending, cur, NoEntry) /\ cur \in Photo
    BY <1>9, OutputType DEF CommitRender, PutEntry
  <2>2. OwnRenders(entries') /\ OwnRenders(pending')
    BY <1>0, <1>9, <2>1, RenderedOwn, OwnPut DEF CommitRender
  <2> QED
    BY <1>0, <1>1, <1>9, <2>2 DEF CommitRender
<1>10. CASE Evict
  <2>1. PICK V \in Victims(entries) : entries' = Evicted(entries, V)
    BY <1>10 DEF Evict
  <2>2. OwnRenders(entries')
    BY <1>0, <2>1, VictimsOwn, EvictedType, EvictedShrinks, OwnShrink
  <2> QED
    BY <1>0, <1>1, <1>10, <2>2 DEF Evict, worker
<1>11. CASE SaveRender \/ SaveCycle
  BY <1>0, <1>1, <1>11 DEF SaveRender, SaveCycle, SaveManifest, worker
<1>12. CASE Exit \/ Crash
  <2>1. manifest' \in {manifest, entries} /\ entries' = manifest' /\ pending' = NothingTracked
    BY <1>12 DEF Exit, Crash, Restart, SaveManifest
  <2> QED
    BY <1>0, <2>1, RecordsRestart
<1>13. ASSUME NEW x \in Handler, ForgetBlob(x) PROVE Records'
  <2>1. call[x].photo \in Photo
    BY <1>13 DEF ForgetBlob, CallOK
  <2>2. OwnRenders(entries')
    BY <1>0, <1>13, <2>1, OwnClearBlob DEF ForgetBlob
  <2> QED
    BY <1>0, <1>1, <1>13, <2>2 DEF ForgetBlob, worker
<1>14. CASE \/ Finish \/ ListFails \/ ListUnauthorized \/ ListSucceeds
            \/ (\E p, q \in Photo : ListSeesBoth(p, q))
            \/ (\E p \in Photo : DropStale(p) \/ StartRender(p))
            \/ ReadGeometry \/ RenderSucceeds \/ RemoveOld \/ Idle \/ PairStep
  BY <1>2, <1>14 DEF Finish, ListFails, ListUnauthorized, ListSucceeds, ListSeesBoth, DropStale,
     StartRender, ReadGeometry, RenderSucceeds, RemoveOld, Idle, TimerFires, WakeUp,
     PairStep, storeV, worker
<1>15. ASSUME NEW x \in Handler,
              \/ Ask(x) \/ NoneReady(x) \/ (\E p \in Photo : Pick(x, p))
              \/ Stat(x) \/ ServeImage(x)
       PROVE  Records'
  BY <1>2, <1>15 DEF Ask, NoneReady, Pick, Stat, ServeImage, storeV, worker
<1>16. CASE \/ (\E p \in Photo : Select(p) \/ Edit(p) \/ Delete(p))
            \/ (\E p, q \in Photo : Move(p, q))
            \/ Revoke \/ Network \/ Stop \/ (\E b \in Blob : Wipe(b))
  BY <1>2, <1>16 DEF Move, Select, Edit, Delete, Revoke, Network, Stop, Wipe, storeV, worker
<1>17. CASE UNCHANGED vars
  BY <1>2, <1>17 DEF vars, storeV, worker
<1> QED
  BY <1>3, <1>4, <1>5, <1>6, <1>7, <1>8, <1>9, <1>10, <1>11, <1>12, <1>13, <1>14,
     <1>15, <1>16, <1>17
     DEF Next, Cycle, Sync, Render, Serve, Environment

\* A blob that is recorded is named after the ETag and the geometry recorded with it,
\* in memory, in the file and in the worker's copies.
THEOREM RecordsAlways == Spec => []Records
<1>1. Init => Records
  BY NothingOwned DEF Init, Records
<1> QED
  BY <1>1, RecordsNext, TypedAlways, PTL DEF Spec

\* So what Next serves for a photo is the file named after that photo's own ETag and
\* panel size, however entries were edited, cleared or put back meanwhile.
THEOREM RecordsOwn == Spec => []RecordsOwnRender
<1>1. Records => RecordsOwnRender
  BY DEF Records, OwnRenders, RecordsOwnRender
<1> QED
  BY <1>1, RecordsAlways, PTL

-----------------------------------------------------------------------------
(* Only a move makes two hrefs bear one ETag. *)

\* What a manifest of the next state names, for each photo, is an ETag the photo bears.
Inherits(n) == \A p \in Tracked(n) : Bears(p, n[p].etag)

LEMMA InheritsOwn == Inherits(entries) /\ Inherits(manifest) /\ Inherits(pending)
BY DEF Inherits, Bears

LEMMA InheritsPut ==
  ASSUME NEW m \in Manifest, NEW p \in Photo, NEW e, Inherits(m),
         e # NoEntry => Bears(p, e.etag)
  PROVE  Inherits(Put(m, p, e))
BY DEF Inherits, Put, Tracked, Manifest

LEMMA InheritsShrunk ==
  ASSUME NEW m, NEW n, Inherits(m),
         \A p \in Photo : \/ n[p] = NoEntry
                          \/ m[p] # NoEntry /\ n[p].etag = m[p].etag
  PROVE  Inherits(n)
BY DEF Inherits, Tracked

LEMMA HrefKept ==
  ASSUME OneHref, UNCHANGED <<etag, used, moved>>,
         \A p \in Photo : listing'[p] \in {listing[p], etag[p], NoETag},
         Inherits(entries'), Inherits(manifest'), Inherits(pending')
  PROVE  OneHref'
<1>1. ASSUME NEW p \in Photo, NEW e \in ETag, Bears(p, e)' PROVE Bears(p, e)
  <2>1. CASE e \in {etag[p], listing'[p]}
    BY <2>1 DEF Bears
  <2>2. CASE e \notin {etag[p], listing'[p]}
    BY <1>1, <2>2 DEF Bears, Inherits
  <2> QED
    BY <2>1, <2>2
<1> QED
  BY <1>1 DEF OneHref

LEMMA HrefMoved ==
  ASSUME OneHref, NEW p \in Photo, NEW q \in Photo, etag \in [Photo -> ETag],
         MoveFile(p, q), UNCHANGED <<entries, manifest, pending>>,
         \A r \in Photo : listing'[r] \in {listing[r], etag'[r], NoETag}
  PROVE  OneHref'
<1>1. /\ etag' = [etag EXCEPT ![q] = etag[p]] /\ moved' = moved \cup {etag[p]}
      /\ used' = used /\ etag[p] \in ETag
  BY DEF MoveFile
<1>2. ASSUME NEW r \in Photo, NEW e \in ETag, Bears(r, e)'
      PROVE  Bears(r, e) \/ e = etag[p]
  <2>1. CASE e \in {etag'[r], listing'[r]}
    BY <1>1, <2>1 DEF Bears
  <2>2. CASE e \notin {etag'[r], listing'[r]}
    BY <1>2, <2>2 DEF Bears
  <2> QED
    BY <2>1, <2>2
<1>3. Bears(p, etag[p])
  BY DEF Bears
<1> QED
  BY <1>1, <1>2, <1>3 DEF OneHref

LEMMA HrefEdited ==
  ASSUME OneHref, NEW p \in Photo, etag \in [Photo -> ETag], Edit(p) PROVE OneHref'
<1>1. PICK f \in ETag \ used : etag' = [etag EXCEPT ![p] = f] /\ used' = used \cup {f}
  BY DEF Edit
<1>2. UNCHANGED <<entries, manifest, pending, listing, moved>>
  BY DEF Edit, storeV, worker
<1>3. ASSUME NEW r \in Photo, NEW e \in ETag, Bears(r, e)'
      PROVE  Bears(r, e) \/ (r = p /\ e = f)
  <2>1. CASE e = etag'[r]
    BY <1>1, <2>1 DEF Bears
  <2>2. CASE e # etag'[r]
    BY <1>2, <1>3, <2>2 DEF Bears
  <2> QED
    BY <2>1, <2>2
<1> QED
  BY <1>1, <1>2, <1>3 DEF OneHref

LEMMA HrefNext == Typed /\ OneHref /\ [Next]_vars => OneHref'
<1> SUFFICES ASSUME Typed, OneHref, [Next]_vars PROVE OneHref'
  OBVIOUS
<1> USE DEF Typed
<1>0. /\ entries \in Manifest /\ manifest \in Manifest /\ pending \in Manifest
      /\ etag \in [Photo -> ETag]
      /\ Inherits(entries) /\ Inherits(manifest) /\ Inherits(pending)
  BY InheritsOwn DEF TypeOK
<1>1. ASSUME UNCHANGED <<etag, used, moved>>, listing' = listing, Inherits(entries'),
             manifest' \in {manifest, entries}, Inherits(pending')
      PROVE  OneHref'
  BY <1>0, <1>1, HrefKept
<1>2. ASSUME UNCHANGED <<etag, used, moved, listing, entries, manifest, pending>>
      PROVE  OneHref'
  BY <1>0, <1>1, <1>2
<1>3. Inherits(NothingTracked)
  BY NothingOwned DEF Inherits
<1>4. CASE VerifyBlobs
  <2>1. \A p \in Photo : \/ entries'[p] = NoEntry
                         \/ entries[p] # NoEntry /\ entries'[p].etag = entries[p].etag
    <3> TAKE p \in Photo
    <3>1. CASE p \in Missing(entries, Present)
      <4>1. entries[p] \in Entry
        BY <1>0, <3>1, OwnedBlob DEF Missing
      <4>2. entries'[p] = Cleared(entries[p]) /\ entries[p] # NoEntry
        BY <1>4, <3>1, <4>1 DEF VerifyBlobs, Verify
      <4> QED
        BY <4>1, <4>2 DEF Cleared, Entry
    <3>2. CASE p \notin Missing(entries, Present)
      BY <1>4, <3>2 DEF VerifyBlobs, Verify
    <3> QED
      BY <3>1, <3>2
  <2>2. Inherits(entries')
    BY <1>0, <2>1, InheritsShrunk
  <2> QED
    BY <1>0, <1>1, <1>4, <2>2 DEF VerifyBlobs, server, files, worker
<1>5. CASE ListSucceeds
  <2>1. \A p \in Photo : listing'[p] \in {etag[p], NoETag}
    BY <1>5 DEF ListSucceeds
  <2>2. UNCHANGED <<etag, used, moved, entries, manifest, pending>>
    BY <1>5 DEF ListSucceeds, server, files, storeV
  <2> QED
    BY <1>0, <2>1, <2>2, HrefKept
<1>6. ASSUME NEW p \in Photo, NEW q \in Photo, ListSeesBoth(p, q) PROVE OneHref'
  BY <1>0, <1>6, HrefMoved DEF ListSeesBoth, storeV
<1>7. CASE PutListed
  <2>1. /\ cur \in Photo /\ Bears(cur, listing[cur])
        /\ Unrendered(listing[cur]).etag = listing[cur]
    BY <1>7 DEF PutListed, CurOK, Bears, Unrendered
  <2>2. Inherits(entries')
    BY <1>0, <1>7, <2>1, InheritsPut DEF PutListed, PutEntry
  <2> QED
    BY <1>0, <1>1, <1>7, <2>2 DEF PutListed, server, files
<1>8. CASE Retain
  <2>1. \A p \in Photo : entries'[p] \in {entries[p], NoEntry}
    BY <1>8 DEF Retain, RetainOnly
  <2>2. Inherits(entries')
    BY <1>0, <2>1, InheritsShrunk
  <2>3. \A p \in Photo : listing'[p] = NoETag
    BY <1>8 DEF Retain, NoListing
  <2> QED
    BY <1>0, <1>8, <2>2, <2>3, HrefKept DEF Retain, server, files
<1>9. CASE Snapshot
  <2>1. \A p \in Photo : pending'[p] \in {entries[p], NoEntry}
    BY <1>9 DEF Snapshot
  <2>2. Inherits(pending')
    BY <1>0, <2>1, InheritsShrunk
  <2> QED
    BY <1>0, <1>1, <1>9, <2>2 DEF Snapshot, server, files, storeV
<1>10. CASE EndRender \/ DownloadUnauthorized
  BY <1>0, <1>1, <1>3, <1>10 DEF EndRender, DownloadUnauthorized, server, files, storeV
<1>11. ASSUME NEW e, pc \in {"fetch", "commit"}, e.etag = pending[cur].etag,
              entries' = Put(entries, cur, e), pending' = Put(pending, cur, NoEntry)
       PROVE  Inherits(entries') /\ Inherits(pending')
  <2>1. cur \in Photo /\ cur \in Tracked(pending)
    BY <1>0, <1>11, TrackedEntry DEF CurOK
  <2>2. Bears(cur, e.etag)
    BY <1>11, <2>1 DEF Bears
  <2> QED
    BY <1>0, <1>11, <2>1, <2>2, InheritsPut
<1>12. CASE RenderFails
  <2> DEFINE e == [pending[cur] EXCEPT !.skip = TRUE]
  <2>1. e.etag = pending[cur].etag
    BY <1>12, SkippedOwn DEF RenderFails
  <2>2. entries' = Put(entries, cur, e) /\ pending' = Put(pending, cur, NoEntry)
    BY <1>12 DEF RenderFails, PutEntry
  <2> HIDE DEF e
  <2>3. Inherits(entries') /\ Inherits(pending')
    BY <1>11, <1>12, <2>1, <2>2 DEF RenderFails
  <2> QED
    BY <1>0, <1>1, <1>12, <2>3 DEF RenderFails, server, files
<1>13. CASE CommitRender
  <2>1. Rendered.etag = pending[cur].etag
    BY DEF Rendered
  <2>2. entries' = Put(entries, cur, Rendered) /\ pending' = Put(pending, cur, NoEntry)
    BY <1>13 DEF CommitRender, PutEntry
  <2>3. Inherits(entries') /\ Inherits(pending')
    BY <1>11, <1>13, <2>1, <2>2 DEF CommitRender
  <2> QED
    BY <1>0, <1>1, <1>13, <2>3 DEF CommitRender, server, files
<1>14. CASE Evict
  <2>1. PICK V \in Victims(entries) : entries' = Evicted(entries, V)
    BY <1>14 DEF Evict
  <2>2. \A p \in Photo : \/ entries'[p] = NoEntry
                         \/ entries[p] # NoEntry /\ entries'[p].etag = entries[p].etag
    <3> TAKE p \in Photo
    <3>1. CASE p \in V
      <4>1. entries[p] \in Entry
        BY <1>0, <2>1, <3>1, VictimsOwn, OwnedBlob
      <4>2. entries'[p] = [entries[p] EXCEPT !.blob = NoBlob]
        BY <2>1, <3>1 DEF Evicted
      <4> QED
        BY <4>1, <4>2 DEF Entry
    <3>2. CASE p \notin V
      BY <2>1, <3>2 DEF Evicted
    <3> QED
      BY <3>1, <3>2
  <2>3. Inherits(entries')
    BY <1>0, <2>2, InheritsShrunk
  <2> QED
    BY <1>0, <1>1, <1>14, <2>3 DEF Evict, server, files, worker
<1>15. CASE SaveRender \/ SaveCycle
  BY <1>0, <1>1, <1>15 DEF SaveRender, SaveCycle, SaveManifest, server, files, worker
<1>16. CASE Exit \/ Crash
  <2>1. /\ manifest' \in {manifest, entries} /\ entries' = manifest'
        /\ pending' = NothingTracked /\ listing' = NoListing
        /\ UNCHANGED <<etag, used, moved>>
    BY <1>16 DEF Exit, Crash, Restart, SaveManifest, server, files
  <2>2. \A p \in Photo : listing'[p] = NoETag
    BY <2>1 DEF NoListing
  <2> QED
    BY <1>0, <1>3, <2>1, <2>2, HrefKept
<1>17. ASSUME NEW x \in Handler, ForgetBlob(x) PROVE OneHref'
  <2>1. call[x].photo \in Photo
    BY <1>17 DEF ForgetBlob, CallOK
  <2> DEFINE p == call[x].photo
  <2>2. Inherits(entries')
    <3>1. CASE p \in Owners(entries)
      <4>1. /\ entries[p] \in Entry /\ p \in Tracked(entries)
            /\ Cleared(entries[p]).etag = entries[p].etag
        BY <1>0, <3>1, OwnedBlob DEF Cleared, Entry
      <4>2. Bears(p, entries[p].etag)
        BY <4>1 DEF Bears
      <4> QED
        BY <1>0, <1>17, <2>1, <3>1, <4>1, <4>2, InheritsPut DEF ForgetBlob, ClearBlob
    <3>2. CASE p \notin Owners(entries)
      BY <1>0, <1>17, <3>2 DEF ForgetBlob, ClearBlob
    <3> QED
      BY <3>1, <3>2
  <2> QED
    BY <1>0, <1>1, <1>17, <2>2 DEF ForgetBlob, server, files, worker
<1>18. CASE \/ Finish \/ ListFails \/ ListUnauthorized \/ ReadGeometry
            \/ (\E p \in Photo : DropStale(p) \/ StartRender(p))
            \/ RenderSucceeds \/ RemoveOld \/ Idle \/ PairStep
  BY <1>2, <1>18 DEF Finish, ListFails, ListUnauthorized, DropStale, StartRender,
     ReadGeometry, RenderSucceeds, RemoveOld, Idle, TimerFires, WakeUp, PairStep,
     server, files, storeV, worker
<1>19. ASSUME NEW x \in Handler,
              \/ Ask(x) \/ NoneReady(x) \/ (\E p \in Photo : Pick(x, p))
              \/ Stat(x) \/ ServeImage(x)
       PROVE  OneHref'
  BY <1>2, <1>19
     DEF Ask, NoneReady, Pick, Stat, ServeImage, server, files, storeV, worker
<1>20. CASE \/ (\E p \in Photo : Select(p) \/ Delete(p))
            \/ Revoke \/ Network \/ Stop \/ (\E b \in Blob : Wipe(b))
  BY <1>2, <1>20
     DEF Select, Delete, Revoke, Network, Stop, Wipe, server, files, storeV, worker
<1>21. ASSUME NEW p \in Photo, NEW q \in Photo, Move(p, q) PROVE OneHref'
  BY <1>0, <1>21, HrefMoved DEF Move, storeV, worker
<1>22. ASSUME NEW p \in Photo, Edit(p) PROVE OneHref'
  BY <1>0, <1>22, HrefEdited
<1>23. CASE UNCHANGED vars
  BY <1>2, <1>23 DEF vars, server, files, storeV, worker
<1> QED
  BY <1>4, <1>5, <1>6, <1>7, <1>8, <1>9, <1>10, <1>12, <1>13, <1>14, <1>15, <1>16, <1>17,
     <1>18, <1>19, <1>20, <1>21, <1>22, <1>23
     DEF Next, Cycle, Sync, Render, Serve, Environment

\* An ETag no move has carried belongs to one href, on the server and in everything
\* the frame remembers of it: the only blobs two photos can share are of moved files.
THEOREM OneHrefAlways == Spec => []OneHref
<1>1. Init => OneHref
  <2> SUFFICES ASSUME Init PROVE OneHref
    OBVIOUS
  <2>1. ASSUME NEW p \in Photo, NEW e \in ETag, Bears(p, e) PROVE e = FirstETag[p]
    BY <2>1, NothingOwned DEF Init, Bears, NoListing
  <2>2. used = {FirstETag[p] : p \in Photo}
    BY DEF Init
  <2> QED
    BY <2>1, <2>2 DEF OneHref
<1> QED
  BY <1>1, HrefNext, TypedAlways, PTL DEF Spec

\* Distinct photos own distinct files, unless moved.
LEMMA DistinctBlobs ==
  ASSUME Typed, Records, OneHref, NEW m \in {entries, pending}, NEW n \in {entries, pending},
         NEW p \in Owners(m), NEW q \in Owners(n), m[p].blob = n[q].blob,
         m[p].etag \notin moved
  PROVE  p = q
<1>1. /\ m \in Manifest /\ n \in Manifest /\ OwnRenders(m) /\ OwnRenders(n)
  BY DEF Typed, TypeOK, Records
<1>2. m[p].etag = n[q].etag /\ m[p].etag \in ETag
  BY <1>1, SharedBlob
<1>3. p \in Tracked(m) /\ q \in Tracked(n) /\ p \in Photo /\ q \in Photo
  BY DEF Owners, Tracked
<1>4. Bears(p, m[p].etag) /\ Bears(q, m[p].etag)
  BY <1>2, <1>3 DEF Bears
<1> QED
  BY <1>2, <1>3, <1>4 DEF OneHref

-----------------------------------------------------------------------------
(* A recorded blob is on disk.  Kept strengthens NoDangling: a failed render *)
(* puts renderPending's copy back, so what the copies name must still exist. *)

NoWipes == "wipe" \notin Events

LEMMA WithoutKeeps ==
  ASSUME NEW B, NEW b \in Present \ B, disk' = Without(B)
  PROVE  b \in Present'
BY DEF Present, Without

\* Steps that leave the entries, the copies and the files alone.
LEMMA StillOnDisk ==
  ASSUME Kept, NoDangling, UNCHANGED <<entries, disk, pending, target>>,
         moved \subseteq moved',
         pc' # "head" => pc # "head", pc' # "done" => pc # "done",
         pc \notin {"put", "unlink", "commit"}, pc' \notin {"put", "unlink", "commit"},
         pc' \in Rendering => pc \in Rendering
  PROVE  Kept' /\ NoDangling'
BY DEF Kept, NoDangling, Present, Output, Rendering, Owners, Tracked

\* Steps of the handlers and of the server, during any step of the worker.
LEMMA UntouchedOnDisk ==
  ASSUME Kept, NoDangling, UNCHANGED <<disk, pending, target, cur, pc>>,
         moved \subseteq moved',
         Owners(entries') \subseteq Owners(entries),
         \A p \in Owners(entries') : entries'[p] = entries[p]
  PROVE  Kept' /\ NoDangling'
BY DEF Kept, NoDangling, Present, Output, Rendering, Owners, Tracked

LEMMA SyncOnDisk ==
  Typed /\ Records /\ OneHref /\ Kept /\ NoDangling /\ Sync => Kept' /\ NoDangling'
<1> SUFFICES ASSUME Typed, Records, OneHref, Kept, NoDangling, Sync
             PROVE  Kept' /\ NoDangling'
  OBVIOUS
<1> USE DEF Typed, Rendering
<1>0. entries \in Manifest /\ OwnRenders(entries)
  BY DEF TypeOK, Records
<1>1. CASE VerifyBlobs
  <2>1. \A p \in Owners(entries') :
          entries'[p] = entries[p] /\ p \in Owners(entries)
    BY <1>0, <1>1, VerifyType, VerifyShrinks, OwnShrink DEF VerifyBlobs
  <2>2. \A p \in Owners(entries') : entries'[p].blob \in Present
    <3> TAKE p \in Owners(entries')
    <3>1. CASE p \in Missing(entries, Present)
      <4>1. entries[p] \in Entry /\ p \in Photo
        BY <1>0, <2>1, OwnedBlob, TrackedEntry
      <4>2. entries'[p] = Cleared(entries[p])
        BY <1>1, <3>1, <4>1 DEF VerifyBlobs, Verify
      <4>3. Cleared(entries[p]).blob = NoBlob
        BY <4>1 DEF Cleared, Entry
      <4> QED
        BY <4>2, <4>3 DEF Owners
    <3>2. CASE p \notin Missing(entries, Present)
      BY <2>1, <3>2 DEF Missing
    <3> QED
      BY <3>1, <3>2
  <2> QED
    BY <1>1, <2>2 DEF VerifyBlobs, Kept, NoDangling, Present
<1>2. CASE \/ ListFails \/ ListUnauthorized \/ ListSucceeds
           \/ (\E p, q \in Photo : ListSeesBoth(p, q))
  BY <1>2, StillOnDisk
     DEF ListFails, ListUnauthorized, ListSucceeds, ListSeesBoth, MoveFile, server, files,
     storeV, worker
<1>3. ASSUME NEW p \in Photo, DropStale(p) PROVE Kept' /\ NoDangling'
  <2>0. moved' = moved
    BY <1>3 DEF DropStale, server, files
  <2>1. \A q \in Owners(entries) \ {p} :
          entries[q].blob \in Present' \/ entries[q].etag \in moved
    <3> SUFFICES ASSUME NEW q \in Owners(entries) \ {p}, entries[q].etag \notin moved
                 PROVE  entries[q].blob \in Present'
      OBVIOUS
    <3>1. entries[q].blob \in Present
      BY <1>3 DEF DropStale, NoDangling
    <3>2. CASE p \in Owners(entries)
      <4>1. entries[q].blob \notin {entries[p].blob}
        BY <1>0, <3>2, DistinctBlobs
      <4> QED
        BY <1>3, <3>1, <3>2, <4>1, WithoutKeeps DEF DropStale
    <3>3. CASE p \notin Owners(entries)
      BY <1>3, <3>1, <3>3 DEF DropStale, Present
    <3> QED
      BY <3>2, <3>3
  <2> QED
    BY <1>3, <2>0, <2>1 DEF DropStale, Kept, NoDangling, storeV, Owners, Tracked
<1>4. CASE PutListed
  <2> DEFINE e == Unrendered(listing[cur])
  <2>1. cur \in Photo /\ e.blob = NoBlob
    BY <1>4 DEF PutListed, CurOK, Unrendered
  <2>2. entries' = Put(entries, cur, e)
    BY <1>4 DEF PutListed, PutEntry
  <2> HIDE DEF e
  <2>3. \A p \in Owners(entries') : p # cur /\ p \in Owners(entries) /\ entries'[p] = entries[p]
    BY <1>0, <2>1, <2>2 DEF Owners, Tracked, Put, Manifest
  <2> QED
    BY <1>4, <2>3 DEF PutListed, Kept, NoDangling, Present, server, files
<1>5. CASE Retain
  <2> DEFINE gone == (Tracked(entries) \ Listed) \cap Owners(entries)
  <2>1. /\ entries' = RetainOnly(entries, Listed)
        /\ disk' = Without(Blobs(entries, gone))
    BY <1>5 DEF Retain
  <2>2. \A p \in Owners(entries') :
          p \in Owners(entries) \ gone /\ entries'[p] = entries[p]
    BY <2>1 DEF RetainOnly, Owners, Tracked, Listed
  <2>3. \A p \in Owners(entries) \ gone :
          entries[p].blob \in Present' \/ entries[p].etag \in moved
    <3> SUFFICES ASSUME NEW p \in Owners(entries) \ gone, entries[p].etag \notin moved
                 PROVE  entries[p].blob \in Present'
      OBVIOUS
    <3>1. entries[p].blob \in Present
      BY <1>5 DEF Retain, NoDangling
    <3>2. \A q \in gone : entries[p].blob # entries[q].blob
      BY <1>0, DistinctBlobs
    <3>3. entries[p].blob \notin Blobs(entries, gone)
      BY <3>2 DEF Blobs
    <3> QED
      BY <2>1, <3>1, <3>3, WithoutKeeps
  <2> QED
    BY <1>5, <2>2, <2>3 DEF Retain, Kept, NoDangling, storeV, server, files
<1> QED
  BY <1>1, <1>2, <1>3, <1>4, <1>5 DEF Sync

LEMMA RenderOnDisk ==
  Typed /\ Records /\ OneHref /\ Kept /\ NoDangling /\ Render => Kept' /\ NoDangling'
<1> SUFFICES ASSUME Typed, Records, OneHref, Kept, NoDangling, Render
             PROVE  Kept' /\ NoDangling'
  OBVIOUS
<1> USE DEF Typed, Rendering
<1>0. /\ entries \in Manifest /\ OwnRenders(entries)
      /\ pending \in Manifest /\ OwnRenders(pending)
  BY DEF TypeOK, Records
<1>1. CASE ReadGeometry \/ SaveRender \/ (\E p \in Photo : StartRender(p))
  BY <1>1 DEF ReadGeometry, SaveRender, StartRender, SaveManifest, storeV, worker,
     server, files, Kept, NoDangling, Present, CurOK
<1>2. CASE Snapshot
  <2>1. \A p \in Owners(pending') : p \in Owners(entries) /\ pending'[p] = entries[p]
    BY <1>2 DEF Snapshot, Owners, Tracked
  <2> QED
    BY <1>2, <2>1 DEF Snapshot, storeV, server, files, Kept, NoDangling, Present
<1>3. CASE EndRender \/ DownloadUnauthorized
  BY <1>3 DEF EndRender, DownloadUnauthorized, storeV, server, files, Kept, NoDangling,
     Present
<1>4. CASE RenderFails
  <2> DEFINE e == [pending[cur] EXCEPT !.skip = TRUE]
  <2>1. /\ cur \in Tracked(pending) /\ cur \in Photo
        /\ e.blob = pending[cur].blob /\ e.etag = pending[cur].etag
    BY <1>0, <1>4, TrackedEntry, SkippedOwn DEF RenderFails, CurOK
  <2>2. entries' = Put(entries, cur, e) /\ pending' = Put(pending, cur, NoEntry)
    BY <1>4 DEF RenderFails, PutEntry
  <2> HIDE DEF e
  <2>3. e.blob # NoBlob => e.blob \in Present \/ e.etag \in moved
    BY <1>4, <2>1 DEF RenderFails, Kept, Owners
  <2>4. /\ \A p \in Owners(entries') :
             \/ p = cur /\ entries'[p] = e
             \/ p # cur /\ p \in Owners(entries) /\ entries'[p] = entries[p]
        /\ \A p \in Owners(pending') : p \in Owners(pending) /\ pending'[p] = pending[p]
    BY <1>0, <2>1, <2>2 DEF Owners, Tracked, Put, Manifest
  <2> QED
    BY <1>4, <2>3, <2>4 DEF RenderFails, Kept, NoDangling, Present, Owners, server, files
<1>5. CASE RenderSucceeds
  <2>1. Output \in Blob /\ Output' = Output
    BY <1>5, OutputType DEF RenderSucceeds, worker, Output
  <2>2. Present \cup {Output} \subseteq Present'
    BY <1>5, <2>1 DEF RenderSucceeds, Present, TypeOK
  <2> QED
    BY <1>5, <2>1, <2>2
       DEF RenderSucceeds, storeV, worker, server, files, Kept, NoDangling
<1>6. CASE RemoveOld
  <2>1. /\ cur \in Owners(pending) /\ Output' = Output /\ Output \in Present
        /\ Output # pending[cur].blob /\ disk' = Without({pending[cur].blob})
    BY <1>6 DEF RemoveOld, worker, Output, Kept, CurOK, Owners
  <2>2. Output \in Present'
    BY <2>1, WithoutKeeps
  <2>3. \A p \in Owners(pending) \ {cur} :
          pending[p].blob \in Present' \/ pending[p].etag \in moved
    <3> SUFFICES ASSUME NEW p \in Owners(pending) \ {cur}, pending[p].etag \notin moved
                 PROVE  pending[p].blob \in Present'
      OBVIOUS
    <3>1. pending[p].blob \in Present
      BY <1>6 DEF RemoveOld, Kept
    <3>2. pending[p].blob # pending[cur].blob
      BY <1>0, <2>1, DistinctBlobs
    <3> QED
      BY <2>1, <3>1, <3>2, WithoutKeeps
  <2>4. \A p \in Owners(entries) \ {cur} :
          entries[p].blob \in Present' \/ entries[p].etag \in moved
    <3> SUFFICES ASSUME NEW p \in Owners(entries) \ {cur}, entries[p].etag \notin moved
                 PROVE  entries[p].blob \in Present'
      OBVIOUS
    <3>1. entries[p].blob \in Present
      BY <1>6 DEF RemoveOld, NoDangling
    <3>2. entries[p].blob # pending[cur].blob
      BY <1>0, <2>1, DistinctBlobs
    <3> QED
      BY <2>1, <3>1, <3>2, WithoutKeeps
  <2> QED
    BY <1>6, <2>1, <2>2, <2>3, <2>4
       DEF RemoveOld, storeV, worker, server, files, Kept, NoDangling
<1>7. CASE CommitRender
  <2>1. cur \in Photo /\ Rendered.blob = Output /\ Output \in Present
    BY <1>7, OutputType, RenderedOwn DEF CommitRender, Kept
  <2>2. entries' = Put(entries, cur, Rendered) /\ pending' = Put(pending, cur, NoEntry)
    BY <1>7 DEF CommitRender, PutEntry
  <2>3. /\ \A p \in Owners(entries') :
             \/ p = cur /\ entries'[p] = Rendered
             \/ p # cur /\ p \in Owners(entries) /\ entries'[p] = entries[p]
        /\ \A p \in Owners(pending') :
             p # cur /\ p \in Owners(pending) /\ pending'[p] = pending[p]
    BY <1>0, <2>1, <2>2 DEF Owners, Tracked, Put, Manifest
  <2> QED
    BY <1>7, <2>1, <2>3 DEF CommitRender, Kept, NoDangling, Present, server, files
<1> QED
  BY <1>1, <1>2, <1>3, <1>4, <1>5, <1>6, <1>7 DEF Render

LEMMA EvictOnDisk ==
  Typed /\ Records /\ OneHref /\ Kept /\ NoDangling /\ Evict => Kept' /\ NoDangling'
<1> SUFFICES ASSUME Typed, Records, OneHref, Kept, NoDangling, Evict
             PROVE  Kept' /\ NoDangling'
  OBVIOUS
<1>0. entries \in Manifest /\ OwnRenders(entries)
  BY DEF TypeOK, Records, Typed
<1>1. PICK V \in Victims(entries) :
        entries' = Evicted(entries, V) /\ disk' = Without(Blobs(entries, V))
  BY DEF Evict
<1>2. V \in SUBSET Owners(entries)
  BY VictimsOwn
<1>3. \A p \in Owners(entries') : p \in Owners(entries) \ V /\ entries'[p] = entries[p]
  <2> TAKE p \in Owners(entries')
  <2>1. p \in Photo /\ entries'[p].blob # NoBlob
    BY DEF Owners, Tracked
  <2>2. p \notin V
    <3> SUFFICES ASSUME p \in V PROVE FALSE
      OBVIOUS
    <3>1. entries[p] \in Entry /\ entries'[p] = [entries[p] EXCEPT !.blob = NoBlob]
      BY <1>0, <1>1, <1>2, <2>1, OwnedBlob DEF Evicted
    <3> QED
      BY <2>1, <3>1 DEF Entry
  <2>3. entries'[p] = entries[p]
    BY <1>1, <2>1, <2>2 DEF Evicted
  <2> QED
    BY <2>1, <2>2, <2>3 DEF Owners, Tracked
<1>4. \A p \in Owners(entries) \ V :
        entries[p].blob \in Present' \/ entries[p].etag \in moved
  <2> SUFFICES ASSUME NEW p \in Owners(entries) \ V, entries[p].etag \notin moved
               PROVE  entries[p].blob \in Present'
    OBVIOUS
  <2>1. entries[p].blob \in Present
    BY DEF Evict, NoDangling
  <2>2. \A q \in V : entries[p].blob # entries[q].blob
    BY <1>0, <1>2, DistinctBlobs
  <2>3. entries[p].blob \notin Blobs(entries, V)
    BY <2>2 DEF Blobs
  <2> QED
    BY <1>1, <2>1, <2>3, WithoutKeeps
<1> QED
  BY <1>3, <1>4 DEF Evict, worker, server, files, Kept, NoDangling, Rendering

LEMMA ForgetShrinks ==
  ASSUME Typed, Records, NEW x \in Handler, ForgetBlob(x)
  PROVE  /\ entries \in Manifest /\ entries' \in Manifest /\ OwnRenders(entries)
         /\ Owners(entries') \subseteq Owners(entries)
         /\ \A p \in Owners(entries') : entries'[p] = entries[p]
<1>1. call[x].photo \in Photo /\ entries \in Manifest /\ OwnRenders(entries)
  BY DEF ForgetBlob, Typed, CallOK, TypeOK, Records
<1>2. entries' = ClearBlob(entries, call[x].photo) /\ entries' \in Manifest
  BY <1>1, ClearBlobType DEF ForgetBlob
<1>3. \A p \in Photo : \/ entries'[p] = entries[p] \/ entries'[p] = NoEntry
                      \/ entries'[p].blob = NoBlob
  <2>1. CASE call[x].photo \in Owners(entries)
    <3>1. entries[call[x].photo] \in Entry
      BY <1>1, <2>1, OwnedBlob
    <3>2. Cleared(entries[call[x].photo]).blob = NoBlob
      BY <3>1 DEF Cleared, Entry
    <3> QED
      BY <1>1, <1>2, <2>1, <3>2 DEF ClearBlob, Put, Manifest
  <2>2. CASE call[x].photo \notin Owners(entries)
    BY <1>2, <2>2 DEF ClearBlob
  <2> QED
    BY <2>1, <2>2
<1>4. /\ Owners(entries') \subseteq Owners(entries)
      /\ \A p \in Owners(entries') : entries'[p] = entries[p]
  BY <1>1, <1>2, <1>3, OwnShrink
<1> QED
  BY <1>1, <1>2, <1>4

LEMMA HandlerOnDisk ==
  ASSUME Typed, Records, Kept, NoDangling, NEW x \in Handler, Ask(x) \/ Serve(x)
  PROVE  Kept' /\ NoDangling'
<1>1. CASE ForgetBlob(x)
  <2>1. /\ Owners(entries') \subseteq Owners(entries)
        /\ \A p \in Owners(entries') : entries'[p] = entries[p]
    BY <1>1, ForgetShrinks
  <2> QED
    BY <1>1, <2>1, UntouchedOnDisk DEF ForgetBlob, worker, server, files
<1>2. CASE \/ Ask(x) \/ NoneReady(x) \/ (\E p \in Photo : Pick(x, p))
           \/ Stat(x) \/ ServeImage(x)
  BY <1>2, UntouchedOnDisk
     DEF Ask, NoneReady, Pick, Stat, ServeImage, server, files, storeV, worker
<1> QED
  BY <1>1, <1>2 DEF Serve

LEMMA OnDiskNext ==
  ASSUME NoWipes, Typed, Records, OneHref, Kept, NoDangling, [Next]_vars
  PROVE  Kept' /\ NoDangling'
<1>1. CASE Finish \/ SaveCycle \/ Idle \/ PairStep
  BY <1>1 DEF Finish, SaveCycle, SaveManifest, Idle, TimerFires, WakeUp, PairStep,
     storeV, worker, server, files, Kept, NoDangling, Present, Rendering
<1>2. CASE Exit \/ Crash
  BY <1>2 DEF Exit, Crash, Restart, Kept, NoDangling, Rendering
<1>3. CASE \/ (\E p \in Photo : Select(p) \/ Edit(p) \/ Delete(p))
           \/ (\E p, q \in Photo : Move(p, q))
           \/ Revoke \/ Network \/ Stop
  BY <1>3, UntouchedOnDisk
     DEF Select, Edit, Delete, Move, MoveFile, Revoke, Network, Stop, server, files,
     storeV, worker
<1>4. ~ \E b \in Blob : Wipe(b)
  BY DEF NoWipes, Wipe, Happens
<1>5. CASE UNCHANGED vars
  BY <1>5, UntouchedOnDisk DEF vars, server, files, storeV, worker
<1> QED
  BY <1>1, <1>2, <1>3, <1>4, <1>5, SyncOnDisk, RenderOnDisk, EvictOnDisk, HandlerOnDisk
     DEF Next, Cycle, Environment

\* While nothing but the program deletes files, a recorded blob is on disk from
\* Verify on: Next has no missing blob to stumble over, except that of the photo
\* the worker is replacing at that moment and those of files that were moved.
THEOREM RecordedOnDisk == NoWipes => (Spec => []NoDangling)
<1> SUFFICES ASSUME NoWipes PROVE Spec => []NoDangling
  OBVIOUS
<1>1. Init => Kept /\ NoDangling
  BY DEF Init, Kept, NoDangling, Rendering
<1>2. Typed /\ Records /\ OneHref /\ Kept /\ NoDangling /\ [Next]_vars
        => Kept' /\ NoDangling'
  BY OnDiskNext
<1> QED
  BY <1>1, <1>2, TypedAlways, RecordsAlways, OneHrefAlways, PTL DEF Spec

-----------------------------------------------------------------------------
(* Across handlers and worker: no wakeup is lost, no change is missed by Save. *)

NoDiskErrors == "disk" \notin Events

-----------------------------------------------------------------------------
(* A reply fits the geometry its request declared. *)

LEMMA ServedFitsNext ==
  ASSUME Typed, Records, ServedFits, [Next]_vars PROVE ServedFits'
<1> USE DEF ServedFits, Typed
<1>1. ASSUME UNCHANGED call PROVE ServedFits'
  BY <1>1
<1>2. ASSUME NEW x \in Handler, NEW c, call' = [call EXCEPT ![x] = c],
             c.photo # NoPhoto => \E e \in ETag : c.blob = BlobID(e, Asks[x])
      PROVE  ServedFits'
  BY <1>2 DEF TypeOK
<1>3. Resting.photo = NoPhoto
  BY DEF Resting
<1>4. ASSUME NEW x \in Handler, NEW p, NEW b
      PROVE  [Resting EXCEPT !.photo = p, !.blob = b].photo = p
             /\ [Resting EXCEPT !.photo = p, !.blob = b].blob = b
  BY DEF Resting
<1>5. ASSUME NEW x \in Handler, Ask(x) \/ Serve(x) PROVE ServedFits'
  <2>0. call[x] \in Call
    BY DEF TypeOK
  <2>1. CASE Ask(x)
    <3>1. PICK c : call' = [call EXCEPT ![x] = c] /\ c.photo = NoPhoto
      <4> DEFINE owes == geometry # Asks[x]
                 asked == [Resting EXCEPT !.at = "ready", !.owes = owes]
      <4>1. asked.photo = NoPhoto
        BY DEF Resting
      <4>2. call' = [call EXCEPT ![x] = asked] \/ call' = [call EXCEPT ![x] = Resting]
        BY <2>1 DEF Ask, NewGeometry
      <4> HIDE DEF asked
      <4> QED
        BY <1>3, <4>1, <4>2
    <3> QED
      BY <1>2, <3>1
  <2>2. CASE NoneReady(x)
    BY <1>2, <1>4, <2>2 DEF NoneReady, Reply
  <2>3. ASSUME NEW p \in Photo, Pick(x, p) PROVE ServedFits'
    <3> DEFINE c == [call[x] EXCEPT !.at = "stat", !.photo = p, !.blob = entries[p].blob]
    <3>1. call' = [call EXCEPT ![x] = c]
      BY <2>3 DEF Pick
    <3>2. c.photo = p /\ c.blob = entries[p].blob
      BY <2>0 DEF Call
    <3>3. /\ entries[p].etag \in ETag
          /\ entries[p].blob = BlobID(entries[p].etag, Asks[x])
      <4>1. p \in Owners(entries) /\ entries[p].geom = Asks[x]
        BY <2>3 DEF Pick, Ready
      <4>2. entries[p] \in Entry
        BY <4>1, OwnedBlob DEF TypeOK
      <4>3. entries[p].etag \in ETag
        BY <4>2 DEF Entry
      <4> QED
        BY <4>1, <4>3 DEF Records, OwnRenders
    <3> HIDE DEF c
    <3> QED
      BY <1>2, <3>1, <3>2, <3>3
  <2>4. CASE Stat(x)
    <3>1. PICK a : call' = [call EXCEPT ![x] = [@ EXCEPT !.at = a]]
      BY <2>4 DEF Stat
    <3> DEFINE c == [call[x] EXCEPT !.at = a]
    <3>2. c.photo = call[x].photo /\ c.blob = call[x].blob
      BY <2>0 DEF Call
    <3>3. call' = [call EXCEPT ![x] = c]
      BY <3>1
    <3> HIDE DEF c
    <3> QED
      BY <1>2, <3>2, <3>3
  <2>5. CASE ServeImage(x)
    BY <1>2, <1>4, <2>5 DEF ServeImage, Reply
  <2>6. CASE ForgetBlob(x)
    BY <1>2, <1>3, <2>6 DEF ForgetBlob
  <2> QED
    BY <1>5, <2>1, <2>2, <2>3, <2>4, <2>5, <2>6 DEF Serve
<1>6. CASE Exit \/ Crash
  BY <1>3, <1>6 DEF Exit, Crash, Restart
<1>7. CASE (Cycle /\ ~Exit) \/ Idle \/ PairStep
  BY <1>1, <1>7 DEF Cycle, Finish, Sync, VerifyBlobs, ListFails, ListUnauthorized,
     ListSucceeds, ListSeesBoth, DropStale, PutListed, Retain, Render, ReadGeometry, Snapshot,
     StartRender, EndRender, DownloadUnauthorized, RenderFails, RenderSucceeds,
     RemoveOld, CommitRender, SaveRender, Evict, SaveCycle, Idle, TimerFires, WakeUp,
     PairStep
<1>8. CASE Environment /\ ~Crash
  BY <1>1, <1>8 DEF Environment, Move, Select, Edit, Delete, Revoke, Network, Stop, Wipe
<1>9. CASE UNCHANGED vars
  BY <1>1, <1>9 DEF vars
<1> QED
  BY <1>5, <1>6, <1>7, <1>8, <1>9 DEF Next

\* An image reply is a render at the panel size its own request declared, whatever
\* other clients declared in the meantime.
THEOREM RepliesFit == Spec => []ServedFits
<1>1. Init => ServedFits
  BY DEF Init, ServedFits, Resting
<1> QED
  BY <1>1, ServedFitsNext, TypedAlways, RecordsAlways, PTL DEF Spec

-----------------------------------------------------------------------------
(* No wakeup is lost: a worker asleep has nothing left to render. *)

\* The names of the parts, for the steps below.
WakeInv == Announced /\ AccountedFor /\ NoCopies

\* Where the worker is once renderPending has taken its list.
Accounting == Rendering \cup {"evict", "save", "idle"}

\* Steps that change none of the state AsleepMeansDone relates, and do not take
\* the worker into the part of the cycle it speaks of.
LEMMA StillAnnounced ==
  ASSUME WakeInv,
         UNCHANGED <<entries, pending, target, geometry, paired, call, wake, stopping>>,
         pc' \in Rendering <=> pc \in Rendering,
         pc' \in Accounting => pc \in Accounting,
         pc' = "snapshot" => pc = "snapshot"
  PROVE  WakeInv'
<1> USE DEF WakeInv, Rendering, Accounting
<1>1. Announced'
  BY DEF Announced, Owed
<1>2. NoCopies'
  BY DEF NoCopies
<1>3. AccountedFor'
  BY DEF AccountedFor, Tracked, Ready, Owners
<1> QED
  BY <1>1, <1>2, <1>3

\* What a step of the worker on one entry leaves to be done.
AllAccounted ==
  \A p \in Tracked(entries) :
    \/ entries[p].skip
    \/ p \in Ready(entries, target)
    \/ p \in Tracked(pending)
    \/ entries[p].blob = NoBlob /\ entries[p].geom # NoGeometry

LEMMA RenderAnnounced ==
  Typed /\ Records /\ WakeInv /\ NoDiskErrors /\ Render => WakeInv'
<1> SUFFICES ASSUME Typed, Records, WakeInv, NoDiskErrors, Render PROVE WakeInv'
  OBVIOUS
<1> USE DEF Typed, Rendering, Accounting
<1>0. entries \in Manifest /\ pending \in Manifest
  BY DEF TypeOK
<1>1. CASE ReadGeometry
  BY <1>1 DEF ReadGeometry, WakeInv, Announced, AccountedFor, NoCopies, NoDiskErrors,
     Happens, storeV, fields
<1>2. CASE Snapshot
  <2>1. AllAccounted'
    <3> SUFFICES ASSUME NEW p \in Tracked(entries)', ~entries'[p].skip,
                        p \notin Ready(entries, target)'
                 PROVE  p \in Tracked(pending)'
      BY DEF AllAccounted
    <3>1. p \in Tracked(entries) /\ ~entries[p].skip /\ p \notin Ready(entries, target)
      BY <1>2 DEF Snapshot, storeV, Tracked, Ready, Owners
    <3>2. p \in Renderable(entries, target) /\ p \in Photo
      BY <3>1 DEF Renderable, Ready, Owners, Tracked
    <3>3. pending'[p] = entries[p]
      BY <1>2, <3>2 DEF Snapshot
    <3> QED
      BY <3>1, <3>2, <3>3 DEF Tracked
  <2>2. Announced' /\ NoCopies'
    BY <1>2 DEF Snapshot, WakeInv, Announced, NoCopies, Owed, fields
  <2> QED
    BY <2>1, <2>2 DEF WakeInv, AccountedFor, AllAccounted
<1>3. CASE \E p \in Photo : StartRender(p)
  BY <1>3, StillAnnounced DEF StartRender, storeV, fields
<1>4. CASE EndRender
  <2>1. Announced' /\ NoCopies'
    BY <1>4 DEF EndRender, WakeInv, Announced, NoCopies, Owed, fields
  <2>2. AccountedFor'
    BY <1>4 DEF EndRender, WakeInv, AccountedFor, storeV, fields, Tracked, Ready, Owners
  <2> QED
    BY <2>1, <2>2 DEF WakeInv
<1>5. CASE DownloadUnauthorized
  BY <1>5 DEF DownloadUnauthorized, Unpair, WakeInv, Announced, AccountedFor, NoCopies
<1>6. CASE RenderFails
  <2> DEFINE e == [pending[cur] EXCEPT !.skip = TRUE]
  <2>1. e.skip /\ cur \in Photo
    BY <1>6, OutputType, SkippedOwn DEF RenderFails
  <2>2. entries' = Put(entries, cur, e) /\ pending' = Put(pending, cur, NoEntry)
    BY <1>6 DEF RenderFails, PutEntry
  <2> HIDE DEF e
  <2>3. Announced' /\ NoCopies'
    BY <1>6 DEF RenderFails, WakeInv, Announced, NoCopies, Owed, fields
  <2>4. ASSUME AllAccounted PROVE AllAccounted'
    <3> SUFFICES ASSUME NEW p \in Tracked(entries)', p # cur
                 PROVE  \/ entries'[p].skip
                        \/ p \in Ready(entries, target)'
                        \/ p \in Tracked(pending)'
                        \/ entries'[p].blob = NoBlob /\ entries'[p].geom # NoGeometry
      BY <1>0, <2>1, <2>2 DEF AllAccounted, Put, Manifest
    <3>1. entries'[p] = entries[p] /\ pending'[p] = pending[p] /\ p \in Photo
      BY <1>0, <2>1, <2>2 DEF Put, Manifest, Tracked
    <3> QED
      BY <1>6, <2>4, <3>1 DEF RenderFails, AllAccounted, Tracked, Ready, Owners
  <2> QED
    BY <1>6, <2>3, <2>4 DEF RenderFails, WakeInv, AccountedFor, AllAccounted, fields
<1>7. CASE RenderSucceeds \/ RemoveOld \/ SaveRender
  BY <1>7, StillAnnounced DEF RenderSucceeds, RemoveOld, SaveRender, storeV, fields,
     worker
<1>8. CASE CommitRender
  <2>1. /\ cur \in Photo /\ Rendered \in Entry /\ Rendered.blob = Output
        /\ Output \in Blob /\ Rendered.geom = target /\ ~Rendered.skip
    BY <1>8, OutputType, RenderedOwn DEF CommitRender
  <2>2. entries' = Put(entries, cur, Rendered) /\ pending' = Put(pending, cur, NoEntry)
    BY <1>8 DEF CommitRender, PutEntry
  <2>3. Announced' /\ NoCopies'
    BY <1>8 DEF CommitRender, WakeInv, Announced, NoCopies, Owed, fields
  <2>4. ASSUME AllAccounted PROVE AllAccounted'
    <3> SUFFICES ASSUME NEW p \in Tracked(entries)'
                 PROVE  \/ entries'[p].skip
                        \/ p \in Ready(entries, target)'
                        \/ p \in Tracked(pending)'
                        \/ entries'[p].blob = NoBlob /\ entries'[p].geom # NoGeometry
      BY DEF AllAccounted
    <3>1. CASE p = cur
      <4>1. entries'[p] = Rendered /\ p \in Photo
        BY <1>0, <2>1, <2>2, <3>1 DEF Put, Manifest
      <4>2. p \in Ready(entries, target)'
        BY <1>8, <2>1, <4>1 DEF CommitRender, Ready, Owners, Tracked
      <4> QED
        BY <4>2
    <3>2. CASE p # cur
      <4>1. entries'[p] = entries[p] /\ pending'[p] = pending[p] /\ p \in Photo
        BY <1>0, <2>1, <2>2, <3>2 DEF Put, Manifest, Tracked
      <4> QED
        BY <1>8, <2>4, <4>1 DEF CommitRender, AllAccounted, Tracked, Ready, Owners
    <3> QED
      BY <3>1, <3>2
  <2> QED
    BY <1>8, <2>3, <2>4 DEF CommitRender, WakeInv, AccountedFor, AllAccounted, fields
<1> QED
  BY <1>1, <1>2, <1>3, <1>4, <1>5, <1>6, <1>7, <1>8 DEF Render

\* The frame's next geometry is announced by the request that declares it.
LEMMA HandlerAnnounced ==
  ASSUME Typed, WakeInv, NEW x \in Handler, Ask(x) \/ Serve(x) PROVE WakeInv'
<1> USE DEF Typed
<1>0. call[x] \in Call /\ wake \in BOOLEAN /\ call \in [Handler -> Call]
  BY DEF TypeOK
<1>1. ASSUME UNCHANGED <<entries, pending, target, paired, stopping, pc>>,
             wake => wake',
             Owed \/ geometry' # geometry => Owed'
      PROVE  WakeInv'
  <2>1. NoCopies'
    BY <1>1 DEF WakeInv, NoCopies, Rendering
  <2>2. Announced'
    BY <1>1 DEF WakeInv, Announced, Rendering
  <2>3. AccountedFor'
    BY <1>1 DEF WakeInv, AccountedFor, Rendering, Tracked, Ready, Owners
  <2> QED
    BY <2>1, <2>2, <2>3 DEF WakeInv
<1>2. CASE Ask(x)
  <2> DEFINE owes == geometry # Asks[x]
             asked == [Resting EXCEPT !.at = "ready", !.owes = owes]
  <2>1. /\ geometry' = Asks[x] /\ call[x].at = "rest"
        /\ UNCHANGED <<entries, pending, target, paired, stopping, pc>>
    BY <1>2 DEF Ask, NewGeometry, storeV, worker
  <2>2. \/ call' = [call EXCEPT ![x] = asked] /\ wake' = wake
        \/ call' = [call EXCEPT ![x] = Resting] /\ wake' = (wake \/ owes)
    BY <1>2 DEF Ask, NewGeometry
  <2>3. asked.owes = owes
    BY DEF Resting
  <2>4. owes <=> geometry' # geometry
    BY <2>1
  <2>5. ~call[x].owes
    BY <2>1 DEF CallOK
  <2> HIDE DEF asked, owes
  <2>6. wake => wake'
    BY <2>2
  <2>7. owes => Owed'
    BY <1>0, <2>2, <2>3 DEF Owed
  <2>8. Owed => Owed'
    BY <1>0, <2>2, <2>5, <2>6 DEF Owed
  <2> QED
    BY <1>1, <2>1, <2>4, <2>6, <2>7, <2>8
<1>3. ASSUME NEW p, NEW b, Reply(x, p, b) PROVE (wake => wake') /\ (Owed => Owed')
  BY <1>0, <1>3 DEF Reply, Owed
<1>4. CASE NoneReady(x) \/ ServeImage(x)
  <2>1. (wake => wake') /\ (Owed => Owed')
    BY <1>3, <1>4 DEF NoneReady, ServeImage
  <2> QED
    BY <1>1, <1>4, <2>1 DEF NoneReady, ServeImage, storeV, fields, worker
<1>5. ASSUME NEW c, call' = [call EXCEPT ![x] = c], c.owes = call[x].owes, wake' = wake
      PROVE  (wake => wake') /\ (Owed => Owed')
  BY <1>0, <1>5 DEF Owed
<1>6. CASE \E p \in Photo : Pick(x, p)
  <2>1. PICK p \in Photo : Pick(x, p)
    BY <1>6
  <2> DEFINE c == [call[x] EXCEPT !.at = "stat", !.photo = p, !.blob = entries[p].blob]
  <2>2. call' = [call EXCEPT ![x] = c] /\ wake' = wake
    BY <2>1 DEF Pick
  <2>3. c.owes = call[x].owes
    BY <1>0 DEF Call
  <2> HIDE DEF c
  <2>4. (wake => wake') /\ (Owed => Owed')
    BY <1>5, <2>2, <2>3
  <2> QED
    BY <1>1, <2>1, <2>4 DEF Pick, storeV, fields, worker
<1>7. CASE Stat(x)
  <2>1. PICK a : call' = [call EXCEPT ![x] = [@ EXCEPT !.at = a]]
    BY <1>7 DEF Stat
  <2> DEFINE c == [call[x] EXCEPT !.at = a]
  <2>2. call' = [call EXCEPT ![x] = c] /\ wake' = wake
    BY <1>7, <2>1 DEF Stat
  <2>3. c.owes = call[x].owes
    BY <1>0 DEF Call
  <2> HIDE DEF c
  <2>4. (wake => wake') /\ (Owed => Owed')
    BY <1>5, <2>2, <2>3
  <2> QED
    BY <1>1, <1>7, <2>4 DEF Stat, storeV, fields, worker
<1>8. CASE ForgetBlob(x)
  <2>1. wake' /\ UNCHANGED <<pending, target, paired, stopping, pc>>
    BY <1>8 DEF ForgetBlob, fields, worker
  <2> QED
    BY <2>1 DEF WakeInv, Announced, AccountedFor, NoCopies, Owed
<1> QED
  BY <1>2, <1>4, <1>6, <1>7, <1>8 DEF Serve

LEMMA EvictAnnounced ==
  Typed /\ Records /\ WakeInv /\ Evict => WakeInv'
<1> SUFFICES ASSUME Typed, Records, WakeInv, Evict PROVE WakeInv'
  OBVIOUS
<1>1. PICK V \in Victims(entries) : entries' = Evicted(entries, V)
  BY DEF Evict
<1>2. /\ V \in SUBSET Owners(entries) /\ entries \in Manifest
      /\ pc = "evict" /\ pc' = "save"
      /\ UNCHANGED <<pending, target, geometry, paired, call, wake, stopping>>
  BY VictimsOwn DEF Evict, Typed, TypeOK, fields, worker
<1>3. Announced' /\ NoCopies'
  BY <1>2 DEF WakeInv, Announced, NoCopies, Owed, Rendering
<1>4. ASSUME AllAccounted PROVE AllAccounted'
  <2> SUFFICES ASSUME NEW p \in Tracked(entries)'
               PROVE  \/ entries'[p].skip
                      \/ p \in Ready(entries, target)'
                      \/ p \in Tracked(pending)'
                      \/ entries'[p].blob = NoBlob /\ entries'[p].geom # NoGeometry
    BY DEF AllAccounted
  <2>1. CASE p \in V
    <3>1. entries[p] \in Entry /\ entries[p].geom # NoGeometry /\ p \in Photo
      BY <1>2, <2>1, OwnedBlob, TrackedEntry DEF Records, OwnRenders
    <3>2. entries'[p] = [entries[p] EXCEPT !.blob = NoBlob]
      BY <1>1, <2>1, <3>1 DEF Evicted
    <3> QED
      BY <3>1, <3>2 DEF Entry
  <2>2. CASE p \notin V
    <3>1. entries'[p] = entries[p] /\ p \in Photo
      BY <1>1, <2>2 DEF Evicted, Tracked
    <3> QED
      BY <1>2, <1>4, <3>1 DEF AllAccounted, Tracked, Ready, Owners
  <2> QED
    BY <2>1, <2>2
<1> QED
  BY <1>2, <1>3, <1>4 DEF WakeInv, AccountedFor, AllAccounted, Rendering

LEMMA WakeNext ==
  ASSUME NoDiskErrors, Typed, Records, WakeInv, [Next]_vars PROVE WakeInv'
<1> USE DEF Rendering, Accounting
<1>1. CASE Finish \/ VerifyBlobs \/ TimerFires \/ WakeUp \/ PairStep \/ PutListed
           \/ Retain \/ (\E p \in Photo : DropStale(p)) \/ ListFails \/ ListSucceeds
           \/ ListUnauthorized \/ (\E p, q \in Photo : ListSeesBoth(p, q))
  <2>1. pc' \notin Accounting \cup {"snapshot"} \/ ~paired'
    BY <1>1 DEF Finish, VerifyBlobs, TimerFires, WakeUp, PairStep, PutListed, Retain,
       DropStale, ListFails, ListSucceeds, ListUnauthorized, ListSeesBoth, Unpair
  <2>2. pc \notin Rendering /\ pc' \notin Rendering /\ pending' = pending
    BY <1>1 DEF Finish, VerifyBlobs, TimerFires, WakeUp, PairStep, PutListed, Retain,
       DropStale, ListFails, ListSucceeds, ListUnauthorized, ListSeesBoth, worker
  <2> QED
    BY <2>1, <2>2 DEF WakeInv, Announced, AccountedFor, NoCopies
<1>2. CASE SaveCycle
  BY <1>2, StillAnnounced DEF SaveCycle, fields, worker
<1>3. CASE Exit \/ Crash
  BY <1>3 DEF Exit, Crash, Restart, WakeInv, Announced, AccountedFor, NoCopies
<1>4. CASE Stop
  <2>1. stopping' /\ UNCHANGED <<pending, target, geometry, paired, call, wake, pc>>
    BY <1>4 DEF Stop, worker
  <2> QED
    BY <2>1 DEF WakeInv, Announced, AccountedFor, NoCopies, Owed
<1>5. CASE \/ (\E p \in Photo : Select(p) \/ Edit(p) \/ Delete(p))
           \/ Revoke \/ Network \/ (\E b \in Blob : Wipe(b))
           \/ (\E p, q \in Photo : Move(p, q))
  BY <1>5, StillAnnounced
     DEF Move, Select, Edit, Delete, Revoke, Network, Wipe, storeV, fields, worker
<1>6. CASE UNCHANGED vars
  BY <1>6, StillAnnounced DEF vars, storeV, fields, worker
<1> QED
  BY <1>1, <1>2, <1>3, <1>4, <1>5, <1>6, RenderAnnounced, HandlerAnnounced, EvictAnnounced
     DEF Next, Cycle, Sync, Idle, Environment

\* As long as the render directory can be made, a worker that waits with no signal
\* queued or owed has rendered, skipped or evicted every photo it tracks.
THEOREM NoLostWakeup == NoDiskErrors => (Spec => []AsleepMeansDone)
<1> SUFFICES ASSUME NoDiskErrors PROVE Spec => []AsleepMeansDone
  OBVIOUS
<1>1. Init => WakeInv
  BY DEF Init, WakeInv, Announced, AccountedFor, NoCopies, Rendering
<1>2. Typed /\ Records /\ WakeInv /\ [Next]_vars => WakeInv'
  BY WakeNext
<1>3. WakeInv => AsleepMeansDone
  <2> SUFFICES ASSUME WakeInv, Asleep, geometry # NoGeometry, NEW p \in Tracked(entries)
               PROVE  \/ entries[p].skip
                      \/ p \in Ready(entries, geometry)
                      \/ entries[p].blob = NoBlob /\ entries[p].geom # NoGeometry
    BY DEF AsleepMeansDone
  <2>1. geometry = target /\ pending = NothingTracked
    BY DEF WakeInv, Announced, NoCopies, Asleep, Owed, Rendering
  <2>2. p \notin Tracked(pending)
    BY <2>1, NothingOwned
  <2> QED
    BY <2>1, <2>2 DEF WakeInv, AccountedFor, Asleep
<1> QED
  BY <1>1, <1>2, <1>3, TypedAlways, RecordsAlways, PTL DEF Spec

-----------------------------------------------------------------------------
(* Save learns of every change. *)

\* An operator that has nothing to do returns the manifest it was given.
LEMMA NothingToDo ==
  ASSUME NEW m \in Manifest
  PROVE  /\ \A present : Missing(m, present) = {} => Verify(m, present) = m
         /\ \A keep : Tracked(m) \ keep = {} => RetainOnly(m, keep) = m
         /\ Evicted(m, {}) = m
         /\ \A p : p \notin Owners(m) => ClearBlob(m, p) = m
<1>1. m = [p \in Photo |-> m[p]]
  BY DEF Manifest
<1>2. ASSUME NEW present, Missing(m, present) = {} PROVE Verify(m, present) = m
  BY <1>1, <1>2 DEF Verify
<1>3. ASSUME NEW keep, Tracked(m) \ keep = {} PROVE RetainOnly(m, keep) = m
  <2>1. \A p \in Photo : (IF p \in keep THEN m[p] ELSE NoEntry) = m[p]
    BY <1>3 DEF Tracked
  <2> QED
    BY <1>1, <2>1 DEF RetainOnly
<1>4. Evicted(m, {}) = m
  BY <1>1 DEF Evicted
<1>5. ASSUME NEW p, p \notin Owners(m) PROVE ClearBlob(m, p) = m
  BY <1>5 DEF ClearBlob
<1> QED
  BY <1>2, <1>3, <1>4, <1>5

LEMMA CleanNext ==
  ASSUME NoDiskErrors, Typed, CleanMeansSaved, [Next]_vars PROVE CleanMeansSaved'
<1> USE DEF CleanMeansSaved
<1>0. entries \in Manifest
  BY DEF Typed, TypeOK
<1>1. ASSUME manifest' = manifest, ~dirty' => ~dirty /\ entries' = entries
      PROVE  CleanMeansSaved'
  BY <1>1
<1>2. CASE VerifyBlobs
  BY <1>0, <1>1, <1>2, NothingToDo DEF VerifyBlobs
<1>3. CASE Retain
  BY <1>0, <1>1, <1>3, NothingToDo DEF Retain
<1>4. CASE Evict
  BY <1>0, <1>1, <1>4, NothingToDo DEF Evict
<1>5. ASSUME NEW x \in Handler, ForgetBlob(x) PROVE CleanMeansSaved'
  BY <1>0, <1>1, <1>5, NothingToDo DEF ForgetBlob
<1>6. CASE PutListed \/ RenderFails \/ CommitRender
  BY <1>6 DEF PutListed, RenderFails, CommitRender, PutEntry
<1>7. ASSUME SaveManifest PROVE manifest' = entries
  BY <1>7 DEF SaveManifest, NoDiskErrors, Happens
<1>8. CASE SaveRender \/ SaveCycle \/ Exit
  BY <1>7, <1>8 DEF SaveRender, SaveCycle, Exit, Restart
<1>9. CASE Crash
  BY <1>9 DEF Crash, Restart
<1>10. ASSUME NEW x \in Handler,
              \/ Ask(x) \/ NoneReady(x) \/ (\E p \in Photo : Pick(x, p))
              \/ Stat(x) \/ ServeImage(x)
       PROVE  CleanMeansSaved'
  BY <1>1, <1>10 DEF Ask, NoneReady, Pick, Stat, ServeImage, storeV
<1>11. CASE \/ Finish \/ ListFails \/ ListUnauthorized \/ ListSucceeds \/ PairStep
            \/ (\E p \in Photo : DropStale(p) \/ StartRender(p)) \/ ReadGeometry
            \/ Snapshot \/ EndRender \/ DownloadUnauthorized \/ RenderSucceeds
            \/ RemoveOld \/ Idle \/ (\E p, q \in Photo : ListSeesBoth(p, q))
  BY <1>1, <1>11 DEF Finish, ListSeesBoth, ListFails, ListUnauthorized, ListSucceeds, PairStep,
     DropStale, StartRender, ReadGeometry, Snapshot, EndRender, DownloadUnauthorized,
     RenderSucceeds, RemoveOld, Idle, TimerFires, WakeUp, storeV
<1>12. CASE \/ (\E p \in Photo : Select(p) \/ Edit(p) \/ Delete(p))
            \/ Revoke \/ Network \/ Stop \/ (\E b \in Blob : Wipe(b))
            \/ (\E p, q \in Photo : Move(p, q))
  BY <1>1, <1>12 DEF Move, Select, Edit, Delete, Revoke, Network, Stop, Wipe, storeV
<1>13. CASE UNCHANGED vars
  BY <1>1, <1>13 DEF vars, storeV
<1> QED
  BY <1>2, <1>3, <1>4, <1>5, <1>6, <1>8, <1>9, <1>10, <1>11, <1>12, <1>13
     DEF Next, Cycle, Sync, Render, Serve, Environment

\* While no write fails, a clean store is the one in the manifest file: no step
\* forgets to tell Save, so a clean exit loses nothing.
THEOREM NothingUnsaved == NoDiskErrors => (Spec => []CleanMeansSaved)
<1> SUFFICES ASSUME NoDiskErrors PROVE Spec => []CleanMeansSaved
  OBVIOUS
<1>1. Init => CleanMeansSaved
  BY DEF Init, CleanMeansSaved
<1>2. Typed /\ CleanMeansSaved /\ [Next]_vars => CleanMeansSaved'
  BY CleanNext
<1> QED
  BY <1>1, <1>2, TypedAlways, PTL DEF Spec

-----------------------------------------------------------------------------
(* The whole of the inductive invariant, with what it rests on. *)

\* While nothing but the program deletes files and no write fails, everything Frame's
\* safety properties rest on holds at once: the copies renderPending holds name files
\* on disk, a change of size is announced, and every photo is accounted for.
THEOREM StrongInvAlways == NoWipes /\ NoDiskErrors => (Spec => []StrongInv)
<1> SUFFICES ASSUME NoWipes, NoDiskErrors PROVE Spec => []StrongInv
  OBVIOUS
<1>1. Init => Kept /\ NoDangling /\ WakeInv
  BY DEF Init, Kept, NoDangling, WakeInv, Announced, AccountedFor, NoCopies, Rendering
<1>2. Typed /\ Records /\ OneHref /\ Kept /\ NoDangling /\ WakeInv /\ [Next]_vars
        => Kept' /\ NoDangling' /\ WakeInv'
  BY OnDiskNext, WakeNext
<1>3. Typed /\ Records /\ OneHref /\ Kept /\ WakeInv => StrongInv
  BY DEF StrongInv, WakeInv
<1> QED
  BY <1>1, <1>2, <1>3, TypedAlways, RecordsAlways, OneHrefAlways, PTL DEF Spec

-----------------------------------------------------------------------------
(* The recorded blobs fit the budget. *)

LEMMA BytesFinite ==
  ASSUME NEW m, NEW P \in SUBSET Photo, \A p \in P : Size[m[p].geom] \in Nat
  PROVE  IsFiniteSet(Bytes(m, P))
<1> DEFINE B(p) == {p} \X (1 .. Size[m[p].geom])
           F == {B(p) : p \in P}
           f == [p \in P |-> B(p)]
<1>1. IsFiniteSet(P)
  BY FS_Subset
<1>2. f \in Surjection(P, F)
  BY DEF Surjection
<1>3. IsFiniteSet(F)
  BY <1>1, <1>2, FS_Surjection
<1>4. ASSUME NEW p \in P PROVE IsFiniteSet(B(p))
  <2> DEFINE I == 1 .. Size[m[p].geom]
  <2>1. IsFiniteSet({p})
    BY FS_Singleton
  <2>2. PICK n \in Int : n = Size[m[p].geom]
    OBVIOUS
  <2>3. IsFiniteSet(1 .. n)
    BY FS_Interval
  <2> HIDE DEF I
  <2>4. IsFiniteSet({p} \X I)
    BY <2>1, <2>2, <2>3, FS_Product DEF I
  <2> QED
    BY <2>4 DEF I
<1>5. \A T \in F : IsFiniteSet(T)
  BY <1>4
<1> HIDE DEF F
<1>6. IsFiniteSet(UNION F)
  BY <1>3, <1>5, FS_UNION
<1> QED
  BY <1>6 DEF Bytes, F

\* Fewer blobs of the same sizes are no more bytes.
LEMMA FewerBytes ==
  ASSUME NEW m, NEW n, NEW Q \in SUBSET Photo, NEW P \in SUBSET Q,
         \A p \in Q : Size[m[p].geom] \in Nat, \A p \in P : n[p].geom = m[p].geom
  PROVE  /\ TotalBytes(m, Q) \in Nat /\ TotalBytes(n, P) \in Nat
         /\ TotalBytes(n, P) =< TotalBytes(m, Q)
<1>1. Bytes(n, P) \subseteq Bytes(m, Q)
  BY DEF Bytes
<1>2. IsFiniteSet(Bytes(m, Q))
  BY BytesFinite
<1> QED
  BY <1>1, <1>2, FS_Subset, FS_CardinalityType DEF TotalBytes

\* What an owner of a blob costs: its size.
LEMMA OwnersCost ==
  ASSUME NEW m \in Manifest, OwnRenders(m)
  PROVE  Owners(m) \in SUBSET Photo /\ \A p \in Owners(m) : Size[m[p].geom] \in Nat
<1>1. ASSUME NEW p \in Owners(m) PROVE p \in Photo /\ Size[m[p].geom] \in Nat
  <2>1. p \in Photo /\ m[p] \in Entry /\ m[p].geom # NoGeometry
    BY OwnedBlob, TrackedEntry DEF OwnRenders
  <2> QED
    BY <2>1 DEF Entry
<1> QED
  BY <1>1

\* Entries that lose blobs and gain none stay within the budget.
LEMMA StillWithin ==
  ASSUME NEW m \in Manifest, OwnRenders(m), NEW n, Owners(n) \subseteq Owners(m),
         \A p \in Owners(n) : n[p] = m[p], TotalBytes(m, Owners(m)) =< Budget
  PROVE  TotalBytes(n, Owners(n)) =< Budget
<1>1. /\ TotalBytes(m, Owners(m)) \in Nat /\ TotalBytes(n, Owners(n)) \in Nat
      /\ TotalBytes(n, Owners(n)) =< TotalBytes(m, Owners(m))
  BY OwnersCost, FewerBytes
<1> QED
  BY <1>1

LEMMA EvictWithin ==
  ASSUME Typed, Records, Evict
  PROVE  TotalBytes(entries', Owners(entries')) =< Budget
<1>1. entries \in Manifest /\ OwnRenders(entries)
  BY DEF Typed, TypeOK, Records
<1>2. PICK V \in Victims(entries) : entries' = Evicted(entries, V)
  BY DEF Evict
<1>3. V \in SUBSET Owners(entries) /\ TotalBytes(entries, Owners(entries) \ V) =< Budget
  BY DEF Victims
<1>4. entries' \in Manifest
  BY <1>1, <1>2, <1>3, EvictedType
<1>5. Owners(entries') \subseteq Owners(entries) /\ \A p \in Owners(entries') : entries'[p] = entries[p]
  BY <1>1, <1>2, <1>3, <1>4, EvictedShrinks, OwnShrink
<1>6. ASSUME NEW p \in V PROVE p \notin Owners(entries')
  <2>1. p \in Photo /\ entries[p] \in Entry
    BY <1>1, <1>3, OwnedBlob, TrackedEntry
  <2> QED
    BY <1>2, <2>1 DEF Evicted, Owners, Entry
<1>7. Owners(entries') \subseteq Owners(entries) \ V
  BY <1>5, <1>6
<1> DEFINE Q == Owners(entries) \ V
<1>8. Q \in SUBSET Photo /\ \A p \in Q : Size[entries[p].geom] \in Nat
  BY <1>1, OwnersCost
<1>9. \A p \in Owners(entries') : entries'[p].geom = entries[p].geom
  BY <1>5
<1> HIDE DEF Q
<1>10. /\ TotalBytes(entries, Q) \in Nat /\ TotalBytes(entries', Owners(entries')) \in Nat
       /\ TotalBytes(entries', Owners(entries')) =< TotalBytes(entries, Q)
  BY <1>7, <1>8, <1>9, FewerBytes DEF Q
<1>11. TotalBytes(entries, Q) =< Budget
  BY <1>3 DEF Q
<1> QED
  BY <1>10, <1>11

LEMMA WithinNext ==
  ASSUME Typed, Records, WithinBudget, [Next]_vars PROVE WithinBudget'
<1> USE DEF WithinBudget
<1>1. CASE Evict
  BY <1>1, EvictWithin
<1>2. ASSUME UNCHANGED entries, pc' \in {"save", "idle"} => pc \in {"save", "idle"}
      PROVE  WithinBudget'
  BY <1>2
<1>3. CASE pc' \notin {"save", "idle"}
  BY <1>3
<1>4. ASSUME NEW x \in Handler, Ask(x) \/ Serve(x) PROVE WithinBudget'
  <2>1. CASE ForgetBlob(x)
    <3>1. pc' = pc
      BY <2>1 DEF ForgetBlob
    <3> QED
      BY <2>1, <3>1, ForgetShrinks, StillWithin
  <2>2. CASE ~ForgetBlob(x)
    BY <1>2, <1>4, <2>2 DEF Ask, Serve, NoneReady, Pick, Stat, ServeImage, storeV
  <2> QED
    BY <2>1, <2>2
<1>5. CASE Sync \/ Render \/ Finish \/ Exit \/ Idle \/ PairStep \/ Crash
  <2>1. pc' \notin {"save", "idle"}
    BY <1>5 DEF Sync, VerifyBlobs, ListFails, ListUnauthorized, ListSucceeds, ListSeesBoth,
       DropStale, PutListed, Retain, Render, ReadGeometry, Snapshot, StartRender, EndRender, DownloadUnauthorized,
       RenderFails, RenderSucceeds, RemoveOld, CommitRender, SaveRender, Finish, Exit, Restart,
       Idle, TimerFires, WakeUp, PairStep, Crash
  <2> QED
    BY <1>3, <2>1
<1>6. CASE SaveCycle \/ UNCHANGED vars
  BY <1>2, <1>6 DEF SaveCycle, vars, storeV
<1>7. CASE \/ (\E p \in Photo : Select(p) \/ Edit(p) \/ Delete(p))
           \/ Revoke \/ Network \/ Stop \/ (\E b \in Blob : Wipe(b))
           \/ (\E p, q \in Photo : Move(p, q))
  BY <1>2, <1>7 DEF Move, Select, Edit, Delete, Revoke, Network, Stop, Wipe, storeV
<1> QED
  BY <1>1, <1>4, <1>5, <1>6, <1>7 DEF Next, Cycle, Environment

\* From Evict to the end of the cycle the recorded blobs, those of photos marked Skip
\* included, fit the budget whatever the sizes are (store.go Evict).
THEOREM BudgetKept == Spec => []WithinBudget
<1>1. Init => WithinBudget
  BY DEF Init, WithinBudget
<1>2. Typed /\ Records /\ WithinBudget /\ [Next]_vars => WithinBudget'
  BY WithinNext
<1> QED
  BY <1>1, <1>2, TypedAlways, RecordsAlways, PTL DEF Spec
=============================================================================
