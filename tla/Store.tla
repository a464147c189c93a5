------------------------------- MODULE Store -------------------------------
(***************************************************************************)
(* The photo manifest of backend/internal/store: which remote photos are   *)
(* tracked, and which of them own a rendered blob.  Every operation of the *)
(* store runs under the store's lock, so each is one operator from an      *)
(* `entries' map to the next; Frame.tla makes them the steps of the worker *)
(* and of the request handlers.                                            *)
(*                                                                         *)
(* A photo stands for its href, an ETag for the contents a file has under  *)
(* it: a file that is moved keeps its ETag, so two hrefs may bear the same *)
(* one.  LastShown is left out: an eviction may take any order, a request  *)
(* may pick any ready photo.                                               *)
(***************************************************************************)
EXTENDS Integers, FiniteSets

CONSTANTS
  Photo,       \* hrefs the server may list
  ETag,        \* ETags the server may give
  Geometry,    \* panel sizes a client may declare
  Size,        \* bytes of one RGB565 blob at a geometry
  Budget,      \* CacheBudgetBytes
  NoEntry,     \* href absent from the manifest
  NoBlob,      \* Blob = ""
  NoGeometry   \* Width = Height = 0

\* BlobID: the file name of a render is a function of the ETag and the geometry,
\* and not of the href.
BlobID(e, g) == <<e, g>>
Blob == ETag \X Geometry

Entry == [etag : ETag,
          blob : Blob \cup {NoBlob},
          geom : Geometry \cup {NoGeometry},
          skip : BOOLEAN]

Manifest == [Photo -> Entry \cup {NoEntry}]

ASSUME StoreAssumption ==
  /\ IsFiniteSet(Photo)
  /\ Size \in [Geometry -> Nat]
  /\ Budget \in Nat
  /\ NoEntry \notin Entry
  /\ NoBlob \notin Blob
  /\ NoGeometry \notin Geometry

Tracked(m) == {p \in Photo : m[p] # NoEntry}
Owners(m) == {p \in Tracked(m) : m[p].blob # NoBlob}
Blobs(m, P) == {m[p].blob : p \in P}

Put(m, p, e) == [m EXCEPT ![p] = e]

\* ClearBlob and Verify forget a render and its geometry; the photo stays.
Cleared(e) == [e EXCEPT !.blob = NoBlob, !.geom = NoGeometry]

ClearBlob(m, p) ==
  IF p \in Owners(m) THEN Put(m, p, Cleared(m[p])) ELSE m

Missing(m, present) == {p \in Owners(m) : m[p].blob \notin present}

Verify(m, present) ==
  [p \in Photo |-> IF p \in Missing(m, present) THEN Cleared(m[p]) ELSE m[p]]

RetainOnly(m, keep) == [p \in Photo |-> IF p \in keep THEN m[p] ELSE NoEntry]

Renderable(m, g) ==
  {p \in Tracked(m) : ~m[p].skip /\ ~(m[p].blob # NoBlob /\ m[p].geom = g)}

\* Mutant: whatever has a blob.
ReadyAnySize(m, g) == {p \in Owners(m) : ~m[p].skip}

Ready(m, g) ==
  {p \in Owners(m) : m[p].geom = g /\ ~m[p].skip}

-----------------------------------------------------------------------------
\* The bytes of the blobs of P: BlobBytes of an entry is the size of a blob at the
\* entry's geometry.  Their number is the total Evict adds up.
Bytes(m, P) == UNION {{p} \X (1 .. Size[m[p].geom]) : p \in P}
TotalBytes(m, P) == Cardinality(Bytes(m, P))

\* Mutant: blobs of photos marked Skip are not counted.
VictimsShown(m) ==
  LET shown == {p \in Owners(m) : ~m[p].skip} IN
    {V \in SUBSET shown :
       /\ TotalBytes(m, shown \ V) =< Budget
       /\ V # {} => \E last \in V : TotalBytes(m, (shown \ V) \cup {last}) > Budget}

\* Evict deletes blobs one at a time while the total exceeds the budget: a set of
\* victims is possible when what remains fits and, before the last one, did not.
Victims(m) ==
  {V \in SUBSET Owners(m) :
     /\ TotalBytes(m, Owners(m) \ V) =< Budget
     /\ V # {} =>
          \E last \in V : TotalBytes(m, (Owners(m) \ V) \cup {last}) > Budget}

\* Mutant: the files go, the records stay.
EvictedFilesOnly(m, V) == m

\* Only the blob and its size are forgotten: Width and Height stay as they were.
Evicted(m, V) ==
  [p \in Photo |-> IF p \in V THEN [m[p] EXCEPT !.blob = NoBlob] ELSE m[p]]
=============================================================================
