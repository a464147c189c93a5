------------------------------ MODULE FrameInv ------------------------------
(***************************************************************************)
(* The inductive invariant behind Frame's safety properties.  MCFrame has  *)
(* TLC check it, the _proofs modules prove it.                             *)
(***************************************************************************)
EXTENDS Frame

\* What a worker that has chosen a photo works on.
CurOK ==
  /\ pc = "put" => cur \in Photo /\ listing[cur] # NoETag
  /\ pc \in {"fetch", "unlink", "commit"} => cur \in Tracked(pending) /\ target \in Geometry
  /\ pc \in {"snapshot", "loop", "persist"} => target \in Geometry
  /\ pc \notin {"put", "fetch", "unlink", "commit"} => cur = NoPhoto

\* A handler past Pick holds a photo and the name of a blob; one at rest owes nothing.
CallOK == \A x \in Handler :
  /\ call[x].at \in {"stat", "serve", "forget"} =>
       call[x].photo \in Photo /\ call[x].blob \in Blob
  /\ call[x].at = "rest" => ~call[x].owes

Typed == TypeOK /\ CurOK /\ CallOK

\* RecordsOwnRender, of the manifest file and of the worker's copies too.
OwnRenders(m) ==
  \A p \in Owners(m) :
    m[p].geom # NoGeometry /\ m[p].blob = BlobID(m[p].etag, m[p].geom)

\* Where an ETag is found: on the server, in the listing being applied, in the store,
\* its file and the worker's copies.
Bears(p, e) ==
  \/ e \in {etag[p], listing[p]}
  \/ \E m \in {entries, manifest, pending} : p \in Tracked(m) /\ m[p].etag = e

\* Only a move makes two hrefs bear one ETag.
OneHref ==
  /\ \A p \in Photo, e \in ETag : Bears(p, e) => e \in used
  /\ \A p, q \in Photo, e \in ETag \ moved : Bears(p, e) /\ Bears(q, e) => p = q

Records == OwnRenders(entries) /\ OwnRenders(manifest) /\ OwnRenders(pending)

\* renderPending's own files: the copies it holds still name files on disk, unless
\* moved, and the render it is about to record has been written.
Rendering == {"loop", "fetch", "unlink", "commit", "persist"}

Kept ==
  /\ pc \in Rendering =>
       \A p \in Owners(pending) :
         \/ pending[p].blob \in Present
         \/ p = cur /\ pc = "commit"
         \/ pending[p].etag \in moved
  /\ pc \in {"unlink", "commit"} => Output \in Present
  /\ pc = "unlink" => pending[cur].blob \notin {NoBlob, Output}

\* A change of geometry the worker has not seen is announced.
Owed == wake \/ \E x \in Handler : call[x].owes

Announced ==
  pc \in Rendering \cup {"snapshot", "evict", "save", "idle"} /\ paired =>
    geometry = target \/ Owed

\* Every photo is accounted for once renderPending has taken its list.
AccountedFor ==
  /\ pc \in Rendering \cup {"evict", "save", "idle"}
  /\ paired /\ ~stopping /\ ~wake /\ target # NoGeometry
  => \A p \in Tracked(entries) :
       \/ entries[p].skip
       \/ p \in Ready(entries, target)
       \/ p \in Tracked(pending)
       \/ entries[p].blob = NoBlob /\ entries[p].geom # NoGeometry

\* Only renderPending holds copies.
NoCopies == pc \notin Rendering => pending = NothingTracked

StrongInv ==
  Typed /\ Records /\ OneHref /\ Kept /\ Announced /\ AccountedFor /\ NoCopies
=============================================================================
