------------------------------- MODULE Frame -------------------------------
(***************************************************************************)
(* The picture frame's backend: backend/internal/frame over the store.     *)
(*                                                                         *)
(* One worker goroutine (Run) repeats Verify, syncOnce, renderPending,     *)
(* Evict, Save and then waits for its timer or for the wake channel.       *)
(* Request handlers (Next) run beside it, one per connection, and share    *)
(* with it the geometry and the client (under f.mu), the store (under its  *)
(* lock), the render directory and the wake channel.  A step is one        *)
(* critical section, one file operation or one server request, whichever   *)
(* another goroutine or a crash can come between.                          *)
(*                                                                         *)
(* The environment edits, moves and selects photos on the server, makes    *)
(* requests fail, wipes files, and stops or kills the process; together at *)
(* most MaxEvents times, and only in the ways named in Events.             *)
(***************************************************************************)
EXTENDS Store

CONSTANTS
  Handler,     \* connections a request may arrive on
  Guest,       \* those that belong to another client than the frontend
  Asks,        \* the geometry each connection's client declares
  Panel,       \* the geometry of the panel the frontend drives
  FirstETag,   \* the ETag each photo has at first
  Decodable,   \* ETags of contents render.Decode and render.Fit accept
  Events,      \* what the environment may do, see EventKinds
  MaxEvents,   \* bound on how often it does
  NoPhoto,     \* no href
  NoETag

EventKinds == {"select", "edit", "revoke", "list", "subfolder", "download",
               "offline", "disk", "wipe", "crash", "stop", "guest", "delete", "move"}

ASSUME FrameAssumption ==
  /\ Guest \subseteq Handler
  /\ Asks \in [Handler -> Geometry]
  /\ Panel \in Geometry
  /\ \A x \in Handler \ Guest : Asks[x] = Panel
  /\ FirstETag \in [Photo -> ETag]
  /\ \A p, q \in Photo : FirstETag[p] = FirstETag[q] => p = q
  /\ Decodable \subseteq ETag
  /\ Events \subseteq EventKinds
  /\ MaxEvents \in Nat
  /\ NoPhoto \notin Photo
  /\ NoETag \notin ETag

VARIABLES
  \* the server
  selected,  \* photos the configured tag, folder or favourites select
  etag,      \* current ETag of each photo
  used,      \* ETags given so far
  moved,     \* those that a move has carried to another href
  deleted,   \* photos that are gone from it, for as long as they are
  revoked,   \* the frame's app password has been revoked
  online,    \* the frame reaches the server
  events,    \* environment events so far
  \* the store and the render directory
  entries,   \* Store.entries
  dirty,     \* Store.dirty
  manifest,  \* the manifest file
  disk,      \* what each blob file is a render of, NoETag if there is no such file
  \* Frame's shared fields
  geometry,  \* width, height
  paired,    \* client # nil, which is also what auth.json says after a restart
  wake,      \* the wake channel holds a signal
  stopping,  \* ctx is cancelled
  \* the worker's own state
  pc,        \* where the worker is
  listing,   \* ETag the listing being applied gives each photo, NoETag if unlisted
  cur,       \* the photo the worker is changing
  target,    \* geometry renderPending read
  pending,   \* renderPending's copies of the entries left to render
  \* the handlers
  call       \* the request each connection is serving

files    == <<selected, etag, used, moved, deleted>>
server   == <<files, revoked, online>>
storeV   == <<entries, dirty, manifest>>
fields   == <<geometry, paired, stopping>>
worker   == <<listing, cur, target, pending>>
vars == <<server, events, storeV, disk, fields, wake, pc, worker, call>>

NoListing == [p \in Photo |-> NoETag]
NothingTracked == [p \in Photo |-> NoEntry]

Call == [at    : {"rest", "ready", "stat", "serve", "forget"},
         photo : Photo \cup {NoPhoto},
         blob  : Blob \cup {NoBlob},
         owes  : BOOLEAN]
\* photo # NoPhoto at rest: the last reply was that image.
Resting == [at |-> "rest", photo |-> NoPhoto, blob |-> NoBlob, owes |-> FALSE]

Init ==
  /\ selected \in SUBSET Photo
  /\ etag = FirstETag /\ used = {FirstETag[p] : p \in Photo}
  /\ moved = {} /\ deleted = {}
  /\ revoked = FALSE /\ online = TRUE
  /\ events = 0
  /\ entries = NothingTracked /\ dirty = FALSE /\ manifest = NothingTracked
  /\ disk = [b \in Blob |-> NoETag]
  /\ geometry = NoGeometry /\ paired = FALSE /\ stopping = FALSE
  /\ wake = FALSE
  /\ pc = "head"
  /\ listing = NoListing /\ cur = NoPhoto
  /\ target = NoGeometry /\ pending = NothingTracked
  /\ call = [x \in Handler |-> Resting]

-----------------------------------------------------------------------------
\* An environment event of kind e happens, or none does.
Happens(e) == e \in Events /\ events < MaxEvents /\ events' = events + 1
Quiet == events' = events

Present == {b \in Blob : disk[b] # NoETag}
Without(B) == [b \in Blob |-> IF b \in B THEN NoETag ELSE disk[b]]

\* Mutant: Save does not learn of it.
PutEntryQuietly(p, e) == entries' = Put(entries, p, e) /\ UNCHANGED dirty

\* Store.Put, from the worker.
PutEntry(p, e) == entries' = Put(entries, p, e) /\ dirty' = TRUE

\* Store.Save: a failed write has already dropped the dirty flag.
SaveManifest ==
  /\ dirty' = FALSE
  /\ \/ ~dirty /\ UNCHANGED manifest /\ Quiet
     \/ dirty /\ manifest' = entries /\ Quiet
     \/ dirty /\ UNCHANGED manifest /\ Happens("disk")

\* unpair: the credential goes, the store and the render directory stay.
Unpair == paired' = FALSE /\ UNCHANGED <<geometry, stopping>>

-----------------------------------------------------------------------------
\* Run, from the head of its loop to the listing.

Finish ==
  /\ pc = "head" /\ stopping
  /\ pc' = "done"
  /\ Quiet /\ UNCHANGED <<server, storeV, disk, fields, wake, worker, call>>

\* pairStep when the owner has approved the QR code; Pairing.tla has its steps.
PairStep ==
  /\ pc = "head" /\ ~stopping /\ ~paired /\ online
  /\ paired' = TRUE
  /\ revoked' = FALSE
  /\ Quiet
  /\ UNCHANGED <<files, online, storeV, disk, geometry, stopping, wake, pc, worker,
                 call>>

VerifyBlobs ==
  /\ pc = "head" /\ ~stopping /\ paired
  /\ entries' = Verify(entries, Present)
  /\ dirty' = (dirty \/ Missing(entries, Present) # {})
  /\ pc' = "list"
  /\ Quiet /\ UNCHANGED <<server, manifest, disk, fields, wake, worker, call>>

\* syncOnce: a listing that fails leaves the store alone.
ListFails ==
  /\ pc = "list"
  /\ Happens("list") \/ ((stopping \/ ~online) /\ Quiet)
  /\ pc' = "render"
  /\ UNCHANGED <<server, storeV, disk, fields, wake, worker, call>>

ListUnauthorized ==
  /\ pc = "list" /\ online /\ revoked
  /\ Unpair
  /\ pc' = "evict"
  /\ Quiet /\ UNCHANGED <<server, storeV, disk, wake, worker, call>>

\* A subfolder the walk cannot list is left out of an otherwise good listing.
ListSucceeds ==
  /\ pc = "list" /\ online /\ ~revoked
  /\ \E seen \in SUBSET selected :
       /\ \/ seen = selected /\ Quiet
          \/ seen # selected /\ Happens("subfolder")
       /\ listing' = [p \in Photo |-> IF p \in seen THEN etag[p] ELSE NoETag]
  /\ pc' = "diff"
  /\ UNCHANGED <<server, storeV, disk, fields, wake, cur, target, pending, call>>

\* The file at p is moved to q, where it replaces what was there; it keeps its ETag.
MoveFile(p, q) ==
  /\ Happens("move") /\ p # q /\ p \notin deleted
  /\ etag' = [etag EXCEPT ![q] = etag[p]]
  /\ moved' = moved \cup {etag[p]}
  /\ deleted' = (deleted \cup {p}) \ {q}
  /\ UNCHANGED <<used, revoked, online>>

\* It is moved while folders are listed, out of one the walk has seen into one it
\* has not: the listing has it at both hrefs.
ListSeesBoth(p, q) ==
  /\ pc = "list" /\ online /\ ~revoked
  /\ p \in selected /\ MoveFile(p, q)
  /\ selected' = (selected \ {p}) \cup {q}
  /\ listing' = [r \in Photo |-> IF r \in selected \cup {q} THEN etag'[r] ELSE NoETag]
  /\ pc' = "diff"
  /\ UNCHANGED <<storeV, disk, fields, wake, cur, target, pending, call>>

Listed == {p \in Photo : listing[p] # NoETag}

\* Mutant: a known href is up to date.
ChangedIfNew == Listed \ Tracked(entries)

\* Listed photos that are new or whose ETag changed.
Changed ==
  {p \in Listed : p \in Tracked(entries) => entries[p].etag # listing[p]}

Unrendered(e) ==
  [etag |-> e, blob |-> NoBlob, geom |-> NoGeometry, skip |-> FALSE]

\* The render of a changed photo is removed first; its record follows in PutListed.
DropStale(p) ==
  /\ pc = "diff" /\ p \in Changed
  /\ cur' = p
  /\ disk' = IF p \in Owners(entries) THEN Without({entries[p].blob}) ELSE disk
  /\ pc' = "put"
  /\ Quiet
  /\ UNCHANGED <<server, storeV, fields, wake, listing, target, pending, call>>

PutListed ==
  /\ pc = "put"
  /\ PutEntry(cur, Unrendered(listing[cur]))
  /\ cur' = NoPhoto
  /\ pc' = "diff"
  /\ Quiet
  /\ UNCHANGED <<server, manifest, disk, fields, wake, listing, target, pending,
                 call>>

\* RetainOnly drops what is no longer listed and deletes its files.
Retain ==
  /\ pc = "diff" /\ Changed = {}
  /\ LET gone == Tracked(entries) \ Listed IN
       /\ entries' = RetainOnly(entries, Listed)
       /\ disk' = Without(Blobs(entries, gone \cap Owners(entries)))
       /\ dirty' = (dirty \/ gone # {})
  /\ listing' = NoListing
  /\ pc' = "render"
  /\ Quiet
  /\ UNCHANGED <<server, manifest, fields, wake, cur, target, pending, call>>

-----------------------------------------------------------------------------
\* renderPending

\* Nothing is rendered before a client has declared a geometry.
ReadGeometry ==
  /\ pc = "render"
  /\ target' = geometry
  /\ \/ geometry = NoGeometry /\ pc' = "evict" /\ Quiet
     \/ geometry # NoGeometry /\ pc' = "evict" /\ Happens("disk")   \* MkdirAll
     \/ geometry # NoGeometry /\ pc' = "snapshot" /\ Quiet
  /\ UNCHANGED <<server, storeV, disk, fields, wake, listing, cur, pending, call>>

Snapshot ==
  /\ pc = "snapshot"
  /\ pending' = [p \in Photo |->
                   IF p \in Renderable(entries, target) THEN entries[p] ELSE NoEntry]
  /\ pc' = "loop"
  /\ Quiet
  /\ UNCHANGED <<server, storeV, disk, fields, wake, listing, cur, target, call>>

StartRender(p) ==
  /\ pc = "loop" /\ ~stopping /\ p \in Tracked(pending)
  /\ cur' = p
  /\ pc' = "fetch"
  /\ Quiet
  /\ UNCHANGED <<server, storeV, disk, fields, wake, listing, target, pending,
                 call>>

EndRender ==
  /\ pc = "loop" /\ (stopping \/ Tracked(pending) = {})
  /\ pending' = NothingTracked
  /\ pc' = "evict"
  /\ Quiet
  /\ UNCHANGED <<server, storeV, disk, fields, wake, listing, cur, target, call>>

\* Mutant: keyed on the version downloaded.
OutputAsDownloaded == BlobID(etag[cur], target)

\* The file renderOne writes: keyed on the ETag listed, not on what was downloaded.
Output == BlobID(pending[cur].etag, target)

DownloadUnauthorized ==
  /\ pc = "fetch" /\ online /\ revoked
  /\ Unpair
  /\ cur' = NoPhoto
  /\ pending' = NothingTracked
  /\ pc' = "evict"
  /\ Quiet
  /\ UNCHANGED <<server, storeV, disk, wake, listing, target, call>>

\* Every other failure of renderOne, whatever its cause, marks the photo Skip.
RenderFails ==
  /\ pc = "fetch"
  /\ \/ Happens("download")
     \/ Happens("disk")
     \/ /\ \/ stopping
           \/ ~online
           \/ ~revoked /\ cur \in deleted
           \/ ~revoked /\ etag[cur] \notin Decodable
        /\ Quiet
  /\ PutEntry(cur, [pending[cur] EXCEPT !.skip = TRUE])
  /\ cur' = NoPhoto
  /\ pending' = Put(pending, cur, NoEntry)
  /\ pc' = "loop"
  /\ UNCHANGED <<server, manifest, disk, fields, wake, listing, target, call>>

\* Download, Decode, Fit and writeAtomic.
RenderSucceeds ==
  /\ pc = "fetch" /\ online /\ ~revoked
  /\ cur \notin deleted /\ etag[cur] \in Decodable
  /\ disk' = [disk EXCEPT ![Output] = etag[cur]]
  /\ pc' = IF pending[cur].blob \in {NoBlob, Output} THEN "commit" ELSE "unlink"
  /\ Quiet
  /\ UNCHANGED <<server, storeV, fields, wake, worker, call>>

RemoveOld ==
  /\ pc = "unlink"
  /\ disk' = Without({pending[cur].blob})
  /\ pc' = "commit"
  /\ Quiet
  /\ UNCHANGED <<server, storeV, fields, wake, worker, call>>

Rendered == [etag |-> pending[cur].etag, blob |-> Output,
             geom |-> target, skip |-> FALSE]

CommitRender ==
  /\ pc = "commit"
  /\ PutEntry(cur, Rendered)
  /\ cur' = NoPhoto
  /\ pending' = Put(pending, cur, NoEntry)
  /\ pc' = "persist"
  /\ Quiet
  /\ UNCHANGED <<server, manifest, disk, fields, wake, listing, target, call>>

SaveRender ==
  /\ pc = "persist"
  /\ SaveManifest
  /\ pc' = "loop"
  /\ UNCHANGED <<server, entries, disk, fields, wake, worker, call>>

-----------------------------------------------------------------------------
\* The end of a cycle.

Evict ==
  /\ pc = "evict"
  /\ \E V \in Victims(entries) :
       /\ entries' = Evicted(entries, V)
       /\ disk' = Without(Blobs(entries, V))
       /\ dirty' = (dirty \/ V # {})
  /\ pc' = "save"
  /\ Quiet
  /\ UNCHANGED <<server, manifest, fields, wake, worker, call>>

SaveCycle ==
  /\ pc = "save"
  /\ SaveManifest
  /\ pc' = "idle"
  /\ UNCHANGED <<server, entries, disk, fields, wake, worker, call>>

\* time.After(SyncInterval), or ctx.Done.
TimerFires ==
  /\ pc = "idle"
  /\ pc' = "head"
  /\ Quiet
  /\ UNCHANGED <<server, storeV, disk, fields, wake, worker, call>>

WakeUp ==
  /\ pc = "idle" /\ wake
  /\ wake' = FALSE
  /\ pc' = "head"
  /\ Quiet
  /\ UNCHANGED <<server, storeV, disk, fields, worker, call>>

\* The process starts again from the manifest file m.
Restart(m) ==
  /\ entries' = m
  /\ geometry' = NoGeometry /\ wake' = FALSE /\ stopping' = FALSE
  /\ pc' = "head"
  /\ listing' = NoListing /\ cur' = NoPhoto
  /\ target' = NoGeometry /\ pending' = NothingTracked
  /\ call' = [x \in Handler |-> Resting]
  /\ UNCHANGED <<server, disk, paired>>

\* main saves once more after Run returns; systemd starts the process again.
Exit ==
  /\ pc = "done"
  /\ SaveManifest
  /\ Restart(manifest')

-----------------------------------------------------------------------------
\* Next, one request on connection x.

\* Mutant: the signal is not sent.
ReplySilently(x, p, b) ==
  /\ UNCHANGED wake
  /\ call' = [call EXCEPT ![x] = [Resting EXCEPT !.photo = p, !.blob = b]]

\* The reply: the deferred signal is sent and the connection is free again.
Reply(x, p, b) ==
  /\ wake' = (wake \/ call[x].owes)
  /\ call' = [call EXCEPT ![x] = [Resting EXCEPT !.photo = p, !.blob = b]]

\* Mutant: only a first geometry wakes the worker.
NewGeometryFirst(x) == geometry = NoGeometry

\* The worker has to render again for the client on x.
NewGeometry(x) == geometry # Asks[x]

\* Under f.mu: note the geometry and read the client.  Unpaired, the reply is the
\* QR code or a message.
Ask(x) ==
  /\ call[x].at = "rest"
  /\ IF x \in Guest THEN Happens("guest") ELSE Quiet
  /\ geometry' = Asks[x]
  /\ LET owes == NewGeometry(x) IN
       \/ /\ paired
          /\ call' = [call EXCEPT ![x] =
                        [Resting EXCEPT !.at = "ready", !.owes = owes]]
          /\ UNCHANGED wake
       \/ /\ ~paired
          /\ call' = [call EXCEPT ![x] = Resting]
          /\ wake' = (wake \/ owes)
  /\ UNCHANGED <<server, storeV, disk, paired, stopping, pc, worker>>

Serving(x) == call[x].at = "ready"

\* Nothing is ready at the geometry of the request.
NoneReady(x) ==
  /\ Serving(x) /\ Ready(entries, Asks[x]) = {}
  /\ Reply(x, NoPhoto, NoBlob)
  /\ Quiet /\ UNCHANGED <<server, storeV, disk, fields, pc, worker>>

\* Ready and pick: the handler works on a copy of the entry from here on.
Pick(x, p) ==
  /\ Serving(x) /\ p \in Ready(entries, Asks[x])
  /\ call' = [call EXCEPT ![x] =
                [@ EXCEPT !.at = "stat", !.photo = p, !.blob = entries[p].blob]]
  /\ Quiet /\ UNCHANGED <<server, storeV, disk, fields, wake, pc, worker>>

Stat(x) ==
  /\ call[x].at = "stat"
  /\ call' = [call EXCEPT ![x].at =
                IF call[x].blob \in Present THEN "serve" ELSE "forget"]
  /\ Quiet /\ UNCHANGED <<server, storeV, disk, fields, wake, pc, worker>>

\* MarkShown, and the image is the reply.
ServeImage(x) ==
  /\ call[x].at = "serve"
  /\ dirty' = (dirty \/ call[x].photo \in Tracked(entries))
  /\ Reply(x, call[x].photo, call[x].blob)
  /\ Quiet
  /\ UNCHANGED <<server, entries, manifest, disk, fields, pc, worker>>

\* The blob was gone: ClearBlob whatever the record names by now, wake the worker.
ForgetBlob(x) ==
  /\ call[x].at = "forget"
  /\ entries' = ClearBlob(entries, call[x].photo)
  /\ dirty' = (dirty \/ call[x].photo \in Owners(entries))
  /\ wake' = TRUE
  /\ call' = [call EXCEPT ![x] = Resting]
  /\ Quiet
  /\ UNCHANGED <<server, manifest, disk, fields, pc, worker>>

-----------------------------------------------------------------------------
\* The environment.

\* The owner tags or untags a photo; its file stays where it is.
Select(p) ==
  /\ Happens("select")
  /\ \/ p \in selected /\ selected' = selected \ {p}
     \/ p \notin selected \cup deleted /\ selected' = selected \cup {p}
  /\ UNCHANGED <<etag, used, moved, deleted, revoked, online, storeV, disk, fields,
                 wake, pc, worker, call>>

\* A new version of the file is uploaded, under a new ETag.
Edit(p) ==
  /\ Happens("edit")
  /\ \E e \in ETag \ used :
       /\ etag' = [etag EXCEPT ![p] = e]
       /\ used' = used \cup {e}
  /\ deleted' = deleted \ {p}
  /\ UNCHANGED <<selected, moved, revoked, online, storeV, disk, fields, wake, pc,
                 worker, call>>

\* The file is moved, within the selection, into it or out of it.
Move(p, q) ==
  /\ MoveFile(p, q)
  /\ \/ selected' = selected \ {p, q}
     \/ selected' = (selected \ {p}) \cup {q}
  /\ UNCHANGED <<storeV, disk, fields, wake, pc, worker, call>>

Delete(p) ==
  /\ Happens("delete") /\ p \notin deleted
  /\ deleted' = deleted \cup {p}
  /\ selected' = selected \ {p}
  /\ UNCHANGED <<etag, used, moved, revoked, online, storeV, disk, fields, wake, pc,
                 worker, call>>

\* The owner revokes the frame's app password.
Revoke ==
  /\ Happens("revoke") /\ paired /\ ~revoked
  /\ revoked' = TRUE
  /\ UNCHANGED <<files, online, storeV, disk, fields, wake, pc, worker, call>>

\* The network goes away, or comes back.
Network ==
  /\ Happens("offline")
  /\ online' = ~online
  /\ UNCHANGED <<files, revoked, storeV, disk, fields, wake, pc, worker, call>>

\* A blob disappears: a wiped cache, a damaged card.
Wipe(b) ==
  /\ Happens("wipe") /\ b \in Present
  /\ disk' = Without({b})
  /\ UNCHANGED <<server, storeV, fields, wake, pc, worker, call>>

\* SIGTERM.
Stop ==
  /\ Happens("stop") /\ ~stopping
  /\ stopping' = TRUE
  /\ UNCHANGED <<server, storeV, disk, geometry, paired, wake, pc, worker, call>>

Crash ==
  /\ Happens("crash")
  /\ Restart(manifest)
  /\ dirty' = FALSE /\ UNCHANGED manifest

-----------------------------------------------------------------------------
Sync == \/ VerifyBlobs \/ ListFails \/ ListUnauthorized \/ ListSucceeds
        \/ (\E p, q \in Photo : ListSeesBoth(p, q))
        \/ (\E p \in Photo : DropStale(p)) \/ PutListed \/ Retain

Render == \/ ReadGeometry \/ Snapshot
          \/ (\E p \in Photo : StartRender(p)) \/ EndRender
          \/ DownloadUnauthorized \/ RenderFails \/ RenderSucceeds
          \/ RemoveOld \/ CommitRender \/ SaveRender

Cycle == Finish \/ Sync \/ Render \/ Evict \/ SaveCycle \/ Exit

Idle == TimerFires \/ WakeUp

Serve(x) == \/ NoneReady(x) \/ (\E p \in Photo : Pick(x, p)) \/ Stat(x)
            \/ ServeImage(x) \/ ForgetBlob(x)

Environment == \/ (\E p \in Photo : Select(p) \/ Edit(p) \/ Delete(p))
               \/ (\E p, q \in Photo : Move(p, q))
               \/ Revoke \/ Network \/ Stop \/ Crash \/ (\E b \in Blob : Wipe(b))

Next == \/ Cycle \/ Idle \/ PairStep
        \/ (\E x \in Handler : Ask(x) \/ Serve(x))
        \/ Environment

Spec == Init /\ [][Next]_vars

(***************************************************************************)
(* Fairness: goroutines are scheduled, the interval timer fires, and the   *)
(* frontend asks again after every answer (main.cpp's loop).  Nothing is   *)
(* assumed of guests or of faults; of the owner, in FairSpec only, that    *)
(* the QR code is scanned.                                                 *)
(***************************************************************************)
Fairness ==
  /\ WF_vars(Cycle) /\ WF_vars(Idle)
  /\ \A x \in Handler : WF_vars(Serve(x))
  /\ \A x \in Handler \ Guest : WF_vars(Ask(x))

FairSpec == Spec /\ Fairness /\ WF_vars(PairStep)

-----------------------------------------------------------------------------
Steps == {"head", "list", "diff", "put", "render", "snapshot", "loop", "fetch",
          "unlink", "commit", "persist", "evict", "save", "idle", "done"}

TypeOK ==
  /\ selected \in SUBSET Photo /\ etag \in [Photo -> ETag]
  /\ used \in SUBSET ETag /\ moved \in SUBSET ETag
  /\ deleted \in SUBSET Photo /\ revoked \in BOOLEAN
  /\ online \in BOOLEAN /\ events \in 0 .. MaxEvents
  /\ entries \in Manifest /\ dirty \in BOOLEAN /\ manifest \in Manifest
  /\ disk \in [Blob -> ETag \cup {NoETag}]
  /\ geometry \in Geometry \cup {NoGeometry}
  /\ paired \in BOOLEAN /\ wake \in BOOLEAN /\ stopping \in BOOLEAN
  /\ pc \in Steps
  /\ listing \in [Photo -> ETag \cup {NoETag}]
  /\ cur \in Photo \cup {NoPhoto}
  /\ target \in Geometry \cup {NoGeometry}
  /\ pending \in Manifest
  /\ call \in [Handler -> Call]

-----------------------------------------------------------------------------
(***************************************************************************)
(* Safety.                                                                 *)
(***************************************************************************)

\* A record only ever names the render made for its own ETag and geometry, whatever
\* was edited, moved or cleared while it was made: what Next serves for an href is
\* never filed under another picture or another panel size (frame.go 470-482,
\* store.go ClearBlob).
RecordsOwnRender ==
  \A p \in Owners(entries) :
    LET e == entries[p] IN e.geom # NoGeometry /\ e.blob = BlobID(e.etag, e.geom)

\* Unless something outside the program deletes files, a recorded blob is on disk
\* from the end of Verify on, except that of the photo being replaced, between the
\* removal of its old file and the Put that follows it (frame.go 286-289, 475-478),
\* and that of a file which was moved: its old and its new href, if both are tracked,
\* share one blob, and whichever entry goes first takes it away (store.go 50-53, 160).
NoDangling ==
  pc \notin {"head", "done"} =>
    \A p \in Owners(entries) :
      \/ entries[p].blob \in Present
      \/ p = cur /\ pc \in {"put", "commit"}
      \/ entries[p].etag \in moved

\* From Evict to the end of the cycle the recorded blobs fit the budget, those of
\* photos marked Skip included: nothing a handler does in between adds to them
\* (store.go Evict).
WithinBudget ==
  pc \in {"save", "idle"} =>
    TotalBytes(entries, Owners(entries)) =< Budget

\* The worker waits with nothing left to wake it up: no signal is queued and none
\* is owed by a request that has changed the geometry.
Asleep ==
  /\ pc = "idle" /\ paired /\ ~stopping /\ ~wake
  /\ \A x \in Handler : ~call[x].owes

\* A worker asleep has left nothing undone: every tracked photo is rendered for the
\* geometry of the latest request, was marked Skip, or was evicted.  A geometry that
\* changes while the worker renders for another, and a blob found missing after it
\* was passed over, are each followed by a wakeup (frame.go 139-153, 513-517, 550-553).
AsleepMeansDone ==
  Asleep /\ geometry # NoGeometry =>
    \A p \in Tracked(entries) :
      \/ entries[p].skip
      \/ p \in Ready(entries, geometry)
      \/ entries[p].blob = NoBlob /\ entries[p].geom # NoGeometry

\* An image reply is a render at the geometry of the request it answers, however
\* the frame's geometry changed while the request was served (frame.go 536-560).
ServedFits ==
  \A x \in Handler : call[x].photo # NoPhoto =>
    \E e \in ETag : call[x].blob = BlobID(e, Asks[x])

\* While saves succeed, a clean flag means the manifest file is up to date: no step
\* changes an entry without Save learning of it (store.go 90-126).
CleanMeansSaved == ~dirty => manifest = entries

-----------------------------------------------------------------------------
(***************************************************************************)
(* Liveness.                                                               *)
(***************************************************************************)

\* The cache mirrors the server: exactly the selected photos are tracked, at their
\* current ETag, and every decodable one is ready for the panel with the pixels of
\* that version.  A file that was not where the listing had it and has been moved back
\* there since stays marked Skip: its ETag is the same.
Settled ==
  /\ Tracked(entries) = selected
  /\ \A p \in selected :
       /\ entries[p].etag = etag[p]
       /\ etag[p] \in Decodable =>
            \/ p \in Ready(entries, Panel) /\ disk[entries[p].blob] = etag[p]
            \/ entries[p].skip /\ etag[p] \in moved

\* Once the owner leaves the photos alone and requests stop failing, the cache
\* comes to mirror the server and stays so, a blob that two hrefs shared included
\* (frame.go Run, store.go Verify).
Converges == <>[]Settled

-----------------------------------------------------------------------------
(***************************************************************************)
(* What a comment says of the program, and a run refutes.                  *)
(***************************************************************************)

\* main.go 64-65 of the backend: "a frame with no network keeps serving cached
\* photos": once some photo is ready for the panel there is always one again.
SomeReady == Ready(entries, Panel) # {}
KeepsServing == [](SomeReady => []<>SomeReady)
=============================================================================
