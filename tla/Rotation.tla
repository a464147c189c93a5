------------------------------ MODULE Rotation ------------------------------
(***************************************************************************)
(* The order in which photos come round: pick in frame.go, LastShown and   *)
(* the least-recently-shown Evict in store.go, and Save as it really is, a *)
(* copy of live entries made after the store's lock has been released.     *)
(*                                                                         *)
(* The worker (pc) renders, saves, evicts, saves and waits; the handler of *)
(* the frontend's connection (call) picks a photo, marks it shown and      *)
(* replies.  Between any two of these steps the other may run.             *)
(*                                                                         *)
(* One panel, decodable photos and one ETag at a time: Frame.tla has the   *)
(* geometries, the failures and the listings that are left out here.       *)
(*                                                                         *)
(* LastShown is compared and never displayed, so a clock reading stands    *)
(* for its rank among those in use; 0 is the zero time of a photo that was *)
(* never shown.  The contents of the manifest file are abstracted to the   *)
(* set of photos whose record in it equals the entry in memory.            *)
(***************************************************************************)
EXTENDS Integers, FiniteSets

CONSTANTS
  N,          \* photos, numbered in the order of their hrefs
  MaxBlobs,   \* CacheBudgetBytes, in blobs of the panel's size
  Share,      \* pick draws from one Share-th of the candidates (4 in the code)
  Events,     \* what may happen: "edit", "wipe", "disk", "giveup", "crash"
  MaxEvents,  \* bound on their number
  None

Photo == 1 .. N
Stamp == 0 .. 2 * N + 1

ASSUME RotationAssumption ==
  /\ N \in Nat \ {0}
  /\ MaxBlobs \in Nat
  /\ Share \in Nat \ {0}
  /\ MaxEvents \in Nat
  /\ None \notin Photo

VARIABLES
  blob,     \* photos whose entry records a render
  disk,     \* photos whose render is on disk
  lastShown,
  todo,     \* the worker's copies still to be rendered
  copied,   \* LastShown in those copies, 0 for a photo without one
  pc, cur,  \* the worker: where it is, the photo it renders
  next,     \* where it goes when Save returns
  dirty,
  tmp,      \* Save: photos whose marshalled copy equals the entry
  saved,    \* photos whose record in manifest.json equals the entry
  failed,   \* the last Save that wrote has failed
  call,     \* the request: "resting", "asked", "picked", "served"
  picked,
  screen,   \* the photo on the panel, whose ID the frontend sends as `last'
  outdated, \* which of "picked" and "screen" has an older ETag than the entry
  events

store == <<blob, disk, lastShown, dirty>>
worker == <<todo, copied, pc, cur, next>>
file == <<tmp, saved, failed>>
request == <<call, picked, screen, outdated>>
vars == <<store, worker, file, request, events>>

\* The type of the state; a photo is picked exactly while a request is served.
TypeOK ==
  /\ blob \subseteq Photo /\ disk \subseteq Photo /\ todo \subseteq Photo
  /\ lastShown \in [Photo -> Stamp] /\ copied \in [Photo -> Stamp]
  /\ pc \in {"verify", "sync", "snapshot", "render", "put", "evict",
             "save", "marshal", "wait"}
  /\ cur \in Photo \cup {None} /\ next \in {"render", "wait"}
  /\ dirty \in BOOLEAN /\ failed \in BOOLEAN
  /\ tmp \subseteq Photo /\ saved \subseteq Photo
  /\ call \in {"resting", "asked", "picked", "served"}
  /\ picked \in Photo \cup {None} /\ (picked # None <=> call \in {"picked", "served"})
  /\ screen \in Photo \cup {None} /\ outdated \subseteq {"picked", "screen"}
  /\ events \in 0 .. MaxEvents

\* A first start, paired, with a listing of N photos and nothing rendered.
Init ==
  /\ blob = {} /\ disk = {} /\ todo = {}
  /\ lastShown = [p \in Photo |-> 0] /\ copied = [p \in Photo |-> 0]
  /\ pc = "verify" /\ cur = None /\ next = "wait"
  /\ dirty = TRUE /\ tmp = {} /\ saved = {} /\ failed = FALSE
  /\ call = "resting" /\ picked = None /\ screen = None /\ outdated = {}
  /\ events = 0

Happens(e) == e \in Events /\ events < MaxEvents /\ events' = events + 1

\* The entries of P change under the lock: no record in the file is current, and
\* the copy of a Save under way is the entry before or after the change.
Touch(P) ==
  /\ dirty' = (dirty \/ P # {})
  /\ saved' = saved \ P
  /\ tmp' \in {tmp, tmp \ P}
  /\ failed' = failed

-----------------------------------------------------------------------------
(* The worker. *)

Worker(from, to) == pc = from /\ pc' = to /\ UNCHANGED request

Verify ==
  /\ Worker("verify", "sync")
  /\ Touch(blob \ disk)
  /\ blob' = blob \cap disk
  /\ UNCHANGED <<disk, lastShown, todo, copied, cur, next, events>>

\* The listing names the photos already tracked.
SyncSame ==
  /\ Worker("sync", "snapshot")
  /\ UNCHANGED <<store, todo, copied, cur, next, file, events>>

\* Or one of them was edited: a new entry, never shown, with another ID, and its old
\* render deleted.
SyncEdited(p) ==
  /\ Happens("edit")
  /\ pc = "sync" /\ pc' = "snapshot"
  /\ Touch({p})
  /\ disk' = disk \ (blob \cap {p})
  /\ blob' = blob \ {p}
  /\ lastShown' = [lastShown EXCEPT ![p] = 0]
  /\ outdated' = outdated \cup (IF picked = p THEN {"picked"} ELSE {})
                          \cup (IF screen = p THEN {"screen"} ELSE {})
  /\ UNCHANGED <<todo, copied, cur, next, call, picked, screen>>

Snapshot ==
  /\ Worker("snapshot", "render")
  /\ todo' = Photo \ blob
  /\ copied' = [p \in Photo |-> IF p \in blob THEN 0 ELSE lastShown[p]]
  /\ UNCHANGED <<store, cur, next, file, events>>

Render(p) ==
  /\ Worker("render", "put")
  /\ p \in todo
  /\ todo' = todo \ {p}
  /\ cur' = p
  /\ disk' = disk \cup {p}
  /\ UNCHANGED <<blob, lastShown, dirty, copied, next, file, events>>

\* Put replaces the entry by the worker's copy, LastShown included.
PutRendered ==
  /\ Worker("put", "save")
  /\ Touch({cur})
  /\ blob' = blob \cup {cur}
  /\ lastShown' = [lastShown EXCEPT ![cur] = copied[cur]]
  /\ copied' = [copied EXCEPT ![cur] = 0]
  /\ next' = "render"
  /\ cur' = None
  /\ UNCHANGED <<disk, todo, events>>

EndRender ==
  /\ Worker("render", "evict")
  /\ todo = {}
  /\ UNCHANGED <<store, todo, copied, cur, next, file, events>>

\* Evict's victims: enough of the least recently shown, ties in any order.
Victims ==
  {V \in SUBSET blob :
     /\ Cardinality(blob \ V) = IF Cardinality(blob) > MaxBlobs
                                THEN MaxBlobs ELSE Cardinality(blob)
     /\ \A v \in V, p \in blob \ V : lastShown[v] =< lastShown[p]}

Evict(V) ==
  /\ V \in Victims
  /\ Worker("evict", "save")
  /\ Touch(V)
  /\ blob' = blob \ V
  /\ disk' = disk \ V
  /\ next' = "wait"
  /\ UNCHANGED <<lastShown, todo, copied, cur, events>>

TimerFires ==
  /\ Worker("wait", "verify")
  /\ UNCHANGED <<store, todo, copied, cur, next, file, events>>

-----------------------------------------------------------------------------
(* Save: the entries are collected and the flag cleared under the lock; each  *)
(* is marshalled at some time between that and the renaming, without it.      *)

SaveNothing ==
  /\ Worker("save", next)
  /\ ~dirty
  /\ UNCHANGED <<store, todo, copied, cur, next, file, events>>

Collect ==
  /\ Worker("save", "marshal")
  /\ dirty
  /\ dirty' = FALSE
  /\ tmp' = Photo
  /\ UNCHANGED <<blob, disk, lastShown, todo, copied, cur, next, saved, failed, events>>

\* Mutant: the flag is cleared once the file is in place.
DirtyAfterRenameCleared == FALSE

DirtyAfterRename == dirty

Rename ==
  /\ Worker("marshal", next)
  /\ saved' = tmp
  /\ tmp' = {} /\ failed' = FALSE
  /\ dirty' = DirtyAfterRename
  /\ UNCHANGED <<blob, disk, lastShown, todo, copied, cur, next, events>>

\* The temporary file cannot be created, written or renamed: the flag stays down.
SaveFails ==
  /\ Happens("disk")
  /\ Worker("marshal", next)
  /\ tmp' = {} /\ failed' = TRUE
  /\ UNCHANGED <<store, todo, copied, cur, next, saved>>

-----------------------------------------------------------------------------
(* The handler. *)

Staler(p, C) == {q \in C : lastShown[q] < lastShown[p]}

\* Mutant: the freshest come first.
DrawFreshest(C) ==
  {p \in C : Cardinality({q \in C : lastShown[q] > lastShown[p]}) = 0}

\* pick draws from the staler Share-th, from the stalest one at least.
Draw(C) ==
  {p \in C : LET window == Cardinality(C) \div Share IN
               Cardinality(Staler(p, C)) < IF window < 1 THEN 1 ELSE window}

\* Never what is already on screen when there is an alternative; an edited photo has
\* another ID than the version on the screen.
Candidates ==
  LET last == IF "screen" \in outdated THEN {} ELSE {screen} IN
    IF blob \subseteq last THEN blob ELSE blob \ last

\* The interval is over: the frontend connects.
Ask ==
  /\ call = "resting"
  /\ call' = "asked"
  /\ UNCHANGED <<store, worker, file, picked, screen, outdated, events>>

Pick(p) ==
  /\ call = "asked"
  /\ p \in Draw(Candidates)
  /\ call' = "picked" /\ picked' = p
  /\ UNCHANGED <<store, worker, file, screen, outdated, events>>

\* "Preparing photos...": the frontend forgets its photo.
NoneReady ==
  /\ call = "asked"
  /\ blob = {}
  /\ call' = "resting"
  /\ screen' = None /\ outdated' = {}
  /\ UNCHANGED <<store, worker, file, picked, events>>

InUse == ({lastShown[q] : q \in Photo} \cup {copied[q] : q \in Photo}) \ {0}
Rank(t) == Cardinality({s \in InUse : s =< t})

Now(p) == Cardinality(InUse) + 1

\* The render that was picked is there, and is not one of an older version.
Stands == picked \in disk /\ "picked" \notin outdated

MarkShown ==
  /\ call = "picked"
  /\ Stands
  /\ Touch({picked})
  /\ lastShown' = [q \in Photo |-> IF q = picked THEN Now(q) ELSE Rank(lastShown[q])]
  /\ copied' = [q \in Photo |-> Rank(copied[q])]
  /\ call' = "served"
  /\ UNCHANGED <<blob, disk, todo, pc, cur, next, picked, screen, outdated, events>>

\* The file is gone: ClearBlob of whatever the entry now records, and "Preparing
\* photos...".
ClearBlob ==
  /\ call = "picked"
  /\ ~Stands
  /\ Touch({picked} \cap blob)
  /\ blob' = blob \ {picked}
  /\ call' = "resting" /\ picked' = None /\ screen' = None /\ outdated' = {}
  /\ UNCHANGED <<disk, lastShown, worker, events>>

\* Mutant: the reply is sent, the connection stays in use.
DeliverOpen ==
  /\ call = "served"
  /\ screen' = picked /\ outdated' = {}
  /\ call' = "resting"
  /\ UNCHANGED <<store, worker, file, picked, events>>

Deliver ==
  /\ call = "served"
  /\ screen' = picked
  /\ outdated' = IF "picked" \in outdated THEN {"screen"} ELSE {}
  /\ call' = "resting" /\ picked' = None
  /\ UNCHANGED <<store, worker, file, events>>

\* The frontend had given up on the answer and keeps its photo.
GiveUp ==
  /\ Happens("giveup")
  /\ call = "served"
  /\ call' = "resting" /\ picked' = None /\ outdated' = outdated \ {"picked"}
  /\ UNCHANGED <<store, worker, file, screen>>

-----------------------------------------------------------------------------
Wipe(p) ==
  /\ Happens("wipe")
  /\ p \in disk
  /\ disk' = disk \ {p}
  /\ UNCHANGED <<blob, lastShown, dirty, worker, file, request>>

\* A kill and a restart: Open reads the file, whose record of a photo that has
\* changed since is an older one.
Crash ==
  /\ Happens("crash")
  /\ \E l \in [Photo \ saved -> Stamp], b \in SUBSET (Photo \ saved) :
       /\ \A p \in Photo \ saved : l[p] =< lastShown[p]
       /\ lastShown' = [p \in Photo |-> IF p \in saved THEN lastShown[p] ELSE l[p]]
       /\ blob' = (blob \cap saved) \cup b
  /\ dirty' = FALSE /\ saved' = Photo /\ tmp' = {} /\ failed' = FALSE
  /\ pc' = "verify" /\ todo' = {} /\ cur' = None /\ next' = "wait"
  /\ copied' = [p \in Photo |-> 0]
  /\ call' = "resting" /\ picked' = None /\ outdated' = outdated \ {"picked"}
  /\ UNCHANGED <<disk, screen>>

WorkerStep ==
  \/ Verify \/ SyncSame \/ Snapshot \/ PutRendered \/ EndRender
  \/ SaveNothing \/ Collect \/ Rename \/ TimerFires
  \/ \E p \in Photo : Render(p)
  \/ \E V \in SUBSET Photo : Evict(V)

Answer == Ask \/ NoneReady \/ MarkShown \/ ClearBlob \/ Deliver

Next ==
  \/ WorkerStep
  \/ Answer
  \/ SaveFails
  \/ GiveUp
  \/ Crash
  \/ \E p \in Photo : SyncEdited(p) \/ Pick(p) \/ Wipe(p)

Spec == Init /\ [][Next]_vars

\* The goroutines are scheduled, the frontend asks again, and rand.Intn does not
\* pass over for ever a photo it could draw.
FairSpec ==
  /\ Spec
  /\ WF_vars(WorkerStep)
  /\ WF_vars(Answer)
  /\ \A p \in Photo : SF_vars(Pick(p))

-----------------------------------------------------------------------------
\* Save loses no change: when the flag is down, no Save is under way and the last
\* one did not fail, every record in the file is the entry in memory, although
\* handlers mark and clear entries while they are being marshalled, and whatever an
\* earlier Save that failed has left out (store.go:90-126).
CleanMeansSaved ==
  ~dirty /\ ~failed /\ pc # "marshal" => saved = Photo

\* "Draw from the staler quarter so every photo comes round" (frame.go:581):
\* every selected photo is on the panel again and again.
ComesRound == \A p \in Photo : []<>(screen = p)
=============================================================================
