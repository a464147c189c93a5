------------------------------ MODULE Frontend ------------------------------
(***************************************************************************)
(* The frontend process: the main loop of src/main.cpp, the worker thread  *)
(* of src/ipc_client.cpp, the two layers of src/slideshow.cpp, the mapped  *)
(* blobs of src/frame_image.cpp and the notices of src/pairing_screen.cpp. *)
(*                                                                         *)
(* The main thread is the only one to touch LVGL, so an iteration of its   *)
(* loop is a step, and so is an animation frame or a redraw it runs in     *)
(* lv_timer_handler.  The worker thread runs one exchange with the backend *)
(* at a time beside it.  The backend is external: it answers with any      *)
(* well-typed reply, with an error, or not at all.  No relation is assumed *)
(* between the interval and the length of a fade: both are settings.       *)
(*                                                                         *)
(* A Slot is an address a FrameImage may be created at: it comes back once *)
(* the image there is gone.                                                *)
(***************************************************************************)
EXTENDS Integers, FiniteSets

CONSTANTS
  Photo,  \* blobs the backend may name
  Url,    \* login URLs it may ask to show as a QR code
  Text,   \* messages it may ask to show
  Slot,   \* addresses of FrameImages
  Full,   \* LV_OPA_COVER: the animation frames of a fade
  None    \* no reply, image, source, animation, mapping or label

Reply == Photo \cup Url \cup Text \cup {None}

ASSUME FrontendAssumption ==
  /\ Full \in Nat \ {0}
  /\ None \notin Photo \cup Url \cup Text \cup Slot \cup {"a", "b", "pairing"}
  /\ Photo \cap (Url \cup Text) = {} /\ Url \cap Text = {}

VARIABLES
  \* the main loop
  phase,     \* "loop", "joining" in ~IpcClient, or "gone"
  due,       \* next_request has come
  last,      \* last_id
  \* the IPC client
  request,   \* the pending future: "none", "queued", "running" or "answered"
  reply,     \* the value it holds
  \* Slideshow
  front,     \* object of m_front; m_back has the other
  fading,    \* m_fading
  image,     \* the FrameImage each layer owns
  \* FrameImages
  photo,     \* the blob mapped at each address
  \* LVGL
  src,       \* source of each image object, None for blank_image
  opa,       \* its opacity
  anim,      \* the object being faded in
  hidden,    \* LV_OBJ_FLAG_HIDDEN
  above,     \* <<v, w>>: v is drawn over w
  cache,     \* the blob LVGL's image cache has for each address
  \* PairingScreen
  label,     \* the URL or message its labels show
  qr,        \* the URL its QR code encodes
  encoded,   \* m_encoded_url
  qrHidden   \* the code is hidden

Layer == {"a", "b"}
Widget == Layer \cup {"pairing"}

loopV  == <<phase, due, last>>
ipc    == <<request, reply>>
slides == <<front, fading, image, photo, src, opa, anim, cache>>
notice == <<label, qr, encoded, qrHidden>>
vars == <<loopV, ipc, slides, hidden, above, notice>>

Other(o) == CHOOSE w \in Layer : w # o
Back == Other(front)

\* lv_obj_move_foreground.
Raise(order, w) ==
  {pair \in order : w \notin {pair[1], pair[2]}} \cup {<<w, v>> : v \in Widget \ {w}}

\* The constructors: two blank, transparent layers and a hidden pairing screen.
Init ==
  /\ phase = "loop" /\ due = TRUE /\ last = None
  /\ request = "none" /\ reply = None
  /\ front = "a" /\ fading = FALSE
  /\ image = [o \in Layer |-> None] /\ photo = [s \in Slot |-> None]
  /\ src = [o \in Layer |-> None] /\ opa = [o \in Layer |-> 0] /\ anim = None
  /\ hidden = [w \in Widget |-> w = "pairing"]
  /\ above = {<<"b", "a">>, <<"pairing", "a">>, <<"pairing", "b">>}
  /\ cache = [s \in Slot |-> None]
  /\ label = None /\ qr = None /\ encoded = None /\ qrHidden = FALSE

-----------------------------------------------------------------------------
\* The IPC client's worker thread.

TakeTask ==
  /\ request = "queued" /\ request' = "running"
  /\ UNCHANGED <<loopV, reply, slides, hidden, above, notice>>

\* exchange: an image, a prompt, a message, or no usable reply.
Answer(r) ==
  /\ request = "running" /\ request' = "answered"
  /\ reply' = r
  /\ UNCHANGED <<loopV, slides, hidden, above, notice>>

\* Mutant: the socket has no timeouts.
NoTimeout == FALSE

\* SO_SNDTIMEO or SO_RCVTIMEO ends an exchange with a silent backend.
Timeout ==
  /\ request = "running" /\ request' = "answered"
  /\ reply' = None
  /\ UNCHANGED <<loopV, slides, hidden, above, notice>>

-----------------------------------------------------------------------------
\* The main loop.

Looping == phase = "loop"

Elapse ==
  /\ Looping /\ request = "none" /\ ~due
  /\ due' = TRUE
  /\ UNCHANGED <<phase, last, ipc, slides, hidden, above, notice>>

Send ==
  /\ Looping /\ request = "none" /\ due
  /\ request' = "queued"
  /\ UNCHANGED <<loopV, reply, slides, hidden, above, notice>>

\* The future is ready with r: it is taken, and the next request has a new date.
Take(r) ==
  /\ Looping /\ request = "answered" /\ reply = r
  /\ request' = "none" /\ reply' = None /\ due' = FALSE
  /\ UNCHANGED phase

KeepScreen ==
  /\ Take(None)
  /\ UNCHANGED <<last, slides, hidden, above, notice>>

\* The FrameImage cannot be made: its file is gone, too short or the wrong shape.
SkipImage(p) ==
  /\ Take(p)
  /\ last' = p
  /\ UNCHANGED <<slides, hidden, above, notice>>

\* Mutant: the pages go, LVGL's cache keeps the entry.
UnmapOnly(s, p, n) ==
  /\ photo' = [x \in Slot |-> IF x = n THEN p ELSE IF x = s THEN None ELSE photo[x]]
  /\ UNCHANGED cache

\* ~FrameImage at s evicts its cache entry and unmaps it; FrameImage maps p at n.
Remap(s, p, n) ==
  /\ photo' = [x \in Slot |-> IF x = n THEN p ELSE IF x = s THEN None ELSE photo[x]]
  /\ cache' = [x \in Slot |-> IF x = s THEN None ELSE cache[x]]

\* Mutant: the layers stay hidden.
ShowHidden == hidden' = [hidden EXCEPT !["pairing"] = TRUE]

\* pairing.hide and slideshow.set_visible(true).
ShowLayers == hidden' = [w \in Widget |-> w = "pairing"]

\* Slideshow::show: a fade still under way is settled as if it had ended, except
\* that its animation, and so the opacity of its layer, stops where it is.
ShowImage(p, s) ==
  LET settled == IF fading THEN Back ELSE front
      incoming == Other(settled)
      order == IF fading THEN Raise(above, settled) ELSE above
  IN /\ Take(p) /\ photo[s] = None
     /\ ShowLayers
     /\ Remap(IF fading THEN image[front] ELSE None, p, s)
     /\ front' = settled
     /\ image' = [image EXCEPT ![incoming] = s]
     /\ src' = [src EXCEPT ![incoming] = s]
     /\ opa' = [opa EXCEPT ![incoming] = 0]
     /\ above' = Raise(order, incoming)
     /\ fading' = TRUE /\ anim' = incoming
     /\ last' = p
     /\ UNCHANGED notice

\* Slideshow::set_visible(false) and PairingScreen::set_visible(true).
ShowPairing ==
  /\ hidden' = [w \in Widget |-> w # "pairing"]
  /\ above' = Raise(above, "pairing")

\* lv_qrcode_update, when the URL is not the one it last encoded.
Encode(u) == qr' = IF encoded # u THEN u ELSE qr

ShowPrompt(u) ==
  /\ Take(u)
  /\ ShowPairing
  /\ Encode(u) /\ encoded' = u
  /\ label' = u /\ qrHidden' = FALSE
  /\ last' = None
  /\ UNCHANGED slides

ShowMessage(t) ==
  /\ Take(t)
  /\ ShowPairing
  /\ label' = t /\ qrHidden' = TRUE /\ encoded' = None
  /\ last' = None
  /\ UNCHANGED <<slides, qr>>

\* SIGTERM: the loop ends, and ~IpcClient tells its thread to stop and joins it.
Stop ==
  /\ Looping
  /\ phase' = "joining"
  /\ UNCHANGED <<due, last, ipc, slides, hidden, above, notice>>

\* The thread returns once it is told to stop and no task is left.
Joined == phase = "joining" /\ request \notin {"queued", "running"}

\* The screens, the mappings and the process go.
Exit ==
  /\ Joined
  /\ phase' = "gone" /\ due' = TRUE /\ last' = None
  /\ request' = "none" /\ reply' = None
  /\ front' = "a" /\ fading' = FALSE
  /\ image' = [o \in Layer |-> None] /\ photo' = [s \in Slot |-> None]
  /\ src' = [o \in Layer |-> None] /\ opa' = [o \in Layer |-> 0] /\ anim' = None
  /\ hidden' = [w \in Widget |-> w = "pairing"]
  /\ above' = {<<"b", "a">>, <<"pairing", "a">>, <<"pairing", "b">>}
  /\ cache' = [s \in Slot |-> None]
  /\ label' = None /\ qr' = None /\ encoded' = None /\ qrHidden' = FALSE

\* systemd starts the process again.
Restart ==
  /\ phase = "gone"
  /\ phase' = "loop"
  /\ UNCHANGED <<due, last, ipc, slides, hidden, above, notice>>

-----------------------------------------------------------------------------
\* lv_timer_handler.

\* Mutant: one frame too many.
FadeFrameOver ==
  /\ Looping /\ anim # None
  /\ opa' = [opa EXCEPT ![anim] = @ + 2]
  /\ UNCHANGED <<loopV, ipc, front, fading, image, photo, src, anim, cache, hidden, above,
                 notice>>

FadeFrame ==
  /\ Looping /\ anim # None /\ opa[anim] + 1 < Full
  /\ opa' = [opa EXCEPT ![anim] = @ + 1]
  /\ UNCHANGED <<loopV, ipc, front, fading, image, photo, src, anim, cache, hidden, above,
                 notice>>

FadeOver == Looping /\ anim # None /\ opa[anim] + 1 = Full

\* Mutant: the old layer keeps its source.
DetachNothing == UNCHANGED src

Detach == src' = [src EXCEPT ![front] = None]

\* Mutant: the old photo is kept until its layer is used again.
ReleaseLater == UNCHANGED <<image, photo, cache>>

ReleaseFront ==
  /\ image' = [image EXCEPT ![front] = None]
  /\ Remap(image[front], None, None)

\* The last frame of a fade and on_fade_done.
FadeEnds ==
  /\ FadeOver
  /\ opa' = [opa EXCEPT ![anim] = Full, ![front] = 0]
  /\ anim' = None /\ fading' = FALSE
  /\ front' = Back
  /\ Detach /\ ReleaseFront
  /\ above' = Raise(above, Back)
  /\ UNCHANGED <<loopV, ipc, hidden, notice>>

\* A redraw: a visible image is opened through the cache.  (What LVGL replaces in
\* its cache of two entries is only opened again by a later redraw.)
Draw(o) ==
  /\ Looping /\ ~hidden[o] /\ opa[o] > 0 /\ src[o] # None
  /\ cache[src[o]] = None
  /\ cache' = [cache EXCEPT ![src[o]] = photo[src[o]]]
  /\ UNCHANGED <<loopV, ipc, front, fading, image, photo, src, opa, anim, hidden, above,
                 notice>>

-----------------------------------------------------------------------------
Handle == \/ KeepScreen
          \/ (\E p \in Photo : SkipImage(p) \/ \E s \in Slot : ShowImage(p, s))
          \/ (\E u \in Url : ShowPrompt(u)) \/ (\E t \in Text : ShowMessage(t))

Main == Elapse \/ Send \/ Handle \/ Exit \/ Restart

Lvgl == FadeFrame \/ FadeEnds \/ (\E o \in Layer : Draw(o))

Next == TakeTask \/ Timeout \/ (\E r \in Reply : Answer(r)) \/ Main \/ Stop \/ Lvgl

Spec == Init /\ [][Next]_vars

(***************************************************************************)
(* Fairness: both threads are scheduled, the timeouts of the socket and of *)
(* the loop expire, and systemd restarts the process.  The backend may     *)
(* stay silent for ever.                                                   *)
(***************************************************************************)
FairSpec == Spec /\ WF_vars(TakeTask) /\ WF_vars(Timeout) /\ WF_vars(Main)

-----------------------------------------------------------------------------
TypeOK ==
  /\ phase \in {"loop", "joining", "gone"} /\ due \in BOOLEAN
  /\ last \in Photo \cup {None}
  /\ request \in {"none", "queued", "running", "answered"} /\ reply \in Reply
  /\ front \in Layer /\ fading \in BOOLEAN
  /\ image \in [Layer -> Slot \cup {None}] /\ photo \in [Slot -> Photo \cup {None}]
  /\ src \in [Layer -> Slot \cup {None}] /\ opa \in [Layer -> 0 .. Full]
  /\ anim \in Layer \cup {None}
  /\ hidden \in [Widget -> BOOLEAN] /\ above \in SUBSET (Widget \X Widget)
  /\ cache \in [Slot -> Photo \cup {None}]
  /\ label \in Url \cup Text \cup {None}
  /\ qr \in Url \cup {None} /\ encoded \in Url \cup {None} /\ qrHidden \in BOOLEAN

-----------------------------------------------------------------------------
\* LVGL is never left with a source whose pages are gone, through fades that end,
\* fades that are cut short and photos hidden half-way (slideshow.cpp 110-115).
NoDanglingSource == \A o \in Layer : src[o] # None => photo[src[o]] # None

\* An entry of LVGL's cache is the blob mapped at its address, so an address used
\* again never brings back the pixels, or the pages, of the image before
\* (frame_image.cpp 79-83).
CacheFresh == \A s \in Slot : cache[s] # None => cache[s] = photo[s]

\* No mapping outlives its layer's use of it: two blobs while a fade runs, one
\* between fades (slideshow.cpp 110-117), on a board with 512 MB of memory.
MappingsBounded ==
  /\ {s \in Slot : photo[s] # None} = {image[o] : o \in Layer} \ {None}
  /\ ~fading => image[Back] = None

-----------------------------------------------------------------------------
(***************************************************************************)
(* What the viewer sees: the topmost widget that has something to show.  A *)
(* layer counts from the start of its fade.                                *)
(***************************************************************************)
Showing == {w \in Widget : ~hidden[w] /\ (w \in Layer => src[w] # None)}
OnTop(w) == w \in Showing /\ \A v \in Showing \ {w} : <<w, v>> \in above

Panel ==
  IF OnTop("pairing") THEN IF qrHidden THEN label ELSE qr
  ELSE IF OnTop("a") THEN photo[src["a"]]
  ELSE IF OnTop("b") THEN photo[src["b"]]
  ELSE None

\* Where the request is, and the reply that waits to be taken up: once the loop has
\* ended none will be.
Progress ==
  CASE phase = "joining" -> "stopped"
    [] phase # "joining" /\ request = "none" -> "rest"
    [] phase # "joining" /\ request = "answered" -> "answered"
    [] OTHER -> "asked"

Awaiting == IF phase = "joining" THEN None ELSE reply

Viewer == INSTANCE Screen WITH
  Notice <- Url \cup Text,
  panel <- Panel, state <- Progress, reply <- Awaiting

\* The frontend implements Screen: the panel shows what the latest reply said, and
\* keeps it when a reply fails or a blob cannot be mapped (main.cpp 114-176).
ShowsReplies == Viewer!Spec

-----------------------------------------------------------------------------
\* However the backend behaves, the frontend asks again until it is stopped
\* (main.cpp 114-176, ipc_client.cpp 190-193).
KeepsAsking == []<>(request = "queued" \/ phase # "loop")

\* Told to stop it is gone in the end, whatever its worker thread waits for
\* (ipc_client.cpp 134-163).
StopsInTheEnd == phase = "joining" ~> phase = "gone"
=============================================================================
