-------------------------- MODULE Frontend_proofs --------------------------
(***************************************************************************)
(* The frontend never leaves LVGL with memory that is gone, and shows what *)
(* the latest reply said: Frontend implements Screen.                      *)
(***************************************************************************)
EXTENDS Frontend, TLAPS

USE FrontendAssumption

\* One set of widgets is visible, the layers or the pairing screen.
ShowsPhotos == hidden = [w \in Widget |-> w = "pairing"]
ShowsNotice == hidden = [w \in Widget |-> w # "pairing"]

\* Every image object shows the FrameImage its layer owns, each layer has one of
\* its own, and nothing else is mapped.
Owned ==
  /\ src = image
  /\ \A o \in Layer : image[o] # None => photo[image[o]] # None
  /\ \A s \in Slot : photo[s] # None => \E o \in Layer : image[o] = s
  /\ image["a"] # None => image["a"] # image["b"]

\* While m_fading the back layer fades in over the front one; otherwise it is empty.
Fades ==
  /\ fading => /\ anim = Back /\ image[Back] # None
               /\ <<Back, front>> \in above /\ <<front, Back>> \notin above
  /\ ~fading => anim = None /\ image[Back] = None

\* A frame of an animation is short of the last one.
Opacity == anim # None => opa[anim] < Full

\* What the pairing screen shows when it is shown.
Notices ==
  /\ ShowsPhotos \/ ShowsNotice
  /\ encoded # None => qr = encoded
  /\ ShowsNotice => IF qrHidden THEN label \in Text ELSE label \in Url /\ qr = label

\* A reply is held from its arrival until the loop takes it; nothing is pending in
\* a process that is gone.
Replies ==
  /\ request # "answered" => reply = None
  /\ phase = "gone" => request = "none"

FInv == TypeOK /\ Owned /\ Fades /\ Opacity /\ CacheFresh /\ Notices /\ Replies

-----------------------------------------------------------------------------
LEMMA OtherIs ==
  ASSUME NEW o \in Layer
  PROVE  /\ Other(o) \in Layer /\ Other(o) # o /\ Other(Other(o)) = o
         /\ Layer = {o, Other(o)}
<1>1. \E w \in Layer : w # o
  BY DEF Layer
<1>2. Other(o) \in Layer /\ Other(o) # o
  BY <1>1 DEF Other
<1>3. Layer = {o, Other(o)}
  BY <1>2 DEF Layer
<1>4. \E w \in Layer : w # Other(o)
  BY <1>2
<1>5. Other(Other(o)) \in Layer /\ Other(Other(o)) # Other(o)
  BY <1>4 DEF Other
<1> QED
  BY <1>2, <1>3, <1>5

\* Raising a widget puts it over every other, and leaves the others as they were.
LEMMA RaiseIs ==
  ASSUME NEW order \in SUBSET (Widget \X Widget), NEW w \in Widget
  PROVE  /\ Raise(order, w) \in SUBSET (Widget \X Widget)
         /\ \A v \in Widget \ {w} :
              <<w, v>> \in Raise(order, w) /\ <<v, w>> \notin Raise(order, w)
         /\ \A u, v \in Widget \ {w} : <<u, v>> \in Raise(order, w) <=> <<u, v>> \in order
BY DEF Raise

LEMMA InitInv == Init => FInv
<1> SUFFICES ASSUME Init PROVE FInv
  OBVIOUS
<1> USE DEF Init
<1>0. "a" \in Layer /\ Layer \subseteq Widget
  BY DEF Layer, Widget
<1>1. TypeOK
  <2>1. /\ image \in [Layer -> Slot \cup {None}] /\ photo \in [Slot -> Photo \cup {None}]
        /\ src \in [Layer -> Slot \cup {None}] /\ opa \in [Layer -> 0 .. Full]
        /\ cache \in [Slot -> Photo \cup {None}] /\ hidden \in [Widget -> BOOLEAN]
    OBVIOUS
  <2>2. above \in SUBSET (Widget \X Widget)
    BY DEF Layer, Widget
  <2>3. front \in Layer
    BY <1>0
  <2> QED
    BY <2>1, <2>2, <2>3 DEF TypeOK, Reply
<1>2. Owned
  BY DEF Owned, Layer
<1>3. Fades
  BY <1>0, OtherIs DEF Fades, Back
<1>4. Opacity /\ CacheFresh /\ Replies
  BY DEF Opacity, CacheFresh, Replies
<1>5. ShowsPhotos /\ ~ShowsNotice
  <2>1. "pairing" \in Widget
    BY DEF Widget
  <2> QED
    BY <2>1 DEF ShowsPhotos, ShowsNotice
<1>6. Notices
  BY <1>5 DEF Notices
<1> QED
  BY <1>1, <1>2, <1>3, <1>4, <1>6 DEF FInv

-----------------------------------------------------------------------------
(* The invariant, action by action. *)

\* Steps that touch neither screen nor mappings.
LEMMA KeepsTheScreen ==
  ASSUME FInv, UNCHANGED <<slides, hidden, above, notice>>, Replies',
         phase' \in {"loop", "joining", "gone"}, due' \in BOOLEAN,
         last' \in Photo \cup {None}, reply' \in Reply,
         request' \in {"none", "queued", "running", "answered"}
  PROVE  FInv'
<1> USE DEF FInv, slides, notice
<1>1. TypeOK'
  BY DEF TypeOK
<1>2. Owned' /\ Fades' /\ Opacity' /\ CacheFresh'
  BY DEF Owned, Fades, Back, Opacity, CacheFresh
<1>3. Notices'
  BY DEF Notices, ShowsPhotos, ShowsNotice
<1> QED
  BY <1>1, <1>2, <1>3

LEMMA QuietNext ==
  ASSUME FInv,
         \/ TakeTask \/ (\E r \in Reply : Answer(r)) \/ Timeout \/ Elapse \/ Send
         \/ KeepScreen \/ (\E p \in Photo : SkipImage(p)) \/ Stop \/ Restart
  PROVE  FInv'
<1>0. TypeOK /\ Replies
  BY DEF FInv
<1> USE <1>0 DEF TypeOK, Replies, loopV, ipc
<1>1. CASE TakeTask
  BY <1>1, KeepsTheScreen DEF TakeTask
<1>2. CASE \E r \in Reply : Answer(r)
  BY <1>2, KeepsTheScreen DEF Answer
<1>3. CASE Timeout
  BY <1>3, KeepsTheScreen DEF Timeout, Reply
<1>4. CASE Elapse \/ Send
  BY <1>4, KeepsTheScreen DEF Elapse, Send, Looping
<1>5. CASE KeepScreen
  BY <1>5, KeepsTheScreen DEF KeepScreen, Take, Looping, Reply
<1>6. CASE \E p \in Photo : SkipImage(p)
  BY <1>6, KeepsTheScreen DEF SkipImage, Take, Looping, Reply
<1>7. CASE Stop \/ Restart
  BY <1>7, KeepsTheScreen DEF Stop, Restart, Looping
<1> QED
  BY <1>1, <1>2, <1>3, <1>4, <1>5, <1>6, <1>7

LEMMA NoticeNext ==
  ASSUME FInv, (\E u \in Url : ShowPrompt(u)) \/ (\E t \in Text : ShowMessage(t))
  PROVE  FInv'
<1>0. TypeOK /\ Owned /\ Fades /\ Opacity /\ CacheFresh /\ Notices /\ Replies
  BY DEF FInv
<1>1. /\ UNCHANGED <<phase, slides>> /\ request' = "none" /\ reply' = None
      /\ due' = FALSE /\ last' = None
      /\ hidden' = [w \in Widget |-> w # "pairing"]
      /\ above' = Raise(above, "pairing")
      /\ phase = "loop"
  BY DEF ShowPrompt, ShowMessage, ShowPairing, Take, Looping
<1>2. /\ label' \in Url \cup Text /\ qr' \in Url \cup {None} /\ encoded' \in Url \cup {None}
      /\ qrHidden' \in BOOLEAN
      /\ encoded' # None => qr' = encoded'
      /\ IF qrHidden' THEN label' \in Text ELSE label' \in Url /\ qr' = label'
  <2>1. ASSUME NEW u \in Url, ShowPrompt(u)
        PROVE  label' = u /\ qr' = u /\ encoded' = u /\ qrHidden' = FALSE
    <3>1. u # None
      OBVIOUS
    <3> QED
      BY <2>1, <1>0, <3>1 DEF ShowPrompt, Encode, Notices
  <2>2. ASSUME NEW t \in Text, ShowMessage(t)
        PROVE  label' = t /\ qr' = qr /\ encoded' = None /\ qrHidden' = TRUE
    BY <2>2 DEF ShowMessage
  <2> QED
    BY <2>1, <2>2, <1>0 DEF TypeOK
<1>3. "pairing" \in Widget /\ Layer \subseteq Widget \ {"pairing"}
  BY DEF Widget, Layer
<1>4. /\ above' \in SUBSET (Widget \X Widget)
      /\ \A v, w \in Layer : <<v, w>> \in above' <=> <<v, w>> \in above
  BY <1>0, <1>1, <1>3, RaiseIs DEF TypeOK
<1>5. TypeOK'
  BY <1>0, <1>1, <1>2, <1>4 DEF TypeOK, slides, Reply
<1>6. Owned' /\ Opacity' /\ CacheFresh'
  BY <1>0, <1>1 DEF Owned, Opacity, CacheFresh, slides
<1>7. Fades'
  <2>1. front \in Layer /\ Back \in Layer /\ Back' = Back
    BY <1>0, <1>1, OtherIs DEF TypeOK, Back, slides
  <2> QED
    BY <1>0, <1>1, <1>4, <2>1 DEF Fades, slides
<1>8. Notices'
  BY <1>1, <1>2 DEF Notices, ShowsNotice
<1>9. Replies'
  BY <1>1 DEF Replies
<1> QED
  BY <1>5, <1>6, <1>7, <1>8, <1>9 DEF FInv

LEMMA ExitNext == ASSUME FInv, Exit PROVE FInv'
<1>1. phase' = "gone"
  BY DEF Exit
<1>2. /\ request' = "none" /\ reply' = None /\ last' = None /\ due' = TRUE
      /\ front' = "a" /\ fading' = FALSE /\ anim' = None
      /\ image' = [o \in Layer |-> None] /\ photo' = [s \in Slot |-> None]
      /\ src' = image' /\ opa' = [o \in Layer |-> 0] /\ cache' = photo'
      /\ hidden' = [w \in Widget |-> w = "pairing"]
      /\ above' = {<<"b", "a">>, <<"pairing", "a">>, <<"pairing", "b">>}
      /\ label' = None /\ qr' = None /\ encoded' = None /\ qrHidden' = FALSE
  BY DEF Exit
<1>3. {"a", "b"} = Layer /\ Layer \subseteq Widget /\ "pairing" \in Widget
  BY DEF Layer, Widget
<1>4. TypeOK'
  <2>1. /\ image' \in [Layer -> Slot \cup {None}] /\ photo' \in [Slot -> Photo \cup {None}]
        /\ src' \in [Layer -> Slot \cup {None}] /\ opa' \in [Layer -> 0 .. Full]
        /\ cache' \in [Slot -> Photo \cup {None}] /\ hidden' \in [Widget -> BOOLEAN]
    BY <1>2
  <2>2. above' \in SUBSET (Widget \X Widget) /\ front' \in Layer
    BY <1>2, <1>3
  <2> QED
    BY <1>1, <1>2, <2>1, <2>2 DEF TypeOK, Reply
<1>5. Owned' /\ CacheFresh'
  BY <1>2, <1>3 DEF Owned, CacheFresh
<1>6. Fades' /\ Opacity' /\ Replies'
  BY <1>1, <1>2, <1>3, OtherIs DEF Fades, Back, Opacity, Replies
<1>7. Notices'
  BY <1>2, <1>3 DEF Notices, ShowsPhotos, ShowsNotice
<1> QED
  BY <1>4, <1>5, <1>6, <1>7 DEF FInv

LEMMA DrawNext ==
  ASSUME FInv, FadeFrame \/ (\E o \in Layer : Draw(o)) PROVE FInv'
<1>0. TypeOK /\ Owned /\ Fades /\ Opacity /\ CacheFresh /\ Notices /\ Replies
  BY DEF FInv
<1>1. /\ UNCHANGED <<loopV, ipc, front, fading, image, photo, src, anim, hidden, above,
                     notice>>
      /\ opa' \in [Layer -> 0 .. Full] /\ (anim # None => opa'[anim] < Full)
      /\ cache' \in [Slot -> Photo \cup {None}]
      /\ \A s \in Slot : cache'[s] # None => cache'[s] = photo[s]
  <2>1. CASE FadeFrame
    BY <1>0, <2>1 DEF FadeFrame, TypeOK, CacheFresh
  <2>2. ASSUME NEW o \in Layer, Draw(o)
        PROVE  /\ opa' = opa
               /\ cache' \in [Slot -> Photo \cup {None}]
               /\ \A s \in Slot : cache'[s] # None => cache'[s] = photo[s]
    <3>1. src[o] \in Slot /\ photo \in [Slot -> Photo \cup {None}]
      BY <1>0, <2>2 DEF Draw, TypeOK
    <3> QED
      BY <1>0, <2>2, <3>1 DEF Draw, TypeOK, CacheFresh
  <2>3. CASE \E o \in Layer : Draw(o)
    BY <1>0, <2>2, <2>3 DEF Draw, TypeOK, Opacity
  <2> QED
    BY <2>1, <2>3
<1>2. TypeOK'
  BY <1>0, <1>1 DEF TypeOK, loopV, ipc, notice
<1>3. Owned' /\ Fades' /\ Opacity' /\ CacheFresh'
  BY <1>0, <1>1 DEF Owned, Fades, Back, Opacity, CacheFresh
<1>4. Notices' /\ Replies'
  BY <1>0, <1>1 DEF Notices, ShowsPhotos, ShowsNotice, Replies, loopV, ipc, notice
<1> QED
  BY <1>2, <1>3, <1>4 DEF FInv

LEMMA FadeEndsNext == ASSUME FInv, FadeEnds PROVE FInv'
<1>0. TypeOK /\ Owned /\ Fades /\ Opacity /\ CacheFresh /\ Notices /\ Replies
  BY DEF FInv
<1>1. /\ front \in Layer /\ Back \in Layer /\ front # Back
      /\ anim = Back /\ image[Back] # None /\ Layer = {front, Back}
      /\ Other(Back) = front /\ Layer \subseteq Widget
  BY <1>0, OtherIs DEF TypeOK, Fades, FadeEnds, FadeOver, Back, Widget
<1>2. /\ UNCHANGED <<loopV, ipc, hidden, notice>>
      /\ anim' = None /\ fading' = FALSE /\ front' = Back /\ Back' = front
      /\ opa' = [opa EXCEPT ![Back] = Full, ![front] = 0]
      /\ src' = [src EXCEPT ![front] = None] /\ image' = [image EXCEPT ![front] = None]
      /\ above' = Raise(above, Back)
  BY <1>1 DEF FadeEnds, Detach, ReleaseFront, Back
<1>3. /\ photo' = [x \in Slot |-> IF x = image[front] THEN None ELSE photo[x]]
      /\ cache' = [x \in Slot |-> IF x = image[front] THEN None ELSE cache[x]]
  BY DEF FadeEnds, ReleaseFront, Remap
<1>4. TypeOK'
  <2>1. opa' \in [Layer -> 0 .. Full] /\ above' \in SUBSET (Widget \X Widget)
    BY <1>0, <1>1, <1>2, RaiseIs DEF TypeOK
  <2>2. /\ src' \in [Layer -> Slot \cup {None}] /\ image' \in [Layer -> Slot \cup {None}]
        /\ photo' \in [Slot -> Photo \cup {None}] /\ cache' \in [Slot -> Photo \cup {None}]
    BY <1>0, <1>2, <1>3 DEF TypeOK
  <2> QED
    BY <1>0, <1>1, <1>2, <2>1, <2>2 DEF TypeOK, loopV, ipc, notice
<1>5. image'[front] = None /\ image'[Back] = image[Back] /\ image[Back] \in Slot
  BY <1>0, <1>1, <1>2 DEF TypeOK
<1>6. image[front] # image[Back]
  BY <1>0, <1>1 DEF Owned, Layer
<1>7. Owned'
  <2>1. src' = image'
    BY <1>0, <1>2 DEF Owned
  <2>2. \A o \in Layer : image'[o] # None => photo'[image'[o]] # None
    BY <1>0, <1>1, <1>3, <1>5, <1>6 DEF Owned
  <2>3. \A s \in Slot : photo'[s] # None => \E o \in Layer : image'[o] = s
    BY <1>0, <1>1, <1>3, <1>5 DEF Owned
  <2>4. image'["a"] # None => image'["a"] # image'["b"]
    BY <1>1, <1>5 DEF Layer
  <2> QED
    BY <2>1, <2>2, <2>3, <2>4 DEF Owned
<1>8. Fades' /\ Opacity' /\ CacheFresh'
  BY <1>0, <1>2, <1>3, <1>5 DEF Fades, Opacity, CacheFresh
<1>9. Notices' /\ Replies'
  BY <1>0, <1>2 DEF Notices, ShowsPhotos, ShowsNotice, Replies, loopV, ipc, notice
<1> QED
  BY <1>4, <1>7, <1>8, <1>9 DEF FInv

LEMMA ShowImageNext ==
  ASSUME FInv, NEW p \in Photo, NEW s \in Slot, ShowImage(p, s) PROVE FInv'
<1> DEFINE settled == IF fading THEN Back ELSE front
           incoming == Other(settled)
           order == IF fading THEN Raise(above, settled) ELSE above
<1>0. TypeOK /\ Owned /\ Fades /\ Opacity /\ CacheFresh /\ Notices /\ Replies
  BY DEF FInv
<1>1. /\ front \in Layer /\ Back \in Layer /\ settled \in Layer
  BY <1>0, OtherIs DEF TypeOK, Back
<1>2. /\ incoming \in Layer /\ incoming # settled /\ Layer = {settled, incoming}
      /\ Other(incoming) = settled /\ Layer \subseteq Widget
  BY <1>1, OtherIs DEF Widget
<1>3. image[incoming] = IF fading THEN image[front] ELSE None
  <2>1. CASE fading
    BY <1>0, <2>1, OtherIs DEF TypeOK, Back
  <2>2. CASE ~fading
    BY <1>0, <2>2 DEF Fades, Back
  <2> QED
    BY <2>1, <2>2
<1>4. /\ UNCHANGED <<phase, notice>>
      /\ phase = "loop" /\ request' = "none" /\ reply' = None /\ due' = FALSE /\ last' = p
      /\ hidden' = [w \in Widget |-> w = "pairing"]
      /\ front' = settled /\ fading' = TRUE /\ anim' = incoming
      /\ image' = [image EXCEPT ![incoming] = s] /\ src' = [src EXCEPT ![incoming] = s]
      /\ opa' = [opa EXCEPT ![incoming] = 0] /\ above' = Raise(order, incoming)
      /\ photo[s] = None
  BY DEF ShowImage, Take, Looping, ShowLayers
<1>5. /\ Back' = incoming
      /\ photo' = [x \in Slot |-> IF x = s THEN p
                                  ELSE IF x = image[incoming] THEN None ELSE photo[x]]
      /\ cache' = [x \in Slot |-> IF x = image[incoming] THEN None ELSE cache[x]]
  <2>1. Back' = incoming
    BY <1>4 DEF Back
  <2>2. Remap(IF fading THEN image[front] ELSE None, p, s)
    BY DEF ShowImage
  <2> QED
    BY <1>3, <2>1, <2>2 DEF Remap
<1> HIDE DEF settled, incoming
<1>6. /\ order \in SUBSET (Widget \X Widget) /\ above' \in SUBSET (Widget \X Widget)
      /\ <<incoming, settled>> \in above' /\ <<settled, incoming>> \notin above'
  <2>1. order \in SUBSET (Widget \X Widget)
    BY <1>0, <1>1, <1>2, RaiseIs DEF TypeOK
  <2> QED
    BY <1>1, <1>2, <1>4, <2>1, RaiseIs
<1>7. TypeOK'
  <2>1. src' \in [Layer -> Slot \cup {None}] /\ image' \in [Layer -> Slot \cup {None}]
    BY <1>0, <1>4 DEF TypeOK
  <2>2. photo' \in [Slot -> Photo \cup {None}] /\ cache' \in [Slot -> Photo \cup {None}]
    BY <1>0, <1>5 DEF TypeOK
  <2>3. opa' \in [Layer -> 0 .. Full]
    <3>1. 0 \in 0 .. Full /\ opa \in [Layer -> 0 .. Full]
      BY <1>0 DEF TypeOK
    <3>2. opa' = [opa EXCEPT ![incoming] = 0]
      BY <1>4
    <3> QED
      BY <3>1, <3>2, Zenon
  <2>4. hidden' \in [Widget -> BOOLEAN]
    BY <1>4
  <2> QED
    BY <1>0, <1>1, <1>2, <1>4, <1>6, <2>1, <2>2, <2>3, <2>4 DEF TypeOK, Reply, notice
<1>8. image'[incoming] = s /\ image'[settled] = image[settled]
  BY <1>0, <1>1, <1>2, <1>4 DEF TypeOK
<1>9. image[settled] # s /\ (image[settled] # None => image[settled] # image[incoming])
  BY <1>0, <1>1, <1>2, <1>4 DEF Owned, Layer
<1>10. Owned'
  <2>1. src' = image'
    BY <1>0, <1>4 DEF Owned
  <2>2. p # None /\ s # None /\ image[settled] \in Slot \cup {None}
    BY <1>0, <1>1 DEF TypeOK
  <2>3. \A o \in Layer : image'[o] # None => photo'[image'[o]] # None
    BY <1>0, <1>1, <1>2, <1>5, <1>8, <1>9, <2>2 DEF Owned
  <2>4. \A x \in Slot : photo'[x] # None => \E o \in Layer : image'[o] = x
    BY <1>0, <1>2, <1>5, <1>8 DEF Owned
  <2>5. image'["a"] # None => image'["a"] # image'["b"]
    BY <1>1, <1>2, <1>8, <1>9 DEF Layer
  <2> QED
    BY <2>1, <2>3, <2>4, <2>5 DEF Owned
<1>11. Fades'
  BY <1>4, <1>5, <1>6, <1>8 DEF Fades
<1>12. Opacity'
  BY <1>0, <1>2, <1>4 DEF Opacity, TypeOK
<1>13. CacheFresh'
  BY <1>0, <1>4, <1>5 DEF CacheFresh
<1>14. Notices' /\ Replies'
  <2>1. ShowsPhotos' /\ ~ShowsNotice'
    BY <1>4 DEF ShowsPhotos, ShowsNotice, Widget
  <2> QED
    BY <1>0, <1>4, <2>1 DEF Notices, Replies, notice
<1> QED
  BY <1>7, <1>10, <1>11, <1>12, <1>13, <1>14 DEF FInv

LEMMA FInvNext == FInv /\ [Next]_vars => FInv'
<1> SUFFICES ASSUME FInv, [Next]_vars PROVE FInv'
  OBVIOUS
<1>1. CASE UNCHANGED vars
  BY <1>1, KeepsTheScreen DEF vars, loopV, ipc, FInv, TypeOK, Replies
<1> QED
  BY <1>1, QuietNext, NoticeNext, ExitNext, DrawNext, FadeEndsNext, ShowImageNext
     DEF Next, Main, Handle, Lvgl

\* The inductive invariant of the frontend: who owns each image, when a fade runs, and
\* what the pairing screen says hold after any iterations, callbacks and replies.
THEOREM ScreenAlways == Spec => []FInv
BY InitInv, FInvNext, PTL DEF Spec

\* Every variable of the frontend has its type in every reachable state.
THEOREM ScreenTyped == Spec => []TypeOK
<1>1. FInv => TypeOK
  BY DEF FInv
<1> QED
  BY <1>1, ScreenAlways, PTL

\* LVGL never holds a source whose pages are gone.
THEOREM SourcesMapped == Spec => []NoDanglingSource
<1>1. FInv => NoDanglingSource
  BY DEF FInv, Owned, NoDanglingSource
<1> QED
  BY <1>1, ScreenAlways, PTL

\* LVGL's cache never outlives the blob it was filled from.
THEOREM CacheCorrect == Spec => []CacheFresh
<1>1. FInv => CacheFresh
  BY DEF FInv
<1> QED
  BY <1>1, ScreenAlways, PTL

\* At most the two layers' blobs are mapped, and only the front one's between fades.
THEOREM NothingLeaks == Spec => []MappingsBounded
<1>1. FInv => MappingsBounded
  <2> SUFFICES ASSUME FInv PROVE MappingsBounded
    OBVIOUS
  <2>1. image \in [Layer -> Slot \cup {None}] /\ photo \in [Slot -> Photo \cup {None}]
    BY DEF FInv, TypeOK
  <2>2. \A s \in Slot : photo[s] # None <=> \E o \in Layer : image[o] = s
    BY <2>1 DEF FInv, Owned
  <2> QED
    BY <2>1, <2>2 DEF MappingsBounded, FInv, Fades
<1> QED
  BY <1>1, ScreenAlways, PTL

-----------------------------------------------------------------------------
(* Frontend implements Screen. *)

\* What is on the panel, without the order of the widgets.
Shown ==
  IF ShowsNotice THEN label
  ELSE IF fading THEN photo[image[Back]]
  ELSE IF image[front] # None THEN photo[image[front]]
  ELSE None

LEMMA PanelIs == FInv => Panel = Shown
<1> SUFFICES ASSUME FInv PROVE Panel = Shown
  OBVIOUS
<1>0. TypeOK /\ Owned /\ Fades /\ Notices
  BY DEF FInv
<1>1. Layer = {"a", "b"} /\ Widget = {"a", "b", "pairing"}
  BY DEF Layer, Widget
<1>2. CASE ShowsNotice
  <2>1. Showing = {"pairing"}
    BY <1>1, <1>2 DEF ShowsNotice, Showing
  <2>2. OnTop("pairing")
    BY <2>1 DEF OnTop
  <2> QED
    BY <1>0, <1>2, <2>2 DEF Panel, Shown, Notices
<1>3. CASE ShowsPhotos
  <2>1. /\ front \in Layer /\ Back \in Layer /\ Back # front /\ Layer = {front, Back}
    BY <1>0, OtherIs DEF TypeOK, Back
  <2>2. Showing = {o \in Layer : image[o] # None} /\ ~ShowsNotice
    BY <1>0, <1>1, <1>3 DEF ShowsPhotos, ShowsNotice, Showing, Owned
  <2>3. ~OnTop("pairing")
    BY <1>1, <2>2 DEF OnTop
  <2>4. CASE fading
    <3>1. OnTop(Back) /\ (OnTop(front) => front = Back)
      BY <1>0, <2>1, <2>2, <2>4 DEF OnTop, Fades
    <3> QED
      BY <1>0, <1>1, <2>1, <2>2, <2>3, <2>4, <3>1 DEF Panel, Shown, Owned
  <2>5. CASE ~fading /\ image[front] # None
    <3>1. OnTop(front) /\ ~OnTop(Back)
      BY <1>0, <2>1, <2>2, <2>5 DEF OnTop, Fades
    <3> QED
      BY <1>0, <1>1, <2>1, <2>2, <2>3, <2>5, <3>1 DEF Panel, Shown, Owned
  <2>6. CASE ~fading /\ image[front] = None
    <3>1. ~OnTop(front) /\ ~OnTop(Back)
      BY <1>0, <2>1, <2>2, <2>6 DEF OnTop, Fades
    <3> QED
      BY <1>1, <2>1, <2>2, <2>3, <2>6, <3>1 DEF Panel, Shown
  <2> QED
    BY <2>4, <2>5, <2>6
<1> QED
  BY <1>0, <1>2, <1>3 DEF Notices

\* The panel stays as it is when no widget, mapping or notice changes.
LEMMA PanelKept ==
  ASSUME UNCHANGED <<front, fading, image, photo, hidden, label>> PROVE Shown' = Shown
BY DEF Shown, Back, ShowsNotice

\* The mapping of the request, by cases.
ProgressIs ==
  /\ phase = "joining" => Progress = "stopped" /\ Awaiting = None
  /\ phase # "joining" =>
       /\ Awaiting = reply
       /\ request = "none" => Progress = "rest"
       /\ request = "answered" => Progress = "answered"
       /\ request \in {"queued", "running"} => Progress = "asked"

LEMMA ProgressNow == ProgressIs
BY DEF ProgressIs, Progress, Awaiting

LEMMA ProgressNext == ProgressIs'
BY ProgressNow, PTL

LEMMA PanelNext == FInv' => (Panel = Shown)'
BY PanelIs, PTL

LEMMA ViewerInit == Init => Viewer!Init
<1> SUFFICES ASSUME Init PROVE Viewer!Init
  OBVIOUS
<1>1. Panel = Shown
  BY InitInv, PanelIs
<1>2. Shown = None
  <2>1. ~ShowsNotice
    BY DEF Init, ShowsNotice, Widget
  <2> QED
    BY <2>1 DEF Init, Shown, Layer
<1>3. Progress = "rest" /\ Awaiting = None
  BY ProgressNow DEF Init, ProgressIs
<1> QED
  BY <1>1, <1>2, <1>3 DEF Viewer!Init

\* Every step of the frontend is one of Screen's, or changes nothing a viewer sees.
LEMMA ViewerNext ==
  ASSUME FInv, [Next]_vars PROVE [Viewer!Next]_(Viewer!vars)
<1>1. FInv'
  BY FInvNext
<1>2. Panel = Shown /\ Panel' = Shown'
  BY <1>1, PanelIs, PanelNext
<1>3. ProgressIs /\ ProgressIs'
  BY ProgressNow, ProgressNext
<1>4. TypeOK /\ Owned /\ Fades /\ Notices /\ Replies
  BY DEF FInv
\* A stutter of Screen: the panel and what is known of the request stay.
<1>5. ASSUME UNCHANGED <<Panel, Progress, Awaiting>> PROVE UNCHANGED Viewer!vars
  BY <1>5 DEF Viewer!vars
<1>6. ASSUME UNCHANGED <<slides, hidden, above, notice>> PROVE UNCHANGED Panel
  BY <1>2, <1>6, PanelKept DEF slides, notice
<1>7. CASE UNCHANGED vars
  <2>1. UNCHANGED <<phase, request, reply>> /\ UNCHANGED Panel
    BY <1>6, <1>7 DEF vars, loopV, ipc
  <2> QED
    BY <1>5, <2>1 DEF Progress, Awaiting
<1>8. CASE TakeTask \/ Elapse \/ Restart
  <2>1. UNCHANGED Panel
    BY <1>6, <1>8 DEF TakeTask, Elapse, Restart
  <2>2. UNCHANGED <<Progress, Awaiting>>
    BY <1>3, <1>4, <1>8 DEF TakeTask, Elapse, Restart, Looping, ProgressIs, Replies, loopV, ipc
  <2> QED
    BY <1>5, <2>1, <2>2
<1>9. CASE (\E r \in Reply : Answer(r)) \/ Timeout
  <2>1. /\ request = "running" /\ request' = "answered" /\ UNCHANGED phase
        /\ reply' \in Reply
    BY <1>9 DEF Answer, Timeout, Reply, loopV
  <2>2. UNCHANGED Panel
    BY <1>6, <1>9 DEF Answer, Timeout
  <2>3. CASE phase = "joining"
    BY <1>3, <1>5, <2>1, <2>2, <2>3 DEF ProgressIs
  <2>4. CASE phase # "joining"
    <3>1. Viewer!Answer
      BY <1>3, <2>1, <2>2, <2>4 DEF ProgressIs, Viewer!Answer, Reply
    <3> QED
      BY <3>1 DEF Viewer!Next
  <2> QED
    BY <2>3, <2>4
<1>10. CASE Send
  <2>1. UNCHANGED Panel
    BY <1>6, <1>10 DEF Send
  <2>2. /\ phase = "loop" /\ phase' = "loop" /\ request = "none" /\ request' = "queued"
        /\ reply' = reply
    BY <1>10 DEF Send, Looping, loopV
  <2>3. Viewer!Ask
    BY <1>3, <2>1, <2>2 DEF ProgressIs, Viewer!Ask
  <2> QED
    BY <2>3 DEF Viewer!Next
<1>11. ASSUME NEW r \in Reply, Take(r)
       PROVE  /\ Progress = "answered" /\ Progress' = "rest"
              /\ Awaiting = r /\ Awaiting' = None
  BY <1>3, <1>11 DEF Take, Looping, ProgressIs
<1>12. CASE KeepScreen \/ (\E p \in Photo : SkipImage(p))
  <2>1. UNCHANGED Panel
    BY <1>6, <1>12 DEF KeepScreen, SkipImage
  <2>2. PICK r \in Photo \cup {None} : Take(r)
    BY <1>12 DEF KeepScreen, SkipImage
  <2>3. r \in Reply /\ r \notin Url \cup Text
    BY DEF Reply
  <2>4. Viewer!Keep
    BY <1>11, <2>1, <2>2, <2>3 DEF Viewer!Keep
  <2> QED
    BY <2>4 DEF Viewer!Next
<1>13. ASSUME NEW p \in Photo, NEW s \in Slot, ShowImage(p, s) PROVE Viewer!Show
  <2>1. Take(p) /\ p \in Reply /\ p # None
    BY <1>13 DEF ShowImage, Reply
  <2>2. /\ hidden' = [w \in Widget |-> w = "pairing"] /\ fading' = TRUE
        /\ image'[Back'] = s /\ photo'[s] = p
    <3>1. /\ front \in Layer /\ Back \in Layer /\ image \in [Layer -> Slot \cup {None}]
      BY <1>4, OtherIs DEF TypeOK, Back
    <3> QED
      BY <1>13, <3>1, OtherIs DEF ShowImage, ShowLayers, Remap, Back
  <2>3. ~ShowsNotice'
    BY <2>2 DEF ShowsNotice, Widget
  <2>4. Panel' = p
    BY <1>2, <2>2, <2>3 DEF Shown
  <2> QED
    BY <1>11, <2>1, <2>4 DEF Viewer!Show
<1>14. ASSUME NEW n \in Url \cup Text, Take(n), hidden' = [w \in Widget |-> w # "pairing"],
              label' = n
       PROVE  Viewer!Show
  <2>1. n \in Reply /\ n # None
    BY DEF Reply
  <2>2. Panel' = n
    BY <1>2, <1>14 DEF Shown, ShowsNotice
  <2> QED
    BY <1>11, <1>14, <2>1, <2>2 DEF Viewer!Show
<1>15. CASE (\E u \in Url : ShowPrompt(u)) \/ (\E t \in Text : ShowMessage(t))
  <2>1. Viewer!Show
    BY <1>14, <1>15 DEF ShowPrompt, ShowMessage, ShowPairing
  <2> QED
    BY <2>1 DEF Viewer!Next
<1>16. CASE Stop
  <2>1. UNCHANGED Panel
    BY <1>6, <1>16 DEF Stop
  <2>2. Viewer!Stop
    BY <1>3, <1>16, <2>1 DEF Stop, ProgressIs, Viewer!Stop
  <2> QED
    BY <2>2 DEF Viewer!Next
<1>17. CASE Exit
  <2>1. Panel' = None
    <3>1. /\ hidden' = [w \in Widget |-> w = "pairing"] /\ fading' = FALSE
          /\ front' \in Layer /\ image' = [o \in Layer |-> None]
      BY <1>17 DEF Exit, Layer
    <3>2. ~ShowsNotice'
      BY <3>1 DEF ShowsNotice, Widget
    <3> QED
      BY <1>2, <3>1, <3>2 DEF Shown
  <2>2. /\ phase = "joining" /\ phase' = "gone" /\ request' = "none" /\ reply' = None
    BY <1>17 DEF Exit, Joined
  <2>3. Viewer!Restart
    BY <1>3, <2>1, <2>2 DEF ProgressIs, Viewer!Restart
  <2> QED
    BY <2>3 DEF Viewer!Next
<1>18. CASE FadeFrame \/ (\E o \in Layer : Draw(o))
  <2>1. UNCHANGED <<front, fading, image, photo, hidden, label, phase, request, reply>>
    BY <1>18 DEF FadeFrame, Draw, loopV, ipc, notice
  <2>2. UNCHANGED Panel
    BY <1>2, <2>1, PanelKept
  <2> QED
    BY <1>5, <2>1, <2>2 DEF Progress, Awaiting
<1>19. CASE FadeEnds
  <2>1. UNCHANGED <<hidden, label, phase, request, reply>> /\ fading' = FALSE
    BY <1>19 DEF FadeEnds, loopV, ipc, notice
  <2>2. /\ front \in Layer /\ Back \in Layer /\ front # Back /\ fading
        /\ image[Back] \in Slot /\ image[front] # image[Back]
    BY <1>4, <1>19, OtherIs DEF TypeOK, Fades, Owned, FadeEnds, FadeOver, Back, Layer
  <2>3. /\ front' = Back /\ image'[Back] = image[Back]
        /\ photo'[image[Back]] = photo[image[Back]]
    BY <1>4, <1>19, <2>2 DEF FadeEnds, ReleaseFront, Remap, TypeOK
  <2>4. UNCHANGED Panel
    BY <1>2, <2>1, <2>2, <2>3 DEF Shown, ShowsNotice
  <2> QED
    BY <1>5, <2>1, <2>4 DEF Progress, Awaiting
<1> QED
  BY <1>7, <1>8, <1>9, <1>10, <1>12, <1>13, <1>15, <1>16, <1>17, <1>18, <1>19
     DEF Next, Main, Handle, Lvgl, Viewer!Next

\* The panel always shows what the latest answer said, and nothing else changes it.
THEOREM FrontendImplementsScreen == Spec => ShowsReplies
<1>1. Spec => Viewer!Spec
  BY ViewerInit, ViewerNext, ScreenAlways, PTL DEF Spec, Viewer!Spec
<1> QED
  BY <1>1 DEF ShowsReplies
=============================================================================
