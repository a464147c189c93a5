-------------------------------- MODULE Walk --------------------------------
(***************************************************************************)
(* Which photos the owner selects: list and syncOnce in frame.go, the tag, *)
(* the REPORT and the walk below what it returns in client.go, and what    *)
(* dav.go makes of a reply.                                                *)
(*                                                                         *)
(* The frame sends one request at a time; between two of them the owner    *)
(* moves, deletes and tags what is being walked.  An href is a path from   *)
(* the owner's root, so a file that is moved has another href.             *)
(*                                                                         *)
(* ETags, renders and the store's entries are Frame.tla's subject: here    *)
(* `listed', the last listing that succeeded, stands for the tracked       *)
(* photos, which syncOnce makes equal to it.                               *)
(***************************************************************************)
EXTENDS Integers, FiniteSets, SequencesExt

CONSTANTS
  Folder, Image,   \* names of folders, and of files that are photos
  Other,           \* names of files that are not
  Album,           \* the configured folder's href
  Shelf,           \* the hrefs on the server at the start
  Favored,         \* those of them tagged, or starred, at the start
  MaxDepth,        \* maxWalkDepth (8 in the code)
  MaxFiles,        \* maxWalkFiles (5000 in the code)
  Events,          \* what may happen: "mark", "unmark", "move", "delete",
                   \* "untag", "fail", "revoke", "stop"
  MaxEvents        \* bound on their number

Name == Folder \cup Image \cup Other
Href == Seq(Name) \ {<< >>}
IsDir(h) == Last(h) \in Folder

ASSUME WalkAssumption ==
  /\ Folder \cap Image = {}
  /\ Shelf \subseteq Href /\ Favored \subseteq Shelf /\ Album \in Shelf
  /\ \A h \in Shelf : \A n \in 1 .. Len(h) - 1 : SubSeq(h, 1, n) \in Shelf /\ h[n] \in Folder
  /\ MaxDepth \in Nat /\ MaxFiles \in Nat \ {0} /\ MaxEvents \in Nat

VARIABLES
  mode,        \* config.Selection
  tree,        \* the server's files and folders
  marked,      \* those that carry the tag, or the star
  tag,         \* whether the tag exists
  restricted,  \* only an administrator may create tags
  authorized,  \* the app password is good
  pc,
  id,          \* the tag id of the last ResolveTag or CreateTag
  level,       \* expand's calls, the outermost first: entries to do, files found
  listed,      \* the last listing that succeeded
  notice,
  stopping,
  stayed,      \* photos selected ever since the listing began, and that no
               \* failed request hides
  events

server == <<tree, marked, tag, authorized>>
constant == <<mode, restricted>>
vars == <<server, constant, pc, id, level, listed, notice, stopping, stayed, events>>

Happens(e) == e \in Events /\ events < MaxEvents /\ events' = events + 1
Quiet == UNCHANGED events

Below(h) == {k \in tree : IsPrefix(h, k)}

Children(h) == {k \in Below(h) : Len(k) = Len(h) + 1}

Roots == IF mode = "folder" THEN Children(Album) ELSE marked

\* The owner's selection, as the configuration defines it.
Selected ==
  {h \in tree : /\ Last(h) \in Image
                /\ \E r \in Roots : IsPrefix(r, h) /\ Len(h) - Len(r) <= MaxDepth}

TypeOK ==
  /\ mode \in {"tag", "favorites", "folder"} /\ restricted \in BOOLEAN
  /\ tree \subseteq Href /\ marked \subseteq tree
  /\ tag \in BOOLEAN /\ authorized \in BOOLEAN /\ stopping \in BOOLEAN
  /\ pc \in {"rest", "resolve", "create", "report", "walk", "unpaired", "stopped"}
  /\ id \in {"none", "current", "stale"}
  /\ level \in Seq([todo : SUBSET Href, files : Seq(Href)])
  /\ Len(level) <= MaxDepth + 1 /\ (level = << >> <=> pc # "walk")
  /\ listed \in Seq(Href) /\ Len(listed) <= MaxFiles
  /\ notice \in {"", "ask", "empty"}
  /\ stayed \subseteq Selected /\ events \in 0 .. MaxEvents

Init ==
  /\ mode \in {"tag", "favorites", "folder"} /\ restricted \in BOOLEAN
  /\ tree = Shelf /\ marked = Favored /\ tag = TRUE /\ authorized = TRUE
  /\ pc = "rest" /\ id = "none" /\ level = << >> /\ listed = << >> /\ notice = ""
  /\ stopping = FALSE /\ stayed = {} /\ events = 0

-----------------------------------------------------------------------------
(* list *)

Top == Last(level)
Depth == Len(level) - 1
Reset == level' = << >> /\ stayed' = {}

Begin ==
  /\ pc = "rest" /\ ~stopping
  /\ pc' = IF mode = "tag" THEN "resolve" ELSE "report"
  /\ stayed' = Selected
  /\ Quiet /\ UNCHANGED <<server, constant, id, level, listed, notice, stopping>>

\* Mutant: one level too many.
DescendsDeeper(h) == IsDir(h) /\ Depth <= MaxDepth /\ Len(Top.files) < MaxFiles

\* A folder of the reply that is to be listed, at this place of the walk.
Descends(h) == IsDir(h) /\ Depth < MaxDepth /\ Len(Top.files) < MaxFiles

Answered == authorized /\ ~stopping

\* Mutant: the id is resolved once and kept.
ResolveOnce ==
  /\ pc = "resolve" /\ Answered
  /\ id' = IF id = "none" THEN "current" ELSE id
  /\ pc' = "report"
  /\ Quiet
  /\ UNCHANGED <<server, constant, level, listed, notice, stopping, stayed>>

ResolveTag ==
  /\ pc = "resolve" /\ Answered
  /\ IF tag THEN pc' = "report" /\ id' = "current" ELSE pc' = "create" /\ id' = "none"
  /\ Quiet
  /\ UNCHANGED <<server, constant, level, listed, notice, stopping, stayed>>

CreateTag ==
  /\ pc = "create" /\ Answered /\ ~restricted
  /\ tag' = TRUE /\ id' = "current" /\ pc' = "report"
  /\ Quiet
  /\ UNCHANGED <<tree, marked, authorized, constant, level, listed, notice, stopping,
                 stayed>>

\* Refused, or failed, possibly after the tag was made; whatever the error, the
\* screen asks for an administrator.
CreateTagFails ==
  /\ pc = "create" /\ Answered
  /\ \/ restricted /\ Quiet /\ UNCHANGED tag
     \/ ~restricted /\ Happens("fail") /\ tag' \in BOOLEAN
  /\ notice' = "ask" /\ pc' = "rest" /\ Reset
  /\ UNCHANGED <<tree, marked, authorized, constant, id, listed, stopping>>

\* What the reply names: nothing for a tag id no longer in use.
Report ==
  /\ pc = "report" /\ Answered
  /\ mode = "folder" => Album \in tree
  /\ level' = <<[todo |-> IF mode = "tag" /\ id = "stale" THEN {} ELSE Roots,
                 files |-> << >>]>>
  /\ pc' = "walk"
  /\ Quiet /\ UNCHANGED <<server, constant, id, listed, notice, stopping, stayed>>

\* The tag's list, the REPORT or the PROPFIND of the album fails: no listing.
ListFails ==
  /\ Answered
  /\ \/ pc \in {"resolve", "report"} /\ Happens("fail")
     \/ /\ pc = "report" /\ Quiet
        /\ (mode = "folder" /\ Album \notin tree) \/ (mode = "tag" /\ id = "stale")
  /\ pc' = "rest" /\ Reset
  /\ UNCHANGED <<server, constant, id, listed, notice, stopping>>

-----------------------------------------------------------------------------
(* expand *)

Rest(h) == [Top EXCEPT !.todo = @ \ {h}]
Cut(files) == SubSeq(files, 1, IF Len(files) > MaxFiles THEN MaxFiles ELSE Len(files))

TakeFile(h) ==
  /\ ~IsDir(h)
  /\ level' = Append(Front(level),
                     [Rest(h) EXCEPT !.files = IF Last(h) \in Image THEN Append(@, h) ELSE @])
  /\ Quiet /\ UNCHANGED <<server, constant, pc, id, listed, notice, stopping, stayed>>

PassFolder(h) ==
  /\ IsDir(h) /\ ~Descends(h)
  /\ level' = Append(Front(level), Rest(h))
  /\ Quiet /\ UNCHANGED <<server, constant, pc, id, listed, notice, stopping, stayed>>

Descend(h) ==
  /\ Descends(h) /\ Answered /\ h \in tree
  /\ level' = Front(level) \o <<Rest(h), [todo |-> Children(h), files |-> << >>]>>
  /\ Quiet /\ UNCHANGED <<server, constant, pc, id, listed, notice, stopping, stayed>>

\* Mutant: a folder is left out whatever made its request fail.
SkipWhatever(h) ==
  /\ Descends(h)
  /\ \/ (h \notin tree \/ ~Answered) /\ Quiet /\ UNCHANGED stayed
     \/ Answered /\ h \in tree /\ Happens("fail") /\ stayed' = stayed \ Below(h)
  /\ level' = Append(Front(level), Rest(h))
  /\ UNCHANGED <<server, constant, pc, id, listed, notice, stopping>>

\* A folder that is gone or fails to list is left out.
SkipFolder(h) ==
  /\ Descends(h) /\ Answered
  /\ \/ h \notin tree /\ Quiet /\ UNCHANGED stayed
     \/ h \in tree /\ Happens("fail") /\ stayed' = stayed \ Below(h)
  /\ level' = Append(Front(level), Rest(h))
  /\ UNCHANGED <<server, constant, pc, id, listed, notice, stopping>>

Ascend ==
  /\ pc = "walk" /\ Top.todo = {} /\ Depth > 0
  /\ LET outer == Front(level) IN
       level' = Append(Front(outer), [Last(outer) EXCEPT !.files = @ \o Cut(Top.files)])
  /\ Quiet /\ UNCHANGED <<server, constant, pc, id, listed, notice, stopping, stayed>>

\* The outermost expand returns, and the store keeps what it lists and no more.
Sync ==
  /\ pc = "walk" /\ Top.todo = {} /\ Depth = 0
  /\ listed' = Cut(Top.files)
  /\ notice' = IF Top.files = << >> THEN "empty" ELSE ""
  /\ pc' = "rest" /\ Reset
  /\ Quiet /\ UNCHANGED <<server, constant, id, stopping>>

\* Any request meets a rejected password, which unpairs, or the shutdown, which
\* ends Run; either way there is no listing.
Abort ==
  /\ ~Answered
  /\ \/ pc \in {"resolve", "create", "report"}
     \/ pc = "walk" /\ \E h \in Top.todo : Descends(h)
  /\ pc' = IF stopping THEN "stopped" ELSE "unpaired"
  /\ notice' = IF pc = "create" THEN "ask" ELSE notice
  /\ Reset
  /\ Quiet /\ UNCHANGED <<server, constant, id, listed, stopping>>

Stopped ==
  /\ pc = "rest" /\ stopping
  /\ pc' = "stopped"
  /\ Quiet
  /\ UNCHANGED <<server, constant, id, level, listed, notice, stopping, stayed>>

Restart ==
  /\ pc = "stopped"
  /\ pc' = "rest" /\ stopping' = FALSE /\ notice' = "" /\ id' = "none"
  /\ Quiet /\ UNCHANGED <<server, constant, level, listed, stayed>>

-----------------------------------------------------------------------------
(* The owner. *)

Pair ==
  /\ pc = "unpaired"
  /\ pc' = "rest" /\ authorized' = TRUE /\ notice' = ""
  /\ Quiet
  /\ UNCHANGED <<tree, marked, tag, constant, id, level, listed, stopping, stayed>>

\* What the owner changes while a listing may be under way.
Meanwhile ==
  /\ UNCHANGED <<constant, pc, level, listed, notice, stopping>>
  /\ stayed' = stayed \cap Selected'

Mark(h) ==
  /\ Happens("mark")
  /\ h \in tree \ marked /\ (mode = "tag" => tag)
  /\ marked' = marked \cup {h}
  /\ UNCHANGED <<tree, tag, authorized, id>> /\ Meanwhile

Unmark(h) ==
  /\ Happens("unmark")
  /\ h \in marked
  /\ marked' = marked \ {h}
  /\ UNCHANGED <<tree, tag, authorized, id>> /\ Meanwhile

Delete(h) ==
  /\ Happens("delete")
  /\ h \in tree
  /\ tree' = tree \ Below(h) /\ marked' = marked \ Below(h)
  /\ UNCHANGED <<tag, authorized, id>> /\ Meanwhile

\* To the folder d, or to the root when d is empty; tags and stars go along.
Move(h, d) ==
  /\ Happens("move")
  /\ h \in tree
  /\ d = << >> \/ (d \in tree /\ IsDir(d) /\ ~IsPrefix(h, d))
  /\ Append(d, Last(h)) \notin tree
  /\ LET There(k) == d \o SubSeq(k, Len(h), Len(k))
         Moved(S) == (S \ Below(h)) \cup {There(k) : k \in S \cap Below(h)} IN
       tree' = Moved(tree) /\ marked' = Moved(marked)
  /\ UNCHANGED <<tag, authorized, id>> /\ Meanwhile

\* The tag itself is deleted, from all that carry it.
DeleteTag ==
  /\ Happens("untag")
  /\ mode = "tag" /\ tag
  /\ tag' = FALSE /\ marked' = {}
  /\ id' = IF id = "current" THEN "stale" ELSE id
  /\ UNCHANGED <<tree, authorized>> /\ Meanwhile

Revoke ==
  /\ Happens("revoke")
  /\ authorized /\ authorized' = FALSE
  /\ UNCHANGED <<tree, marked, tag, constant, pc, id, level, listed, notice, stopping,
                 stayed>>

Stop ==
  /\ Happens("stop")
  /\ ~stopping /\ pc \notin {"unpaired", "stopped"}
  /\ stopping' = TRUE
  /\ UNCHANGED <<server, constant, pc, id, level, listed, notice, stayed>>

-----------------------------------------------------------------------------
Expand ==
  \/ Ascend \/ Sync
  \/ pc = "walk" /\ \E h \in Top.todo :
                      TakeFile(h) \/ PassFolder(h) \/ Descend(h) \/ SkipFolder(h)

Listing ==
  \/ Begin \/ ResolveTag \/ CreateTag \/ CreateTagFails \/ Report \/ ListFails
  \/ Expand \/ Abort \/ Stopped

Environment ==
  \/ \E h \in tree : Mark(h) \/ Unmark(h) \/ Delete(h)
  \/ \E h \in tree, d \in tree \cup {<< >>} : Move(h, d)
  \/ DeleteTag \/ Revoke \/ Stop

Next == Listing \/ Restart \/ Pair \/ Environment

Spec == Init /\ [][Next]_vars

\* The worker goes on, systemd restarts it, and an owner scans a displayed code.
FairSpec == Spec /\ WF_vars(Listing) /\ WF_vars(Restart) /\ WF_vars(Pair)

-----------------------------------------------------------------------------
\* A photo that was selected from the beginning of a listing to its end stays
\* tracked, whatever the owner does to other files meanwhile and however the
\* requests end, unless a folder above it failed to list or the listing is cut at
\* its limit; so a shutdown or a rejected password never passes for folders that
\* cannot be read (client.go expand 147-157, frame.go syncOnce 246-301).
KeepsWhatStayed ==
  [][\A h \in stayed \cap ToSet(listed) :
        h \in ToSet(listed') \/ Len(listed') = MaxFiles]_vars

\* The selection can be listed: the tag is there or may be made, the album is there.
Listable ==
  CASE mode = "tag" -> tag \/ ~restricted
    [] mode = "favorites" -> TRUE
    [] mode = "folder" -> Album \in tree

\* Once the owner leaves the files alone and requests stop failing, exactly the
\* selected photos are tracked, unless the listing is cut, and the notice says
\* whether there are none (frame.go list 309-341, syncOnce 303-307).
TracksSelection ==
  <>[](Listable /\ pc # "stopped" =>
         \/ Len(listed) = MaxFiles
         \/ ToSet(listed) = Selected /\ notice = IF Selected = {} THEN "empty" ELSE "")
=============================================================================
