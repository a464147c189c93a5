---------------------------- MODULE Update_proofs ----------------------------
(***************************************************************************)
(* What update.sh leaves behind, for any releases, any KEEP_RELEASES, any  *)
(* sequence of runs, and any number of kills, reboots and failures.        *)
(***************************************************************************)
EXTENDS Update, SequenceTheorems, TLAPS

-----------------------------------------------------------------------------
(* Lists without repetition. *)

Once(s) == \A i, j \in DOMAIN s : s[i] = s[j] => i = j

LEMMA RemoveFirstOnce ==
  ASSUME NEW S, NEW s \in Seq(S), Once(s), NEW e
  PROVE  LET t == RemoveFirst(s, e) IN
           /\ t \in Seq(S) /\ Once(t) /\ Range(t) = Range(s) \ {e}
<1> DEFINE at == {i \in 1 .. Len(s) : s[i] = e}
<1>1. CASE e \notin Range(s)
  <2>1. RemoveFirst(s, e) = s
    BY <1>1 DEF RemoveFirst, Range
  <2> QED
    BY <2>1, <1>1
<1>2. CASE e \in Range(s)
  <2>1. PICK i \in 1 .. Len(s) : s[i] = e
    BY <1>2 DEF Range
  <2>2. at = {i}
    BY <2>1 DEF Once
  <2>3. Min(at) = i
    BY <2>2 DEF Min
  <2>4. RemoveFirst(s, e) = RemoveAt(s, i)
    BY <2>1, <2>3 DEF RemoveFirst, SelectInSeq
  <2> DEFINE a == SubSeq(s, 1, i - 1)
             b == SubSeq(s, i + 1, Len(s))
             t == a \o b
  <2>5. a \in Seq(S) /\ Len(a) = i - 1 /\ \A j \in 1 .. i - 1 : a[j] = s[j]
    BY <2>1
  <2>6. b \in Seq(S) /\ Len(b) = Len(s) - i /\ \A j \in 1 .. Len(s) - i : b[j] = s[i + j]
    BY <2>1
  <2> HIDE DEF a, b, t
  <2>7. /\ t \in Seq(S) /\ Len(t) = Len(s) - 1 /\ DOMAIN t = 1 .. Len(s) - 1
        /\ \A j \in 1 .. Len(s) - 1 : t[j] = IF j < i THEN s[j] ELSE s[j + 1]
    <3>1. t \in Seq(S) /\ Len(t) = Len(s) - 1
      BY <2>1, <2>5, <2>6, ConcatProperties DEF t
    <3>2. ASSUME NEW j \in 1 .. Len(s) - 1 PROVE t[j] = IF j < i THEN s[j] ELSE s[j + 1]
      <4>1. t[j] = IF j =< i - 1 THEN a[j] ELSE b[j - (i - 1)]
        BY <2>1, <2>5, <2>6, ConcatProperties DEF t
      <4>2. CASE j < i
        BY <4>1, <4>2, <2>5
      <4>3. CASE j >= i
        <5>1. j - (i - 1) \in 1 .. Len(s) - i /\ i + (j - (i - 1)) = j + 1
          BY <4>3
        <5>2. b[j - (i - 1)] = s[i + (j - (i - 1))]
          BY <5>1, <2>6
        <5> QED
          BY <4>1, <4>3, <5>1, <5>2, <2>1
      <4> QED
        BY <4>2, <4>3, <2>1
    <3> QED
      BY <3>1, <3>2
  <2>8. Once(t)
    <3> SUFFICES ASSUME NEW j \in DOMAIN t, NEW k \in DOMAIN t, t[j] = t[k], j < k PROVE FALSE
      BY <2>7 DEF Once
    <3>1. PICK u \in 1 .. Len(s) : t[j] = s[u] /\ u = IF j < i THEN j ELSE j + 1
      BY <2>7, <2>1
    <3>2. PICK v \in 1 .. Len(s) : t[k] = s[v] /\ v = IF k < i THEN k ELSE k + 1
      BY <2>7, <2>1
    <3>3. u # v
      BY <3>1, <3>2, <2>1, <2>7
    <3> QED
      BY <3>1, <3>2, <3>3, LenProperties DEF Once
  <2>9. ASSUME NEW x \in Range(s) \ {e} PROVE x \in Range(t)
    <3>1. PICK k \in 1 .. Len(s) : s[k] = x
      BY DEF Range
    <3>2. CASE k < i
      BY <3>1, <3>2, <2>1, <2>7 DEF Range
    <3>3. CASE k > i
      <4>1. k - 1 \in 1 .. Len(s) - 1 /\ t[k - 1] = x
        BY <3>1, <3>3, <2>1, <2>7
      <4> QED
        BY <4>1, <2>7 DEF Range
    <3> QED
      BY <3>1, <3>2, <3>3, <2>1
  <2>10. ASSUME NEW x \in Range(t) PROVE x \in Range(s) \ {e}
    <3>1. PICK j \in 1 .. Len(s) - 1 : t[j] = x
      BY <2>7 DEF Range
    <3>2. PICK k \in 1 .. Len(s) : s[k] = x /\ k # i
      BY <3>1, <2>1, <2>7
    <3> QED
      BY <3>2, <2>1 DEF Range, Once
  <2> QED
    BY <2>4, <2>7, <2>8, <2>9, <2>10 DEF RemoveAt, t, a, b
<1> QED
  BY <1>1, <1>2

LEMMA ConsOnce ==
  ASSUME NEW S, NEW s \in Seq(S), Once(s), NEW e \in S, e \notin Range(s)
  PROVE  LET t == <<e>> \o s IN
           /\ t \in Seq(S) /\ Once(t) /\ Range(t) = Range(s) \cup {e}
<1> DEFINE t == <<e>> \o s
<1>1. <<e>> \in Seq(S) /\ Len(<<e>>) = 1 /\ <<e>>[1] = e
  OBVIOUS
<1>2. /\ t \in Seq(S) /\ DOMAIN t = 1 .. Len(s) + 1 /\ t[1] = e
      /\ \A i \in 2 .. Len(s) + 1 : t[i] = s[i - 1] /\ i - 1 \in DOMAIN s
  BY <1>1, ConcatProperties
<1>3. \A i \in DOMAIN s : i + 1 \in DOMAIN t /\ t[i + 1] = s[i]
  BY <1>1, <1>2, ConcatProperties
<1> HIDE DEF t
<1>4. Once(t)
  <2> SUFFICES ASSUME NEW i \in DOMAIN t, NEW j \in DOMAIN t, t[i] = t[j], i < j PROVE FALSE
    BY <1>2 DEF Once
  <2>1. t[j] = s[j - 1] /\ j - 1 \in DOMAIN s
    BY <1>2
  <2>2. CASE i = 1
    BY <1>2, <2>1, <2>2 DEF Range
  <2>3. CASE i > 1
    BY <1>2, <2>1, <2>3 DEF Once
  <2> QED
    BY <1>2, <2>2, <2>3
<1>5. Range(s) \cup {e} \subseteq Range(t)
  <2>1. 1 \in DOMAIN t
    BY <1>2
  <2> QED
    BY <2>1, <1>2, <1>3 DEF Range
<1>6. ASSUME NEW x \in Range(t) PROVE x \in Range(s) \cup {e}
  <2>1. PICK i \in 1 .. Len(s) + 1 : t[i] = x
    BY <1>2 DEF Range
  <2> QED
    BY <2>1, <1>2 DEF Range
<1> QED
  BY <1>2, <1>4, <1>5, <1>6 DEF t

-----------------------------------------------------------------------------
USE UpdateAssumption

-----------------------------------------------------------------------------
(* The inductive invariant: what the link is at each place in the script. *)

Before == {"unpack", "install", "stop", "swap"}
After == {"start", "check", "rollback"}

Types ==
  /\ dir \in [Release -> {"absent", "partial", "full"}]
  /\ pc \in Before \cup After \cup {"idle", "restart", "list", "prune"}
  /\ pc # "idle" => new \in Release
  /\ current \in Release \cup {None, Self} /\ previous \in Release \cup {None, Self}

\* Before the swap the link is what readlink said, and is not what is unpacked.
LinkBefore == pc \in Before => previous = Resolved /\ current # new

\* After it the link is the new release, until it is rolled back.
LinkAfter ==
  /\ pc \in After => current = new /\ previous # new
  /\ pc = "restart" => current = previous /\ previous # new
  /\ pc \in {"list", "prune"} => current = new

\* What the link names is complete, and is what it will go back to, and what is new.
CurrentFull == current \in Release => dir[current] = "full"

PreviousFull ==
  pc \in Before \cup After \cup {"restart"} /\ previous \in Release =>
    dir[previous] = "full"

NewFull == pc \in {"stop", "swap", "restart"} \cup After => dir[new] = "full"

\* The release in use is never pruned.
Spared == current \notin doomed /\ (pc \notin {"list", "prune"} => doomed = {})

\* On a frame that works the link, and what it goes back to, are releases.
Linked ==
  Works => /\ current \in Release
           /\ pc \in Before \cup After \cup {"restart"} => previous \in Release

LinkInv ==
  /\ Types /\ LinkBefore /\ LinkAfter /\ CurrentFull /\ PreviousFull /\ NewFull
  /\ Spared /\ Linked

LEMMA LinkInit == Init => LinkInv
BY DEF Init, Installed, Bare, LinkInv, Types, LinkBefore, LinkAfter, CurrentFull,
       PreviousFull, NewFull, Spared, Linked, Works, Before, After

LEMMA LinkNext == LinkInv /\ [Next]_vars => LinkInv'
<1> SUFFICES ASSUME LinkInv, [Next]_vars PROVE LinkInv'
  OBVIOUS
<1> USE DEF LinkInv, Types, LinkBefore, LinkAfter, CurrentFull, PreviousFull, NewFull,
            Spared, Linked, Works, Resolved, Before, After, Step, End, link, releases,
            run
<1>1. ASSUME NEW v \in Release, Begin(v) PROVE LinkInv'
  BY <1>1 DEF Begin, AlreadyRunning
<1>2. CASE Unpack
  BY <1>2 DEF Unpack
<1>3. CASE Install
  BY <1>3 DEF Install
<1>4. CASE StopServices \/ StopFails \/ Start
  BY <1>4 DEF StopServices, StopFails, Start
<1>14. CASE Swap
  <2>1. /\ pc = "swap" /\ pc' = "start" /\ current' = new
        /\ UNCHANGED <<dir, doomed, new, previous, passed>>
    BY <1>14 DEF Swap
  <2>2. previous # new /\ previous = Resolved /\ new \in Release
    BY <2>1
  <2>3. doomed = {}
    BY <2>1
  <2> QED
    BY <2>1, <2>2, <2>3
<1>5. CASE InstallFails \/ SwapFails \/ StartFails
  BY <1>5 DEF InstallFails, SwapFails, StartFails
<1>6. CASE Answers \/ NoAnswer
  BY <1>6 DEF Answers, NoAnswer
<1>7. CASE RollBack
  <2>1. /\ pc = "rollback" /\ pc' = "restart" /\ current' = previous
        /\ UNCHANGED <<dir, doomed, new, previous, passed>>
    BY <1>7 DEF RollBack
  <2>2. doomed = {}
    BY <2>1
  <2> QED
    BY <2>1, <2>2
<1>15. CASE RollBackFails \/ CannotRollBack
  <2>1. pc' = "idle" /\ doomed' = {} /\ UNCHANGED <<dir, current, passed>> /\ previous' = None
    BY <1>15 DEF RollBackFails, CannotRollBack
  <2> QED
    BY <2>1
<1>8. CASE Restart \/ RestartFails \/ Done
  BY <1>8 DEF Restart, RestartFails, Done
<1>9. CASE List
  <2>1. current' \notin doomed' /\ pc' = "prune"
    BY <1>9 DEF List
  <2> QED
    BY <1>9, <2>1 DEF List
<1>10. ASSUME NEW r \in Release, Prune(r) PROVE LinkInv'
  <2>1. /\ r # current /\ pc = "prune" /\ doomed' \subseteq doomed
        /\ UNCHANGED <<link, new, previous, pc, passed>>
        /\ dir' \in {[dir EXCEPT ![r] = "partial"], [dir EXCEPT ![r] = "absent"]}
    BY <1>10 DEF Prune
  <2> QED
    BY <2>1
<1>11. CASE Killed
  BY <1>11 DEF Killed
<1>12. CASE Reboot
  BY <1>12 DEF Reboot
<1>13. CASE UNCHANGED vars
  BY <1>13 DEF vars
<1> QED
  BY <1>1, <1>2, <1>3, <1>4, <1>5, <1>6, <1>7, <1>8, <1>9, <1>10, <1>11, <1>12, <1>13,
     <1>14, <1>15
  DEF Next, Script

LEMMA LinkAlways == Spec => []LinkInv
BY LinkInit, LinkNext, PTL DEF Spec

\* Once a release has answered, the link names a completely installed one in every
\* reachable state: whatever ends a run, the frame can start what it finds.
THEOREM LinkBoots == Spec => []CurrentInstalled
<1>1. LinkInv => CurrentInstalled
  BY DEF LinkInv, CurrentFull, Linked, CurrentInstalled
<1> QED
  BY <1>1, LinkAlways, PTL

\* From then on, while a release may fail its check, the previous one is another,
\* complete.
THEOREM PreviousKept == Spec => []CanRollBack
<1>1. LinkInv => CanRollBack
  BY DEF LinkInv, Types, LinkBefore, LinkAfter, PreviousFull, Linked, Resolved,
         CanRollBack, Exposed, Before, After
<1> QED
  BY <1>1, LinkAlways, PTL

-----------------------------------------------------------------------------
(* Type correctness. *)

\* Every directory is listed once, in its place.
Listed ==
  /\ order \in Seq(Release) /\ Once(order)
  /\ Range(order) = {r \in Release : dir[r] # "absent"}
  /\ pc = "install" => dir[new] # "absent"
  /\ doomed \in SUBSET Range(order)

Others ==
  /\ services \in Release \cup {None} /\ new \in Release \cup {None}
  /\ passed \in SUBSET Release /\ mishaps \in SUBSET Mishaps
  /\ events \in 0 .. MaxEvents

LEMMA ListedNext == LinkInv /\ Listed /\ [Next]_vars => Listed'
<1> SUFFICES ASSUME LinkInv, Listed, [Next]_vars PROVE Listed'
  OBVIOUS
<1> USE DEF Listed, Step, End, link, releases, run
<1>1. dir \in [Release -> {"absent", "partial", "full"}] /\ (pc # "idle" => new \in Release)
  BY DEF LinkInv, Types
<1>2. CASE Unpack
  <2> DEFINE s == RemoveFirst(order, new)
  <2>1. new \in Release
    BY <1>1, <1>2 DEF Unpack
  <2>2. s \in Seq(Release) /\ Once(s) /\ Range(s) = Range(order) \ {new}
    BY RemoveFirstOnce
  <2>3. order' = <<new>> \o s
    BY <1>2 DEF Unpack
  <2> HIDE DEF s
  <2>4. order' \in Seq(Release) /\ Once(order') /\ Range(order') = Range(s) \cup {new}
    BY <2>1, <2>2, <2>3, ConsOnce
  <2> QED
    BY <1>1, <1>2, <2>1, <2>2, <2>4 DEF Unpack
<1>3. CASE Install
  BY <1>1, <1>3 DEF Install
<1>4. ASSUME NEW r \in Release, Prune(r) PROVE Listed'
  <2> DEFINE s == RemoveFirst(order, r)
  <2>1. s \in Seq(Release) /\ Once(s) /\ Range(s) = Range(order) \ {r}
    BY RemoveFirstOnce
  <2>2. pc = "prune" /\ r \in doomed /\ UNCHANGED <<pc, new>>
    BY <1>4 DEF Prune
  <2>3. CASE dir[r] = "full"
    <3>1. /\ dir' = [dir EXCEPT ![r] = "partial"] /\ doomed' = doomed
          /\ order' = order \/ order' = <<r>> \o s
      BY <1>4, <2>3 DEF Prune
    <3> HIDE DEF s
    <3>2. /\ order' \in Seq(Release) /\ Once(order')
          /\ Range(order') = Range(order) \cup {r}
      <4>1. CASE order' = order
        BY <2>2, <4>1
      <4>2. CASE order' = <<r>> \o s
        BY <2>1, <4>2, ConsOnce
      <4> QED
        BY <3>1, <4>1, <4>2
    <3> QED
      BY <1>1, <2>2, <2>3, <3>1, <3>2
  <2>4. CASE dir[r] # "full"
    <3>1. /\ dir' = [dir EXCEPT ![r] = "absent"] /\ doomed' = doomed \ {r}
          /\ order' = s
      BY <1>4, <2>4 DEF Prune
    <3> QED
      BY <1>1, <2>1, <2>2, <3>1
  <2> QED
    BY <2>3, <2>4
<1>5. ASSUME UNCHANGED <<dir, order>>, pc' # "install" \/ (pc = "install" /\ new' = new),
             doomed' \in {{}, doomed}
      PROVE  Listed'
  BY <1>5
<1>6. ASSUME NEW v \in Release, Begin(v) PROVE Listed'
  BY <1>5, <1>6 DEF Begin
<1>7. CASE StopServices \/ StopFails \/ Swap \/ Start \/ StartFails \/ NoAnswer \/ RollBack
  BY <1>5, <1>7 DEF StopServices, StopFails, Swap, Start, StartFails, NoAnswer, RollBack
<1>8. CASE \/ InstallFails \/ SwapFails \/ RollBackFails \/ CannotRollBack \/ Restart
           \/ RestartFails \/ Done
  BY <1>5, <1>8
     DEF InstallFails, SwapFails, RollBackFails, CannotRollBack, Restart, RestartFails, Done
<1>9. CASE Killed \/ Reboot
  BY <1>5, <1>9 DEF Killed, Reboot
<1>10. CASE UNCHANGED vars
  BY <1>5, <1>10 DEF vars
<1>11. CASE Answers
  BY <1>11 DEF Answers
<1>12. CASE List
  <2>1. Range(SubSeq(order, Keep + 1, Len(order))) \subseteq Range(order)
    <3> SUFFICES ASSUME NEW x \in Range(SubSeq(order, Keep + 1, Len(order)))
                 PROVE  x \in Range(order)
      OBVIOUS
    <3> DEFINE t == SubSeq(order, Keep + 1, Len(order))
    <3>1. Len(order) \in Nat /\ Keep + 1 \in Nat
      OBVIOUS
    <3>2. CASE Keep + 1 > Len(order)
      <4>1. DOMAIN t = {}
        BY <3>1, <3>2
      <4> QED
        BY <4>1 DEF Range
    <3>3. CASE Keep + 1 =< Len(order)
      <4>1. /\ DOMAIN t = 1 .. Len(order) - Keep
            /\ \A i \in 1 .. Len(order) - Keep : t[i] = order[Keep + i]
        BY <3>1, <3>3
      <4>2. PICK i \in 1 .. Len(order) - Keep : t[i] = x
        BY <4>1 DEF Range
      <4>3. Keep + i \in DOMAIN order /\ x = order[Keep + i]
        BY <3>1, <3>3, <4>1, <4>2
      <4> QED
        BY <4>3 DEF Range
    <3> QED
      BY <3>1, <3>2, <3>3
  <2> QED
    BY <1>12, <2>1 DEF List
<1> QED
  BY <1>2, <1>3, <1>4, <1>6, <1>7, <1>8, <1>9, <1>10, <1>11, <1>12 DEF Next, Script

LEMMA EventsNext == events \in 0 .. MaxEvents /\ [Next]_vars => events' \in 0 .. MaxEvents
<1> SUFFICES ASSUME events \in 0 .. MaxEvents, [Next]_vars PROVE events' \in 0 .. MaxEvents
  OBVIOUS
<1>1. ASSUME NEW e, Happens(e) PROVE events' \in 0 .. MaxEvents
  BY <1>1 DEF Happens
<1>2. events' = events \/ \E e : Happens(e)
  BY DEF vars, Next, Script, Begin, Unpack, Install, InstallFails, StopServices, StopFails,
         Swap, SwapFails, Start, StartFails, Answers, NoAnswer, RollBack, RollBackFails,
         CannotRollBack, Restart, RestartFails, List, Prune, Done, Killed, Reboot
<1> QED
  BY <1>1, <1>2

LEMMA MishapsNext == mishaps \in SUBSET Mishaps /\ [Next]_vars => mishaps' \in SUBSET Mishaps
BY DEF vars, Mishaps, Next, Script, Begin, Unpack, Install, InstallFails, StopServices,
       StopFails, Swap, SwapFails, Start, StartFails, Answers, NoAnswer, RollBack,
       RollBackFails, CannotRollBack, Restart, RestartFails, List, Prune, Done, Killed,
       Reboot

LEMMA OthersNext == LinkInv /\ Others /\ [Next]_vars => Others'
<1> SUFFICES ASSUME LinkInv, Others, [Next]_vars PROVE Others'
  OBVIOUS
<1>0. events' \in 0 .. MaxEvents /\ mishaps' \in SUBSET Mishaps
  BY EventsNext, MishapsNext DEF Others
<1>1. /\ services \in Release \cup {None} /\ new \in Release \cup {None}
      /\ passed \in SUBSET Release /\ (pc # "idle" => new \in Release)
  BY DEF LinkInv, Types, Others
<1> USE DEF Step, End, link, run
<1>2. services' \in Release \cup {None}
  BY <1>1 DEF vars, Next, Script, Begin, Unpack, Install, InstallFails, StopServices,
     StopFails, Swap, SwapFails, Start, StartFails, Answers, NoAnswer, RollBack,
     RollBackFails, CannotRollBack, Restart, Bootable, RestartFails, List, Prune, Done,
     Killed, Reboot
<1>3. new' \in Release \cup {None}
  BY <1>1 DEF vars, Next, Script, Begin, Unpack, Install, InstallFails, StopServices,
     StopFails, Swap, SwapFails, Start, StartFails, Answers, NoAnswer, RollBack,
     RollBackFails, CannotRollBack, Restart, RestartFails, List, Prune, Done, Killed,
     Reboot
<1>4. passed' \in SUBSET Release
  BY <1>1 DEF vars, Next, Script, Begin, Unpack, Install, InstallFails, StopServices,
     StopFails, Swap, SwapFails, Start, StartFails, Answers, NoAnswer, RollBack,
     RollBackFails, CannotRollBack, Restart, RestartFails, List, Prune, Done, Killed,
     Reboot
<1> QED
  BY <1>0, <1>2, <1>3, <1>4 DEF Others

LEMMA OthersAlways == Spec => []Others
<1>1. Init => Others
  BY DEF Init, Installed, Bare, Others
<1> QED
  BY <1>1, LinkAlways, OthersNext, PTL DEF Spec

\* Type correctness: whatever is killed or fails, and in any sequence of runs, the
\* list that is pruned from names each existing directory once.
THEOREM TypeCorrect == Spec => []TypeOK
<1>1. Init => Listed
  <2> SUFFICES ASSUME Init PROVE Listed
    OBVIOUS
  <2>2. CASE Installed
    <3>1. order = <<First>> /\ dir = [r \in Release |-> IF r = First THEN "full" ELSE "absent"]
      BY <2>2 DEF Installed
    <3>2. order \in Seq(Release) /\ DOMAIN order = {1} /\ order[1] = First
      BY <3>1
    <3> QED
      BY <3>1, <3>2 DEF Listed, Once, Range, Init
  <2>3. CASE Bare
    <3>1. order = <<>> /\ dir = [r \in Release |-> "absent"]
      BY <2>3 DEF Bare
    <3>2. order \in Seq(Release) /\ DOMAIN order = {}
      BY <3>1
    <3> QED
      BY <3>1, <3>2 DEF Listed, Once, Range, Init
  <2> QED
    BY <2>2, <2>3 DEF Init
<1>2. LinkInv /\ Listed /\ Others => TypeOK
  BY DEF LinkInv, Types, Listed, Others, Once, TypeOK, Exposed, Before, After
<1> QED
  BY <1>1, <1>2, LinkAlways, ListedNext, OthersAlways, PTL DEF Spec

-----------------------------------------------------------------------------
(* The verdict. *)

\* What the script may leave a link on that is not checked.
Doubtful == {"cut", "stop", "rollback"}

\* The services run the new release, or have not been stopped.
Ran ==
  /\ pc \in {"swap", "start"} => services = None \/ "stop" \in mishaps
  /\ pc = "check" => services = new \/ "stop" \in mishaps

\* What the link is when the script ends, or goes back to, has passed a check.
CheckedInv ==
  Works /\ mishaps \cap Doubtful = {} =>
    /\ pc \in Before \cup {"idle", "restart", "list", "prune"} => current \in passed
    /\ pc \in After => previous \in passed

LEMMA CheckedNext ==
  LinkInv /\ Others /\ Ran /\ CheckedInv /\ [Next]_vars => Ran' /\ CheckedInv'
<1> SUFFICES ASSUME LinkInv, Others, Ran, CheckedInv, [Next]_vars PROVE Ran' /\ CheckedInv'
  OBVIOUS
<1> USE DEF LinkInv, Types, LinkBefore, LinkAfter, Linked, Resolved, Works, CheckedInv, Ran,
            Doubtful, Before, After, Exposed, Step, End, link, releases, run
<1>1. ASSUME NEW v \in Release, Begin(v) PROVE Ran' /\ CheckedInv'
  BY <1>1 DEF Begin
<1>2. CASE Unpack \/ Install \/ StopServices \/ StopFails
  BY <1>2 DEF Unpack, Install, StopServices, StopFails
<1>3. CASE Swap \/ Start \/ List
  BY <1>3 DEF Swap, Start, List
<1>4. CASE InstallFails \/ SwapFails \/ StartFails
  BY <1>4 DEF InstallFails, SwapFails, StartFails
<1>5. CASE NoAnswer
  BY <1>5 DEF NoAnswer
<1>6. CASE Answers
  <2>1. CASE services = new
    BY <1>6, <2>1 DEF Answers
  <2>2. CASE services # new
    <3>1. "stop" \in mishaps' /\ pc' = "list"
      BY <1>6, <2>2 DEF Answers
    <3> QED
      BY <3>1
  <2> QED
    BY <2>1, <2>2
<1>7. CASE RollBack \/ RollBackFails \/ CannotRollBack
  <2>1. CASE RollBack
    BY <1>7, <2>1 DEF RollBack
  <2>2. CASE RollBackFails
    <3>1. "rollback" \in mishaps' /\ pc' = "idle"
      BY <2>2 DEF RollBackFails
    <3> QED
      BY <3>1
  <2>3. CASE CannotRollBack
    <3>1. pc = "rollback" /\ pc' = "idle" /\ passed' = passed /\ ~HasPrevious
      BY <2>3 DEF CannotRollBack
    <3>2. ~Works
      BY <3>1 DEF HasPrevious, PreviousFull
    <3> QED
      BY <3>1, <3>2
  <2> QED
    BY <1>7, <2>1, <2>2, <2>3
<1>8. CASE Restart \/ RestartFails \/ Done
  BY <1>8 DEF Restart, RestartFails, Done
<1>9. ASSUME NEW r \in Release, Prune(r) PROVE Ran' /\ CheckedInv'
  BY <1>9 DEF Prune
<1>10. CASE Killed \/ Reboot
  BY <1>10 DEF Killed, Reboot
<1>11. CASE UNCHANGED vars
  BY <1>11 DEF vars
<1> QED
  BY <1>1, <1>2, <1>3, <1>4, <1>5, <1>6, <1>7, <1>8, <1>9, <1>10, <1>11 DEF Next, Script

\* Once a release has answered, every end of a run leaves the link on one that did,
\* whatever failed, unless the run was cut while exposed, the old services could not be
\* stopped or the link could not be put back.
THEOREM OnlyCheckedStay == Spec => []EndsChecked
<1>1. Init => Ran /\ CheckedInv
  BY DEF Init, Installed, Bare, Ran, CheckedInv, Works, Before, After
<1>2. CheckedInv => EndsChecked
  BY DEF CheckedInv, EndsChecked, Doubtful
<1> QED
  BY <1>1, <1>2, LinkAlways, OthersAlways, CheckedNext, PTL DEF Spec
=============================================================================
