------------------------------- MODULE Update -------------------------------
(***************************************************************************)
(* deploy/update.sh: a release is unpacked beside the others, the services *)
(* are stopped, the link `current' is swapped, the services are started    *)
(* and probed, and the link goes back when they do not answer; then old    *)
(* releases are pruned.  The script may be killed (it runs in an SSH       *)
(* session) or the frame rebooted between any two of its steps, and it may *)
(* be run again, for any release, at any time; not twice at once.          *)
(*                                                                         *)
(* A release stands for its version.  Fetching and verifying the archive   *)
(* happen in a temporary directory and leave no trace, so a run begins     *)
(* when they have succeeded.                                               *)
(***************************************************************************)
EXTENDS Integers, FiniteSets, Sequences, SequencesExt

CONSTANTS
  Release,
  First,      \* the release install.sh put in place
  Healthy,    \* releases that answer on the socket once started
  Keep,       \* KEEP_RELEASES
  Events,     \* what may go wrong: see the actions that call Happens
  MaxEvents,  \* bound on how often
  None,
  Self        \* the path of the link itself

ASSUME UpdateAssumption ==
  /\ First \in Healthy /\ Healthy \subseteq Release
  /\ Keep \in Nat /\ MaxEvents \in Nat
  /\ None \notin Release /\ Self \notin Release /\ Self # None

VARIABLES
  dir,       \* a release's directory: "absent", "partial" or "full"
  order,     \* the directories, newest first
  current,   \* what the link names: a release, Self, or None when there is no link
  services,  \* the release both services run, None when they are stopped
  pc,        \* the place in the script, "idle" between runs
  new,       \* $VERSION
  previous,  \* $PREVIOUS
  passed,    \* releases that passed a health check, and the first
  doomed,    \* the directories that are left to prune
  mishaps,   \* what went wrong since a release last passed its own check
  events

link == <<current, services>>
releases == <<dir, order>>
run == <<new, previous, doomed>>
vars == <<releases, link, run, pc, passed, mishaps, events>>

\* A run was killed while exposed; systemctl failed to stop or to restart the services;
\* the link could not be replaced, in the swap or in a rollback.
Mishaps == {"cut", "stop", "restart", "swap", "rollback"}

\* The services are stopped, or run a release the check has not passed yet.
Exposed == {"swap", "start", "check", "rollback", "restart"}

\* The type of the state; every directory is listed once, in its place.
TypeOK ==
  /\ dir \in [Release -> {"absent", "partial", "full"}]
  /\ order \in Seq(Release)
  /\ \A i, j \in DOMAIN order : order[i] = order[j] => i = j
  /\ Range(order) = {r \in Release : dir[r] # "absent"}
  /\ current \in Release \cup {None, Self} /\ services \in Release \cup {None}
  /\ pc \in {"idle", "unpack", "install", "stop", "list", "prune"} \cup Exposed
  /\ new \in Release \cup {None} /\ previous \in Release \cup {None, Self}
  /\ passed \in SUBSET Release /\ doomed \in SUBSET Range(order)
  /\ mishaps \in SUBSET Mishaps
  /\ events \in 0 .. MaxEvents

\* install.sh has unpacked the first release, linked it and started it.
Installed ==
  /\ dir = [r \in Release |-> IF r = First THEN "full" ELSE "absent"]
  /\ order = <<First>>
  /\ current = First /\ services = First /\ passed = {First}

\* Or the link is missing, the case the script's tests of $PREVIOUS provide for; its
\* directory is there, which install.sh makes before it installs the script.
Bare ==
  /\ dir = [r \in Release |-> "absent"]
  /\ order = <<>>
  /\ current = None /\ services = None /\ passed = {}

Init ==
  /\ Installed \/ Bare
  /\ pc = "idle" /\ new = None /\ previous = None /\ doomed = {}
  /\ mishaps = {}
  /\ events = 0

Happens(e) == e \in Events /\ events < MaxEvents /\ events' = events + 1

Step(from, to) == pc = from /\ pc' = to

\* What the script leaves behind when it ends.
End == new' = None /\ previous' = None /\ doomed' = {}

\* What the frame starts: a link to itself, like no link, names no program.
Bootable == IF current \in Release THEN current ELSE None

\* readlink -f: the last component need not exist, but a loop is an error.
Resolved ==
  CASE current = None -> Self
    [] current = Self -> None
    [] OTHER -> current

-----------------------------------------------------------------------------
\* Mutant: a release is installed again over itself.
AlreadyRunningNever(v) == FALSE

\* "Already running; nothing to do."
AlreadyRunning(v) == Resolved = v

Begin(v) ==
  /\ Step("idle", "unpack")
  /\ ~AlreadyRunning(v)
  /\ new' = v
  /\ previous' = Resolved
  /\ mishaps' = mishaps \ {"swap", "restart"}   \* they left the link alone
  /\ UNCHANGED <<releases, link, doomed, passed, events>>

\* Mutant: the old directory is still listed.
UnpackAside ==
  /\ Step("unpack", "install")
  /\ dir' = [dir EXCEPT ![new] = "partial"]
  /\ order' = <<new>> \o order
  /\ UNCHANGED <<link, run, passed, mishaps, events>>

\* rm -rf, mkdir -p
Unpack ==
  /\ Step("unpack", "install")
  /\ dir' = [dir EXCEPT ![new] = "partial"]
  /\ order' = <<new>> \o RemoveFirst(order, new)
  /\ UNCHANGED <<link, run, passed, mishaps, events>>

Install ==
  /\ Step("install", "stop")
  /\ dir' = [dir EXCEPT ![new] = "full"]
  /\ UNCHANGED <<order, link, run, passed, mishaps, events>>

\* A full disk, or an archive without the binaries.
InstallFails ==
  /\ Step("install", "idle")
  /\ Happens("install")
  /\ End
  /\ UNCHANGED <<releases, link, passed, mishaps>>

StopServices ==
  /\ Step("stop", "swap")
  /\ services' = None
  /\ UNCHANGED <<releases, current, run, passed, mishaps, events>>

\* systemctl stop ... || true: what ran runs on.
StopFails ==
  /\ Step("stop", "swap")
  /\ Happens("stop")
  /\ mishaps' = mishaps \cup {"stop"}
  /\ UNCHANGED <<releases, link, run, passed>>

\* Mutant: the link is read again, after the swap.
SwapAndReread ==
  /\ Step("swap", "start")
  /\ current' = new
  /\ previous' = new
  /\ UNCHANGED <<releases, services, new, doomed, passed, mishaps, events>>

\* activate "$NEW_DIR": the rename of a fresh link is atomic.
Swap ==
  /\ Step("swap", "start")
  /\ current' = new
  /\ UNCHANGED <<releases, services, run, passed, mishaps, events>>

\* set -e: nothing restarts the services that were stopped.
SwapFails ==
  /\ Step("swap", "idle")
  /\ Happens("link")
  /\ mishaps' = mishaps \cup {"swap"}
  /\ End
  /\ UNCHANGED <<releases, link, passed>>

\* Services that are active are left as they are.
Start ==
  /\ Step("start", "check")
  /\ services' = IF services = None THEN new ELSE services
  /\ UNCHANGED <<releases, current, run, passed, mishaps, events>>

StartFails ==
  /\ Step("start", "rollback")
  /\ Happens("start")
  /\ UNCHANGED <<releases, link, run, passed, mishaps>>

\* The probe does not ask what answers.
Answers ==
  /\ Step("check", "list")
  /\ services \in Healthy
  /\ passed' = passed \cup {services}
  /\ mishaps' = IF services = new THEN {} ELSE mishaps
  /\ UNCHANGED <<releases, link, run, events>>

\* HEALTH_TIMEOUT probes without an answer: a bad release, or a slow start.
NoAnswer ==
  /\ Step("check", "rollback")
  /\ \/ services \notin Healthy /\ UNCHANGED events
     \/ Happens("slow")
  /\ UNCHANGED <<releases, link, run, passed, mishaps>>

\* -n and -d: the link itself now leads to the new release.
HasPrevious ==
  \/ previous = Self
  \/ previous \in Release /\ dir[previous] # "absent"

\* Mutant: the services are restarted, the link stays.
RollBackServices ==
  /\ Step("rollback", "restart")
  /\ HasPrevious
  /\ UNCHANGED <<releases, link, run, passed, mishaps, events>>

\* activate "$PREVIOUS", which may make the link name itself.
RollBack ==
  /\ Step("rollback", "restart")
  /\ HasPrevious
  /\ current' = previous
  /\ UNCHANGED <<releases, services, run, passed, mishaps, events>>

RollBackFails ==
  /\ Step("rollback", "idle")
  /\ HasPrevious
  /\ Happens("link")
  /\ mishaps' = mishaps \cup {"rollback"}
  /\ End
  /\ UNCHANGED <<releases, link, passed>>

\* "there is no previous release to roll back to"
CannotRollBack ==
  /\ Step("rollback", "idle")
  /\ ~HasPrevious
  /\ End
  /\ UNCHANGED <<releases, link, passed, mishaps, events>>


Restart ==
  /\ Step("restart", "idle")
  /\ services' = Bootable
  /\ End
  /\ UNCHANGED <<releases, current, passed, mishaps, events>>

\* systemctl restart ... || true
RestartFails ==
  /\ Step("restart", "idle")
  /\ Happens("start")
  /\ services' = None
  /\ mishaps' = mishaps \cup {"restart"}
  /\ End
  /\ UNCHANGED <<releases, current, passed>>

\* ls -1dt | tail -n +$((KEEP_RELEASES + 1)), but for the one in use.
List ==
  /\ Step("list", "prune")
  /\ doomed' = Range(SubSeq(order, Keep + 1, Len(order))) \ {current}
  /\ UNCHANGED <<releases, link, new, previous, passed, mishaps, events>>

\* rm -rf of one directory: emptied, which may make it the newest, then gone.
Prune(r) ==
  /\ pc = "prune" /\ r \in doomed
  /\ \/ /\ dir[r] = "full"
        /\ dir' = [dir EXCEPT ![r] = "partial"]
        /\ order' \in {order, <<r>> \o RemoveFirst(order, r)}
        /\ UNCHANGED doomed
     \/ /\ dir[r] = "partial"
        /\ dir' = [dir EXCEPT ![r] = "absent"]
        /\ order' = RemoveFirst(order, r)
        /\ doomed' = doomed \ {r}
  /\ UNCHANGED <<link, new, previous, pc, passed, mishaps, events>>

Done ==
  /\ Step("prune", "idle")
  /\ doomed = {}
  /\ End
  /\ UNCHANGED <<releases, link, passed, mishaps, events>>

-----------------------------------------------------------------------------
\* The session ends and the script with it.
Killed ==
  /\ Happens("kill")
  /\ pc # "idle" /\ pc' = "idle"
  /\ mishaps' = mishaps \cup (IF pc \in Exposed THEN {"cut"} ELSE {})
  /\ End
  /\ UNCHANGED <<releases, link, passed>>

\* systemd starts what the link names, if anything.
Reboot ==
  /\ Happens("reboot")
  /\ pc' = "idle"
  /\ mishaps' = mishaps \cup (IF pc \in Exposed THEN {"cut"} ELSE {})
  /\ services' = Bootable
  /\ End
  /\ UNCHANGED <<releases, current, passed>>

Script ==
  \/ Unpack \/ Install \/ InstallFails \/ StopServices \/ StopFails
  \/ Swap \/ SwapFails \/ Start \/ StartFails \/ Answers \/ NoAnswer
  \/ RollBack \/ RollBackFails \/ CannotRollBack \/ Restart \/ RestartFails
  \/ List \/ (\E r \in Release : Prune(r)) \/ Done

Next == Script \/ Killed \/ Reboot \/ \E v \in Release : Begin(v)

Spec == Init /\ [][Next]_vars

\* A script that was started runs on.
FairSpec == Spec /\ WF_vars(Script)

-----------------------------------------------------------------------------
\* The frame has shown that it works: a release that ran has answered the probe.
Works == passed # {}

\* On a frame that works the link always names a release that is completely installed,
\* through kills, reboots, failures and any sequence of runs: the frame can boot
\* (update.sh 90-123, 160-165).
CurrentInstalled == Works => current \in Release /\ dir[current] = "full"

\* There, while the new release may still fail, what to go back to is another
\* release, completely installed (update.sh 97, 114).
CanRollBack ==
  Works /\ pc \in {"stop"} \cup Exposed =>
    previous \in Release /\ previous # new /\ dir[previous] = "full"

\* There, every end of a run leaves the link on a release that ran and answered,
\* whichever of the script's own commands failed (update.sh 10: "rolls back to the
\* previous release on any failure"); but not from the moment a run is killed while
\* exposed, the old services answer for the new release because they did not stop, or
\* the link cannot be put back, until a release passes its own check.
EndsChecked ==
  Works /\ pc = "idle" /\ mishaps \cap {"cut", "stop", "rollback"} = {} =>
    current \in passed


-----------------------------------------------------------------------------
\* update.sh 10-11: it "rolls back to the previous release on any failure"; and line
\* 115, when there is none: "there is no previous release to roll back to".  A rollback
\* leaves the link on a release.
RollsBackToRelease == pc = "restart" => current \in Release
=============================================================================
